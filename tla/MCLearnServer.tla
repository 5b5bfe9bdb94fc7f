--------------------------- MODULE MCLearnServer ---------------------------
(***************************************************************************)
(* An instance of LearnServer: reconcilers "r1" and "r2" with one worker   *)
(* each, and the receivers "i1" and "i2" of two informers.  The bounds     *)
(* allow two rounds of r1, or one with an operation, next to a round of r2 *)
(* and to an event of each receiver.                                       *)
(***************************************************************************)
EXTENDS LearnServer, TLC

MCMaxOps == ("r1" :> 2 @@ "r2" :> 1 @@ "i1" :> 1 @@ "i2" :> 1)
=============================================================================
