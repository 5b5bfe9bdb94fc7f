----------------------------- MODULE MCAnalyzer -----------------------------
(***************************************************************************)
(* An instance of Analyzer: two reconcilers, and events of one object that *)
(* is read by name or in a list.                                           *)
(***************************************************************************)
EXTENDS Analyzer, TLC

Symmetry == Permutations(Funs)

MCTypeOf == [k \in Keys |-> "pod"]
MCConfigurations == {<<TRUE, TRUE>>, <<FALSE, FALSE>>}
MCHearInputs == {[etype |-> "Updated", key |-> "pod/a", obj |-> "o"]}
MCWriteInputs == {[etype |-> "Update", key |-> "pod/a", obj |-> "o", error |-> "NoError"]}
MCReadInputs ==
    {[etype |-> t, rtype |-> "pod", key_set |-> {"pod/a"}, objs |-> [k \in {"pod/a"} |-> "o"]] :
       t \in {"Get", "List"}}
=============================================================================
