------------------------------ MODULE MCOracle ------------------------------
(* c: a pod of the controller, with a generated name, owned by d, of which the log *)
(* shows nothing; p: another pod of d; m: an object of a custom type with several  *)
(* contents; n: an object that every cluster has.                                  *)
EXTENDS Oracle

CONSTANTS c, p, d, m, n, cStar, pStar

MCKeys == {c, p, d, m, n}
MCRType == (c :> "pod") @@ (p :> "pod") @@ (d :> "deployment") @@ (m :> "map") @@ (n :> "map")
MCStarred == [k \in MCKeys |-> IF k = c THEN cStar ELSE IF k = p THEN pStar ELSE k]
MCOwnerKeys == [k \in MCKeys |-> IF k \in {c, p} THEN {d} ELSE {}]
Plain == "Spec" :> "a"
MCObjectsOf == [k \in MCKeys |->
    IF k = m THEN {Plain, "Spec" :> "b", ("Spec" :> Null) @@ ("Status" :> "b")}
    ELSE IF k = d THEN {} ELSE {Plain}]
MCControllerShape == ("Spec" :> "spec") @@ ("Status" :> "status")
MCMask == {[keys |-> {m}, type |-> NoFile, fields |-> {"Status"}]}
MCMaxEvents == [first |-> 2, second |-> 2, test |-> 3]
MCUids == MCKeys \X (0..3)
MCSuiteHolds(s) == s[m] # Plain
=============================================================================
