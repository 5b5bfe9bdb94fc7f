------------------------------ MODULE MCPlans ------------------------------
(***************************************************************************)
(* The test plans of small learn runs, executed.                           *)
(***************************************************************************)
EXTENDS PlanReplay, TLC

CONSTANTS RandomValues,
          MaxOperations   \* bound: operations in the log

\* The functions on trees of which EventMatch speaks.
ED == INSTANCE EventDelta
MCNoDiff == ED!None
MCNoFields == ED!EmptyMap
MCDiffEvent(p, c, keys, paths, trim_ka, can) == ED!diff_event(p, c, keys, paths, trim_ka, can)
MCCanonicalizeEvent(e, keys, paths) == ED!canonicalize_event(e, keys, paths)
MCPartOf(small, large) == ED!part_of(small, large)
MCSameKey(p, c) == ED!same_key(p, c)
MCTrimKindApiversion(e) == ED!trim_kind_apiversion(e)

\* Four states of an object: two differ in the specification, one has a status that
\* looks random, and one has its kind written out.
Spec1 == [map |-> [k \in {"spec"} |-> ED!Leaf("x")]]
Spec2 == [map |-> [k \in {"spec"} |-> ED!Leaf("y")]]
Spec1Status == [map |-> [k \in {"spec", "status"} |->
                           IF k = "spec" THEN ED!Leaf("x") ELSE ED!Leaf("time1")]]
Spec2Kind == [map |-> [k \in {"spec", "kind"} |->
                         IF k = "spec" THEN ED!Leaf("y") ELSE ED!Leaf("Pod")]]
MCObjects == {Spec1, Spec2, Spec1Status, Spec2Kind}

MCTypeOf == [k \in Keys |-> "pod"]
MCConfigurations == {<<FALSE, FALSE>>}
NoMasks == [p \in {} |-> {}]
MCEndState == [k \in Keys |-> "state"]

MCHearInputs ==
    [etype : {"Updated"}, key : Keys, obj : {Spec1, Spec2}]
      \cup {[etype |-> "Added", key |-> k, obj |-> Spec1] : k \in Keys}
      \cup {[etype |-> "Replaced", key |-> k, obj |-> Spec2] : k \in Keys}
      \cup {[etype |-> "Deleted", key |-> k, obj |-> Spec2] : k \in Keys}
MCWriteInputs ==
    {[etype |-> t, key |-> k, obj |-> Spec2, error |-> "NoError"] :
       t \in {"Update", "Delete", "Create"}, k \in Keys}
      \cup {[etype |-> "Update", key |-> k, obj |-> Spec2, error |-> "Error"] : k \in Keys}
      \cup {[etype |-> "StatusUpdate", key |-> k, obj |-> Spec1Status, error |-> "NoError"] :
              k \in Keys}
MCReadInputs ==
    {[etype |-> "Get", rtype |-> "pod", key_set |-> {k}, objs |-> [j \in {k} |-> o]] :
       k \in Keys, o \in {Spec1}}

\* The writes of two reconcilers, for the plans that restart the controller.
MCRestartWriteInputs ==
    [etype : {"Update", "Patch"}, key : Keys, obj : {Spec2Kind}, error : {"NoError"}]
      \cup [etype : {"Update"}, key : Keys, obj : {Spec2}, error : {"NoError", "Error"}]
      \cup [etype : {"Delete"}, key : Keys, obj : {Spec2}, error : {"NoError"}]
MCAllWriteInputs == MCWriteInputs \cup MCRestartWriteInputs

Wrote(inputs) ==
    \A w \in controller_writes :
        [etype |-> w.etype, key |-> w.key, obj |-> w.obj, error |-> w.error] \in inputs

\* An operation is over before the next line, and events arrive between rounds: what
\* overlaps is the subject of the instance of Analyzer alone.
OneAtATime ==
    \A i \in 2..Len(log) :
        /\ (log[i - 1].mark = "before-hear") <=> (log[i].mark = "after-hear")
        /\ log[i].mark = "before-hear" =>
              log[i - 1].mark \in {"after-hear", "after-reconcile"}
        /\ (log[i - 1].mark = "before-rest-write") <=> (log[i].mark = "after-rest-write")

Operations == Len(log) - Count("after-hear") - Count("after-rest-write")

\* One reconciler, and the events of an object.
WithEvents ==
    /\ Emitted /\ OneAtATime /\ Operations <= MaxOperations
    /\ \A i \in DOMAIN log : log[i].fun # "g"
    /\ Count("before-rest-write") <= 2 /\ Wrote(MCWriteInputs)

\* Two reconcilers, of which "f" is the first, and no events.  Their writes overlap; of
\* three writes each is over before the next line.
WithoutEvents ==
    /\ controller_hears = <<>> /\ Operations <= MaxOperations - 1
    /\ log # <<>> => log[1].fun # "g"
    /\ Count("before-rest-write") <= 2 \/ OneAtATime
    /\ Wrote(MCRestartWriteInputs)

PlansSpec == Init /\ [][Next /\ (WithEvents' \/ WithoutEvents')]_vars
=============================================================================
