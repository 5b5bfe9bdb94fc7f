-------------------------- MODULE ControllerFamily --------------------------
(***************************************************************************)
(* The controller family (generate_controller_related_list in              *)
(* sieve_oracle/checker_common.py): the objects that are connected by      *)
(* owner references with a pod of the controller.  The oracles leave them  *)
(* out, because the injected faults change them.                           *)
(*                                                                         *)
(* The loop runs over the list of API events again and again, until a pass *)
(* adds no uid.  One step is one event.  owners is the set of the uids in  *)
(* ownerReferences; an event without them is skipped.                      *)
(***************************************************************************)
EXTENDS Integers, Sequences

CONSTANT Uids

\* The parts of an event that the loop looks at; tagged says that it is one of a
\* pod with the label sievetag, which has an owner (its ownerReferences are read
\* without a test).
TaintEvent == {e \in [uid : Uids, owners : SUBSET Uids, tagged : BOOLEAN] :
                 e.tagged => e.owners # {}}

VARIABLES
    api_event_list,
    controller_related_uid_set,
    pos,             \* the next event of the pass; 0 outside of the loop
    keep_tainting

familyVars == <<api_event_list, controller_related_uid_set, pos, keep_tainting>>

Events(list) == {list[i] : i \in DOMAIN list}

\* The first loop: the tagged pods and their owners.
Seeds(list) ==
    UNION {{e.uid} \cup e.owners : e \in {d \in Events(list) : d.tagged}}

StartTainting(list) ==
    /\ pos = 0
    /\ controller_related_uid_set' = Seeds(list)
    /\ pos' = 1 /\ keep_tainting' = FALSE

\* What an event adds: the owners of a related object, or the object itself.
Added(e, related) ==
    IF e.owners = {} THEN {}
    ELSE IF e.uid \in related THEN e.owners
    ELSE IF e.owners \cap related # {} THEN {e.uid} ELSE {}

\* Mutant: only owners are followed.
TaintStep_OwnersOnly ==
    /\ pos \in DOMAIN api_event_list
    /\ LET e == api_event_list[pos]
           new == (IF e.uid \in controller_related_uid_set THEN e.owners ELSE {})
                    \ controller_related_uid_set
       IN  /\ controller_related_uid_set' = controller_related_uid_set \cup new
           /\ keep_tainting' = (keep_tainting \/ new # {})
    /\ pos' = pos + 1
    /\ UNCHANGED api_event_list

\* Mutant: a pass that meets a related object calls for another one.
TaintStep_AlwaysAgain ==
    /\ pos \in DOMAIN api_event_list
    /\ LET new == Added(api_event_list[pos], controller_related_uid_set)
       IN  /\ controller_related_uid_set' = controller_related_uid_set \cup new
           /\ keep_tainting' = (keep_tainting \/ new # {})
    /\ pos' = pos + 1
    /\ UNCHANGED api_event_list

TaintStep ==
    /\ pos \in DOMAIN api_event_list
    /\ LET new == Added(api_event_list[pos], controller_related_uid_set)
                    \ controller_related_uid_set
       IN  /\ controller_related_uid_set' = controller_related_uid_set \cup new
           /\ keep_tainting' = (keep_tainting \/ new # {})
    /\ pos' = pos + 1
    /\ UNCHANGED api_event_list

NextPass ==
    /\ pos = Len(api_event_list) + 1 /\ keep_tainting
    /\ pos' = 1 /\ keep_tainting' = FALSE
    /\ UNCHANGED <<api_event_list, controller_related_uid_set>>

\* The loop is over.
Tainted == pos = Len(api_event_list) + 1 /\ ~keep_tainting
-----------------------------------------------------------------------------
(* The loop alone, for any list of events.                                  *)

FamilyInit ==
    /\ api_event_list \in Seq(TaintEvent)
    /\ controller_related_uid_set = Seeds(api_event_list)
    /\ pos = 1 /\ keep_tainting = FALSE

FamilySpec == FamilyInit /\ [][TaintStep \/ NextPass]_familyVars

FamilyTypeOK ==
    /\ api_event_list \in Seq(TaintEvent)
    /\ controller_related_uid_set \subseteq Uids
    /\ pos \in Nat
    /\ keep_tainting \in BOOLEAN

\* With an object, S has its owners and everything that it owns.
Closed(S, list) ==
    \A e \in Events(list) : /\ e.uid \in S => e.owners \subseteq S
                            /\ e.owners \cap S # {} => e.uid \in S

\* Whatever contains the pods of the controller and is closed under ownership, in
\* both directions, contains every object that the loop has found: it leaves out of
\* the comparison no more than it must.
FamilyIsLeast ==
    pos # 0 => \A S \in SUBSET Uids :
        Seeds(api_event_list) \subseteq S /\ Closed(S, api_event_list)
            => controller_related_uid_set \subseteq S

\* When the loop is over, the family is closed: one pass finds a chain of owners
\* only in the order of the log, and the passes together find it in any order.
FamilyIsClosed ==
    pos # 0 /\ Tainted => /\ Seeds(api_event_list) \subseteq controller_related_uid_set
                          /\ Closed(controller_related_uid_set, api_event_list)
=============================================================================
