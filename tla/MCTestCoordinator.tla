------------------------- MODULE MCTestCoordinator -------------------------
(***************************************************************************)
(* Instances of TestCoordinator: test plans of the shapes that Sieve's     *)
(* perturbation policies generate and that bug_reproduction_test_plans     *)
(* holds, with the threads whose calls they watch.                         *)
(***************************************************************************)
EXTENDS TestCoordinator, Expression

-----------------------------------------------------------------------------
(* Shorthands.  An object state is "o0" (the empty object), "o1" or "o2".   *)

MCKeys == {"pod/a", "sts/b"}
MCTypeOf == [k \in MCKeys |-> IF k = "pod/a" THEN "pod" ELSE "sts"]
MCAPIServers == {"api1", "api3"}

Def(cond, key, when, by) ==
    [cond |-> cond, key |-> key, when |-> when, by |-> by, occurrence |-> 1,
     anyUpdate |-> FALSE, desired |-> {<<"o1", "o2">>}]

Timeout == Def("onTimeout", "pod/a", "beforeControllerRecv", "informer")

\* The graphs of the expressions a, a|b, a&b and a;b, written out.  That
\* they are what binaryTreeToTriggerGraph makes of the expressions is checked
\* below.
Single(a) ==
    [nodes |-> {a}, type |-> a :> "Literal", pred |-> a :> {}, succ |-> a :> {},
     sources |-> {a}, sink |-> a]

Joined(type, a, b, gate) ==
    [nodes |-> {a, b, gate},
     type |-> a :> "Literal" @@ b :> "Literal" @@ gate :> type,
     pred |-> a :> {} @@ b :> {} @@ gate :> {a, b},
     succ |-> a :> {gate} @@ b :> {gate} @@ gate :> {},
     sources |-> {a, b}, sink |-> gate]

Then(a, b) ==
    [nodes |-> {a, b}, type |-> a :> "Literal" @@ b :> "Literal",
     pred |-> a :> {} @@ b :> {a}, succ |-> a :> {b} @@ b :> {},
     sources |-> {a}, sink |-> b]

t1 == <<"t1">>
t2 == <<"t2">>
t3 == <<"t3">>
t4 == <<"t4">>
t2or3  == <<"|", t2, t3>>
t3and4 == <<"&", t3, t4>>

ASSUME GraphsAssumption ==
    /\ Single(t1) = GraphOf(<<"t1">>)
    /\ Joined("Or", t2, t3, t2or3) = GraphOf(<<"t2", "|", "t3">>)
    /\ Joined("And", t3, t4, t3and4) = GraphOf(<<"t3", "&", "t4">>)
    /\ Then(t1, t2) = GraphOf(<<"t1", ";", "t2">>)

\* The plans below pause reads as NoReadWhilePaused needs it.
ASSUME ReadsAssumption == ReadsPausedOnce

\* They open each gate once, and have nothing after an Or, as ChannelsClosedOnce and
\* NoSecondTrigger need it.
ASSUME ShapeAssumption == ResumedOnce /\ \A i \in Actions : OrIsLast(Plan[i].graph)

\* Action with trigger graph g and definitions d (by trigger name).
Act(type, async, where, key, g, d) ==
    [type |-> type, async |-> async, gate |-> <<where, key>>,
     avoidOngoingRead |-> where = "beforeControllerRead", graph |-> g, defs |-> d]

Event(when, by, key, op, obj) ==
    [fn |-> "notify", when |-> when, by |-> by, key |-> key, op |-> op, obj |-> obj]

Read(op, key) ==
    [fn |-> "read", when |-> "afterControllerWrite", by |-> "reconcile",
     key |-> key, op |-> op, obj |-> "o1"]

-----------------------------------------------------------------------------
(* stale_state.py: pause an API server on an update, reconnect the controller *)
(* to it on a later event, resume the API server after a timeout.  The scope  *)
(* is "all" instead of one object, so that two handlers can wait at the gate. *)

StalePlan ==
    <<Act("pauseAPIServer", FALSE, "api3", "all", Single(t1),
          t1 :> Def("onObjectUpdate", "pod/a", "afterAPIServerRecv", "api3")),
      Act("reconnectController", TRUE, "api3", "all", Single(t2),
          t2 :> Def("onObjectCreate", "sts/b", "afterAPIServerRecv", "api1")),
      Act("resumeAPIServer", FALSE, "api3", "all", Single(t3), t3 :> Timeout)>>

StaleThreads == {"w1", "w3", "w3b"}
StaleCalls ==
    [t \in StaleThreads |->
       CASE t = "w1"  -> {Event("afterAPIServerRecv", "api1", "sts/b", "create", "o1")}
         [] t = "w3"  -> {Event("afterAPIServerRecv", "api3", "pod/a", "update", o) : o \in {"o1", "o2"}}
         [] t = "w3b" -> {Event("afterAPIServerRecv", "api3", "sts/b", op, "o1") : op \in {"create", "other"}}]
StaleMaxCalls == [t \in StaleThreads |-> IF t = "w3" THEN 3 ELSE 1]

NoThreads == {}
NoProcess == [t \in NoThreads |-> 0]

-----------------------------------------------------------------------------
(* unobserved_state.py: pause the reads of an object when an event arrives, *)
(* resume them when the object is deleted or changed again.                 *)

UnobservedPlan ==
    <<Act("pauseController", FALSE, "beforeControllerRead", "pod/a", Single(t1),
          t1 :> Def("onObjectCreate", "pod/a", "beforeControllerRecv", "informer")),
      Act("resumeController", FALSE, "beforeControllerRead", "pod/a", Joined("Or", t2, t3, t2or3),
             t2 :> Def("onObjectDelete", "pod/a", "afterControllerRecv", "informer")
          @@ t3 :> [Def("onObjectUpdate", "pod/a", "afterControllerRecv", "informer")
                      EXCEPT !.anyUpdate = TRUE])>>

UnobservedThreads == {"inf", "r1", "r2"}
UnobservedCalls ==
    [t \in UnobservedThreads |->
       CASE t = "inf" -> {Event("beforeControllerRecv", "informer", "pod/a", "create", "o1"),
                          Event("afterControllerRecv", "informer", "pod/a", "update", "o2")}
         [] t = "r1"  -> {Read("Get", "pod/a")}
         [] t = "r2"  -> {Read("Get", "pod/a"), Read("List", "pod/a")}]
UnobservedMaxCalls == [t \in UnobservedThreads |-> 2]
UnobservedProcess == [t \in UnobservedThreads |-> 0]
-----------------------------------------------------------------------------
(* The plan above, then that of intermediate_state.py: the controller is      *)
(* restarted after the second occurrence of a write.  One thread reads and    *)
(* one writes; reads from the API server refresh the table of object states.  *)
(* After the restart another thread reads, beside what is left of the first.  *)

ReadsPlan ==
    UnobservedPlan \o
    <<Act("restartController", FALSE, "afterControllerWrite", "all", Single(t1),
          t1 :> [Def("onObjectUpdate", "sts/b", "afterControllerWrite", "reconcile")
                   EXCEPT !.occurrence = 2])>>

ReadsThreads == UnobservedThreads \cup {"inf2", "r3"}
ReadsProcess == [t \in ReadsThreads |-> IF t \in {"inf2", "r3"} THEN 1 ELSE 0]
ReadsCalls ==
    [t \in ReadsThreads |->
       CASE t = "inf2" -> {Event("afterControllerRecv", "informer", "pod/a", "create", "o2")}
         [] t = "r3"   -> {Read("Get", "pod/a"), Read("List", "pod/a")}
         [] t = "r2"   -> {Read("List", "pod/a"), Read("Get", "sts/b"),
               Event("afterControllerWrite", "reconcile", "sts/b", "update", "o2"),
               [fn |-> "get", when |-> "afterControllerWrite", by |-> "reconcile",
                key |-> "sts/b", op |-> "Get", obj |-> "o1"]}
         [] OTHER      -> UnobservedCalls[t]]
ReadsMaxCalls == [t \in ReadsThreads |-> CASE t = "r2" -> 4 [] t = "inf2" -> 1 [] OTHER -> 2]

-----------------------------------------------------------------------------
(* A plan with asynchronous actions, an annotated call, a sequence and two  *)
(* timeouts of the same name: the writes of the controller are paused at    *)
(* the first of two events, resumed after a later event and a timeout, and  *)
(* the controller is restarted.  An informer goes on after the restart.     *)

MixedPlan ==
    <<Act("pauseController", TRUE, "afterControllerWrite", "sts/b",
          Joined("Or", t2, t3, t2or3),
             t2 :> Def("onObjectCreate", "sts/b", "afterControllerWrite", "reconcile")
          @@ t3 :> Def("onAnnotatedAPICall", "pod/a", "beforeAnnotatedAPICall", "reconcile")),
      Act("resumeController", FALSE, "afterControllerWrite", "sts/b", Then(t1, t4),
             t1 :> [Def("onAnyFieldModification", "sts/b", "afterControllerRecv", "informer")
                      EXCEPT !.desired = {"o0", "o1"} \X {"o2"}]
          @@ t4 :> Timeout),
      Act("restartController", TRUE, "afterControllerWrite", "all",
          Joined("And", t3, t4, t3and4),
             t3 :> Def("onObjectDelete", "sts/b", "afterControllerRecv", "informer")
          @@ t4 :> Timeout)>>

MixedThreads == {"wr", "inf", "inf2"}
MixedProcess == [t \in MixedThreads |-> IF t = "inf2" THEN 1 ELSE 0]
MixedCalls ==
    [t \in MixedThreads |->
       IF t = "wr"
       THEN {Event("afterControllerWrite", "reconcile", "sts/b", "create", "o1"),
             Event("beforeControllerWrite", "reconcile", "sts/b", "delete", "o1"),
             Event("beforeAnnotatedAPICall", "reconcile", "pod/a", "annotated", "o0")}
       ELSE {Event("afterControllerRecv", "informer", "sts/b", op, "o2") :
               op \in IF t = "inf2" THEN {"delete"} ELSE {"update", "delete"}}]
MixedMaxCalls == [t \in MixedThreads |-> IF t = "inf2" THEN 1 ELSE 2]

=============================================================================
