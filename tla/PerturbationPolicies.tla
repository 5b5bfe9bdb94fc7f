------------------------ MODULE PerturbationPolicies ------------------------
(***************************************************************************)
(* Generation of test plans from the event graph                           *)
(* (sieve_perturbation_policies): the candidates that each policy takes,   *)
(* the passes that prune them, and the plans.  A trigger definition is the *)
(* one of module TestPlan, so that the coordinator's satisfy applies.      *)
(*                                                                         *)
(* An analysis returns the plans and the four numbers that go into the     *)
(* result of the learn run, or AssertionError.  c holds the three pruning  *)
(* options of the configuration.                                           *)
(***************************************************************************)
EXTENDS EventGraph

CONSTANTS EndState,      \* state.json: "SIEVE-IGNORE" or "state" for the keys in it
          RandomNames,   \* the keys whose name is a generated one
          leading_api, following_api,
          CustomTypes    \* custom_resource_definitions

PruningOptions == [causality : BOOLEAN, effective_updates : BOOLEAN, nondeterministic : BOOLEAN]

AssertionError == [raised |-> "AssertionError"]
Result(plans, baseline, p1, p2, final) ==
    [raised |-> "none", plans |-> plans, baseline |-> baseline, after_p1 |-> p1,
     after_p2 |-> p2, final |-> final]
-----------------------------------------------------------------------------
(* common.py                                                                *)

nondeterministic_key(key) ==
    IF key \notin DOMAIN EndState THEN key \in RandomNames
    ELSE EndState[key] = "SIEVE-IGNORE"

\* One of the assertions of event_diff_validation_check fails.
InvalidTypes(prev, cur) ==
    \/ prev = cur /\ prev \in {"Added", "Deleted"}
    \/ prev = "Deleted" /\ cur \notin {"Added", "Updated"}
    \/ prev \notin {"NONE_TYPE", "Deleted"} /\ cur = "Added"

Differs(d) == d # NoDiff /\ d[1] # d[2]

\* detectable_event_diff for a hear, the assertions apart.
detectable_hear(i) ==
    LET h == controller_hears[i]
    IN  /\ HearCounter(i) <= 3
        /\ PrevHear(i) = 0 => h.etype = "Added"
        /\ h.etype \in {"Added", "Updated", "Deleted"}
        /\ h.etype = "Updated" => Differs(HearDiff(i))

StatusWrites == {"StatusUpdate", "StatusPatch"}
UpdateWrites == {"Update", "Patch"} \cup StatusWrites

\* The write changes nothing, or is one of the status and leaves the status alone.
EmptyWrite(etype, d) ==
    \/ d = NoDiff /\ etype \in UpdateWrites
    \/ d # NoDiff /\ d[1] = d[2] /\ etype \in UpdateWrites
    \/ /\ d # NoDiff /\ etype \in StatusWrites
       /\ "status" \notin DOMAIN d[1].map /\ "status" \notin DOMAIN d[2].map

\* detectable_event_diff for a write.
detectable_write(w) == WriteCounter(w) <= 3 /\ ~EmptyWrite(w.etype, WriteDiff(w))

\* The assertions apply to the hears whose key is deterministic and whose counter
\* is small enough.
ValidationFails(hears) ==
    \E i \in hears : /\ ~nondeterministic_key(controller_hears[i].key)
                     /\ HearCounter(i) <= 3
                     /\ InvalidTypes(PrevEtype(i), controller_hears[i].etype)
-----------------------------------------------------------------------------
(* Triggers of the plans.                                                   *)

\* The states in which an object is read, and those that triggers look at.
ReadStates == Objects \cup {NoFields}
States == ReadStates \cup {TrimKindApiversion(o) : o \in ReadStates}

Trigger(cond, key, when, by, occurrence) ==
    [cond |-> cond, key |-> key, when |-> when, by |-> by, occurrence |-> occurrence,
     anyUpdate |-> TRUE, desired |-> {}]

\* A difference that is None becomes null, which is no difference to the coordinator.
UpdateTrigger(key, when, by, occurrence, d, exact) ==
    [Trigger("onObjectUpdate", key, when, by, occurrence) EXCEPT
       !.anyUpdate = (d = NoDiff),
       !.desired = {u \in States \X States :
                      isDesiredUpdate(u[1], u[2], d, MaskedKeys(key), MaskedPaths(key), exact)}]

AnyFieldTrigger(key, when, by, slim) ==
    [Trigger("onAnyFieldModification", key, when, by, 1) EXCEPT
       !.anyUpdate = FALSE,
       !.desired = IF slim = NoDiff THEN {} \* no field is in null
                   ELSE {u \in States \X States :
                           isAnyFieldModified(u[2], slim, MaskedKeys(key), MaskedPaths(key))}]

\* condition_for_trigger1 and its observation point.
HearTrigger(i, when, by, exact) ==
    LET h == controller_hears[i]
    IN  CASE h.etype = "Added"   -> Trigger("onObjectCreate", h.key, when, by, HearCounter(i))
          [] h.etype = "Deleted" -> Trigger("onObjectDelete", h.key, when, by, HearCounter(i))
          [] OTHER -> UpdateTrigger(h.key, when, by, HearCounter(i), HearDiff(i), exact)
-----------------------------------------------------------------------------
(* unobserved_state.py                                                      *)

\* trigger_for_action2: either of the two resumes the controller.
ResumeTriggers(i) ==
    LET h == controller_hears[i]
        on(cond) == Trigger(cond, h.key, "afterControllerRecv", "informer", 1)
    IN  CASE h.etype = "Added"   -> <<on("onObjectUpdate"), on("onObjectDelete")>>
          [] h.etype = "Deleted" -> <<on("onObjectCreate"), on("onObjectUpdate")>>
          [] OTHER -> <<AnyFieldTrigger(h.key, "afterControllerRecv", "informer",
                                        slim_cur(HearDiff(i))),
                        on("onObjectDelete")>>

generate_unobserved_state_test_plan(i) ==
    LET gate == <<"beforeControllerRead", controller_hears[i].key>>
    IN  [source |-> i,
         actions |-> <<[type |-> "pauseController", gate |-> gate, avoidOngoingRead |-> TRUE,
                        triggers |-> <<HearTrigger(i, "beforeControllerRecv", "informer", TRUE)>>],
                       [type |-> "resumeController", gate |-> gate,
                        triggers |-> ResumeTriggers(i)]>>]

\* overwrite_filtering_pass
OverwrittenHears == {i \in Hears : cancelled_by(i) # {}}

\* causality_hear_filtering_pass
HasEffect(i) == \E w \in controller_writes : HearWrite(controller_hears[i], w)

unobserved_state_detectable_pass(hears) ==
    {i \in hears : ~nondeterministic_key(controller_hears[i].key) /\ detectable_hear(i)}

\* From the candidates after the first pass, of which there are n, or -1 if it was
\* not made.
UnobservedStateResult(c, baseline, p1, n) ==
    LET final == IF c.nondeterministic THEN unobserved_state_detectable_pass(p1) ELSE p1
    IN  IF c.nondeterministic /\ ValidationFails(p1) THEN AssertionError
        ELSE Result({generate_unobserved_state_test_plan(i) : i \in final},
                    baseline, n, n, Cardinality(final))

CausalHears(c, baseline) == IF c.causality THEN {i \in baseline : HasEffect(i)} ELSE baseline

unobserved_state_analysis(c) ==
    LET p1 == CausalHears(c, OverwrittenHears)
    IN  UnobservedStateResult(c, Cardinality(OverwrittenHears), p1,
                              IF c.causality THEN Cardinality(p1) ELSE -1)
-----------------------------------------------------------------------------
(* stale_state.py                                                           *)

\* get_stale_state_baseline
DeletionPairs ==
    {p \in Hears \X controller_writes : /\ p[2].etype = "Delete"
                                        /\ p[2].start > controller_hears[p[1]].start}

\* reversed_effect_filtering_pass: the object comes again after the deletion, or is
\* never heard of.
ReversedEffect(w) ==
    /\ w.error = "NoError"
    /\ LET of == {i \in Hears : controller_hears[i].key = w.key}
       IN  \/ of = {}
           \/ \E i \in of : /\ controller_hears[i].start > w.end
                            /\ controller_hears[i].etype \in {"Added", "Updated"}

stale_state_detectable_pass(pairs) ==
    {p \in pairs : /\ ~nondeterministic_key(controller_hears[p[1]].key)
                   /\ ~nondeterministic_key(p[2].key)
                   /\ detectable_hear(p[1])}

Creates(e, key) == e.kind = "write" /\ e.etype = "Create" /\ e.key = key

\* The loop of decide_stale_state_timing: walk[p][n] is what it returns when it has come
\* to position p and has n more ends of rounds to see; key is that of the deletion, at
\* position sink.
WalkFrom(events, sink, key, more) ==
    LET len == Len(events)
        walk[p \in 1..len] ==
          [n \in 1..2 |->
             IF p = len THEN IF sink = len THEN "after" ELSE "AssertionError"
             ELSE IF events[p + 1].kind = "end"
                  THEN IF n = 1 THEN "after" ELSE walk[p + 1][n - 1]
             ELSE IF Creates(events[p + 1], key)
                  THEN IF n = 2 THEN "before" ELSE "both"
             ELSE walk[p + 1][n]]
    IN  walk[sink][more]

Position(events, w) == CHOOSE p \in DOMAIN events : events[p].ts = w.start

\* A difference after which the walk decides: the set of fields stays the same.
SameFields(d) == d # NoDiff /\ SameKey(d[1], d[2])

\* Mutant: the first round that ends is not counted.
decide_stale_state_timing_OneRound(i, w, events) ==
    IF SameFields(HearDiff(i)) THEN WalkFrom(events, Position(events, w), w.key, 1)
    ELSE "after"

decide_stale_state_timing(i, w, events) ==
    IF SameFields(HearDiff(i)) THEN WalkFrom(events, Position(events, w), w.key, 2)
    ELSE "after"

\* A trigger in an API server contains the difference; for a built-in type the
\* masks and the difference are brought into the form of the API first, which the
\* keys here already have.
generate_stale_state_test_plan(i, w, pause_timing) ==
    LET h == controller_hears[i]
        gate == <<following_api, h.key>>
        when == IF pause_timing = "after" THEN "afterAPIServerRecv" ELSE "beforeAPIServerRecv"
    IN  [source |-> i, sink |-> w, timing |-> pause_timing,
         actions |-> <<[type |-> "pauseAPIServer", gate |-> gate,
                        convertStateToAPIForm |-> TypeOf[h.key] \notin CustomTypes,
                        triggers |-> <<HearTrigger(i, when, following_api, FALSE)>>],
                       [type |-> "reconnectController", gate |-> gate, async |-> TRUE,
                        triggers |-> <<Trigger("onObjectCreate", w.key, "afterAPIServerRecv",
                                               leading_api, 1)>>],
                       [type |-> "resumeAPIServer", gate |-> gate,
                        triggers |-> <<Trigger("onTimeout", h.key, "none", "none", 1)>>]>>]

\* The plans of the pairs in decided, each with its timing, and the four numbers;
\* every "both" is one more for all of them.
StaleStateResult(decided, baseline, p1, p2) ==
    LET extra == Cardinality({q \in decided : q[3] = "both"})
        times(t) == IF t = "both" THEN {"after", "before"} ELSE {t}
    IN  IF \E q \in decided : q[3] = "AssertionError" THEN AssertionError
        ELSE Result(UNION {{generate_stale_state_test_plan(q[1], q[2], t) : t \in times(q[3])} :
                             q \in decided},
                    baseline + extra, p1 + extra, p2 + extra, Cardinality(decided) + extra)

stale_state_analysis(c) ==
    LET baseline == DeletionPairs
        p1 == IF c.causality
              THEN {p \in baseline : HearWrite(controller_hears[p[1]], p[2])} ELSE baseline
        p2 == IF c.effective_updates THEN {p \in p1 : ReversedEffect(p[2])} ELSE p1
        detected == {p \in p2 : ~nondeterministic_key(p[2].key)}
        final == IF c.nondeterministic THEN stale_state_detectable_pass(p2) ELSE p2
    IN  IF c.nondeterministic /\ ValidationFails({p[1] : p \in detected}) THEN AssertionError
        ELSE StaleStateResult(
               {<<p[1], p[2], decide_stale_state_timing(p[1], p[2], reconciler_event_list)>> :
                  p \in final},
               Cardinality(baseline),
               IF c.causality THEN Cardinality(p1) ELSE -1,
               IF c.effective_updates THEN Cardinality(p2) ELSE -1)
-----------------------------------------------------------------------------
(* intermediate_state.py                                                    *)

\* effective_write_filtering_pass: here no field is masked.
EffectiveWrite(w) ==
    \/ is_creation_or_deletion(w.etype)
    \/ ~EmptyWrite(w.etype, DiffEvent(WritePrevObj(w), w.obj, {}, {}, TRUE, FALSE))

intermediate_state_detectable_pass(writes) ==
    {w \in writes : ~nondeterministic_key(w.key) /\ detectable_write(w)}

generate_intermediate_state_test_plan_for_controller_write(w) ==
    LET on(cond) == Trigger(cond, w.key, "afterControllerWrite", w.reconcile_fun, WriteCounter(w))
    IN  [source |-> w,
         actions |-> <<[type |-> "restartController",
                        triggers |->
                          <<CASE w.etype = "Create" -> on("onObjectCreate")
                              [] w.etype = "Delete" -> on("onObjectDelete")
                              [] OTHER -> UpdateTrigger(w.key, "afterControllerWrite",
                                            w.reconcile_fun, WriteCounter(w), WriteDiff(w), TRUE)>>]>>]

generate_intermediate_state_test_plan_for_annotated_api_invocation(w) ==
    [source |-> w,
     actions |-> <<[type |-> "restartController",
                    triggers |-> <<Trigger("onAnnotatedAPICall", "call", "afterAnnotatedAPICall",
                                           w.reconcile_fun, CallCounter(w))>>]>>]

intermediate_state_analysis(c) ==
    LET calls == Cardinality(controller_non_k8s_writes)
        baseline == controller_writes
        p2 == IF c.effective_updates
              THEN {w \in baseline : EffectiveWrite(w) /\ w.error = "NoError"} ELSE baseline
        final == IF c.nondeterministic THEN intermediate_state_detectable_pass(p2) ELSE p2
    IN  Result({generate_intermediate_state_test_plan_for_controller_write(w) : w \in final}
                 \cup {generate_intermediate_state_test_plan_for_annotated_api_invocation(w) :
                         w \in controller_non_k8s_writes},
               Cardinality(baseline) + calls, Cardinality(baseline) + calls,
               IF c.effective_updates THEN Cardinality(p2) + calls ELSE -1,
               Cardinality(final) + calls)
=============================================================================
