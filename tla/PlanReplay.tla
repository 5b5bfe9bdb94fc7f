----------------------------- MODULE PlanReplay -----------------------------
(***************************************************************************)
(* The test plans of a learn run, executed: the notifications that the     *)
(* test coordinator gets when a test run repeats the learn run are given   *)
(* to the triggers of every plan (satisfy, module TestPlan).               *)
(***************************************************************************)
EXTENDS PerturbationPolicies

TP == INSTANCE TestPlan WITH Plan <- <<>>, APIServers <- {leading_api, following_api}

\* The events of one object as an informer emits them: it is added once until it is
\* deleted; a relist may bring it at any time.
Emitted ==
    \A i \in Hears :
        LET p == PrevEtype(i)
            t == controller_hears[i].etype
        IN  /\ t = "Added" => p \in {"NONE_TYPE", "Deleted"}
            /\ t \in {"Updated", "Deleted"} => p \notin {"NONE_TYPE", "Deleted"}

\* What the trees are needed for: a state has what its difference from another one
\* says, and making a difference canonical again changes nothing about what it is part
\* of (SidesAgree of the instance of EventDelta).
ASSUME DeltaAssumption ==
    \A k \in Keys : \A p, c, l \in States :
        LET keys  == MaskedKeys(k)
            paths == MaskedPaths(k)
            d     == DiffEvent(p, c, keys, paths, FALSE, TRUE)
        IN  d # NoDiff =>
              /\ ~conflicting_event_payload(slim_cur(d), c, keys, paths)
              /\ conflicting_event_payload(slim_cur(d), l, keys, paths)
                   <=> isAnyFieldModified(l, slim_cur(d), keys, paths)

\* Kind and apiVersion are trimmed before states are compared: by diff_event in the
\* analyzer, and in the coordinator by the handlers of the writes.
ASSUME TrimAssumption ==
    \A k \in Keys : \A p, c \in ReadStates :
        DiffEvent(p, c, MaskedKeys(k), MaskedPaths(k), TRUE, TRUE) =
          DiffEvent(TrimKindApiversion(p), TrimKindApiversion(c), MaskedKeys(k), MaskedPaths(k),
                     FALSE, TRUE)
-----------------------------------------------------------------------------
(* The notifications of a run that repeats the log.                         *)

HearNote(i, when) ==
    LET h == controller_hears[i]
    IN  [op |-> CASE h.etype = "Added" -> "create" [] h.etype = "Deleted" -> "delete"
                  [] OTHER -> "update",
         key |-> h.key, when |-> when, by |-> "informer", prev |-> PrevObj(i), cur |-> h.obj]

\* The coordinator knows the last state that the reconciler has read, in any round.
LastRead(w) ==
    LET reads == {r \in controller_reads : /\ w.key \in r.input.key_set /\ r.end < w.end
                                           /\ r.reconcile_fun = w.reconcile_fun}
    IN  IF reads = {} THEN NoFields
        ELSE (CHOOSE r \in reads : \A q \in reads : q.end <= r.end).input.objs[w.key]

\* Mutant: the states of an update are compared as they came.
WriteNote_Untrimmed(w) ==
    [op |-> CASE w.etype = "Create" -> "create" [] w.etype = "Delete" -> "delete"
              [] OTHER -> "update",
     key |-> w.key, when |-> "afterControllerWrite", by |-> w.reconcile_fun,
     prev |-> LastRead(w), cur |-> w.obj]

\* Only the notification of an update has states.
WriteNote(w) ==
    [op |-> CASE w.etype = "Create" -> "create" [] w.etype = "Delete" -> "delete"
              [] OTHER -> "update",
     key |-> w.key, when |-> "afterControllerWrite", by |-> w.reconcile_fun,
     prev |-> TrimKindApiversion(LastRead(w)), cur |-> TrimKindApiversion(w.obj)]

\* note[l] is what the coordinator gets for the event l of S, at place pos[l] of the
\* run: the trigger is satisfied by i, and by none before.
FiresAt(def, S, note, pos, i) ==
    LET count(j) == Cardinality({l \in S : pos[l] < pos[j] /\ TP!Counts(def, note[l])})
        fires(j) == TP!Satisfies("trigger", def, count(j), note[j])
    IN  i \in S /\ fires(i) /\ \A j \in S : pos[j] < pos[i] => ~fires(j)
-----------------------------------------------------------------------------
\* The other passes only take plans away.
Detected == {c \in PruningOptions : c.nondeterministic /\ ~c.causality /\ ~c.effective_updates}

PausesAtSource(p) ==
    \/ FiresAt(p.actions[1].triggers[1], Hears,
               [i \in Hears |-> HearNote(i, "beforeControllerRecv")], [i \in Hears |-> i],
               p.source)
    \/ \E i \in 1..(p.source - 1) :
           /\ controller_hears[i].etype \in {"Replaced", "Sync"}
           /\ controller_hears[i].key = controller_hears[p.source].key
           /\ HearDiff(i) = HearDiff(p.source)

PlansOf(r) == IF r.raised = "none" THEN r.plans ELSE {}

\* A pauseController action of a plan for an unobserved state is triggered by the
\* very event it was made from (signature_counter), unless a relist has brought the
\* same change before: the analyzer counts Replaced apart from Updated, and the
\* coordinator does not.
PauseIsAtSource ==
    \A c \in Detected : \A p \in PlansOf(unobserved_state_analysis(c)) : PausesAtSource(p)

\* The event i satisfies one of the triggers.
Accepts(triggers, i) ==
    \E t \in DOMAIN triggers :
        TP!Satisfies("trigger", triggers[t], 0, HearNote(i, "afterControllerRecv"))

ResumesAfterSource(p) ==
    LET accepted == {i \in Hears : i >= p.source /\ Accepts(p.actions[2].triggers, i)}
        first == CHOOSE i \in accepted : \A j \in accepted : i <= j
    IN  /\ accepted # {} /\ first > p.source
        /\ controller_hears[p.source].etype # "Added" => first \in cancelled_by(p.source)

\* A controller that a plan for an unobserved state has paused is resumed: in the
\* learn run the object has a later event that one of the two triggers of the
\* resumeController action accepts, and the event for which the controller was
\* paused is not accepted itself.  After an update or a deletion, the event that
\* resumes is one that overwrites it (cancelled_by).
ResumeComes ==
    \A c \in Detected : \A p \in PlansOf(unobserved_state_analysis(c)) : ResumesAfterSource(p)

Reported == {w \in controller_writes : w.error = "NoError"}

RestartsAtSource(p) ==
    FiresAt(p.actions[1].triggers[1], Reported, [v \in Reported |-> WriteNote(v)],
            [v \in Reported |-> v.end], p.source)

\* The writes that the analyzer has counted when it makes a plan for w, and those that
\* the coordinator counts for the trigger of the plan until w is reported or would be.
CountedByAnalyzer(w) ==
    {v \in controller_writes : /\ v.key = w.key /\ v.start <= w.start
                               /\ WriteSignature(v) = WriteSignature(w)}
CountedByCoordinator(p) ==
    {v \in Reported : /\ v.end <= p.source.end
                      /\ TP!Counts(p.actions[1].triggers[1], WriteNote(v))}

\* An update for which the coordinator knows another state of the object than the
\* analyzer, which looks at the reads of the round of the write only.
OtherStateKnown(v) == v.etype \in UpdateWrites /\ LastRead(v) # WritePrevObj(v)

\* A restartController action is triggered by the write that it was made from exactly
\* if the coordinator counts that write, and by then as many as the analyzer did
\* (signature_counter), whatever the writes were.  The two count the same writes but
\* for these: the analyzer alone counts the failed ones, which the test client does
\* not report, and those of other reconcilers, as the trigger names one; the
\* coordinator alone counts updates of another type, which it does not tell apart;
\* and either may when the object was last read in an earlier round.
RestartCountIsExact ==
    \A c \in Detected : \A p \in PlansOf(intermediate_state_analysis(c)) :
        p.source \in controller_writes =>
          LET w == p.source
              analyzer == CountedByAnalyzer(w)
              coordinator == CountedByCoordinator(p)
          IN  /\ RestartsAtSource(p) <=>
                   w \in coordinator /\ Cardinality(coordinator) = Cardinality(analyzer)
              /\ \A v \in analyzer :
                    /\ v.error # "NoError" \/ v.reconcile_fun # w.reconcile_fun
                         => v \notin coordinator
                    /\ v \notin coordinator
                         => \/ v.error # "NoError" \/ v.reconcile_fun # w.reconcile_fun
                            \/ OtherStateKnown(v)
              /\ \A v \in coordinator \ analyzer :
                    \/ v.etype # w.etype /\ {v.etype, w.etype} \subseteq UpdateWrites
                    \/ OtherStateKnown(v)

\* Reference: when to pause the API server depends on how many rounds have ended when
\* the deleted object is first created again; an event that changes the set of
\* fields needs no such care.
Timings(d, w, events) ==
    LET sink == Position(events, w)
        later(kind) == {j \in DOMAIN events : j > sink /\ events[j].kind = kind}
        ends(j) == Cardinality({k \in later("end") : k < j})
        creations(n) == {j \in later("write") : /\ events[j].etype = "Create"
                                               /\ events[j].key = w.key /\ ends(j) = n}
    IN  IF ~SameFields(d) THEN {"after"}
        ELSE IF creations(0) # {} THEN {"before"}
        ELSE IF creations(1) # {} THEN {"before", "after"}
        ELSE IF Cardinality(later("end")) >= 2 \/ sink = Len(events) THEN {"after"}
        ELSE {}

\* The result r has the plans of the pairs, with their timings.
HasTimings(r, timings) ==
    IF r.raised = "none"
    THEN \A p \in timings :
           /\ p.timings # {}
           /\ {q.timing : q \in {q \in r.plans : q.source = p.source /\ q.sink = p.sink}} = p.timings
    ELSE \/ \E p \in timings : p.timings = {}
         \/ ValidationFails({p[1] : p \in DeletionPairs})

\* Every pair of an event and a deletion that the passes leave has its plans for a
\* stale state, with the timings of the reference (decide_stale_state_timing walks the
\* events one by one, and a plan is made twice when the timing is "both").  The
\* assertion of the walk fails only if the log ends too early for some pair.
TimingIsDecided ==
    \A c \in Detected :
        HasTimings(stale_state_analysis(c),
                   {[source |-> p[1], sink |-> p[2],
                     timings |-> Timings(HearDiff(p[1]), p[2], reconciler_event_list)] :
                      p \in stale_state_detectable_pass(DeletionPairs)})
=============================================================================
