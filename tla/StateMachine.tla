---------------------------- MODULE StateMachine ----------------------------
(***************************************************************************)
(* The state machine of the test coordinator (sieve_server/state_machine.go)*)
(* and the actions that it runs (sieve_server/test_plan.go).               *)
(*                                                                         *)
(* The state machine is one goroutine that takes notifications out of      *)
(* stateNotificationCh and timeoutNotificationCh, marks triggers as        *)
(* satisfied and runs the next action of the plan once its graph is fully  *)
(* triggered, itself or in a goroutine of its own when the action is       *)
(* async.  The sender of a state notification is an RPC handler that stays *)
(* blocked until the notification has been processed, the action it        *)
(* triggers included.                                                      *)
(***************************************************************************)
EXTENDS TestPlan

CONSTANTS Threads,     \* threads of the API servers and the controller
          CtlThreads,  \* those that belong to a controller process
          Process      \* the number of their process: it is there after so many restarts

ASSUME ThreadAssumption == CtlThreads \subseteq Threads /\ Process \in [CtlThreads -> Nat]

VARIABLES
    nextState,     \* index of the action whose triggers are being watched
    asyncActionInExecution,
    toSatisfy,     \* of the trigger graph of each action
    satisfied,
    occurrence,    \* actualOccurrence of each trigger of each action
    stateCh,       \* stateNotificationCh
    timeoutCh,     \* timeoutNotificationCh: names of triggers
    timers,        \* how many goroutines sleep in waitForTimeout, by trigger
    smPc,          \* the state machine waits in "select", is in the loop over
                   \* toSatisfy ("visit") or runs an action ("act")
    cur,           \* the notification in processNotification
    todo,          \* names the loop has still to visit
    fresh,         \* names added to toSatisfy since the loop started
    stage,         \* how far run() of each action has come
    shouldPause,   \* apiserverLockedMap and controllerShouldPauseMap
    ch,            \* apiserverLocks and controllerPausingChs
    readLock,      \* controllerOngoingReadLock
    pc,            \* where each thread is, see module TestCoordinator
    waitOn,        \* the gate a paused thread waits on
    process,       \* the number of the controller process that runs
    cache,         \* keys in the informer cache of the controller
    blindRead,     \* history: a read that the plan may pause has begun when the cache
                   \* held nothing of the type
    fatal          \* why the coordinator process has exited, or "none"

graphVars == <<toSatisfy, satisfied, occurrence>>
loopVars  == <<smPc, cur, todo, fresh>>
pauseVars == <<shouldPause, ch>>
progVars  == <<nextState, asyncActionInExecution, stage>>
smVars    == <<progVars, graphVars, loopVars, stateCh, timeoutCh, timers>>
threadVars == <<pc, waitOn, process, cache, blindRead, readLock>>

Running == fatal = "none"

Stages == {"idle", "before", "close", "unlock", "signal", "readlock", "done"}
ChannelStates == {"none", "open", "closed"}

NoNotification == [op |-> "none"]

-----------------------------------------------------------------------------
(* The deferred function of processNotification: the handler that sent the  *)
(* notification is released, a timeout has nobody to release.               *)

Release(n) ==
    pc' = IF n.op = "timeout" THEN pc ELSE [pc EXCEPT ![n.thread] = "store"]

\* setTimeoutForTimeoutTriggers when action i is the next one and S the set of
\* triggers it has to satisfy: one more goroutine for every timeout among them,
\* whether or not one is already asleep.
ArmTimeouts(i, S) ==
    timers' = [n \in Names |->
                 IF /\ i \in Actions
                    /\ n \in S \cap DOMAIN Plan[i].defs
                    /\ Plan[i].defs[n].cond = "onTimeout"
                 THEN timers[n] + 1 ELSE timers[n]]

\* Mutant: the early returns come before the deferred release.
ProcessNotification_NoRelease(n) ==
    IF nextState \notin Actions \/ asyncActionInExecution
    THEN UNCHANGED <<loopVars, pc>>
    ELSE /\ smPc' = "visit" /\ cur' = n /\ todo' = toSatisfy[nextState] /\ fresh' = {}
         /\ UNCHANGED pc

\* processNotification up to the loop, with its early returns.
ProcessNotification(n) ==
    IF nextState \notin Actions \/ asyncActionInExecution
    THEN Release(n) /\ UNCHANGED loopVars
    ELSE /\ smPc' = "visit"
         /\ cur' = n
         /\ todo' = toSatisfy[nextState]
         /\ fresh' = {}
         /\ UNCHANGED pc

ReceiveStateNotification ==
    /\ Running /\ smPc = "select" /\ stateCh # <<>>
    /\ stateCh' = Tail(stateCh)
    /\ ProcessNotification(Head(stateCh))
    /\ UNCHANGED <<progVars, graphVars, timeoutCh, timers, pauseVars, readLock,
                   waitOn, process, cache, blindRead, fatal>>

ReceiveTimeoutNotification ==
    /\ Running /\ smPc = "select" /\ timeoutCh # <<>>
    /\ timeoutCh' = Tail(timeoutCh)
    /\ ProcessNotification([op |-> "timeout", name |-> Head(timeoutCh)])
    /\ UNCHANGED <<progVars, graphVars, stateCh, timers, pauseVars, readLock,
                   waitOn, process, cache, blindRead, fatal>>

\* waitForTimeout: the sleep ends.
TimeoutExpires(n) ==
    /\ Running /\ timers[n] > 0
    /\ timers' = [timers EXCEPT ![n] = @ - 1]
    /\ timeoutCh' = Append(timeoutCh, n)
    /\ UNCHANGED <<progVars, graphVars, loopVars, stateCh, pauseVars, threadVars,
                   fatal>>

-----------------------------------------------------------------------------
(* The loop "for triggerName := range triggerGraph.toSatisfy".  The order  *)
(* of a Go map is arbitrary; an entry deleted before it is reached is      *)
(* skipped, an entry added by the body may be visited or not.              *)

Visiting(t) ==
    /\ Running /\ smPc = "visit"
    /\ t \in (todo \cup fresh) \cap toSatisfy[nextState]

\* The names still to be visited after t, A being the ones just added.
Advance(t, A) ==
    /\ todo' = todo \ {t}
    /\ fresh' = (fresh \cup (A \ todo)) \ {t}

Defined(t) == t \in DOMAIN Plan[nextState].defs

SatisfiedBy(t) ==
    /\ Defined(t)
    /\ Satisfies(t, Plan[nextState].defs[t], occurrence[nextState][t], cur)

Count(t) ==
    occurrence' =
        IF Defined(t) /\ Counts(Plan[nextState].defs[t], cur)
        THEN [occurrence EXCEPT ![nextState][t] = @ + 1] ELSE occurrence

\* The trigger is not in the definition table (a gate), or is not satisfied.
SkipTrigger(t) ==
    /\ Visiting(t) /\ ~SatisfiedBy(t)
    /\ Count(t)
    /\ Advance(t, {})
    /\ UNCHANGED <<progVars, toSatisfy, satisfied, smPc, cur, stateCh, timeoutCh,
                   timers, pauseVars, threadVars, fatal>>

\* trigger() meets a node that is satisfied already: log.Fatalf.
TriggerTwice(t) ==
    /\ Visiting(t) /\ SatisfiedBy(t)
    /\ TriggerFatal(Plan[nextState].graph, satisfied[nextState], t)
    /\ fatal' = "inSatisfied"
    /\ UNCHANGED <<smVars, pauseVars, threadVars>>

\* Mutant: the gates after the node are not looked at.
TriggerNode_NoGates(t) ==
    LET g == Plan[nextState].graph
    IN  /\ ~TriggerFatal(g, satisfied[nextState], t)
        /\ satisfied' = [satisfied EXCEPT ![nextState] = @ \cup {t}]
        /\ toSatisfy' = [toSatisfy EXCEPT ![nextState] = (@ \cup g.succ[t]) \ {t}]

\* What trigger(t) makes of the graph of the next action.
TriggerNode(t) ==
    LET g == Plan[nextState].graph
        s == satisfied[nextState]
    IN  /\ ~TriggerFatal(g, s, t)
        /\ satisfied' = [satisfied EXCEPT ![nextState] = SatisfiedAfter(g, s, t)]
        /\ toSatisfy' = [toSatisfy EXCEPT ![nextState] =
                            ToSatisfyAfter(g, @, s, t)]

\* Mutant: the timeouts that a trigger uncovers are not set.
SatisfyTrigger_NoTimeouts(t) ==
    /\ Visiting(t) /\ SatisfiedBy(t) /\ TriggerNode(t)
    /\ ~FullyTriggered(Plan[nextState].graph, satisfied'[nextState])
    /\ Count(t) /\ Advance(t, toSatisfy'[nextState] \ toSatisfy[nextState])
    /\ UNCHANGED <<progVars, smPc, cur, stateCh, timeoutCh, timers, pauseVars,
                   threadVars, fatal>>

\* The graph is not fully triggered yet: the timeouts are set (again) and the
\* loop goes on.
SatisfyTrigger(t) ==
    /\ Visiting(t) /\ SatisfiedBy(t)
    /\ TriggerNode(t)
    /\ ~FullyTriggered(Plan[nextState].graph, satisfied'[nextState])
    /\ Count(t)
    /\ Advance(t, toSatisfy'[nextState] \ toSatisfy[nextState])
    /\ ArmTimeouts(nextState, toSatisfy'[nextState])
    /\ UNCHANGED <<progVars, smPc, cur, stateCh, timeoutCh, pauseVars,
                   threadVars, fatal>>

\* The last trigger: the action is run, and the loop ends.
SatisfyLastTrigger(t) ==
    /\ Visiting(t) /\ SatisfiedBy(t)
    /\ TriggerNode(t)
    /\ FullyTriggered(Plan[nextState].graph, satisfied'[nextState])
    /\ Count(t)
    /\ stage' = [stage EXCEPT ![nextState] = "before"]
    /\ todo' = {} /\ fresh' = {}
    /\ IF Plan[nextState].async
       THEN /\ asyncActionInExecution' = TRUE
            /\ smPc' = "select" /\ cur' = NoNotification /\ Release(cur)
       ELSE smPc' = "act" /\ UNCHANGED <<asyncActionInExecution, cur, pc>>
    /\ UNCHANGED <<nextState, stateCh, timeoutCh, timers, pauseVars, readLock,
                   waitOn, process, cache, blindRead, fatal>>

\* Mutant: only a notification that satisfies a trigger is released.
EndLoop_NoRelease ==
    /\ Running /\ smPc = "visit" /\ todo \cap toSatisfy[nextState] = {}
    /\ smPc' = "select" /\ cur' = NoNotification /\ todo' = {} /\ fresh' = {}
    /\ UNCHANGED <<progVars, graphVars, stateCh, timeoutCh, timers, pauseVars,
                   threadVars, fatal>>

\* Every entry has been visited.
EndLoop ==
    /\ Running /\ smPc = "visit" /\ todo \cap toSatisfy[nextState] = {}
    /\ smPc' = "select" /\ cur' = NoNotification /\ todo' = {} /\ fresh' = {}
    /\ Release(cur)
    /\ UNCHANGED <<progVars, graphVars, stateCh, timeoutCh, timers, pauseVars,
                   readLock, waitOn, process, cache, blindRead, fatal>>

\* run() of a synchronous action has returned.
FinishSyncAction ==
    /\ Running /\ smPc = "act" /\ stage[nextState] = "done"
    /\ nextState' = nextState + 1
    /\ ArmTimeouts(nextState + 1,
                   IF nextState + 1 \in Actions THEN toSatisfy[nextState + 1] ELSE {})
    /\ smPc' = "select" /\ cur' = NoNotification
    /\ Release(cur)
    /\ UNCHANGED <<asyncActionInExecution, stage, graphVars, todo, fresh, stateCh,
                   timeoutCh, pauseVars, readLock, waitOn, process, cache, blindRead, fatal>>

\* Mutant: the flag is not reset, and no timeouts are set for the next action.
ProcessAsyncDone_KeepsFlag(i) ==
    /\ Running /\ smPc = "select" /\ stage[i] = "signal"
    /\ stage' = [stage EXCEPT ![i] = "done"]
    /\ nextState' = nextState + 1
    /\ UNCHANGED <<asyncActionInExecution, graphVars, loopVars, stateCh, timeoutCh,
                   timers, pauseVars, threadVars, fatal>>

\* processAsyncDone: the rendezvous on asyncDoneCh with the goroutine of action i.
ProcessAsyncDone(i) ==
    /\ Running /\ smPc = "select" /\ stage[i] = "signal"
    /\ stage' = [stage EXCEPT ![i] =
                    IF Plan[i].type = "pauseController" /\ Plan[i].avoidOngoingRead
                    THEN "readlock" ELSE "done"]
    /\ nextState' = nextState + 1
    /\ asyncActionInExecution' = FALSE
    /\ ArmTimeouts(nextState + 1,
                   IF nextState + 1 \in Actions THEN toSatisfy[nextState + 1] ELSE {})
    /\ UNCHANGED <<graphVars, loopVars, stateCh, timeoutCh, pauseVars, threadVars,
                   fatal>>

-----------------------------------------------------------------------------
(* runInternal of the actions.  The sleeps waitBefore and waitAfter are the *)
(* arbitrary time that passes before a step is taken.                       *)

Starts(i, types) == Running /\ stage[i] = "before" /\ Plan[i].type \in types

\* The stage that follows the effect of action i: an async action reports to
\* asyncDoneCh, and only then is avoidOngoingRead looked at.
AfterEffect(i) ==
    IF Plan[i].async THEN "signal"
    ELSE IF Plan[i].type = "pauseController" /\ Plan[i].avoidOngoingRead
         THEN "readlock" ELSE "done"

ProgressTo(i, s) == stage' = [stage EXCEPT ![i] = s]

unchangedByActions == <<nextState, asyncActionInExecution, graphVars, loopVars,
                        stateCh, timeoutCh, timers>>

\* The channel is made only when there is none: one closed by an earlier resume
\* is kept.
Pause(i) ==
    /\ Starts(i, {"pauseAPIServer", "pauseController"})
    /\ ch' = [ch EXCEPT ![Plan[i].gate] = IF @ = "none" THEN "open" ELSE @]
    /\ shouldPause' = [shouldPause EXCEPT ![Plan[i].gate] = TRUE]
    /\ ProgressTo(i, AfterEffect(i))
    /\ UNCHANGED <<unchangedByActions, threadVars, fatal>>

\* Mutant: the action does not wait for the read that is under way.
AvoidOngoingRead_NoWait(i) ==
    /\ Running /\ stage[i] = "readlock"
    /\ ProgressTo(i, "done")
    /\ UNCHANGED <<unchangedByActions, pauseVars, threadVars, fatal>>

\* avoidOngoingRead: controllerOngoingReadLock is taken and given back.
AvoidOngoingRead(i) ==
    /\ Running /\ stage[i] = "readlock" /\ ~readLock
    /\ ProgressTo(i, "done")
    /\ UNCHANGED <<unchangedByActions, pauseVars, threadVars, fatal>>

\* ResumeAPIServerAction first hands "release" to one paused handler, and waits
\* for one if there is none (for ever if the channel was never made).
ResumeAPIServerSend(i, t) ==
    /\ Starts(i, {"resumeAPIServer"})
    /\ ch[Plan[i].gate] = "open"
    /\ pc[t] = "paused" /\ waitOn[t] = Plan[i].gate
    /\ pc' = [pc EXCEPT ![t] = "idle"]
    /\ ProgressTo(i, "close")
    /\ UNCHANGED <<unchangedByActions, pauseVars, readLock, waitOn, process, cache,
                   blindRead, fatal>>

\* Mutant: one handler is released, and the channel stays open.
ResumeAPIServerClose_KeepsOpen(i) ==
    /\ Running /\ stage[i] = "close" /\ ch[Plan[i].gate] = "open"
    /\ ProgressTo(i, "unlock")
    /\ UNCHANGED <<unchangedByActions, pauseVars, threadVars, fatal>>

ResumeAPIServerClose(i) ==
    /\ Running /\ stage[i] = "close" /\ ch[Plan[i].gate] = "open"
    /\ ch' = [ch EXCEPT ![Plan[i].gate] = "closed"]
    /\ ProgressTo(i, "unlock")
    /\ UNCHANGED <<unchangedByActions, shouldPause, threadVars, fatal>>

ResumeAPIServerUnlock(i) ==
    /\ Running /\ stage[i] = "unlock"
    /\ shouldPause' = [shouldPause EXCEPT ![Plan[i].gate] = FALSE]
    /\ ProgressTo(i, AfterEffect(i))
    /\ UNCHANGED <<unchangedByActions, ch, threadVars, fatal>>

ResumeController(i) ==
    /\ Starts(i, {"resumeController"})
    /\ ch[Plan[i].gate] = "open"
    /\ ch' = [ch EXCEPT ![Plan[i].gate] = "closed"]
    /\ shouldPause' = [shouldPause EXCEPT ![Plan[i].gate] = FALSE]
    /\ ProgressTo(i, AfterEffect(i))
    /\ UNCHANGED <<unchangedByActions, threadVars, fatal>>

\* A resume panics on a closed channel, and resumeController on a missing one.
ResumePanics(i) ==
    /\ \/ Starts(i, {"resumeAPIServer"}) /\ ch[Plan[i].gate] = "closed"
       \/ Running /\ stage[i] = "close" /\ ch[Plan[i].gate] = "closed"
       \/ Starts(i, {"resumeController"}) /\ ch[Plan[i].gate] # "open"
    /\ fatal' = "closedChannel"
    /\ UNCHANGED <<smVars, pauseVars, threadVars>>

\* restartAndreconnectController: the controller pod is deleted and created
\* again.  Its cache is gone, and a new process with threads of its own runs beside
\* the handlers of the RPCs that the old one had outstanding, which are served to
\* their end with nobody waiting for them.
RestartController(i) ==
    /\ Starts(i, {"restartController", "reconnectController"})
    /\ cache' = {}
    /\ process' = process + 1
    /\ pc' = [t \in Threads |-> IF t \in CtlThreads /\ pc[t] = "reading"
                                THEN "idle" ELSE pc[t]]
    /\ ProgressTo(i, AfterEffect(i))
    /\ UNCHANGED <<unchangedByActions, pauseVars, readLock, waitOn, blindRead, fatal>>

-----------------------------------------------------------------------------
StateMachineInit ==
    /\ nextState = 1
    /\ asyncActionInExecution = FALSE
    /\ toSatisfy = [i \in Actions |-> Plan[i].graph.sources]
    /\ satisfied = [i \in Actions |-> {}]
    /\ occurrence = [i \in Actions |-> [n \in Names |-> 0]]
    /\ stateCh = <<>> /\ timeoutCh = <<>>
    /\ timers = [n \in Names |-> 0]
    /\ smPc = "select" /\ cur = NoNotification /\ todo = {} /\ fresh = {}
    /\ stage = [i \in Actions |-> "idle"]
    /\ shouldPause = [g \in Gates |-> FALSE]
    /\ ch = [g \in Gates |-> "none"]
    /\ fatal = "none"

VisitStep(t) ==
    SkipTrigger(t) \/ TriggerTwice(t) \/ SatisfyTrigger(t) \/ SatisfyLastTrigger(t)

RunStep(i) ==
    \/ Pause(i) \/ AvoidOngoingRead(i)
    \/ \E t \in Threads : ResumeAPIServerSend(i, t)
    \/ ResumeAPIServerClose(i) \/ ResumeAPIServerUnlock(i)
    \/ ResumeController(i) \/ ResumePanics(i) \/ RestartController(i)

\* What the goroutine of run() does.
SelectStep ==
    \/ ReceiveStateNotification \/ ReceiveTimeoutNotification
    \/ \E n \in Names : VisitStep(n)
    \/ EndLoop \/ FinishSyncAction
    \/ \E i \in Actions : ProcessAsyncDone(i)

StateMachineNext ==
    \/ SelectStep
    \/ \E n \in Names : TimeoutExpires(n)
    \/ \E i \in Actions : RunStep(i)
=============================================================================
