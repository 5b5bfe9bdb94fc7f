----------------------- MODULE TestCoordinatorProofs -----------------------
(***************************************************************************)
(* Proofs about the test coordinator, for every plan, every set of threads *)
(* and calls and every bound: the type invariant, the order in which the   *)
(* actions of the plan are run, that every handler that blocks is released *)
(* by exactly one notification, that nobody is left at a gate, that        *)
(* occurrences are counted exactly, that the previous state in a           *)
(* notification is the latest one, that no read is under way while reads   *)
(* are paused, that the graph of each action goes on as TriggerRun says,   *)
(* and for what reasons the coordinator may exit.                          *)
(***************************************************************************)
EXTENDS TestCoordinator, TriggerGraphProofs

\* The nodes of the graph of every action are names, and the actions are a range
\* of numbers (PlanAssumption).
LEMMA PlanFacts ==
    /\ Len(Plan) \in Nat
    /\ \A i \in Actions :
         /\ i \in Nat /\ 1 <= i /\ i <= Len(Plan)
         /\ Plan[i].graph.nodes \subseteq Names
         /\ Plan[i].graph.sources \subseteq Names
         /\ Plan[i].graph.succ \in [Plan[i].graph.nodes -> SUBSET Plan[i].graph.nodes]
         /\ Plan[i].gate \in Gates
  <1>1. Len(Plan) \in Nat
    BY PlanAssumption DEF PlanAssumption
  <1>2. ASSUME NEW i \in Actions
        PROVE  /\ i \in Nat /\ 1 <= i /\ i <= Len(Plan)
               /\ Plan[i].graph.nodes \subseteq Names
    BY <1>1 DEF Actions, Names
  <1>3. ASSUME NEW i \in Actions
        PROVE  /\ Plan[i].graph.sources \subseteq Plan[i].graph.nodes
               /\ Plan[i].graph.succ \in
                    [Plan[i].graph.nodes -> SUBSET Plan[i].graph.nodes]
               /\ Plan[i].gate \in Gates
    BY PlanAssumption DEF PlanAssumption, IsTriggerGraph
  <1> QED
    BY <1>1, <1>2, <1>3

\* Triggering a node keeps the two sets of a graph within the names of the plan
\* (trigger and triggerOrAnd of trigger_graph.go).
LEMMA TriggerTyped ==
    ASSUME NEW i \in Actions, NEW n \in Names,
           NEW A \in SUBSET Names, NEW S \in SUBSET Names
    PROVE  /\ SatisfiedAfter(Plan[i].graph, S, n) \subseteq Names
           /\ ToSatisfyAfter(Plan[i].graph, A, S, n) \subseteq Names
  <1> DEFINE g == Plan[i].graph
             F == Fired(g, S, n)
  <1>1. F \subseteq g.nodes
    BY DEF Fired
  <1>2. g.nodes \subseteq Names /\ g.succ \in [g.nodes -> SUBSET g.nodes]
    BY PlanFacts
  <1> HIDE DEF g
  <1>3. UNION {g.succ[m] : m \in F} \subseteq g.nodes
    BY <1>1, <1>2
  <1> QED
    BY <1>1, <1>2, <1>3 DEF g, SatisfiedAfter, ToSatisfyAfter

\* A thread can only be stopped by a gate of its pause point that the plan can
\* name, and the point before a cached read only stops a cached read
\* (ProcessPause... of test_coordinator.go).
LEMMA StoppedByGates ==
    ASSUME IndInv, NEW t \in Threads, pc[t] \in {"pause", "pauseAfter"}
    PROVE  /\ StoppedBy(call[t], PausePoint(t)) \subseteq Gates
           /\ \A g \in StoppedBy(call[t], PausePoint(t)) : g[1] = PausePoint(t)
           /\ PausePoint(t) = "beforeControllerRead" => call[t].fn = "read"
  <1>1. call[t] \in Calls[t] /\ call[t] \in CallRecords
    BY CoordinatorAssumption DEF IndInv, CallInv, CoordinatorAssumption
  <1>2. KeysOf(call[t]) \subseteq Keys
    BY <1>1 DEF KeysOf, SameType, CallRecords
  <1>3. PausePoint(t) \in APIServers \cup PauseAts
    <2>1. CASE call[t].fn = "read"
      BY <2>1 DEF PausePoint, PauseAts
    <2>2. CASE call[t].fn # "read" /\ call[t].when \in APIPoints
      BY <1>1, <2>2, CoordinatorAssumption DEF PausePoint, CoordinatorAssumption
    <2>3. CASE call[t].fn # "read" /\ call[t].when \in WritePoints
      BY <2>3 DEF PausePoint, PauseAts, WritePoints, APIPoints
    <2> QED
      BY <2>1, <2>2, <2>3 DEF IndInv, CallInv
  <1>4. StoppedBy(call[t], PausePoint(t)) \subseteq Gates
    BY <1>2, <1>3 DEF StoppedBy, Gates
  <1>5. \A g \in StoppedBy(call[t], PausePoint(t)) : g[1] = PausePoint(t)
    BY DEF StoppedBy
  <1>6. PausePoint(t) = "beforeControllerRead" => call[t].fn = "read"
    <2>1. SUFFICES ASSUME call[t].fn # "read"
                   PROVE  PausePoint(t) # "beforeControllerRead"
      OBVIOUS
    <2>2. CASE call[t].when \in APIPoints
      <3>1. call[t].by \in APIServers /\ PausePoint(t) = call[t].by
        BY <1>1, <2>1, <2>2, CoordinatorAssumption DEF PausePoint, CoordinatorAssumption
      <3> QED
        BY <3>1, PlanAssumption DEF PlanAssumption, PauseAts
    <2>3. CASE call[t].when \in WritePoints
      BY <2>1, <2>3 DEF PausePoint, WritePoints, APIPoints
    <2> QED
      BY <2>1, <2>2, <2>3 DEF IndInv, CallInv
  <1> QED
    BY <1>4, <1>5, <1>6

-----------------------------------------------------------------------------
(* The steps preserve the type invariant.                                  *)

\* What leaves the variables of a part of TypeOK alone preserves the part.
LEMMA TypeFrame ==
    ASSUME TypeOK
    PROVE  /\ UNCHANGED progVars => ProgTypeOK'
           /\ UNCHANGED graphVars => GraphTypeOK'
           /\ UNCHANGED loopVars => LoopTypeOK'
           /\ UNCHANGED <<stateCh, timeoutCh, timers>> => QueueTypeOK'
           /\ UNCHANGED <<pauseVars, fatal>> => PauseTypeOK'
           /\ UNCHANGED threadVars => ThreadTypeOK'
           /\ UNCHANGED coordinatorVars => CallTypeOK'
  <1>1. UNCHANGED progVars => ProgTypeOK'
    BY DEF TypeOK, ProgTypeOK, progVars
  <1>2. UNCHANGED graphVars => GraphTypeOK'
    BY DEF TypeOK, GraphTypeOK, graphVars
  <1>3. UNCHANGED loopVars => LoopTypeOK'
    BY DEF TypeOK, LoopTypeOK, loopVars
  <1>4. UNCHANGED <<stateCh, timeoutCh, timers>> => QueueTypeOK'
    BY DEF TypeOK, QueueTypeOK
  <1>5. UNCHANGED <<pauseVars, fatal>> => PauseTypeOK'
    BY DEF TypeOK, PauseTypeOK, pauseVars
  <1>6. UNCHANGED threadVars => ThreadTypeOK'
    BY DEF TypeOK, ThreadTypeOK, threadVars
  <1>7. UNCHANGED coordinatorVars => CallTypeOK'
    BY DEF TypeOK, CallTypeOK, coordinatorVars
  <1> QED
    BY <1>1, <1>2, <1>3, <1>4, <1>5, <1>6, <1>7

\* Releasing a handler keeps the threads within their states.
LEMMA ReleaseTyped ==
    ASSUME TypeOK, NEW n, Release(n)
    PROVE  pc' \in [Threads -> ThreadStates]
  BY DEF TypeOK, ThreadTypeOK, Release, ThreadStates

\* The same for the timers that setTimeoutForTimeoutTriggers starts.
LEMMA ArmTyped ==
    ASSUME TypeOK, NEW i, NEW S, ArmTimeouts(i, S)
    PROVE  timers' \in [Names -> Nat]
  BY DEF TypeOK, QueueTypeOK, ArmTimeouts

\* The same for the object states that a read by a reconciler refreshes.
LEMMA RefreshTyped ==
    ASSUME TypeOK, NEW b \in Observers, NEW K, NEW o \in Objects,
           RefreshObjects(b, K, o)
    PROVE  objectStates' \in [Observers -> [Points -> [Keys -> Objects]]]
  BY DEF TypeOK, CallTypeOK, RefreshObjects

\* The select of run(): the notifications come out of the channels.
LEMMA ReceiveTyped ==
    ASSUME IndInv, ReceiveStateNotification \/ ReceiveTimeoutNotification,
           UNCHANGED coordinatorVars
    PROVE  TypeOK'
  <1> USE DEF IndInv
  <1>1. ASSUME NEW n \in StateNotifications \cup TimeoutNotifications,
               ProcessNotification(n)
        PROVE  LoopTypeOK' /\ pc' \in [Threads -> ThreadStates]
    <2>1. CASE nextState \notin Actions \/ asyncActionInExecution
      BY <1>1, <2>1, ReleaseTyped, TypeFrame DEF ProcessNotification
    <2>2. CASE ~(nextState \notin Actions \/ asyncActionInExecution)
      BY <1>1, <2>2 DEF ProcessNotification, TypeOK, LoopTypeOK, GraphTypeOK,
                        ThreadTypeOK
    <2> QED
      BY <2>1, <2>2
  <1>2. CASE ReceiveStateNotification
    <2>1. Head(stateCh) \in StateNotifications /\ Tail(stateCh) \in Seq(StateNotifications)
      BY <1>2 DEF ReceiveStateNotification, TypeOK, QueueTypeOK
    <2>2. LoopTypeOK' /\ pc' \in [Threads -> ThreadStates]
      BY <1>1, <1>2, <2>1 DEF ReceiveStateNotification
    <2>3. QueueTypeOK' /\ ThreadTypeOK'
      BY <1>2, <2>1, <2>2 DEF ReceiveStateNotification, TypeOK, QueueTypeOK,
                              ThreadTypeOK
    <2> QED
      BY <1>2, <2>2, <2>3, TypeFrame DEF ReceiveStateNotification, TypeOK
  <1>3. CASE ReceiveTimeoutNotification
    <2>1. Head(timeoutCh) \in Names /\ Tail(timeoutCh) \in Seq(Names)
      BY <1>3 DEF ReceiveTimeoutNotification, TypeOK, QueueTypeOK
    <2>2. [op |-> "timeout", name |-> Head(timeoutCh)] \in TimeoutNotifications
      BY <2>1 DEF TimeoutNotifications
    <2>3. LoopTypeOK' /\ pc' \in [Threads -> ThreadStates]
      BY <1>1, <1>3, <2>2 DEF ReceiveTimeoutNotification
    <2>4. QueueTypeOK' /\ ThreadTypeOK'
      BY <1>3, <2>1, <2>3 DEF ReceiveTimeoutNotification, TypeOK, QueueTypeOK,
                              ThreadTypeOK
    <2> QED
      BY <1>3, <2>3, <2>4, TypeFrame DEF ReceiveTimeoutNotification, TypeOK
  <1> QED
    BY <1>2, <1>3

\* The loop over toSatisfy, and the ends of processNotification and
\* processAsyncDone.
LEMMA LoopTyped ==
    ASSUME IndInv, UNCHANGED coordinatorVars,
           \/ \E n \in Names : VisitStep(n)
           \/ EndLoop \/ FinishSyncAction
           \/ \E i \in Actions : ProcessAsyncDone(i)
    PROVE  TypeOK'
  <1> USE DEF IndInv
  <1>1. ASSUME smPc # "select"
        PROVE  nextState \in Actions
    BY <1>1 DEF LoopInv
  <1>2. ASSUME NEW n \in Names, nextState \in Actions, Count(n)
        PROVE  occurrence' \in [Actions -> [Names -> Nat]]
    BY <1>2 DEF Count, TypeOK, GraphTypeOK
  <1>3. ASSUME NEW n \in Names, nextState \in Actions, TriggerNode(n)
        PROVE  /\ toSatisfy' \in [Actions -> SUBSET Names]
               /\ satisfied' \in [Actions -> SUBSET Names]
    <2>1. /\ SatisfiedAfter(Plan[nextState].graph, satisfied[nextState], n) \subseteq Names
          /\ ToSatisfyAfter(Plan[nextState].graph, toSatisfy[nextState],
                            satisfied[nextState], n) \subseteq Names
      BY <1>3, TriggerTyped DEF TypeOK, GraphTypeOK
    <2> QED
      BY <1>3, <2>1 DEF TriggerNode, TypeOK, GraphTypeOK
  <1>4. ASSUME NEW n \in Names, SkipTrigger(n)
        PROVE  TypeOK'
    <2>1. GraphTypeOK'
      BY <1>1, <1>2, <1>4 DEF SkipTrigger, Visiting, TypeOK, GraphTypeOK
    <2>2. LoopTypeOK'
      BY <1>4 DEF SkipTrigger, Advance, TypeOK, LoopTypeOK
    <2> QED
      BY <1>4, <2>1, <2>2, TypeFrame DEF SkipTrigger, TypeOK
  <1>5. ASSUME NEW n \in Names, TriggerTwice(n)
        PROVE  TypeOK'
    <2>1. PauseTypeOK'
      BY <1>5 DEF TriggerTwice, TypeOK, PauseTypeOK, pauseVars
    <2> QED
      BY <1>5, <2>1, TypeFrame DEF TriggerTwice, TypeOK, smVars
  <1>6. ASSUME NEW n \in Names, SatisfyTrigger(n)
        PROVE  TypeOK'
    <2>1. GraphTypeOK'
      BY <1>1, <1>2, <1>3, <1>6 DEF SatisfyTrigger, Visiting, GraphTypeOK
    <2>2. LoopTypeOK'
      BY <1>1, <1>6, <2>1 DEF SatisfyTrigger, Visiting, Advance, TypeOK, LoopTypeOK,
                              GraphTypeOK
    <2>3. QueueTypeOK'
      BY <1>6, ArmTyped DEF SatisfyTrigger, TypeOK, QueueTypeOK
    <2> QED
      BY <1>6, <2>1, <2>2, <2>3, TypeFrame DEF SatisfyTrigger, TypeOK
  <1>7. ASSUME NEW n \in Names, SatisfyLastTrigger(n)
        PROVE  TypeOK'
    <2>1. GraphTypeOK'
      BY <1>1, <1>2, <1>3, <1>7 DEF SatisfyLastTrigger, Visiting, GraphTypeOK
    <2>2. ProgTypeOK' /\ LoopTypeOK'
      BY <1>7 DEF SatisfyLastTrigger, TypeOK, ProgTypeOK, LoopTypeOK, Stages
    <2>3. ThreadTypeOK'
      BY <1>7, ReleaseTyped DEF SatisfyLastTrigger, TypeOK, ThreadTypeOK
    <2> QED
      BY <1>7, <2>1, <2>2, <2>3, TypeFrame DEF SatisfyLastTrigger, TypeOK
  <1>8. CASE EndLoop
    <2>1. LoopTypeOK'
      BY <1>8 DEF EndLoop, LoopTypeOK
    <2>2. ThreadTypeOK'
      BY <1>8, ReleaseTyped DEF EndLoop, TypeOK, ThreadTypeOK
    <2> QED
      BY <1>8, <2>1, <2>2, TypeFrame DEF EndLoop, TypeOK
  <1>9. CASE FinishSyncAction
    <2>1. ProgTypeOK'
      BY <1>1, <1>9, PlanFacts DEF FinishSyncAction, TypeOK, ProgTypeOK
    <2>2. LoopTypeOK'
      BY <1>9 DEF FinishSyncAction, TypeOK, LoopTypeOK
    <2>3. QueueTypeOK'
      BY <1>9, ArmTyped DEF FinishSyncAction, TypeOK, QueueTypeOK
    <2>4. ThreadTypeOK'
      BY <1>9, ReleaseTyped DEF FinishSyncAction, TypeOK, ThreadTypeOK
    <2> QED
      BY <1>9, <2>1, <2>2, <2>3, <2>4, TypeFrame DEF FinishSyncAction, TypeOK
  <1>10. ASSUME NEW i \in Actions, ProcessAsyncDone(i)
         PROVE  TypeOK'
    <2>1. i = nextState
      BY <1>10, PlanFacts DEF ProcessAsyncDone, ActionsInOrder, TypeOK, ProgTypeOK
    <2>2. ProgTypeOK'
      <3>1. stage' \in [Actions -> Stages]
        BY <1>10 DEF ProcessAsyncDone, TypeOK, ProgTypeOK, Stages
      <3>2. nextState' \in 1 .. Len(Plan) + 1
        BY <1>10, <2>1, PlanFacts DEF ProcessAsyncDone, TypeOK, ProgTypeOK
      <3> QED
        BY <1>10, <3>1, <3>2 DEF ProcessAsyncDone, ProgTypeOK
    <2>3. QueueTypeOK'
      BY <1>10, ArmTyped DEF ProcessAsyncDone, TypeOK, QueueTypeOK
    <2> QED
      BY <1>10, <2>2, <2>3, TypeFrame DEF ProcessAsyncDone, TypeOK
  <1> QED
    BY <1>4, <1>5, <1>6, <1>7, <1>8, <1>9, <1>10 DEF VisitStep

\* The goroutines: the timers, and the actions of the plan.
LEMMA ActionsTyped ==
    ASSUME IndInv, UNCHANGED coordinatorVars,
           \/ \E n \in Names : TimeoutExpires(n)
           \/ \E i \in Actions : RunStep(i)
    PROVE  TypeOK'
  <1> USE DEF IndInv
  <1>1. ASSUME NEW n \in Names, TimeoutExpires(n)
        PROVE  TypeOK'
    <2>1. QueueTypeOK'
      BY <1>1 DEF TimeoutExpires, TypeOK, QueueTypeOK
    <2> QED
      BY <1>1, <2>1, TypeFrame DEF TimeoutExpires, TypeOK
  <1>2. ASSUME NEW i \in Actions, NEW s \in Stages,
               UNCHANGED unchangedByActions, ProgressTo(i, s)
        PROVE  /\ ProgTypeOK' /\ GraphTypeOK' /\ LoopTypeOK' /\ QueueTypeOK'
               /\ CallTypeOK'
    <2>1. ProgTypeOK'
      BY <1>2 DEF ProgressTo, unchangedByActions, TypeOK, ProgTypeOK
    <2> QED
      BY <1>2, <2>1, TypeFrame DEF unchangedByActions
  <1>3. \A i : AfterEffect(i) \in Stages
    BY DEF AfterEffect, Stages
  <1>4. {"done", "close", "unlock"} \subseteq Stages
    BY DEF Stages
  <1>5. ASSUME NEW i \in Actions, Pause(i) PROVE TypeOK'
    <2>1. PauseTypeOK'
      BY <1>5 DEF Pause, TypeOK, PauseTypeOK, ChannelStates
    <2> QED
      BY <1>2, <1>3, <1>5, <2>1, TypeFrame DEF Pause, TypeOK
  <1>6. ASSUME NEW i \in Actions, AvoidOngoingRead(i) PROVE TypeOK'
    BY <1>2, <1>4, <1>6, TypeFrame DEF AvoidOngoingRead, TypeOK
  <1>7. ASSUME NEW i \in Actions, NEW t \in Threads, ResumeAPIServerSend(i, t)
        PROVE  TypeOK'
    <2>1. ThreadTypeOK'
      BY <1>7 DEF ResumeAPIServerSend, TypeOK, ThreadTypeOK, ThreadStates
    <2> QED
      BY <1>2, <1>4, <1>7, <2>1, TypeFrame DEF ResumeAPIServerSend, TypeOK
  <1>8. ASSUME NEW i \in Actions, ResumeAPIServerClose(i) PROVE TypeOK'
    <2>1. PauseTypeOK'
      BY <1>8 DEF ResumeAPIServerClose, TypeOK, PauseTypeOK, ChannelStates
    <2> QED
      BY <1>2, <1>4, <1>8, <2>1, TypeFrame DEF ResumeAPIServerClose, TypeOK
  <1>9. ASSUME NEW i \in Actions, ResumeAPIServerUnlock(i) PROVE TypeOK'
    <2>1. PauseTypeOK'
      BY <1>9 DEF ResumeAPIServerUnlock, TypeOK, PauseTypeOK
    <2> QED
      BY <1>2, <1>3, <1>9, <2>1, TypeFrame DEF ResumeAPIServerUnlock, TypeOK
  <1>10. ASSUME NEW i \in Actions, ResumeController(i) PROVE TypeOK'
    <2>1. PauseTypeOK'
      BY <1>10 DEF ResumeController, TypeOK, PauseTypeOK, ChannelStates
    <2> QED
      BY <1>2, <1>3, <1>10, <2>1, TypeFrame DEF ResumeController, TypeOK
  <1>11. ASSUME NEW i \in Actions, ResumePanics(i) PROVE TypeOK'
    <2>1. PauseTypeOK'
      BY <1>11 DEF ResumePanics, TypeOK, PauseTypeOK, pauseVars
    <2> QED
      BY <1>11, <2>1, TypeFrame DEF ResumePanics, TypeOK, smVars
  <1>12. ASSUME NEW i \in Actions, RestartController(i) PROVE TypeOK'
    <2>1. ThreadTypeOK'
      BY <1>12 DEF RestartController, TypeOK, ThreadTypeOK, ThreadStates
    <2> QED
      BY <1>2, <1>3, <1>12, <2>1, TypeFrame DEF RestartController, TypeOK
  <1> QED
    BY <1>1, <1>5, <1>6, <1>7, <1>8, <1>9, <1>10, <1>11, <1>12 DEF RunStep

\* The beginnings of the calls.
LEMMA CallsTyped ==
    ASSUME IndInv, NEW t \in Threads, CallStep(t)
    PROVE  TypeOK'
  <1> USE DEF IndInv
  <1>1. PICK c \in Calls[t] : \/ Notify(t, c) \/ UnobservedWrite(t, c)
                              \/ RestRead(t, c) \/ BeforeCacheRead(t, c)
    BY DEF CallStep
  <1>2. /\ c \in CallRecords /\ c.by \in Observers /\ c.when \in Points
        /\ c.key \in Keys /\ c.obj \in Objects
    BY CoordinatorAssumption DEF CoordinatorAssumption, CallRecords
  <1>3. MaxCalls[t] \in Nat
    BY CoordinatorAssumption DEF CoordinatorAssumption
  <1>4. ASSUME calls[t] < MaxCalls[t], calls' = [calls EXCEPT ![t] = @ + 1]
        PROVE  /\ calls' \in [Threads -> Nat]
               /\ \A s \in Threads : calls'[s] <= MaxCalls[s]
    BY <1>3, <1>4 DEF TypeOK, CallTypeOK
  <1>5. CASE Notify(t, c)
    <2>1. prev' \in [Threads -> Objects]
      BY <1>2, <1>5 DEF Notify, TypeOK, CallTypeOK
    <2>2. CallTypeOK'
      BY <1>2, <1>4, <1>5, <2>1 DEF Notify, TypeOK, CallTypeOK
    <2>3. ThreadTypeOK'
      BY <1>5 DEF Notify, TypeOK, ThreadTypeOK, ThreadStates
    <2> QED
      BY <1>5, <2>2, <2>3, TypeFrame DEF Notify, TypeOK, smVars
  <1>6. CASE UnobservedWrite(t, c)
    <2>1. CallTypeOK'
      BY <1>2, <1>4, <1>6 DEF UnobservedWrite, TypeOK, CallTypeOK
    <2>2. ThreadTypeOK'
      BY <1>6 DEF UnobservedWrite, TypeOK, ThreadTypeOK, ThreadStates
    <2> QED
      BY <1>6, <2>1, <2>2, TypeFrame DEF UnobservedWrite, TypeOK, smVars
  <1>7. CASE RestRead(t, c)
    <2>1. objectStates' \in [Observers -> [Points -> [Keys -> Objects]]]
      BY <1>2, <1>7, RefreshTyped DEF RestRead
    <2>2. CallTypeOK'
      BY <1>4, <1>7, <2>1 DEF RestRead, TypeOK, CallTypeOK
    <2> QED
      BY <1>7, <2>2, TypeFrame DEF RestRead, TypeOK, smVars
  <1>8. CASE BeforeCacheRead(t, c)
    <2>1. CallTypeOK'
      BY <1>2, <1>4, <1>8 DEF BeforeCacheRead, TypeOK, CallTypeOK
    <2>2. ThreadTypeOK'
      BY <1>8 DEF BeforeCacheRead, TypeOK, ThreadTypeOK, ThreadStates
    <2> QED
      BY <1>8, <2>1, <2>2, TypeFrame DEF BeforeCacheRead, TypeOK, smVars
  <1> QED
    BY <1>1, <1>5, <1>6, <1>7, <1>8

\* The rest of the handlers.
LEMMA ServeTyped ==
    ASSUME IndInv, NEW t \in Threads, ServeStep(t)
    PROVE  TypeOK'
  <1> USE DEF IndInv
  <1>1. ASSUME pc[t] # "idle"
        PROVE  /\ call[t] \in CallRecords /\ call[t].by \in Observers
               /\ call[t].when \in Points /\ call[t].key \in Keys
               /\ call[t].obj \in Objects
               /\ call[t].op \in {"create", "update", "delete", "annotated", "other",
                                  "Get", "List"}
    BY <1>1, CoordinatorAssumption DEF CallInv, CoordinatorAssumption, CallRecords
  <1>2. ASSUME NEW s \in ThreadStates, Return(t, s)
        PROVE  pc' \in [Threads -> ThreadStates]
    BY <1>2 DEF Return, TypeOK, ThreadTypeOK, ThreadStates
  <1>3. CASE SendNotificationAndBlock(t)
    <2> DEFINE n == [op |-> call[t].op, key |-> call[t].key, when |-> call[t].when,
                     by |-> call[t].by, prev |-> prev[t], cur |-> call[t].obj,
                     thread |-> t]
    <2>1. n \in StateNotifications
      BY <1>1, <1>3 DEF SendNotificationAndBlock, StateNotifications, TypeOK, CallTypeOK
    <2>2. stateCh' = Append(stateCh, n)
      BY <1>3 DEF SendNotificationAndBlock
    <2> HIDE DEF n
    <2>3. QueueTypeOK'
      BY <1>3, <2>1, <2>2 DEF SendNotificationAndBlock, TypeOK, QueueTypeOK
    <2>4. ThreadTypeOK'
      BY <1>3 DEF SendNotificationAndBlock, TypeOK, ThreadTypeOK, ThreadStates
    <2> QED
      BY <1>3, <2>3, <2>4, TypeFrame DEF SendNotificationAndBlock, TypeOK
  <1>4. CASE StoreObject(t)
    <2>1. objectStates' \in [Observers -> [Points -> [Keys -> Objects]]]
      BY <1>1, <1>4 DEF StoreObject, TypeOK, CallTypeOK
    <2>2. pc' \in [Threads -> ThreadStates]
      <3>1. CASE call[t].when \in APIPoints
        BY <1>4, <3>1 DEF StoreObject, APIPoints, WritePoints, TypeOK, ThreadTypeOK,
                          ThreadStates
      <3>2. CASE call[t].when \notin APIPoints
        <4>1. \/ Return(t, "pause") \/ Return(t, "idle")
          BY <1>4, <3>2 DEF StoreObject
        <4> QED
          BY <1>2, <4>1 DEF ThreadStates
      <3> QED
        BY <3>1, <3>2
    <2>3. CallTypeOK' /\ ThreadTypeOK'
      BY <1>4, <2>1, <2>2 DEF StoreObject, TypeOK, CallTypeOK, ThreadTypeOK
    <2> QED
      BY <1>4, <2>3, TypeFrame DEF StoreObject, TypeOK, smVars
  <1>5. CASE ProcessPause(t)
    <2> DEFINE G == StoppedBy(call[t], PausePoint(t))
    <2>1. G \subseteq Gates
      BY <1>5, StoppedByGates DEF ProcessPause
    <2>2. CASE G = {}
      <3>1. /\ \/ Return(t, "reading") \/ Return(t, "idle")
            /\ UNCHANGED waitOn
        BY <1>5, <2>2 DEF ProcessPause, AfterPause
      <3>2. ThreadTypeOK'
        BY <1>2, <1>5, <3>1 DEF ProcessPause, TypeOK, ThreadTypeOK, ThreadStates
      <3> QED
        BY <1>5, <3>2, TypeFrame DEF ProcessPause, TypeOK, smVars
    <2>3. CASE G # {}
      <3>1. PICK g \in G : waitOn' = [waitOn EXCEPT ![t] = g]
        BY <1>5, <2>3 DEF ProcessPause
      <3>2. pc' = [pc EXCEPT ![t] = "paused"]
        BY <1>5, <2>3 DEF ProcessPause
      <3>3. ThreadTypeOK'
        BY <1>5, <2>1, <3>1, <3>2 DEF ProcessPause, TypeOK, ThreadTypeOK, ThreadStates
      <3> QED
        BY <1>5, <3>3, TypeFrame DEF ProcessPause, TypeOK, smVars
    <2> QED
      BY <2>2, <2>3
  <1>6. CASE EndPause(t)
    <2>1. \/ Return(t, "reading") \/ Return(t, "idle")
      BY <1>6 DEF EndPause, AfterPause
    <2>2. ThreadTypeOK'
      BY <1>2, <1>6, <2>1 DEF EndPause, TypeOK, ThreadTypeOK, ThreadStates
    <2> QED
      BY <1>6, <2>2, TypeFrame DEF EndPause, TypeOK, smVars
  <1>7. CASE LockRead(t)
    <2>1. ThreadTypeOK'
      BY <1>7 DEF LockRead, TypeOK, ThreadTypeOK, ThreadStates
    <2> QED
      BY <1>7, <2>1, TypeFrame DEF LockRead, TypeOK, smVars
  <1>8. CASE AfterCacheRead(t)
    <2>1. ThreadTypeOK'
      BY <1>8 DEF AfterCacheRead, TypeOK, ThreadTypeOK, ThreadStates
    <2>2. PICK K : RefreshObjects(call[t].by, K, call[t].obj) \/ UNCHANGED objectStates
      BY <1>8 DEF AfterCacheRead
    <2>3. call[t].by \in Observers /\ call[t].obj \in Objects
      BY <1>1, <1>8 DEF AfterCacheRead
    <2>4. objectStates' \in [Observers -> [Points -> [Keys -> Objects]]]
      BY <2>2, <2>3, RefreshTyped DEF TypeOK, CallTypeOK
    <2>5. CallTypeOK'
      BY <1>8, <2>4 DEF AfterCacheRead, TypeOK, CallTypeOK
    <2> QED
      BY <1>8, <2>1, <2>5, TypeFrame DEF AfterCacheRead, TypeOK, smVars
  <1>9. CASE UnlockRead(t)
    <2>1. ThreadTypeOK' /\ PauseTypeOK'
      BY <1>9 DEF UnlockRead, TypeOK, ThreadTypeOK, PauseTypeOK, pauseVars, ThreadStates
    <2> QED
      BY <1>9, <2>1, TypeFrame DEF UnlockRead, TypeOK, smVars
  <1> QED
    BY <1>3, <1>4, <1>5, <1>6, <1>7, <1>8, <1>9 DEF ServeStep

\* Every step preserves the type invariant.
LEMMA TypeStep ==
    ASSUME IndInv, [Next]_vars
    PROVE  TypeOK'
  <1>1. CASE StateMachineNext /\ UNCHANGED coordinatorVars
    BY <1>1, ReceiveTyped, LoopTyped, ActionsTyped DEF StateMachineNext, SelectStep
  <1>2. CASE \E t \in Threads : CallStep(t) \/ ServeStep(t)
    BY <1>2, CallsTyped, ServeTyped
  <1>3. ASSUME NEW t \in Threads, NEW i \in Actions, ConcurrentMapAccess(t, i)
        PROVE  TypeOK'
    <2>1. PauseTypeOK'
      BY <1>3 DEF ConcurrentMapAccess, IndInv, TypeOK, PauseTypeOK, pauseVars
    <2> QED
      BY <1>3, <2>1, TypeFrame DEF ConcurrentMapAccess, IndInv, TypeOK, smVars
  <1>4. ASSUME NEW k \in Keys, CacheChanges(k)
        PROVE  TypeOK'
    <2>1. ThreadTypeOK'
      BY <1>4 DEF CacheChanges, IndInv, TypeOK, ThreadTypeOK
    <2> QED
      BY <1>4, <2>1, TypeFrame DEF CacheChanges, IndInv, TypeOK, smVars
  <1>5. CASE UNCHANGED vars
    BY <1>5, TypeFrame DEF IndInv, TypeOK, vars, smVars
  <1> QED
    BY <1>1, <1>2, <1>3, <1>4, <1>5 DEF Next

-----------------------------------------------------------------------------
(* The steps preserve the order of the actions.                            *)

\* What leaves the progress of the state machine alone preserves the invariants
\* about it.
LEMMA OrderFrame ==
    ASSUME IndInv, UNCHANGED <<progVars, smPc, cur>>
    PROVE  ActionsInOrder' /\ LoopInv'
  BY DEF IndInv, ActionsInOrder, LoopInv, progVars, Executing

\* The loop of processNotification: the last trigger starts the action that is
\* next, and nothing else does.
LEMMA LoopInOrder ==
    ASSUME IndInv, SelectStep, ~FinishSyncAction,
           \A i \in Actions : ~ProcessAsyncDone(i)
    PROVE  ActionsInOrder' /\ LoopInv'
  <1> USE DEF IndInv
  <1>1. ASSUME NEW n \in StateNotifications \cup TimeoutNotifications,
               ProcessNotification(n), smPc = "select", UNCHANGED progVars
        PROVE  ActionsInOrder' /\ LoopInv'
    <2>1. CASE nextState \notin Actions \/ asyncActionInExecution
      BY <1>1, <2>1, OrderFrame DEF ProcessNotification, loopVars
    <2>2. CASE ~(nextState \notin Actions \/ asyncActionInExecution)
      <3>1. smPc' = "visit" /\ cur' = n
        BY <1>1, <2>2 DEF ProcessNotification
      <3>2. ActionsInOrder'
        BY <1>1, <3>1 DEF ActionsInOrder, progVars, Executing
      <3>3. LoopInv'
        BY <1>1, <2>2, <3>1 DEF LoopInv, progVars
      <3> QED
        BY <3>2, <3>3
    <2> QED
      BY <2>1, <2>2
  <1>2. CASE ReceiveStateNotification
    <2>1. Head(stateCh) \in StateNotifications
      BY <1>2 DEF ReceiveStateNotification, TypeOK, QueueTypeOK
    <2> QED
      BY <1>1, <1>2, <2>1 DEF ReceiveStateNotification
  <1>3. CASE ReceiveTimeoutNotification
    <2>1. Head(timeoutCh) \in Names
      BY <1>3 DEF ReceiveTimeoutNotification, TypeOK, QueueTypeOK
    <2>2. [op |-> "timeout", name |-> Head(timeoutCh)] \in TimeoutNotifications
      BY <2>1 DEF TimeoutNotifications
    <2> QED
      BY <1>1, <1>3, <2>2 DEF ReceiveTimeoutNotification
  <1>4. ASSUME NEW n \in Names, SkipTrigger(n) \/ TriggerTwice(n) \/ SatisfyTrigger(n)
        PROVE  ActionsInOrder' /\ LoopInv'
    BY <1>4, OrderFrame DEF SkipTrigger, TriggerTwice, SatisfyTrigger, smVars, loopVars
  <1>5. ASSUME NEW n \in Names, SatisfyLastTrigger(n)
        PROVE  ActionsInOrder' /\ LoopInv'
    <2>1. /\ smPc = "visit" /\ nextState \in Actions /\ ~asyncActionInExecution
          /\ nextState' = nextState
          /\ stage' = [stage EXCEPT ![nextState] = "before"]
      BY <1>5 DEF SatisfyLastTrigger, Visiting, LoopInv
    <2>2. CASE Plan[nextState].async
      <3>1. asyncActionInExecution' = TRUE /\ smPc' = "select"
        BY <1>5, <2>2 DEF SatisfyLastTrigger
      <3>2. ActionsInOrder'
        BY <2>1, <2>2, <3>1, PlanFacts DEF ActionsInOrder, Executing, TypeOK, ProgTypeOK
      <3> QED
        BY <2>1, <3>1, <3>2 DEF LoopInv
    <2>3. CASE ~Plan[nextState].async
      <3>1. UNCHANGED <<asyncActionInExecution, cur>> /\ smPc' = "act"
        BY <1>5, <2>3 DEF SatisfyLastTrigger
      <3>2. ActionsInOrder'
        BY <2>1, <2>3, <3>1, PlanFacts DEF ActionsInOrder, Executing, TypeOK, ProgTypeOK
      <3> QED
        BY <2>1, <3>1, <3>2 DEF LoopInv
    <2> QED
      BY <2>2, <2>3
  <1>6. CASE EndLoop
    BY <1>6 DEF EndLoop, ActionsInOrder, LoopInv, progVars, Executing
  <1> QED
    BY <1>2, <1>3, <1>4, <1>5, <1>6 DEF SelectStep, VisitStep

\* The end of an action: the next one of the plan is watched for.
LEMMA EndInOrder ==
    ASSUME IndInv, FinishSyncAction \/ \E i \in Actions : ProcessAsyncDone(i)
    PROVE  ActionsInOrder' /\ LoopInv'
  <1> USE DEF IndInv
  <1>1. CASE FinishSyncAction
    <2>1. /\ nextState \in Actions /\ stage[nextState] = "done" /\ smPc = "act"
          /\ nextState' = nextState + 1 /\ smPc' = "select"
          /\ UNCHANGED <<asyncActionInExecution, stage>>
      BY <1>1 DEF FinishSyncAction, LoopInv
    <2>2. ~asyncActionInExecution
      BY <2>1 DEF ActionsInOrder, Executing
    <2>3. ActionsInOrder'
      BY <2>1, <2>2, PlanFacts DEF ActionsInOrder, Executing, TypeOK, ProgTypeOK
    <2> QED
      BY <2>1, <2>2, <2>3 DEF LoopInv
  <1>2. ASSUME NEW i \in Actions, ProcessAsyncDone(i)
        PROVE  ActionsInOrder' /\ LoopInv'
    <2>1. i = nextState
      BY <1>2, PlanFacts DEF ProcessAsyncDone, ActionsInOrder, TypeOK, ProgTypeOK
    <2>2. PICK s \in {"readlock", "done"} : stage' = [stage EXCEPT ![i] = s]
      BY <1>2 DEF ProcessAsyncDone
    <2>3. /\ smPc = "select" /\ smPc' = "select"
          /\ nextState' = nextState + 1 /\ asyncActionInExecution' = FALSE
      BY <1>2 DEF ProcessAsyncDone, loopVars
    <2>4. ActionsInOrder'
      BY <2>1, <2>2, <2>3, PlanFacts DEF ActionsInOrder, Executing, TypeOK, ProgTypeOK
    <2> QED
      BY <2>3, <2>4 DEF LoopInv
  <1> QED
    BY <1>1, <1>2

\* A step of run() moves the action that is under way towards its end, or takes
\* the read lock for one that has reported its end already.
LEMMA RunInOrder ==
    ASSUME IndInv, NEW i \in Actions, RunStep(i)
    PROVE  ActionsInOrder' /\ LoopInv'
  <1> USE DEF IndInv
  <1>1. ASSUME NEW s, ProgressTo(i, s), UNCHANGED unchangedByActions,
               \/ /\ stage[i] \in {"before", "unlock"} /\ s = AfterEffect(i)
               \/ stage[i] = "before" /\ s = "close"
               \/ stage[i] = "close" /\ s = "unlock"
               \/ stage[i] = "readlock" /\ s = "done"
        PROVE  ActionsInOrder' /\ LoopInv'
    <2>1. stage' = [stage EXCEPT ![i] = s] /\ UNCHANGED <<nextState,
                       asyncActionInExecution, smPc, cur>>
      BY <1>1 DEF ProgressTo, unchangedByActions, loopVars
    <2>2. LoopInv'
      BY <2>1 DEF LoopInv
    <2>3. AfterEffect(i) # "idle" /\ (Plan[i].async => AfterEffect(i) = "signal")
      BY DEF AfterEffect
    <2>4. CASE i = nextState
      BY <1>1, <2>1, <2>2, <2>3, <2>4, PlanFacts DEF ActionsInOrder, Executing, TypeOK,
                                                     ProgTypeOK
    <2>5. CASE i # nextState
      <3>1. i < nextState /\ stage[i] = "readlock" /\ s = "done"
        BY <1>1, <2>5, PlanFacts DEF ActionsInOrder, TypeOK, ProgTypeOK
      <3> QED
        BY <2>1, <2>2, <3>1, PlanFacts DEF ActionsInOrder, Executing, TypeOK, ProgTypeOK
    <2> QED
      BY <2>2, <2>4, <2>5
  <1>2. CASE Pause(i) \/ ResumeController(i) \/ RestartController(i)
    BY <1>1, <1>2 DEF Pause, ResumeController, RestartController, Starts
  <1>3. CASE AvoidOngoingRead(i)
    BY <1>1, <1>3 DEF AvoidOngoingRead
  <1>4. CASE \E t \in Threads : ResumeAPIServerSend(i, t)
    BY <1>1, <1>4 DEF ResumeAPIServerSend, Starts
  <1>5. CASE ResumeAPIServerClose(i) \/ ResumeAPIServerUnlock(i)
    BY <1>1, <1>5 DEF ResumeAPIServerClose, ResumeAPIServerUnlock
  <1>6. CASE ResumePanics(i)
    BY <1>6, OrderFrame DEF ResumePanics, smVars, loopVars
  <1> QED
    BY <1>2, <1>3, <1>4, <1>5, <1>6 DEF RunStep

\* Every step preserves the order of the actions.
LEMMA OrderStep ==
    ASSUME IndInv, [Next]_vars
    PROVE  ActionsInOrder' /\ LoopInv'
  <1>1. CASE SelectStep
    BY <1>1, LoopInOrder, EndInOrder
  <1>2. CASE \E n \in Names : TimeoutExpires(n)
    BY <1>2, OrderFrame DEF TimeoutExpires, loopVars
  <1>3. CASE \E i \in Actions : RunStep(i)
    BY <1>3, RunInOrder
  <1>4. ASSUME NEW t \in Threads, CallStep(t) \/ ServeStep(t)
        PROVE  UNCHANGED <<progVars, smPc, cur>>
    <2>1. CASE CallStep(t)
      BY <2>1 DEF CallStep, Notify, UnobservedWrite, RestRead, BeforeCacheRead, smVars,
                  loopVars
    <2>2. CASE ServeStep(t)
      BY <2>2 DEF ServeStep, SendNotificationAndBlock, StoreObject, ProcessPause,
                  EndPause, LockRead, AfterCacheRead, UnlockRead, smVars, loopVars
    <2> QED
      BY <1>4, <2>1, <2>2
  <1>5. CASE \E t \in Threads, i \in Actions : ConcurrentMapAccess(t, i)
    BY <1>5, OrderFrame DEF ConcurrentMapAccess, smVars, loopVars
  <1>6. CASE \E k \in Keys : CacheChanges(k)
    BY <1>6, OrderFrame DEF CacheChanges, smVars, loopVars
  <1>7. CASE UNCHANGED vars
    BY <1>7, OrderFrame DEF vars, smVars, loopVars
  <1> QED
    BY <1>1, <1>2, <1>3, <1>4, <1>5, <1>6, <1>7, OrderFrame DEF Next, StateMachineNext

-----------------------------------------------------------------------------
(* Every handler that blocks is released by exactly one notification.       *)

\* The calls of the threads are not changed, and nobody starts one or comes to a
\* pause point.
LEMMA CallFrame ==
    ASSUME IndInv, UNCHANGED <<call, waitOn>>,
           \A t \in Threads :
               \/ pc'[t] = pc[t] \/ pc'[t] = "idle"
               \/ pc[t] # "idle" /\ pc'[t] \in {"store", "blocked"}
    PROVE  CallInv'
  BY DEF IndInv, CallInv, AtReadPoint

\* The notifications are not changed, and nobody blocks or is released.
LEMMA ReleaseFrame ==
    ASSUME IndInv, UNCHANGED <<stateCh, cur>>,
           smPc' = "select" <=> smPc = "select",
           \A t \in Threads : pc'[t] = "blocked" <=> pc[t] = "blocked"
    PROVE  OneReleasePerHandler'
  BY DEF IndInv, OneReleasePerHandler, Queued, Processing

\* The deferred function of processNotification.
LEMMA Released ==
    ASSUME IndInv, smPc # "select", smPc' = "select",
           UNCHANGED <<stateCh, call, waitOn>>, Release(cur)
    PROVE  CallInv' /\ OneReleasePerHandler'
  <1> USE DEF IndInv
  <1>1. CASE cur.op = "timeout"
    <2>1. pc' = pc /\ \A t \in Threads : ~Processing(t) /\ ~Processing(t)'
      BY <1>1 DEF Release, Processing
    <2>2. OneReleasePerHandler'
      BY <2>1 DEF OneReleasePerHandler, Queued
    <2> QED
      BY <2>1, <2>2, CallFrame
  <1>2. CASE cur.op # "timeout"
    <2> DEFINE u == cur.thread
    <2>1. u \in Threads
      BY <1>2 DEF LoopInv, StateNotifications, TimeoutNotifications
    <2>2. /\ pc[u] = "blocked" /\ Queued(u) = {}
          /\ \A t \in Threads : Processing(t) <=> t = u
      BY <1>2, <2>1 DEF OneReleasePerHandler, Processing
    <2>3. /\ pc' = [pc EXCEPT ![u] = "store"]
          /\ \A t \in Threads : ~Processing(t)' /\ Queued(t)' = Queued(t)
      BY <1>2 DEF Release, Processing, Queued
    <2>4. OneReleasePerHandler'
      BY <2>1, <2>2, <2>3 DEF OneReleasePerHandler, TypeOK, ThreadTypeOK
    <2>5. CallInv'
      BY <2>1, <2>2, <2>3, CallFrame DEF TypeOK, ThreadTypeOK
    <2> QED
      BY <2>4, <2>5
  <1> QED
    BY <1>1, <1>2

\* The first notification of stateNotificationCh is taken out: its handler is
\* released at once, or the notification is the one in processNotification.
LEMMA Received ==
    ASSUME IndInv, ReceiveStateNotification, UNCHANGED coordinatorVars
    PROVE  CallInv' /\ OneReleasePerHandler'
  <1> USE DEF IndInv
  <1> DEFINE n == Head(stateCh)
  <1>1. stateCh \in Seq(StateNotifications) /\ stateCh # <<>> /\ smPc = "select"
    BY DEF ReceiveStateNotification, TypeOK, QueueTypeOK
  <1>2. /\ n \in StateNotifications /\ n = stateCh[1] /\ 1 \in DOMAIN stateCh
        /\ stateCh' = Tail(stateCh)
    BY <1>1 DEF ReceiveStateNotification
  <1>3. PICK u \in Threads : u = n.thread /\ n.op # "timeout"
    BY <1>2 DEF StateNotifications
  <1>4. 1 \in Queued(u) /\ pc[u] = "blocked" /\ Queued(u) = {1}
    BY <1>2, <1>3 DEF OneReleasePerHandler, Queued
  <1>5. ASSUME NEW t \in Threads
        PROVE  /\ \A i \in Queued(t)' : i \in Nat \ {0} /\ i + 1 \in Queued(t)
               /\ \A i \in Queued(t) : i \in Nat /\ (i # 1 => i - 1 \in Queued(t)')
    BY <1>1, <1>2 DEF Queued
  <1>6. Queued(u)' = {}
    BY <1>3, <1>4, <1>5
  <1>7. ASSUME NEW t \in Threads, t # u
        PROVE  /\ Queued(t)' # {} <=> Queued(t) # {}
               /\ \A i, j \in Queued(t)' : i = j
    <2>1. 1 \notin Queued(t)
      BY <1>2, <1>3, <1>7 DEF Queued
    <2>2. \A i, j \in Queued(t) : i = j
      BY DEF OneReleasePerHandler
    <2> QED
      BY <1>5, <2>1, <2>2
  <1>8. \A t \in Threads : ~Processing(t)
    BY <1>1 DEF Processing
  <1>9. CASE nextState \notin Actions \/ asyncActionInExecution
    <2>1. pc' = [pc EXCEPT ![u] = "store"] /\ smPc' = "select"
      BY <1>1, <1>3, <1>9 DEF ReceiveStateNotification, ProcessNotification, Release,
                              loopVars
    <2>2. \A t \in Threads : ~Processing(t)'
      BY <2>1 DEF Processing
    <2>3. OneReleasePerHandler'
      BY <1>3, <1>6, <1>7, <1>8, <2>1, <2>2
         DEF OneReleasePerHandler, TypeOK, ThreadTypeOK
    <2>4. CallInv'
      BY <1>3, <1>4, <2>1, CallFrame DEF ReceiveStateNotification, TypeOK, ThreadTypeOK,
                                         coordinatorVars
    <2> QED
      BY <2>3, <2>4
  <1>10. CASE ~(nextState \notin Actions \/ asyncActionInExecution)
    <2>1. pc' = pc /\ smPc' = "visit" /\ cur' = n
      BY <1>10 DEF ReceiveStateNotification, ProcessNotification
    <2>2. \A t \in Threads : Processing(t)' <=> t = u
      BY <1>3, <2>1 DEF Processing
    <2>3. OneReleasePerHandler'
      BY <1>3, <1>4, <1>6, <1>7, <1>8, <2>1, <2>2 DEF OneReleasePerHandler
    <2>4. CallInv'
      BY <2>1, CallFrame DEF ReceiveStateNotification, coordinatorVars
    <2> QED
      BY <2>3, <2>4
  <1> QED
    BY <1>9, <1>10

\* A handler puts its notification into stateNotificationCh and blocks.
LEMMA Sent ==
    ASSUME IndInv, NEW t \in Threads, SendNotificationAndBlock(t)
    PROVE  CallInv' /\ OneReleasePerHandler'
  <1> USE DEF IndInv
  <1>1. PICK n : stateCh' = Append(stateCh, n) /\ n.thread = t
    BY DEF SendNotificationAndBlock
  <1>2. /\ pc[t] = "send" /\ pc' = [pc EXCEPT ![t] = "blocked"]
        /\ UNCHANGED <<smPc, cur, call, waitOn>>
    BY DEF SendNotificationAndBlock, loopVars, coordinatorVars
  <1>3. stateCh \in Seq(StateNotifications)
    BY DEF TypeOK, QueueTypeOK
  <1>4. Queued(t) = {} /\ ~Processing(t)
    BY <1>2 DEF OneReleasePerHandler
  <1>5. \A s \in Threads : Processing(s)' <=> Processing(s)
    BY <1>2 DEF Processing
  <1>6. /\ Len(stateCh) \in Nat /\ DOMAIN stateCh = 1 .. Len(stateCh)
        /\ DOMAIN stateCh' = 1 .. Len(stateCh) + 1
        /\ \A i \in DOMAIN stateCh : stateCh'[i] = stateCh[i]
        /\ stateCh'[Len(stateCh) + 1] = n
    BY <1>1, <1>3
  <1>7. Queued(t)' = {Len(stateCh) + 1}
    BY <1>1, <1>4, <1>6 DEF Queued
  <1>8. \A s \in Threads : s # t => Queued(s)' = Queued(s)
    BY <1>1, <1>6 DEF Queued
  <1>9. OneReleasePerHandler'
    <2>1. \A s \in Threads : pc'[s] = IF s = t THEN "blocked" ELSE pc[s]
      BY <1>2 DEF TypeOK, ThreadTypeOK
    <2>2. Queued(t)' # {} /\ \A i, j \in Queued(t)' : i = j
      BY <1>7
    <2> QED
      BY <1>4, <1>5, <1>8, <2>1, <2>2 DEF OneReleasePerHandler
  <1>10. CallInv'
    BY <1>2, CallFrame DEF TypeOK, ThreadTypeOK
  <1> QED
    BY <1>9, <1>10

\* The state machine.
LEMMA SelectReleases ==
    ASSUME IndInv, SelectStep, UNCHANGED coordinatorVars
    PROVE  CallInv' /\ OneReleasePerHandler'
  <1>1. UNCHANGED call
    BY DEF coordinatorVars
  <1>2. CASE ReceiveStateNotification
    BY <1>2, Received
  <1>3. CASE ReceiveTimeoutNotification
    <2>1. UNCHANGED <<pc, waitOn, stateCh>> /\ smPc = "select"
      BY <1>3 DEF ReceiveTimeoutNotification, ProcessNotification, Release
    <2>2. CASE nextState \notin Actions \/ asyncActionInExecution
      <3>1. UNCHANGED <<smPc, cur>>
        BY <1>3, <2>2 DEF ReceiveTimeoutNotification, ProcessNotification, loopVars
      <3> QED
        BY <1>1, <2>1, <3>1, CallFrame, ReleaseFrame
    <2>3. CASE ~(nextState \notin Actions \/ asyncActionInExecution)
      <3>1. cur'.op = "timeout"
        BY <1>3, <2>3 DEF ReceiveTimeoutNotification, ProcessNotification
      <3>2. \A t \in Threads : ~Processing(t) /\ ~Processing(t)'
        BY <2>1, <3>1 DEF Processing
      <3>3. OneReleasePerHandler'
        BY <2>1, <3>2 DEF IndInv, OneReleasePerHandler, Queued
      <3> QED
        BY <1>1, <2>1, <3>3, CallFrame
    <2> QED
      BY <2>2, <2>3
  <1>4. ASSUME NEW n \in Names, SkipTrigger(n) \/ TriggerTwice(n) \/ SatisfyTrigger(n)
        PROVE  CallInv' /\ OneReleasePerHandler'
    <2>1. UNCHANGED <<pc, waitOn, stateCh, smPc, cur>>
      BY <1>4 DEF SkipTrigger, TriggerTwice, SatisfyTrigger, smVars, loopVars, threadVars
    <2> QED
      BY <1>1, <2>1, CallFrame, ReleaseFrame
  <1>5. ASSUME NEW n \in Names, SatisfyLastTrigger(n)
        PROVE  CallInv' /\ OneReleasePerHandler'
    <2>1. CASE Plan[nextState].async
      BY <1>1, <1>5, <2>1, Released DEF SatisfyLastTrigger, Visiting
    <2>2. CASE ~Plan[nextState].async
      <3>1. /\ UNCHANGED <<pc, waitOn, stateCh, cur>>
            /\ smPc = "visit" /\ smPc' = "act"
        BY <1>5, <2>2 DEF SatisfyLastTrigger, Visiting
      <3> QED
        BY <1>1, <3>1, CallFrame, ReleaseFrame
    <2> QED
      BY <2>1, <2>2
  <1>6. CASE EndLoop \/ FinishSyncAction
    BY <1>1, <1>6, Released DEF EndLoop, FinishSyncAction
  <1>7. ASSUME NEW i \in Actions, ProcessAsyncDone(i)
        PROVE  CallInv' /\ OneReleasePerHandler'
    <2>1. UNCHANGED <<pc, waitOn, stateCh, smPc, cur>>
      BY <1>7 DEF ProcessAsyncDone, loopVars, threadVars
    <2> QED
      BY <1>1, <2>1, CallFrame, ReleaseFrame
  <1> QED
    BY <1>2, <1>3, <1>4, <1>5, <1>6, <1>7 DEF SelectStep, VisitStep

\* The actions of the plan move threads that are paused or that read, and never
\* one that waits for its release.
LEMMA RunReleases ==
    ASSUME IndInv, NEW i \in Actions, RunStep(i), UNCHANGED coordinatorVars
    PROVE  CallInv' /\ OneReleasePerHandler'
  <1>1. UNCHANGED <<call, waitOn, stateCh, smPc, cur>>
    BY DEF coordinatorVars, RunStep, Pause, AvoidOngoingRead, ResumeAPIServerSend,
           ResumeAPIServerClose, ResumeAPIServerUnlock, ResumeController, ResumePanics,
           RestartController, unchangedByActions, smVars, loopVars, threadVars
  <1>2. pc \in [Threads -> ThreadStates]
    BY DEF IndInv, TypeOK, ThreadTypeOK
  <1>3. \A t \in Threads : \/ pc'[t] = pc[t]
                           \/ pc[t] \in {"paused", "reading"} /\ pc'[t] = "idle"
    <2>1. CASE \E t \in Threads : ResumeAPIServerSend(i, t)
      BY <1>2, <2>1 DEF ResumeAPIServerSend
    <2>2. CASE RestartController(i)
      BY <1>2, <2>2 DEF RestartController
    <2>3. CASE \/ Pause(i) \/ AvoidOngoingRead(i) \/ ResumeAPIServerClose(i)
               \/ ResumeAPIServerUnlock(i) \/ ResumeController(i) \/ ResumePanics(i)
      BY <2>3 DEF Pause, AvoidOngoingRead, ResumeAPIServerClose, ResumeAPIServerUnlock,
                  ResumeController, ResumePanics, threadVars
    <2> QED
      BY <2>1, <2>2, <2>3 DEF RunStep
  <1> QED
    BY <1>1, <1>3, CallFrame, ReleaseFrame

\* The threads and the handlers, except for the step that blocks.
LEMMA ThreadReleases ==
    ASSUME IndInv, NEW t \in Threads,
           CallStep(t) \/ ServeStep(t), ~SendNotificationAndBlock(t)
    PROVE  CallInv' /\ OneReleasePerHandler'
  <1> USE DEF IndInv
  <1>1. pc \in [Threads -> ThreadStates] /\ call \in [Threads -> CallRecords \cup {NoCall}]
    BY DEF TypeOK, ThreadTypeOK, CallTypeOK
  <1>2. UNCHANGED <<stateCh, smPc, cur>>
    BY DEF CallStep, Notify, UnobservedWrite, RestRead, BeforeCacheRead, ServeStep,
           StoreObject, ProcessPause, EndPause, LockRead, AfterCacheRead, UnlockRead,
           smVars, loopVars
  <1>3. ASSUME NEW s, s # "blocked", pc[t] # "blocked", pc' = [pc EXCEPT ![t] = s]
        PROVE  OneReleasePerHandler'
    BY <1>1, <1>2, <1>3, ReleaseFrame
  <1>4. ASSUME NEW s, pc' = [pc EXCEPT ![t] = s], UNCHANGED <<call, waitOn>>,
               pc[t] # "idle", s # "paused",
               s \in {"pause", "pauseAfter"} =>
                   call[t].fn = "read" \/ call[t].when \in APIPoints \cup WritePoints,
               s \in {"lock", "reading", "unlock", "pauseAfter"} => call[t].fn = "read"
        PROVE  CallInv'
    BY <1>1, <1>4 DEF CallInv, AtReadPoint
  <1>5. ASSUME NEW c \in Calls[t], NEW s, pc' = [pc EXCEPT ![t] = s],
               call' = [call EXCEPT ![t] = c], UNCHANGED waitOn,
               s \in {"store", "send"} \/ (s = "pause" /\ c.when \in WritePoints)
                   \/ (s \in {"lock", "reading"} /\ c.fn = "read")
        PROVE  CallInv'
    BY <1>1, <1>5 DEF CallInv, AtReadPoint
  <1>6. ASSUME NEW c \in Calls[t], Notify(t, c)
        PROVE  CallInv' /\ OneReleasePerHandler'
    <2>1. PICK s \in {"store", "send"} : pc' = [pc EXCEPT ![t] = s]
      BY <1>6 DEF Notify
    <2>2. pc[t] = "idle" /\ call' = [call EXCEPT ![t] = c] /\ UNCHANGED waitOn
      BY <1>6 DEF Notify
    <2> QED
      BY <1>3, <1>5, <2>1, <2>2
  <1>7. ASSUME NEW c \in Calls[t], BeforeCacheRead(t, c)
        PROVE  CallInv' /\ OneReleasePerHandler'
    <2>1. PICK s \in {"lock", "reading"} : pc' = [pc EXCEPT ![t] = s]
      BY <1>7 DEF BeforeCacheRead
    <2>2. /\ pc[t] = "idle" /\ c.fn = "read"
          /\ call' = [call EXCEPT ![t] = c] /\ UNCHANGED waitOn
      BY <1>7 DEF BeforeCacheRead
    <2> QED
      BY <1>3, <1>5, <2>1, <2>2
  <1>8. ASSUME NEW c \in Calls[t], UnobservedWrite(t, c)
        PROVE  CallInv' /\ OneReleasePerHandler'
    BY <1>3, <1>5, <1>8 DEF UnobservedWrite
  <1>9. ASSUME NEW c \in Calls[t], RestRead(t, c)
        PROVE  CallInv' /\ OneReleasePerHandler'
    BY <1>2, <1>9, CallFrame, ReleaseFrame DEF RestRead, threadVars
  <1>10. CASE StoreObject(t)
    <2>1. PICK s \in {"pause", "idle"} :
             /\ pc' = [pc EXCEPT ![t] = s]
             /\ s = "pause" => call[t].when \in APIPoints \cup WritePoints
      BY <1>10 DEF StoreObject, Return, APIPoints, WritePoints
    <2>2. pc[t] = "store" /\ UNCHANGED <<call, waitOn>>
      BY <1>10 DEF StoreObject
    <2> QED
      BY <1>3, <1>4, <2>1, <2>2
  <1>11. ASSUME ProcessPause(t), StoppedBy(call[t], PausePoint(t)) = {}
         PROVE  CallInv' /\ OneReleasePerHandler'
    <2>1. PICK s \in {"reading", "idle"} :
             /\ pc' = [pc EXCEPT ![t] = s]
             /\ s = "reading" => PausePoint(t) = "beforeControllerRead"
      BY <1>11 DEF ProcessPause, AfterPause, Return
    <2>2. pc[t] \in {"pause", "pauseAfter"} /\ UNCHANGED <<call, waitOn>>
      BY <1>11 DEF ProcessPause, coordinatorVars
    <2> QED
      BY <1>3, <1>4, <2>1, <2>2, StoppedByGates
  <1>12. ASSUME ProcessPause(t), StoppedBy(call[t], PausePoint(t)) # {}
         PROVE  CallInv' /\ OneReleasePerHandler'
    <2>1. PICK g \in StoppedBy(call[t], PausePoint(t)) :
             waitOn' = [waitOn EXCEPT ![t] = g]
      BY <1>12 DEF ProcessPause
    <2>2. /\ pc' = [pc EXCEPT ![t] = "paused"] /\ UNCHANGED call
          /\ pc[t] \in {"pause", "pauseAfter"}
      BY <1>12 DEF ProcessPause, coordinatorVars
    <2>3. g[1] = "beforeControllerRead" => call[t].fn = "read"
      BY <2>2, StoppedByGates
    <2>4. waitOn \in [Threads -> Gates \cup {<<>>}]
      BY DEF TypeOK, ThreadTypeOK
    <2>5. CallInv'
      BY <1>1, <2>1, <2>2, <2>3, <2>4 DEF CallInv, AtReadPoint
    <2> QED
      BY <1>3, <2>2, <2>5
  <1>13. CASE EndPause(t)
    <2>1. PICK s \in {"reading", "idle"} :
             /\ pc' = [pc EXCEPT ![t] = s]
             /\ s = "reading" => waitOn[t][1] = "beforeControllerRead"
      BY <1>13 DEF EndPause, AfterPause, Return
    <2>2. pc[t] = "paused" /\ UNCHANGED <<call, waitOn>>
      BY <1>13 DEF EndPause, coordinatorVars
    <2>3. s = "reading" => call[t].fn = "read"
      BY <2>1, <2>2 DEF CallInv, AtReadPoint
    <2> QED
      BY <1>3, <1>4, <2>1, <2>2, <2>3
  <1>14. CASE AfterCacheRead(t)
    <2>1. PICK s \in {"unlock", "idle"} : pc' = [pc EXCEPT ![t] = s]
      BY <1>14 DEF AfterCacheRead
    <2>2. pc[t] = "reading" /\ UNCHANGED <<call, waitOn>>
      BY <1>14 DEF AfterCacheRead
    <2>3. call[t].fn = "read"
      BY <2>2 DEF CallInv, AtReadPoint
    <2> QED
      BY <1>3, <1>4, <2>1, <2>2, <2>3
  <1>15. CASE LockRead(t) \/ UnlockRead(t)
    <2>1. pc[t] \in {"lock", "unlock"} /\ UNCHANGED <<call, waitOn>>
      BY <1>15 DEF LockRead, UnlockRead, coordinatorVars
    <2>2. call[t].fn = "read"
      BY <2>1 DEF CallInv, AtReadPoint
    <2>3. CASE UNCHANGED pc
      BY <1>2, <2>1, <2>3, CallFrame, ReleaseFrame
    <2>4. CASE pc' # pc
      <3>1. PICK s \in {"pause", "pauseAfter"} : pc' = [pc EXCEPT ![t] = s]
        BY <1>15, <2>4 DEF LockRead, UnlockRead
      <3> QED
        BY <1>3, <1>4, <2>1, <2>2, <3>1
    <2> QED
      BY <2>3, <2>4
  <1> QED
    BY <1>6, <1>7, <1>8, <1>9, <1>10, <1>11, <1>12, <1>13, <1>14, <1>15
       DEF CallStep, ServeStep

\* Every step keeps the calls of the threads and the release of the handlers.
LEMMA ReleaseStep ==
    ASSUME IndInv, [Next]_vars
    PROVE  CallInv' /\ OneReleasePerHandler'
  <1>1. CASE SelectStep /\ UNCHANGED coordinatorVars
    BY <1>1, SelectReleases
  <1>2. ASSUME NEW n \in Names, TimeoutExpires(n), UNCHANGED coordinatorVars
        PROVE  CallInv' /\ OneReleasePerHandler'
    BY <1>2, CallFrame, ReleaseFrame DEF TimeoutExpires, loopVars, threadVars,
                                         coordinatorVars
  <1>3. CASE (\E i \in Actions : RunStep(i)) /\ UNCHANGED coordinatorVars
    BY <1>3, RunReleases
  <1>4. CASE \E t \in Threads : CallStep(t) \/ ServeStep(t)
    BY <1>4, Sent, ThreadReleases
  <1>5. CASE \E t \in Threads, i \in Actions : ConcurrentMapAccess(t, i)
    BY <1>5, CallFrame, ReleaseFrame DEF ConcurrentMapAccess, smVars, loopVars,
                                         threadVars, coordinatorVars
  <1>6. CASE \E k \in Keys : CacheChanges(k)
    BY <1>6, CallFrame, ReleaseFrame DEF CacheChanges, smVars, loopVars, coordinatorVars
  <1>7. CASE UNCHANGED vars
    BY <1>7, CallFrame, ReleaseFrame DEF vars, smVars, loopVars, threadVars,
                                         coordinatorVars
  <1> QED
    BY <1>1, <1>2, <1>3, <1>4, <1>5, <1>6, <1>7 DEF Next, StateMachineNext

-----------------------------------------------------------------------------
\* The initial states satisfy the inductive invariant.
LEMMA InitInv == Init => IndInv
  <1> SUFFICES ASSUME Init PROVE IndInv
    OBVIOUS
  <1> USE DEF Init, StateMachineInit
  <1>1. ProgTypeOK
    <2>1. 1 \in 1 .. Len(Plan) + 1
      BY PlanFacts
    <2> QED
      BY <2>1 DEF ProgTypeOK, Stages
  <1>2. GraphTypeOK
    BY PlanFacts DEF GraphTypeOK
  <1>3. LoopTypeOK /\ QueueTypeOK /\ PauseTypeOK
    BY DEF LoopTypeOK, QueueTypeOK, PauseTypeOK, ChannelStates
  <1>4. ThreadTypeOK
    BY DEF ThreadTypeOK, ThreadStates
  <1>5. CallTypeOK
    BY CoordinatorAssumption DEF CallTypeOK, CoordinatorAssumption
  <1>6. ActionsInOrder
    BY PlanFacts DEF ActionsInOrder
  <1>7. LoopInv
    BY DEF LoopInv
  <1>8. CallInv
    BY DEF CallInv, AtReadPoint
  <1>9. OneReleasePerHandler
    BY DEF OneReleasePerHandler, Queued, Processing
  <1> QED
    BY <1>1, <1>2, <1>3, <1>4, <1>5, <1>6, <1>7, <1>8, <1>9 DEF IndInv, TypeOK

\* IndInv is an invariant of the test coordinator.
THEOREM Invariance == Spec => []IndInv
  <1>1. IndInv /\ [Next]_vars => IndInv'
    BY TypeStep, OrderStep, ReleaseStep DEF IndInv
  <1> QED
    BY InitInv, <1>1, PTL DEF Spec

\* Whatever the plan, the threads and their calls are, the state of the test
\* coordinator keeps its types.
THEOREM TypeCorrect == Spec => []TypeOK
  <1>1. IndInv => TypeOK
    BY DEF IndInv
  <1> QED
    BY Invariance, <1>1, PTL

\* The actions of every plan are run once, in order and one at a time
\* (processNotification and processAsyncDone of state_machine.go).
THEOREM OrderCorrect == Spec => []ActionsInOrder
  <1>1. IndInv => ActionsInOrder
    BY DEF IndInv
  <1> QED
    BY Invariance, <1>1, PTL

\* A handler is blocked if and only if exactly one notification that will release
\* it is in stateNotificationCh or in processNotification (the deferred function
\* of processNotification, the Send...NotificationAndBlock functions).
THEOREM ReleaseCorrect == Spec => []OneReleasePerHandler
  <1>1. IndInv => OneReleasePerHandler
    BY DEF IndInv
  <1> QED
    BY Invariance, <1>1, PTL

-----------------------------------------------------------------------------
(* Nobody is left behind at a gate.                                         *)

\* What leaves the gates and the actions alone and pauses nobody.
LEMMA PauseFrame ==
    ASSUME PauseInv, UNCHANGED <<pauseVars, stage, waitOn>>,
           \A t \in Threads : pc'[t] = "paused" => pc[t] = "paused"
    PROVE  PauseInv'
  BY DEF PauseInv, PausedBehindFlag, pauseVars

\* The state machine starts and ends actions, and pauses nobody.
LEMMA SelectPauses ==
    ASSUME IndInv, PauseInv, SelectStep
    PROVE  PauseInv'
  <1>1. ASSUME NEW n, Release(n)
        PROVE  \A t \in Threads : pc'[t] = "paused" => pc[t] = "paused"
    BY <1>1 DEF Release, IndInv, TypeOK, ThreadTypeOK
  <1>2. ASSUME NEW i \in Actions, NEW s, s # "unlock",
               stage' = [stage EXCEPT ![i] = s], UNCHANGED <<pauseVars, waitOn>>,
               \A t \in Threads : pc'[t] = "paused" => pc[t] = "paused"
        PROVE  PauseInv'
    BY <1>2 DEF PauseInv, PausedBehindFlag, pauseVars, IndInv, TypeOK, ProgTypeOK
  <1>3. CASE ReceiveStateNotification \/ ReceiveTimeoutNotification
    <2>1. ASSUME NEW n, ProcessNotification(n)
          PROVE  \A t \in Threads : pc'[t] = "paused" => pc[t] = "paused"
      BY <1>1, <2>1 DEF ProcessNotification
    <2> QED
      BY <1>3, <2>1, PauseFrame DEF ReceiveStateNotification, ReceiveTimeoutNotification,
                                    progVars
  <1>4. ASSUME NEW n \in Names, SkipTrigger(n) \/ TriggerTwice(n) \/ SatisfyTrigger(n)
        PROVE  PauseInv'
    BY <1>4, PauseFrame DEF SkipTrigger, TriggerTwice, SatisfyTrigger, smVars, progVars,
                            threadVars
  <1>5. ASSUME NEW n \in Names, SatisfyLastTrigger(n)
        PROVE  PauseInv'
    <2>1. nextState \in Actions
      BY <1>5 DEF SatisfyLastTrigger, Visiting, IndInv, LoopInv
    <2>2. \A t \in Threads : pc'[t] = "paused" => pc[t] = "paused"
      BY <1>1, <1>5 DEF SatisfyLastTrigger
    <2> QED
      BY <1>2, <1>5, <2>1, <2>2 DEF SatisfyLastTrigger
  <1>6. CASE EndLoop \/ FinishSyncAction
    BY <1>1, <1>6, PauseFrame DEF EndLoop, FinishSyncAction, progVars
  <1>7. ASSUME NEW i \in Actions, ProcessAsyncDone(i)
        PROVE  PauseInv'
    <2>1. PICK s \in {"readlock", "done"} : stage' = [stage EXCEPT ![i] = s]
      BY <1>7 DEF ProcessAsyncDone
    <2> QED
      BY <1>2, <1>7, <2>1 DEF ProcessAsyncDone, threadVars
  <1> QED
    BY <1>3, <1>4, <1>5, <1>6, <1>7 DEF SelectStep, VisitStep

\* The actions open and close the gates: a flag is cleared only when the channel
\* is closed, and a channel that is closed stays closed.
LEMMA RunPauses ==
    ASSUME IndInv, PauseInv, NEW i \in Actions, RunStep(i)
    PROVE  PauseInv'
  <1> DEFINE g == Plan[i].gate
  <1>1. /\ stage \in [Actions -> Stages] /\ ch \in [Gates -> ChannelStates]
        /\ shouldPause \in [Gates -> BOOLEAN] /\ pc \in [Threads -> ThreadStates]
        /\ g \in Gates /\ AfterEffect(i) # "unlock"
        /\ \A j \in Actions : Plan[j].gate \in Gates
    BY PlanFacts DEF IndInv, TypeOK, ProgTypeOK, PauseTypeOK, ThreadTypeOK, AfterEffect
  <1> HIDE DEF g
  <1>2. CASE Pause(i)
    <2>1. /\ ch' = [ch EXCEPT ![g] = IF @ = "none" THEN "open" ELSE @]
          /\ shouldPause' = [shouldPause EXCEPT ![g] = TRUE]
          /\ stage' = [stage EXCEPT ![i] = AfterEffect(i)] /\ UNCHANGED <<pc, waitOn>>
      BY <1>2 DEF Pause, ProgressTo, threadVars, g
    <2> QED
      BY <1>1, <2>1 DEF PauseInv, PausedBehindFlag
  <1>3. CASE AvoidOngoingRead(i)
    <2>1. stage' = [stage EXCEPT ![i] = "done"] /\ UNCHANGED <<ch, shouldPause, pc, waitOn>>
      BY <1>3 DEF AvoidOngoingRead, ProgressTo, pauseVars, threadVars
    <2> QED
      BY <1>1, <2>1 DEF PauseInv, PausedBehindFlag
  <1>4. ASSUME NEW t \in Threads, ResumeAPIServerSend(i, t)
        PROVE  PauseInv'
    <2>1. /\ stage' = [stage EXCEPT ![i] = "close"] /\ UNCHANGED <<ch, shouldPause, waitOn>>
          /\ pc' = [pc EXCEPT ![t] = "idle"]
      BY <1>4 DEF ResumeAPIServerSend, ProgressTo, pauseVars
    <2> QED
      BY <1>1, <2>1 DEF PauseInv, PausedBehindFlag
  <1>5. CASE ResumeAPIServerClose(i)
    <2>1. /\ stage' = [stage EXCEPT ![i] = "unlock"] /\ ch' = [ch EXCEPT ![g] = "closed"]
          /\ UNCHANGED <<shouldPause, pc, waitOn>>
      BY <1>5 DEF ResumeAPIServerClose, ProgressTo, threadVars, g
    <2> QED
      BY <1>1, <2>1 DEF PauseInv, PausedBehindFlag, g
  <1>6. CASE ResumeAPIServerUnlock(i)
    <2>1. /\ stage' = [stage EXCEPT ![i] = AfterEffect(i)] /\ ch[g] = "closed"
          /\ shouldPause' = [shouldPause EXCEPT ![g] = FALSE]
          /\ UNCHANGED <<ch, pc, waitOn>>
      BY <1>6 DEF ResumeAPIServerUnlock, ProgressTo, threadVars, PauseInv, g
    <2> QED
      BY <1>1, <2>1 DEF PauseInv, PausedBehindFlag
  <1>7. CASE ResumeController(i)
    <2>1. /\ stage' = [stage EXCEPT ![i] = AfterEffect(i)]
          /\ ch' = [ch EXCEPT ![g] = "closed"]
          /\ shouldPause' = [shouldPause EXCEPT ![g] = FALSE] /\ UNCHANGED <<pc, waitOn>>
      BY <1>7 DEF ResumeController, ProgressTo, threadVars, g
    <2> QED
      BY <1>1, <2>1 DEF PauseInv, PausedBehindFlag
  <1>8. CASE ResumePanics(i)
    BY <1>8, PauseFrame DEF ResumePanics, smVars, progVars, threadVars
  <1>9. CASE RestartController(i)
    <2>1. /\ stage' = [stage EXCEPT ![i] = AfterEffect(i)]
          /\ UNCHANGED <<ch, shouldPause, waitOn>>
          /\ \A t \in Threads : pc'[t] = "paused" => pc[t] = "paused"
      BY <1>9 DEF RestartController, ProgressTo, pauseVars
    <2> QED
      BY <1>1, <2>1 DEF PauseInv, PausedBehindFlag
  <1> QED
    BY <1>2, <1>3, <1>4, <1>5, <1>6, <1>7, <1>8, <1>9 DEF RunStep

\* A thread is paused only at a gate that is flagged.
LEMMA ThreadPauses ==
    ASSUME IndInv, PauseInv, NEW t \in Threads, CallStep(t) \/ ServeStep(t)
    PROVE  PauseInv'
  <1>1. UNCHANGED <<pauseVars, stage>>
    BY DEF CallStep, Notify, UnobservedWrite, RestRead, BeforeCacheRead, ServeStep,
           SendNotificationAndBlock, StoreObject, ProcessPause, EndPause, LockRead,
           AfterCacheRead, UnlockRead, smVars, progVars
  <1>2. pc \in [Threads -> ThreadStates] /\ waitOn \in [Threads -> Gates \cup {<<>>}]
    BY DEF IndInv, TypeOK, ThreadTypeOK
  <1>3. ASSUME NEW s, s # "paused", pc' = [pc EXCEPT ![t] = s], UNCHANGED waitOn
        PROVE  PauseInv'
    BY <1>1, <1>2, <1>3, PauseFrame
  <1>4. CASE CallStep(t)
    BY <1>1, <1>3, <1>4, PauseFrame DEF CallStep, Notify, UnobservedWrite, RestRead,
                                        BeforeCacheRead, threadVars
  <1>5. CASE SendNotificationAndBlock(t) \/ LockRead(t) \/ AfterCacheRead(t)
    BY <1>3, <1>5 DEF SendNotificationAndBlock, LockRead, AfterCacheRead
  <1>6. CASE UnlockRead(t)
    BY <1>1, <1>3, <1>6, PauseFrame DEF UnlockRead
  <1>7. CASE StoreObject(t) \/ EndPause(t)
    <2>1. UNCHANGED waitOn /\ \E s \in {"pause", "reading", "idle"} : pc' = [pc EXCEPT ![t] = s]
      BY <1>7 DEF StoreObject, EndPause, AfterPause, Return
    <2> QED
      BY <1>3, <2>1
  <1>8. ASSUME ProcessPause(t), StoppedBy(call[t], PausePoint(t)) = {}
        PROVE  PauseInv'
    <2>1. UNCHANGED waitOn /\ \E s \in {"reading", "idle"} : pc' = [pc EXCEPT ![t] = s]
      BY <1>8 DEF ProcessPause, AfterPause, Return
    <2> QED
      BY <1>3, <2>1
  <1>9. ASSUME ProcessPause(t), StoppedBy(call[t], PausePoint(t)) # {}
        PROVE  PauseInv'
    <2>1. PICK g \in StoppedBy(call[t], PausePoint(t)) :
             waitOn' = [waitOn EXCEPT ![t] = g] /\ pc' = [pc EXCEPT ![t] = "paused"]
      BY <1>9 DEF ProcessPause
    <2>2. g \in Gates /\ shouldPause[g]
      BY <1>9, StoppedByGates DEF ProcessPause, StoppedBy, Flagged
    <2> QED
      BY <1>1, <1>2, <2>1, <2>2 DEF PauseInv, PausedBehindFlag, pauseVars
  <1> QED
    BY <1>4, <1>5, <1>6, <1>7, <1>8, <1>9 DEF ServeStep

\* For every plan, a thread that is paused waits at a gate whose channel is closed,
\* so that it goes on, or whose flag still waits for a resume action
\* (ResumeAPIServerAction and ResumeControllerAction of test_plan.go).
THEOREM PauseCorrect == Spec => []PausedBehindFlag
  <1>1. Init => PauseInv
    BY DEF Init, StateMachineInit, PauseInv, PausedBehindFlag
  <1>2. IndInv /\ PauseInv /\ [Next]_vars => PauseInv'
    <2> SUFFICES ASSUME IndInv, PauseInv, [Next]_vars
                 PROVE  PauseInv'
      OBVIOUS
    <2>1. CASE SelectStep
      BY <2>1, SelectPauses
    <2>2. CASE \E n \in Names : TimeoutExpires(n)
      BY <2>2, PauseFrame DEF TimeoutExpires, progVars, threadVars
    <2>3. CASE \E i \in Actions : RunStep(i)
      BY <2>3, RunPauses
    <2>4. CASE \E t \in Threads : CallStep(t) \/ ServeStep(t)
      BY <2>4, ThreadPauses
    <2>5. CASE \E t \in Threads, i \in Actions : ConcurrentMapAccess(t, i)
      BY <2>5, PauseFrame DEF ConcurrentMapAccess, smVars, progVars, threadVars
    <2>6. CASE \E k \in Keys : CacheChanges(k)
      BY <2>6, PauseFrame DEF CacheChanges, smVars, progVars
    <2>7. CASE UNCHANGED vars
      BY <2>7, PauseFrame DEF vars, smVars, progVars, threadVars
    <2> QED
      BY <2>1, <2>2, <2>3, <2>4, <2>5, <2>6, <2>7 DEF Next, StateMachineNext
  <1>3. PauseInv => PausedBehindFlag
    BY DEF PauseInv
  <1> QED
    BY Invariance, <1>1, <1>2, <1>3, PTL DEF Spec

-----------------------------------------------------------------------------
(* The counters of the triggers are exact.                                  *)

\* What PlanAssumption says of the triggers of an action.
LEMMA LiteralFacts ==
    ASSUME NEW i \in Actions
    PROVE  /\ IsTriggerGraph(Plan[i].graph)
           /\ \A n \in Literals(i) :
                /\ n \in Plan[i].graph.nodes /\ n \in DOMAIN Plan[i].defs
                /\ n \in Names
                /\ Plan[i].graph.type[n] = "Literal"
                /\ Plan[i].defs[n].occurrence \in Nat
  <1>1. Plan[i].graph.nodes \subseteq Names
    BY PlanFacts
  <1> QED
    BY <1>1, PlanAssumption DEF PlanAssumption, Literals

\* The part of CountInv that is about the graph of one action, and the part that
\* is about its counters.
GraphPart(i, T, S) ==
    /\ T \subseteq Plan[i].graph.nodes
    /\ \A n \in Literals(i) :
         /\ n \in T => n \notin S
         /\ n \in T \cup S => Plan[i].graph.pred[n] \subseteq S

CountPart(i, S, count) ==
    \A n \in Literals(i) :
        LET d == Plan[i].defs[n]
        IN  d.cond # "onTimeout" /\ ~d.anyUpdate /\ d.occurrence > 0 =>
              IF n \in S THEN count[n] = d.occurrence ELSE count[n] < d.occurrence

\* CountInv action by action.
LEMMA CountParts ==
    CountInv <=> \A i \in Actions : /\ GraphPart(i, toSatisfy[i], satisfied[i])
                                    /\ CountPart(i, satisfied[i], occurrence[i])
  BY DEF CountInv, OccurrencesExact, GraphPart, CountPart

\* The same in the next state.
LEMMA CountPartsNext ==
    (\A i \in Actions : /\ GraphPart(i, toSatisfy'[i], satisfied'[i])
                        /\ CountPart(i, satisfied'[i], occurrence'[i])) => CountInv'
  BY DEF CountInv, OccurrencesExact, GraphPart, CountPart

\* trigger() keeps the order of the graph: a literal that it adds has just one
\* predecessor, which was not satisfied before.
LEMMA TriggerInOrder ==
    ASSUME NEW i \in Actions, NEW T, NEW S, GraphPart(i, T, S), NEW t \in T,
           t \in Literals(i), ~TriggerFatal(Plan[i].graph, S, t)
    PROVE  /\ GraphPart(i, ToSatisfyAfter(Plan[i].graph, T, S, t),
                           SatisfiedAfter(Plan[i].graph, S, t))
           /\ t \in SatisfiedAfter(Plan[i].graph, S, t)
           /\ \A n \in Literals(i) :
                n # t => (n \in SatisfiedAfter(Plan[i].graph, S, t) <=> n \in S)
  <1> DEFINE g == Plan[i].graph
             F == Fired(g, S, t)
             A == ToSatisfyAfter(g, T, S, t)
             B == SatisfiedAfter(g, S, t)
  <1>1. /\ IsTriggerGraph(g) /\ t \in g.nodes
        /\ \A n \in Literals(i) : n \in g.nodes /\ g.type[n] = "Literal"
    BY LiteralFacts
  <1>2. t \in F /\ F \subseteq g.nodes /\ \A m \in F : m = t \/ g.type[m] # "Literal"
    BY <1>1, FiredGates
  <1>3. F \cap S = {}
    BY DEF TriggerFatal
  <1>4. B = S \cup F
    BY DEF SatisfiedAfter
  <1>5. \A n : n \in A <=> n \notin F /\ (n \in T \/ \E m \in F : n \in g.succ[m])
    BY DEF ToSatisfyAfter
  <1>6. /\ T \subseteq g.nodes
        /\ \A n \in Literals(i) : /\ n \in T => n \notin S
                                  /\ n \in T \cup S => g.pred[n] \subseteq S
    BY DEF GraphPart
  <1>7. /\ g.succ \in [g.nodes -> SUBSET g.nodes]
        /\ \A m, n \in g.nodes : m \in g.pred[n] <=> n \in g.succ[m]
        /\ \A n \in g.nodes : g.type[n] = "Literal" => \A p, q \in g.pred[n] : p = q
    BY <1>1 DEF IsTriggerGraph
  <1> HIDE DEF g, F, A, B
  <1>8. A \subseteq g.nodes
    BY <1>2, <1>5, <1>6, <1>7
  <1>9. ASSUME NEW n \in Literals(i), n # t
        PROVE  n \notin F /\ (n \in B <=> n \in S)
    BY <1>1, <1>2, <1>4, <1>9
  <1>10. ASSUME NEW n \in Literals(i), n # t, n \in A, n \notin T
         PROVE  n \notin S /\ g.pred[n] \subseteq F
    <2>1. PICK m \in F : n \in g.succ[m]
      BY <1>5, <1>10
    <2>2. m \in g.pred[n] /\ \A p \in g.pred[n] : p = m
      BY <1>1, <1>2, <1>7, <1>10, <2>1
    <2> QED
      BY <1>3, <1>6, <2>2
  <1>11. ASSUME NEW n \in Literals(i)
         PROVE  /\ n \in A => n \notin B
                /\ n \in A \cup B => g.pred[n] \subseteq B
    <2>1. CASE n = t
      BY <1>2, <1>4, <1>5, <1>6, <2>1
    <2>2. CASE n # t
      BY <1>4, <1>6, <1>9, <1>10, <2>2
    <2> QED
      BY <2>1, <2>2
  <1>12. GraphPart(i, A, B)
    BY <1>8, <1>11 DEF GraphPart, g
  <1> QED
    BY <1>2, <1>4, <1>9, <1>12 DEF A, B, g


\* satisfy() counts an occurrence of the trigger t that is visited, and no other.
LEMMA CountIs ==
    ASSUME TypeOK, nextState \in Actions, NEW t \in Names, Count(t)
    PROVE  /\ \A i \in Actions : i # nextState => occurrence'[i] = occurrence[i]
           /\ \A n \in Names : n # t => occurrence'[nextState][n] = occurrence[nextState][n]
           /\ occurrence'[nextState][t] =
                IF Defined(t) /\ Counts(Plan[nextState].defs[t], cur)
                THEN occurrence[nextState][t] + 1 ELSE occurrence[nextState][t]
  <1>1. occurrence \in [Actions -> [Names -> Nat]]
    BY DEF TypeOK, GraphTypeOK
  <1>2. CASE Defined(t) /\ Counts(Plan[nextState].defs[t], cur)
    <2>1. occurrence' = [occurrence EXCEPT ![nextState][t] = @ + 1]
      BY <1>2 DEF Count
    <2> QED
      BY <1>1, <1>2, <2>1
  <1>3. CASE ~(Defined(t) /\ Counts(Plan[nextState].defs[t], cur))
    BY <1>3 DEF Count
  <1> QED
    BY <1>2, <1>3

\* A trigger that is visited and not satisfied stays below its occurrence.
LEMMA SkipCounts ==
    ASSUME IndInv, CountInv, NEW t \in Names, SkipTrigger(t)
    PROVE  CountInv'
  <1>1. nextState \in Actions /\ t \in toSatisfy[nextState]
    BY DEF SkipTrigger, Visiting, IndInv, LoopInv
  <1>2. UNCHANGED <<toSatisfy, satisfied>> /\ Count(t) /\ ~SatisfiedBy(t)
    BY DEF SkipTrigger
  <1>3. TypeOK /\ occurrence \in [Actions -> [Names -> Nat]]
    BY DEF IndInv, TypeOK, GraphTypeOK
  <1>4. ASSUME NEW i \in Actions
        PROVE  CountPart(i, satisfied[i], occurrence'[i])
    <2>1. CASE i # nextState
      BY <1>1, <1>2, <1>3, <2>1, CountIs, CountParts
    <2>2. CASE i = nextState
      <3> SUFFICES ASSUME NEW n \in Literals(i), NEW d, d = Plan[i].defs[n],
                          d.cond # "onTimeout", ~d.anyUpdate, d.occurrence > 0
                   PROVE  IF n \in satisfied[i] THEN occurrence'[i][n] = d.occurrence
                                                ELSE occurrence'[i][n] < d.occurrence
        BY DEF CountPart
      <3>1. n \in Names /\ d.occurrence \in Nat /\ n \in DOMAIN Plan[i].defs
        BY LiteralFacts
      <3>2. IF n \in satisfied[i] THEN occurrence[i][n] = d.occurrence
                                  ELSE occurrence[i][n] < d.occurrence
        BY CountParts DEF CountPart
      <3>3. CASE n # t
        BY <1>1, <1>2, <1>3, <2>2, <3>1, <3>2, <3>3, CountIs
      <3>4. CASE n = t
        <4>1. n \notin satisfied[i]
          BY <1>1, <2>2, <3>4, CountParts DEF GraphPart
        <4>2. occurrence[i][n] \in Nat
          BY <1>3, <3>1
        <4>3. CASE Defined(t) /\ Counts(Plan[nextState].defs[t], cur)
          <5>1. occurrence[i][n] + 1 # d.occurrence
            BY <1>2, <2>2, <3>4, <4>3 DEF SatisfiedBy, Satisfies
          <5>2. occurrence'[i][n] = occurrence[i][n] + 1
            BY <1>1, <1>2, <1>3, <2>2, <3>4, <4>3, CountIs
          <5> QED
            BY <3>1, <3>2, <4>1, <4>2, <5>1, <5>2
        <4>4. CASE ~(Defined(t) /\ Counts(Plan[nextState].defs[t], cur))
          BY <1>1, <1>2, <1>3, <2>2, <3>2, <3>4, <4>4, CountIs
        <4> QED
          BY <4>3, <4>4
      <3> QED
        BY <3>3, <3>4
    <2> QED
      BY <2>1, <2>2
  <1> QED
    BY <1>2, <1>4, CountParts, CountPartsNext

\* A trigger that is satisfied has just reached its occurrence.
LEMMA SatisfyCounts ==
    ASSUME IndInv, CountInv, NEW t \in Names, Visiting(t), SatisfiedBy(t),
           TriggerNode(t), Count(t)
    PROVE  CountInv'
  <1> DEFINE T == ToSatisfyAfter(Plan[nextState].graph, toSatisfy[nextState],
                                 satisfied[nextState], t)
             S == SatisfiedAfter(Plan[nextState].graph, satisfied[nextState], t)
  <1>1. nextState \in Actions /\ t \in toSatisfy[nextState]
    BY DEF Visiting, IndInv, LoopInv
  <1>2. /\ TypeOK /\ occurrence \in [Actions -> [Names -> Nat]]
        /\ toSatisfy \in [Actions -> SUBSET Names] /\ satisfied \in [Actions -> SUBSET Names]
    BY DEF IndInv, TypeOK, GraphTypeOK
  <1>3. /\ \A i \in Actions : i # nextState => /\ toSatisfy'[i] = toSatisfy[i]
                                               /\ satisfied'[i] = satisfied[i]
        /\ toSatisfy'[nextState] = T /\ satisfied'[nextState] = S
        /\ ~TriggerFatal(Plan[nextState].graph, satisfied[nextState], t)
    BY <1>1, <1>2 DEF TriggerNode
  <1>4. t \in Literals(nextState)
    BY <1>1 DEF SatisfiedBy, Defined, Literals, CountInv
  <1>5. GraphPart(nextState, toSatisfy[nextState], satisfied[nextState])
    BY <1>1, CountParts
  <1>6. /\ GraphPart(nextState, T, S) /\ t \in S
        /\ \A n \in Literals(nextState) : n # t => (n \in S <=> n \in satisfied[nextState])
    BY <1>1, <1>3, <1>4, <1>5, TriggerInOrder
  <1> HIDE DEF S, T
  <1>7. CountPart(nextState, S, occurrence'[nextState])
    <2> SUFFICES ASSUME NEW n \in Literals(nextState), NEW d, d = Plan[nextState].defs[n],
                        d.cond # "onTimeout", ~d.anyUpdate, d.occurrence > 0
                 PROVE  IF n \in S THEN occurrence'[nextState][n] = d.occurrence
                                   ELSE occurrence'[nextState][n] < d.occurrence
      BY DEF CountPart
    <2>1. n \in Names
      BY <1>1, LiteralFacts
    <2>2. IF n \in satisfied[nextState] THEN occurrence[nextState][n] = d.occurrence
                                        ELSE occurrence[nextState][n] < d.occurrence
      BY <1>1, CountParts DEF CountPart
    <2>3. CASE n # t
      BY <1>1, <1>2, <1>6, <2>1, <2>2, <2>3, CountIs
    <2>4. CASE n = t
      <3>1. Counts(d, cur) /\ occurrence[nextState][n] + 1 = d.occurrence
        BY <2>4 DEF SatisfiedBy, Satisfies
      <3>2. occurrence'[nextState][n] = occurrence[nextState][n] + 1
        BY <1>1, <1>2, <2>4, <3>1, CountIs DEF SatisfiedBy
      <3> QED
        BY <1>6, <2>4, <3>1, <3>2
    <2> QED
      BY <2>3, <2>4
  <1>8. ASSUME NEW i \in Actions
        PROVE  /\ GraphPart(i, toSatisfy'[i], satisfied'[i])
               /\ CountPart(i, satisfied'[i], occurrence'[i])
    <2>1. CASE i = nextState
      BY <1>3, <1>6, <1>7, <2>1
    <2>2. CASE i # nextState
      BY <1>1, <1>2, <1>3, <2>2, CountIs, CountParts
    <2> QED
      BY <2>1, <2>2
  <1> QED
    BY <1>8, CountPartsNext

\* For every plan, a trigger is satisfied by exactly the desired occurrence of its
\* condition, and is not counted any more after that (satisfy of state_machine.go,
\* trigger of trigger_graph.go).
THEOREM CountCorrect == Spec => []OccurrencesExact
  <1>1. Init => CountInv
    <2> SUFFICES ASSUME Init PROVE CountInv
      OBVIOUS
    <2>1. /\ toSatisfy = [i \in Actions |-> Plan[i].graph.sources]
          /\ satisfied = [i \in Actions |-> {}]
          /\ occurrence = [i \in Actions |-> [n \in Names |-> 0]]
      BY DEF Init, StateMachineInit
    <2>2. ASSUME NEW i \in Actions
          PROVE  /\ GraphPart(i, toSatisfy[i], satisfied[i])
                 /\ CountPart(i, satisfied[i], occurrence[i])
      <3>1. toSatisfy[i] = Plan[i].graph.sources /\ satisfied[i] = {}
        BY <2>1
      <3>2. \A n \in Literals(i) : occurrence[i][n] = 0
        BY <2>1, LiteralFacts
      <3>3. GraphPart(i, toSatisfy[i], satisfied[i])
        BY <3>1, LiteralFacts DEF GraphPart, IsTriggerGraph
      <3>4. CountPart(i, satisfied[i], occurrence[i])
        BY <3>1, <3>2, LiteralFacts DEF CountPart
      <3> QED
        BY <3>3, <3>4
    <2> QED
      BY <2>2, CountParts
  <1>2. IndInv /\ CountInv /\ [Next]_vars => CountInv'
    <2> SUFFICES ASSUME IndInv, CountInv, [Next]_vars
                 PROVE  CountInv'
      OBVIOUS
    <2>1. CASE UNCHANGED graphVars
      BY <2>1, CountParts, CountPartsNext DEF graphVars
    <2>2. ASSUME NEW t \in Names, VisitStep(t)
          PROVE  CountInv'
      <3>1. CASE SkipTrigger(t)
        BY <3>1, SkipCounts
      <3>2. CASE TriggerTwice(t)
        BY <2>1, <3>2 DEF TriggerTwice, smVars, graphVars
      <3>3. CASE SatisfyTrigger(t) \/ SatisfyLastTrigger(t)
        BY <3>3, SatisfyCounts DEF SatisfyTrigger, SatisfyLastTrigger
      <3> QED
        BY <2>2, <3>1, <3>2, <3>3 DEF VisitStep
    <2>3. CASE UNCHANGED vars
      BY <2>1, <2>3 DEF vars, smVars
    <2>4. CASE StateMachineNext
      <3>1. CASE \/ ReceiveStateNotification \/ ReceiveTimeoutNotification
                 \/ EndLoop \/ FinishSyncAction
                 \/ \E i \in Actions : ProcessAsyncDone(i)
                 \/ \E n \in Names : TimeoutExpires(n)
        BY <2>1, <3>1 DEF ReceiveStateNotification, ReceiveTimeoutNotification, EndLoop,
                          FinishSyncAction, ProcessAsyncDone, TimeoutExpires
      <3>2. CASE \E i \in Actions : RunStep(i)
        <4>1. UNCHANGED graphVars
          BY <3>2 DEF RunStep, Pause, AvoidOngoingRead, ResumeAPIServerSend,
               ResumeAPIServerClose, ResumeAPIServerUnlock, ResumeController,
               ResumePanics, RestartController, unchangedByActions, smVars, graphVars
        <4> QED
          BY <2>1, <4>1
      <3> QED
        BY <2>1, <2>2, <2>4, <3>1, <3>2 DEF StateMachineNext, SelectStep
    <2>5. CASE \E t \in Threads : CallStep(t) \/ ServeStep(t)
      <3>1. ASSUME NEW t \in Threads, CallStep(t)
            PROVE  UNCHANGED graphVars
        BY <3>1 DEF CallStep, Notify, UnobservedWrite, RestRead, BeforeCacheRead, smVars
      <3>2. ASSUME NEW t \in Threads, ServeStep(t)
            PROVE  UNCHANGED graphVars
        BY <3>2 DEF ServeStep, SendNotificationAndBlock, StoreObject, ProcessPause,
                    EndPause, LockRead, AfterCacheRead, UnlockRead, smVars
      <3> QED
        BY <2>1, <2>5, <3>1, <3>2
    <2>6. CASE \/ \E t \in Threads, i \in Actions : ConcurrentMapAccess(t, i)
               \/ \E k \in Keys : CacheChanges(k)
      BY <2>1, <2>6 DEF ConcurrentMapAccess, CacheChanges, smVars, graphVars
    <2> QED
      BY <2>3, <2>4, <2>5, <2>6 DEF Next
  <1>3. CountInv => OccurrencesExact
    BY DEF CountInv
  <1> QED
    BY Invariance, <1>1, <1>2, <1>3, PTL DEF Spec

-----------------------------------------------------------------------------
(* The previous state in a notification.                                    *)

\* What leaves the calls and the object states alone and sends nothing.
LEMMA DeliveryFrame ==
    ASSUME DeliveryInv, UNCHANGED <<call, prev, objectStates>>,
           process' = 0 => process = 0,
           \A t \in Threads : /\ pc'[t] \in {"send", "blocked"} => pc[t] \in {"send", "blocked"}
                              /\ pc'[t] = "store" => pc[t] \in {"send", "blocked", "store"}
                              /\ pc'[t] # "idle" => pc[t] # "idle"
    PROVE  DeliveryInv'
  BY ThreadAssumption DEF DeliveryInv, PrevStateIsLatest, ThreadAssumption

\* The entries for the points at which events are received are not touched by the
\* refresh after a read.
LEMMA RefreshKeepsEvents ==
    ASSUME TypeOK, NEW b \in Observers, NEW K, NEW o, RefreshObjects(b, K, o)
    PROVE  \A x \in Observers, w \in RecvPoints, k \in Keys :
              objectStates'[x][w][k] = objectStates[x][w][k]
  <1>1. objectStates \in [Observers -> [Points -> [Keys -> Objects]]]
    BY DEF TypeOK, CallTypeOK
  <1>2. \A w \in RecvPoints : w \in Points /\ w \notin WritePoints
    BY DEF RecvPoints, Points, WritePoints
  <1> QED
    BY <1>1, <1>2 DEF RefreshObjects

\* The state machine releases only handlers that are blocked.
LEMMA SelectDelivers ==
    ASSUME IndInv, DeliveryInv, StateMachineNext, UNCHANGED coordinatorVars
    PROVE  DeliveryInv'
  <1>1. pc \in [Threads -> ThreadStates]
    BY DEF IndInv, TypeOK, ThreadTypeOK
  <1>2. UNCHANGED <<call, prev, objectStates>>
    BY DEF coordinatorVars
  <1>3. ASSUME NEW n \in StateNotifications \cup TimeoutNotifications, Release(n),
               n.op # "timeout" => pc[n.thread] = "blocked", UNCHANGED process
        PROVE  DeliveryInv'
    BY <1>1, <1>2, <1>3, DeliveryFrame DEF Release
  <1>4. ASSUME UNCHANGED <<pc, process>>
        PROVE  DeliveryInv'
    BY <1>2, <1>4, DeliveryFrame
  <1>5. ASSUME smPc # "select"
        PROVE  /\ cur \in StateNotifications \cup TimeoutNotifications
               /\ cur.op # "timeout" => pc[cur.thread] = "blocked"
    <2>1. cur \in StateNotifications \cup TimeoutNotifications
      BY <1>5 DEF IndInv, LoopInv
    <2>2. ASSUME cur.op # "timeout" PROVE cur.thread \in Threads
      BY <2>1, <2>2 DEF StateNotifications, TimeoutNotifications
    <2> QED
      BY <1>5, <2>1, <2>2 DEF IndInv, OneReleasePerHandler, Processing
  <1>6. CASE ReceiveStateNotification
    <2>1. /\ Head(stateCh) \in StateNotifications /\ 1 \in DOMAIN stateCh
          /\ Head(stateCh) = stateCh[1]
      BY <1>6 DEF ReceiveStateNotification, IndInv, TypeOK, QueueTypeOK
    <2>2. Head(stateCh).thread \in Threads
      BY <2>1 DEF StateNotifications
    <2>3. pc[Head(stateCh).thread] = "blocked"
      BY <2>1, <2>2 DEF IndInv, OneReleasePerHandler, Queued
    <2> QED
      BY <1>3, <1>4, <1>6, <2>1, <2>3 DEF ReceiveStateNotification, ProcessNotification
  <1>7. CASE ReceiveTimeoutNotification
    <2>1. PICK n : n = [op |-> "timeout", name |-> Head(timeoutCh)]
      OBVIOUS
    <2>2. n.op = "timeout"
      BY <2>1
    <2>3. UNCHANGED <<pc, process>>
      BY <1>7, <2>1, <2>2 DEF ReceiveTimeoutNotification, ProcessNotification, Release
    <2> QED
      BY <1>4, <2>3
  <1>8. ASSUME NEW n \in Names, VisitStep(n)
        PROVE  DeliveryInv'
    <2>1. CASE SkipTrigger(n) \/ TriggerTwice(n) \/ SatisfyTrigger(n)
      BY <1>4, <2>1 DEF SkipTrigger, TriggerTwice, SatisfyTrigger, threadVars
    <2>2. CASE SatisfyLastTrigger(n)
      <3>1. smPc # "select" /\ (Release(cur) \/ UNCHANGED pc) /\ UNCHANGED process
        BY <2>2 DEF SatisfyLastTrigger, Visiting
      <3> QED
        BY <1>3, <1>4, <1>5, <3>1
    <2> QED
      BY <1>8, <2>1, <2>2 DEF VisitStep
  <1>9. CASE EndLoop \/ FinishSyncAction
    <2>1. smPc # "select" /\ Release(cur) /\ UNCHANGED process
      BY <1>9 DEF EndLoop, FinishSyncAction
    <2> QED
      BY <1>3, <1>5, <2>1
  <1>10. CASE \/ \E i \in Actions : ProcessAsyncDone(i)
              \/ \E n \in Names : TimeoutExpires(n)
    BY <1>4, <1>10 DEF ProcessAsyncDone, TimeoutExpires, threadVars
  <1>11. ASSUME NEW i \in Actions, RunStep(i)
         PROVE  DeliveryInv'
    <2>1. CASE \E t \in Threads : ResumeAPIServerSend(i, t)
      BY <1>1, <1>2, <2>1, DeliveryFrame DEF ResumeAPIServerSend
    <2>2. CASE RestartController(i)
      <3>1. process' # 0
        BY <2>2 DEF RestartController, IndInv, TypeOK, ThreadTypeOK
      <3> QED
        BY <1>1, <1>2, <2>2, <3>1, DeliveryFrame DEF RestartController
    <2>3. CASE \/ Pause(i) \/ AvoidOngoingRead(i) \/ ResumeAPIServerClose(i)
               \/ ResumeAPIServerUnlock(i) \/ ResumeController(i) \/ ResumePanics(i)
      BY <1>4, <2>3 DEF Pause, AvoidOngoingRead, ResumeAPIServerClose,
             ResumeAPIServerUnlock, ResumeController, ResumePanics, threadVars
    <2> QED
      BY <1>11, <2>1, <2>2, <2>3 DEF RunStep
  <1> QED
    BY <1>6, <1>7, <1>8, <1>9, <1>10, <1>11 DEF StateMachineNext, SelectStep

\* A handler that stores the state of an object is the only one of its observation
\* point and object (DeliveryAssumption), in the controller as long as all the calls
\* come from its first process.
LEMMA ThreadDelivers ==
    ASSUME IndInv, DeliveryInv, NEW t \in Threads, CallStep(t) \/ ServeStep(t)
    PROVE  DeliveryInv'
  <1>1. /\ pc \in [Threads -> ThreadStates] /\ TypeOK
        /\ call \in [Threads -> CallRecords \cup {NoCall}]
        /\ prev \in [Threads -> Objects]
        /\ objectStates \in [Observers -> [Points -> [Keys -> Objects]]]
    BY DEF IndInv, TypeOK, ThreadTypeOK, CallTypeOK
  <1>0. /\ UNCHANGED process
        /\ t \in CtlThreads /\ process = 0 => pc[t] = "idle" \/ Process[t] = 0
        /\ CallStep(t) => Alive(t)
    BY DEF CallStep, ServeStep, Notify, UnobservedWrite, RestRead, BeforeCacheRead, threadVars,
           SendNotificationAndBlock, StoreObject, ProcessPause, EndPause, LockRead,
           AfterCacheRead, UnlockRead, DeliveryInv
  <1>2. ASSUME NEW u \in Threads, pc[u] # "idle"
        PROVE  /\ call[u] \in Calls[u]
               /\ call[u].by \in Observers /\ call[u].when \in Points /\ call[u].key \in Keys
               /\ call[u].obj \in Objects
    <2>1. call[u] \in Calls[u]
      BY <1>2 DEF IndInv, CallInv
    <2>2. call[u] \in CallRecords
      BY <1>2, <2>1, CoordinatorAssumption DEF CoordinatorAssumption
    <2> QED
      BY <2>1, <2>2 DEF CallRecords
  <1>3. ASSUME NEW s, s \notin {"send", "blocked", "store"},
               pc' = [pc EXCEPT ![t] = s], UNCHANGED <<objectStates, prev>>,
               \A u \in Threads : u # t => call'[u] = call[u],
               t \in CtlThreads /\ process = 0 /\ s # "idle" => Process[t] = 0
        PROVE  DeliveryInv'
    <2>1. pc'[t] = s /\ \A u \in Threads : u # t => pc'[u] = pc[u]
      BY <1>1, <1>3
    <2> QED
      BY <1>0, <1>3, <2>1, ThreadAssumption DEF DeliveryInv, PrevStateIsLatest, ThreadAssumption
  <1>4. ASSUME NEW c \in Calls[t], Notify(t, c)
        PROVE  DeliveryInv'
    <2>1. /\ pc'[t] \in {"store", "send"} /\ \A u \in Threads : u # t => pc'[u] = pc[u]
          /\ call'[t] = c /\ c.fn = "notify" /\ \A u \in Threads : u # t => call'[u] = call[u]
          /\ prev'[t] = objectStates[c.by][c.when][c.key]
          /\ \A u \in Threads : u # t => prev'[u] = prev[u]
          /\ UNCHANGED objectStates
      BY <1>1, <1>4 DEF Notify
    <2>2. t \in CtlThreads /\ process = 0 => Process[t] = 0
      BY <1>4 DEF Notify, Alive
    <2> QED
      BY <1>0, <2>1, <2>2, ThreadAssumption DEF DeliveryInv, PrevStateIsLatest, ThreadAssumption
  <1>5. ASSUME NEW c \in Calls[t], UnobservedWrite(t, c) \/ BeforeCacheRead(t, c)
        PROVE  DeliveryInv'
    <2>1. /\ \E s \in {"pause", "lock", "reading"} : pc' = [pc EXCEPT ![t] = s]
          /\ UNCHANGED <<objectStates, prev>> /\ call' = [call EXCEPT ![t] = c]
          /\ t \in CtlThreads /\ process = 0 => Process[t] = 0
      BY <1>5 DEF UnobservedWrite, BeforeCacheRead, Alive
    <2> QED
      BY <1>1, <1>3, <2>1
  <1>6. ASSUME NEW s, s \notin {"send", "blocked", "store"}, pc' = [pc EXCEPT ![t] = s],
               UNCHANGED <<call, prev>>,
               \A x \in Observers, w \in RecvPoints, k \in Keys :
                  objectStates'[x][w][k] = objectStates[x][w][k],
               t \in CtlThreads /\ process = 0 /\ s # "idle" => Process[t] = 0
        PROVE  DeliveryInv'
    <2>1. pc'[t] = s /\ \A u \in Threads : u # t => pc'[u] = pc[u]
      BY <1>1, <1>6
    <2>2. ASSUME NEW u \in Threads, pc'[u] \in {"send", "blocked"}, call[u].when \in RecvPoints,
                 u \notin CtlThreads \/ process = 0
          PROVE  prev[u] = objectStates'[call[u].by][call[u].when][call[u].key]
      <3>1. pc[u] \in {"send", "blocked"} /\ pc[u] # "idle"
        BY <1>6, <2>1, <2>2
      <3>2. prev[u] = objectStates[call[u].by][call[u].when][call[u].key]
        BY <2>2, <3>1 DEF DeliveryInv, PrevStateIsLatest
      <3> QED
        BY <1>2, <1>6, <2>2, <3>1, <3>2
    <2> QED
      BY <1>0, <1>6, <2>1, <2>2, ThreadAssumption DEF DeliveryInv, PrevStateIsLatest, ThreadAssumption
  <1>7. ASSUME NEW c \in Calls[t], RestRead(t, c)
        PROVE  DeliveryInv'
    <2>1. c.by \in Observers
      BY CoordinatorAssumption DEF CoordinatorAssumption, CallRecords
    <2>2. \A x \in Observers, w \in RecvPoints, k \in Keys :
             objectStates'[x][w][k] = objectStates[x][w][k]
      BY <1>1, <1>7, <2>1, RefreshKeepsEvents DEF RestRead
    <2>3. pc' = [pc EXCEPT ![t] = "idle"] /\ UNCHANGED <<call, prev>>
      BY <1>1, <1>7 DEF RestRead, threadVars
    <2> QED
      BY <1>6, <2>2, <2>3
  <1>8. CASE SendNotificationAndBlock(t)
    BY <1>0, <1>1, <1>8, ThreadAssumption DEF SendNotificationAndBlock, coordinatorVars,
                      DeliveryInv, PrevStateIsLatest, ThreadAssumption
  <1>9. CASE StoreObject(t)
    <2>1. /\ call[t] \in Calls[t] /\ call[t].fn = "notify" /\ pc[t] = "store"
          /\ call[t].by \in Observers /\ call[t].when \in Points /\ call[t].key \in Keys
      BY <1>2, <1>9 DEF StoreObject, DeliveryInv
    <2>2. PICK s \in {"pause", "idle"} : pc' = [pc EXCEPT ![t] = s]
      BY <1>9 DEF StoreObject, Return
    <2>3. UNCHANGED <<call, prev>>
      BY <1>9 DEF StoreObject
    <2>4. ASSUME NEW u \in Threads, u # t, pc[u] \in {"send", "blocked"},
                 call[u].when \in RecvPoints, u \notin CtlThreads \/ process = 0
          PROVE  objectStates'[call[u].by][call[u].when][call[u].key] =
                   objectStates[call[u].by][call[u].when][call[u].key]
      <3>1. /\ call[u] \in Calls[u] /\ call[u].fn = "notify"
            /\ call[u].by \in Observers /\ call[u].when \in Points /\ call[u].key \in Keys
        BY <1>2, <2>4 DEF DeliveryInv
      <3>2. <<call[u].by, call[u].when, call[u].key>> # <<call[t].by, call[t].when, call[t].key>>
        <4>1. {t, u} \subseteq CtlThreads => Process[t] = Process[u]
          BY <2>1, <2>4 DEF DeliveryInv
        <4> QED
          BY <2>1, <2>4, <3>1, <4>1, DeliveryAssumption DEF DeliveryAssumption
      <3>3. CASE call[t].when \in RecvPoints
        <4>1. objectStates' = [objectStates EXCEPT ![call[t].by][call[t].when][call[t].key] =
                                                       call[t].obj]
          BY <1>9, <3>3 DEF StoreObject
        <4> QED
          BY <1>1, <2>1, <3>1, <3>2, <4>1
      <3>4. CASE call[t].when \notin RecvPoints
        BY <1>9, <3>4 DEF StoreObject
      <3> QED
        BY <3>3, <3>4
    <2>5. pc'[t] = s /\ \A u \in Threads : u # t => pc'[u] = pc[u]
      BY <1>1, <2>2
    <2>6. pc[t] # "idle"
      BY <2>1
    <2> QED
      BY <1>0, <2>2, <2>3, <2>4, <2>5, <2>6, ThreadAssumption
         DEF DeliveryInv, PrevStateIsLatest, ThreadAssumption
  <1>10. CASE ProcessPause(t) \/ EndPause(t) \/ LockRead(t) \/ UnlockRead(t)
    <2>1. UNCHANGED <<objectStates, prev, call>>
      BY <1>10 DEF ProcessPause, EndPause, LockRead, UnlockRead, coordinatorVars
    <2>2. \/ UNCHANGED pc
          \/ \E s \in {"idle", "reading", "paused", "pause", "pauseAfter"} :
                pc' = [pc EXCEPT ![t] = s]
      BY <1>10 DEF ProcessPause, EndPause, LockRead, UnlockRead, AfterPause, Return
    <2>3. pc[t] # "idle"
      BY <1>10 DEF ProcessPause, EndPause, LockRead, UnlockRead
    <2> QED
      BY <1>0, <1>3, <2>1, <2>2, <2>3, DeliveryFrame
  <1>11. CASE AfterCacheRead(t)
    <2>1. call[t].by \in Observers
      BY <1>2, <1>11 DEF AfterCacheRead
    <2>2. \A x \in Observers, w \in RecvPoints, k \in Keys :
             objectStates'[x][w][k] = objectStates[x][w][k]
      BY <1>1, <1>11, <2>1, RefreshKeepsEvents DEF AfterCacheRead
    <2>3. /\ UNCHANGED <<call, prev>>
          /\ \E s \in {"unlock", "idle"} : pc' = [pc EXCEPT ![t] = s]
          /\ pc[t] # "idle"
      BY <1>11 DEF AfterCacheRead
    <2> QED
      BY <1>0, <1>6, <2>2, <2>3
  <1> QED
    BY <1>4, <1>5, <1>7, <1>8, <1>9, <1>10, <1>11 DEF CallStep, ServeStep

\* The previous states are kept, and who waits is a handler.
LEMMA DeliveryInvariance == Spec => []DeliveryInv
  <1>1. Init => DeliveryInv
    BY ThreadAssumption DEF Init, DeliveryInv, PrevStateIsLatest, ThreadAssumption
  <1>2. IndInv /\ DeliveryInv /\ [Next]_vars => DeliveryInv'
    <2> SUFFICES ASSUME IndInv, DeliveryInv, [Next]_vars
                 PROVE  DeliveryInv'
      OBVIOUS
    <2>1. CASE StateMachineNext /\ UNCHANGED coordinatorVars
      BY <2>1, SelectDelivers
    <2>2. CASE \E t \in Threads : CallStep(t) \/ ServeStep(t)
      BY <2>2, ThreadDelivers
    <2>3. CASE \E t \in Threads, i \in Actions : ConcurrentMapAccess(t, i)
      BY <2>3, DeliveryFrame DEF ConcurrentMapAccess, threadVars, coordinatorVars
    <2>4. CASE \E k \in Keys : CacheChanges(k)
      BY <2>4, DeliveryFrame DEF CacheChanges, coordinatorVars
    <2>5. CASE UNCHANGED vars
      BY <2>5, DeliveryFrame DEF vars, threadVars, coordinatorVars
    <2> QED
      BY <2>1, <2>2, <2>3, <2>4, <2>5 DEF Next
  <1> QED
    BY Invariance, <1>1, <1>2, PTL DEF Spec

\* For every plan and every set of calls, the previous state that a notification
\* of an event carries is still the last one reported when the notification is
\* processed (ReadFromObjectStates and WriteToObjectStates of test_coordinator.go): at
\* the API servers always, in the controller until a plan restarts it.
THEOREM DeliveryCorrect == Spec => []PrevStateIsLatest
  <1>1. DeliveryInv => PrevStateIsLatest
    BY DEF DeliveryInv
  <1> QED
    BY DeliveryInvariance, <1>1, PTL

-----------------------------------------------------------------------------
(* No read is under way while reads are paused.                             *)

\* Action j has been run, at least in part.
Begun(j) == stage[j] \notin {"idle", "before"}

\* A step of an action moves that action past its start (run()).
LEMMA RunStage ==
    ASSUME IndInv, NEW i \in Actions, RunStep(i)
    PROVE  \/ UNCHANGED stage
           \/ \E s \in {"close", "unlock", "signal", "readlock", "done"} :
                 stage' = [stage EXCEPT ![i] = s]
  <1>1. AfterEffect(i) \in {"close", "unlock", "signal", "readlock", "done"}
    BY DEF AfterEffect
  <1>2. CASE ResumePanics(i)
    BY <1>2 DEF ResumePanics, smVars, progVars, threadVars
  <1>3. CASE ~ResumePanics(i)
    BY <1>1, <1>3 DEF RunStep, Pause, AvoidOngoingRead, ResumeAPIServerSend,
       ResumeAPIServerClose, ResumeAPIServerUnlock, ResumeController, RestartController,
       ProgressTo
  <1> QED
    BY <1>2, <1>3

\* Who changes how far the actions have come, and the gates: the trigger that starts
\* the next action, the end of one that is async, and the action itself.
LEMMA StageCases ==
    ASSUME IndInv, [Next]_vars
    PROVE  \/ UNCHANGED <<stage, pauseVars>>
           \/ /\ nextState \in Actions /\ stage[nextState] = "idle" /\ UNCHANGED pauseVars
              /\ stage' = [stage EXCEPT ![nextState] = "before"]
           \/ \E i \in Actions : ProcessAsyncDone(i)
           \/ \E i \in Actions : RunStep(i)
  <1>1. CASE ReceiveStateNotification \/ ReceiveTimeoutNotification \/ EndLoop \/ FinishSyncAction
    BY <1>1 DEF ReceiveStateNotification, ReceiveTimeoutNotification, EndLoop,
                FinishSyncAction, progVars
  <1>2. ASSUME NEW n \in Names, SkipTrigger(n) \/ TriggerTwice(n) \/ SatisfyTrigger(n)
        PROVE  UNCHANGED <<stage, pauseVars>>
    BY <1>2 DEF SkipTrigger, TriggerTwice, SatisfyTrigger, smVars, progVars, threadVars
  <1>3. ASSUME NEW n \in Names, SatisfyLastTrigger(n)
        PROVE  /\ nextState \in Actions /\ stage[nextState] = "idle" /\ UNCHANGED pauseVars
               /\ stage' = [stage EXCEPT ![nextState] = "before"]
    <2>1. smPc = "visit"
      BY <1>3 DEF SatisfyLastTrigger, Visiting
    <2>2. nextState \in Actions /\ stage[nextState] = "idle"
      BY <2>1 DEF IndInv, LoopInv, ActionsInOrder
    <2> QED
      BY <1>3, <2>2 DEF SatisfyLastTrigger
  <1>4. CASE \E n \in Names : TimeoutExpires(n)
    BY <1>4 DEF TimeoutExpires, progVars
  <1>5. ASSUME NEW t \in Threads, CallStep(t) \/ ServeStep(t)
        PROVE  UNCHANGED <<stage, pauseVars>>
    BY <1>5 DEF CallStep, Notify, UnobservedWrite, RestRead, BeforeCacheRead, ServeStep,
       SendNotificationAndBlock, StoreObject, ProcessPause, EndPause, LockRead,
       AfterCacheRead, UnlockRead, smVars, progVars, threadVars
  <1>6. CASE \E t \in Threads, i \in Actions : ConcurrentMapAccess(t, i)
    BY <1>6 DEF ConcurrentMapAccess, smVars, progVars, threadVars
  <1>7. CASE \E k \in Keys : CacheChanges(k)
    BY <1>7 DEF CacheChanges, smVars, progVars
  <1>8. CASE UNCHANGED vars
    BY <1>8 DEF vars, smVars, progVars
  <1> QED
    BY <1>1, <1>2, <1>3, <1>4, <1>5, <1>6, <1>7, <1>8
       DEF Next, StateMachineNext, SelectStep, VisitStep

\* What has begun stays begun, so that a gate that was opened again and a controller
\* that was restarted stay so.
LEMMA StagesAdvance ==
    ASSUME IndInv, [Next]_vars
    PROVE  /\ \A j \in Actions : Begun(j) => Begun(j)'
           /\ \A i \in Actions : Reopened(i) => Reopened(i)'
           /\ NotRestarted' => NotRestarted
  <1>0. stage \in [Actions -> Stages]
    BY DEF IndInv, TypeOK, ProgTypeOK
  <1>1. \A j \in Actions : Begun(j) => Begun(j)'
    <2>1. CASE \E i \in Actions : ProcessAsyncDone(i)
      <3>1. PICK i \in Actions, s \in {"readlock", "done"} : stage' = [stage EXCEPT ![i] = s]
        BY <2>1 DEF ProcessAsyncDone
      <3> QED
        BY <1>0, <3>1 DEF Begun
    <2>2. ASSUME NEW i \in Actions, RunStep(i)
          PROVE  \A j \in Actions : Begun(j) => Begun(j)'
      BY <1>0, <2>2, RunStage DEF Begun
    <2>3. CASE UNCHANGED <<stage, pauseVars>>
      BY <2>3 DEF Begun
    <2>4. CASE /\ nextState \in Actions /\ stage[nextState] = "idle"
               /\ stage' = [stage EXCEPT ![nextState] = "before"]
      BY <1>0, <2>4 DEF Begun
    <2> QED
      BY <2>1, <2>2, <2>3, <2>4, StageCases
  <1>2. \A i \in Actions : Reopened(i) => Reopened(i)'
    BY <1>1 DEF Reopened, Begun
  <1>3. NotRestarted' => NotRestarted
    BY <1>1 DEF NotRestarted, Begun
  <1> QED
    BY <1>1, <1>2, <1>3

\* Until the reads go on, the controller has not been restarted: the plan has the
\* resume first, and runs its actions in order.
LEMMA RestartComesLater ==
    ASSUME IndInv, ReadsPausedOnce, NEW i \in Actions, PausesReads(i), ~Reopened(i)
    PROVE  NotRestarted
  <1> SUFFICES ASSUME NEW j \in Actions,
                      Plan[j].type \in {"restartController", "reconnectController"},
                      Begun(j)
               PROVE  FALSE
    BY DEF NotRestarted, Begun
  <1>1. PICK k \in Actions : /\ i < k /\ k < j /\ Plan[k].gate = Plan[i].gate
                             /\ Plan[k].type \in {"resumeController", "resumeAPIServer"}
    BY DEF ReadsPausedOnce
  <1>2. ~(j > nextState)
    BY DEF IndInv, ActionsInOrder, Begun
  <1>3. k < nextState
    BY <1>1, <1>2, PlanFacts DEF IndInv, TypeOK, ProgTypeOK
  <1>4. stage[k] \in {"readlock", "done"}
    BY <1>3 DEF IndInv, ActionsInOrder
  <1> QED
    BY <1>1, <1>4, PlanFacts DEF Reopened

\* The state machine and its actions move threads only out of an RPC, and only a
\* restart empties the cache.
LEMMA ServerMoves ==
    ASSUME IndInv, StateMachineNext, UNCHANGED coordinatorVars
    PROVE  /\ UNCHANGED <<call, waitOn, readLock, blindRead>>
           /\ \A t \in Threads : pc'[t] = pc[t] \/ pc'[t] \in {"idle", "store"}
           /\ NotRestarted' => UNCHANGED cache
  <1>0. /\ pc \in [Threads -> ThreadStates] /\ stage \in [Actions -> Stages]
        /\ UNCHANGED call
    BY DEF IndInv, TypeOK, ThreadTypeOK, ProgTypeOK, coordinatorVars
  <1>1. ASSUME NEW n, Release(n)
        PROVE  \A t \in Threads : pc'[t] = pc[t] \/ pc'[t] \in {"idle", "store"}
    BY <1>0, <1>1 DEF Release
  <1>2. CASE ReceiveStateNotification \/ ReceiveTimeoutNotification
    <2>1. ASSUME NEW n, ProcessNotification(n)
          PROVE  \A t \in Threads : pc'[t] = pc[t] \/ pc'[t] \in {"idle", "store"}
      BY <1>1, <2>1 DEF ProcessNotification
    <2> QED
      BY <1>0, <1>2, <2>1 DEF ReceiveStateNotification, ReceiveTimeoutNotification
  <1>3. ASSUME NEW n \in Names, VisitStep(n)
        PROVE  /\ UNCHANGED <<waitOn, readLock, blindRead, cache>>
               /\ \A t \in Threads : pc'[t] = pc[t] \/ pc'[t] \in {"idle", "store"}
    <2>1. CASE SatisfyLastTrigger(n)
      BY <1>1, <2>1 DEF SatisfyLastTrigger
    <2> QED
      BY <1>3, <2>1 DEF VisitStep, SkipTrigger, TriggerTwice, SatisfyTrigger, smVars,
                        progVars, threadVars
  <1>4. CASE EndLoop \/ FinishSyncAction
    BY <1>0, <1>1, <1>4 DEF EndLoop, FinishSyncAction
  <1>5. CASE \E i \in Actions : ProcessAsyncDone(i)
    BY <1>0, <1>5 DEF ProcessAsyncDone, threadVars
  <1>6. CASE \E n \in Names : TimeoutExpires(n)
    BY <1>0, <1>6 DEF TimeoutExpires, threadVars
  <1>7. ASSUME NEW i \in Actions, RunStep(i), ~RestartController(i)
        PROVE  /\ UNCHANGED <<waitOn, readLock, blindRead, cache>>
               /\ \A t \in Threads : pc'[t] = pc[t] \/ pc'[t] \in {"idle", "store"}
    <2>1. CASE \E t \in Threads : ResumeAPIServerSend(i, t)
      BY <1>0, <2>1 DEF ResumeAPIServerSend
    <2> QED
      BY <1>7, <2>1 DEF RunStep, Pause, AvoidOngoingRead, ResumeAPIServerClose,
         ResumeAPIServerUnlock, ResumeController, ResumePanics, smVars, progVars, threadVars
  <1>8. ASSUME NEW i \in Actions, RestartController(i)
        PROVE  /\ UNCHANGED <<waitOn, readLock, blindRead>> /\ ~NotRestarted'
               /\ \A t \in Threads : pc'[t] = pc[t] \/ pc'[t] \in {"idle", "store"}
    <2>1. /\ stage'[i] \notin {"idle", "before"}
          /\ Plan[i].type \in {"restartController", "reconnectController"}
      BY <1>0, <1>8 DEF RestartController, ProgressTo, AfterEffect, Starts
    <2> QED
      BY <1>0, <1>8, <2>1 DEF RestartController, NotRestarted
  <1> QED
    BY <1>0, <1>2, <1>3, <1>4, <1>5, <1>6, <1>7, <1>8 DEF StateMachineNext, SelectStep

\* A thread is paused only at a gate that is flagged (ProcessPause...).
LEMMA PausedAtFlag ==
    ASSUME IndInv, [Next]_vars, NEW t \in Threads, pc'[t] = "paused"
    PROVE  \/ pc[t] = "paused" /\ waitOn'[t] = waitOn[t]
           \/ waitOn'[t] \in Gates /\ shouldPause[waitOn'[t]]
  <1>0. pc \in [Threads -> ThreadStates] /\ waitOn \in [Threads -> Gates \cup {<<>>}]
    BY DEF IndInv, TypeOK, ThreadTypeOK
  <1>1. CASE StateMachineNext /\ UNCHANGED coordinatorVars
    BY <1>1, ServerMoves
  <1>2. ASSUME NEW u \in Threads, CallStep(u) \/ ServeStep(u)
        PROVE  \/ pc[t] = "paused" /\ waitOn'[t] = waitOn[t]
               \/ waitOn'[t] \in Gates /\ shouldPause[waitOn'[t]]
    <2>1. ASSUME NEW s, s # "paused", pc' = [pc EXCEPT ![u] = s], UNCHANGED waitOn
          PROVE  pc[t] = "paused" /\ waitOn'[t] = waitOn[t]
      BY <1>0, <2>1
    <2>2. CASE UNCHANGED <<pc, waitOn>>
      BY <2>2
    <2>3. CASE CallStep(u)
      BY <2>1, <2>2, <2>3 DEF CallStep, Notify, UnobservedWrite, RestRead,
                              BeforeCacheRead, threadVars
    <2>4. CASE SendNotificationAndBlock(u) \/ LockRead(u) \/ AfterCacheRead(u)
      BY <2>1, <2>4 DEF SendNotificationAndBlock, LockRead, AfterCacheRead
    <2>5. CASE UnlockRead(u)
      BY <2>1, <2>2, <2>5 DEF UnlockRead
    <2>6. CASE StoreObject(u) \/ EndPause(u)
      <3>1. /\ UNCHANGED waitOn
            /\ \E s \in {"pause", "reading", "idle"} : pc' = [pc EXCEPT ![u] = s]
        BY <2>6 DEF StoreObject, EndPause, AfterPause, Return
      <3> QED
        BY <2>1, <3>1
    <2>7. ASSUME ProcessPause(u), StoppedBy(call[u], PausePoint(u)) = {}
          PROVE  pc[t] = "paused" /\ waitOn'[t] = waitOn[t]
      <3>1. UNCHANGED waitOn /\ \E s \in {"reading", "idle"} : pc' = [pc EXCEPT ![u] = s]
        BY <2>7 DEF ProcessPause, AfterPause, Return
      <3> QED
        BY <2>1, <3>1
    <2>8. ASSUME ProcessPause(u), StoppedBy(call[u], PausePoint(u)) # {}
          PROVE  \/ pc[t] = "paused" /\ waitOn'[t] = waitOn[t]
                 \/ waitOn'[t] \in Gates /\ shouldPause[waitOn'[t]]
      <3>1. PICK g \in StoppedBy(call[u], PausePoint(u)) :
               waitOn' = [waitOn EXCEPT ![u] = g] /\ pc' = [pc EXCEPT ![u] = "paused"]
        BY <2>8 DEF ProcessPause
      <3>2. g \in Gates /\ shouldPause[g]
        BY <2>8, StoppedByGates DEF ProcessPause, StoppedBy, Flagged
      <3> QED
        BY <1>0, <3>1, <3>2
    <2> QED
      BY <1>2, <2>3, <2>4, <2>5, <2>6, <2>7, <2>8 DEF ServeStep
  <1>3. CASE \E u \in Threads, i \in Actions : ConcurrentMapAccess(u, i)
    BY <1>3 DEF ConcurrentMapAccess, threadVars
  <1>4. CASE \E k \in Keys : CacheChanges(k)
    BY <1>4 DEF CacheChanges
  <1>5. CASE UNCHANGED vars
    BY <1>5 DEF vars, threadVars
  <1> QED
    BY <1>1, <1>2, <1>3, <1>4, <1>5 DEF Next

\* The gate of the reads is made by its only pause, and is left shut until a later
\* action of the plan opens it: an earlier one cannot, there being no channel yet.
LEMMA GateStep ==
    ASSUME IndInv, ReadsPausedOnce, NEW i \in Actions, PausesReads(i), GateInv(i),
           [Next]_vars
    PROVE  GateInv(i)'
  <1> DEFINE g == Plan[i].gate
             Shut == IF stage[i] \in {"idle", "before"} THEN ch[g] = "none"
                     ELSE ~Reopened(i) => ch[g] = "open" /\ shouldPause[g]
             OneFlag == \A h \in Gates :
                           shouldPause[h] /\ h[1] = "beforeControllerRead" => h = g
             Kinds == \A j \in Actions :
                         stage[j] \in {"close", "unlock"} => Plan[j].type = "resumeAPIServer"
  <1>1. /\ stage \in [Actions -> Stages] /\ ch \in [Gates -> ChannelStates]
        /\ shouldPause \in [Gates -> BOOLEAN] /\ g \in Gates
        /\ \A j \in Actions : Plan[j].gate \in Gates
        /\ \A j \in Actions : AfterEffect(j) \in {"signal", "readlock", "done"}
    BY PlanFacts DEF IndInv, TypeOK, ProgTypeOK, PauseTypeOK, AfterEffect
  <1>2. /\ Shut /\ OneFlag /\ Kinds
        /\ Plan[i].type = "pauseController" /\ g[1] = "beforeControllerRead"
    BY DEF GateInv, PausesReads
  <1>3. ASSUME NEW t \in Threads, pc'[t] = "paused", waitOn'[t][1] = "beforeControllerRead"
        PROVE  waitOn'[t] = g
    BY <1>2, <1>3, PausedAtFlag DEF GateInv
  <1>4. SUFFICES (Shut /\ OneFlag /\ Kinds)'
    BY <1>3 DEF GateInv
  <1>5. ASSUME UNCHANGED pauseVars, \A j \in Actions : Begun(j)' <=> Begun(j),
               \A j \in Actions : stage'[j] \in {"close", "unlock"} =>
                                    stage[j] \in {"close", "unlock"}
        PROVE  (Shut /\ OneFlag /\ Kinds)'
    BY <1>2, <1>5, StagesAdvance DEF pauseVars, Begun
  <1>6. CASE UNCHANGED <<stage, pauseVars>>
    <2>1. UNCHANGED pauseVars /\ UNCHANGED stage
      BY <1>6
    <2>2. \A j \in Actions : Begun(j)' <=> Begun(j)
      BY <2>1 DEF Begun
    <2> HIDE DEF Shut, OneFlag, Kinds
    <2> QED
      BY <1>5, <2>1, <2>2
  <1>7. CASE /\ nextState \in Actions /\ stage[nextState] = "idle" /\ UNCHANGED pauseVars
             /\ stage' = [stage EXCEPT ![nextState] = "before"]
    <2>1. \A j \in Actions : Begun(j)' <=> Begun(j)
      BY <1>1, <1>7 DEF Begun
    <2>2. \A j \in Actions : stage'[j] \in {"close", "unlock"} => stage[j] \in {"close", "unlock"}
      BY <1>1, <1>7
    <2> HIDE DEF Shut, OneFlag, Kinds
    <2> QED
      BY <1>5, <1>7, <2>1, <2>2
  <1>8. ASSUME NEW j \in Actions, ProcessAsyncDone(j)
        PROVE  (Shut /\ OneFlag /\ Kinds)'
    <2>1. PICK s \in {"readlock", "done"} : stage' = [stage EXCEPT ![j] = s]
      BY <1>8 DEF ProcessAsyncDone
    <2>2. stage[j] = "signal" /\ UNCHANGED pauseVars
      BY <1>8 DEF ProcessAsyncDone
    <2> QED
      BY <1>1, <1>5, <2>1, <2>2 DEF Begun
  <1>9. ASSUME NEW j \in Actions, RunStep(j)
        PROVE  (Shut /\ OneFlag /\ Kinds)'
    <2>0. Reopened(i) => Reopened(i)'
      BY StagesAdvance
    \* A resume of the gate that takes effect is a later action.
    <2>1. ASSUME Plan[j].gate = g, Begun(i), stage[j] \notin {"idle", "readlock", "done"}, j # i,
                 Plan[j].type \in {"resumeController", "resumeAPIServer"}, Begun(j)'
          PROVE  Reopened(i)'
      <3>1. ~(j < nextState) /\ ~(i > nextState)
        BY <2>1 DEF IndInv, ActionsInOrder, Begun
      <3>2. j > i
        BY <2>1, <3>1, PlanFacts DEF IndInv, TypeOK, ProgTypeOK
      <3> QED
        BY <2>1, <3>2 DEF Reopened, Begun
    <2>2. CASE Pause(j)
      <3>1. /\ ch' = [ch EXCEPT ![Plan[j].gate] = IF @ = "none" THEN "open" ELSE @]
            /\ shouldPause' = [shouldPause EXCEPT ![Plan[j].gate] = TRUE]
            /\ stage' = [stage EXCEPT ![j] = AfterEffect(j)] /\ stage[j] = "before"
            /\ Plan[j].type \in {"pauseAPIServer", "pauseController"}
        BY <2>2 DEF Pause, ProgressTo, Starts
      <3>2. Plan[j].gate[1] = "beforeControllerRead" => j = i
        BY <3>1 DEF ReadsPausedOnce
      <3>3. OneFlag' /\ Kinds'
        BY <1>1, <1>2, <3>1, <3>2
      <3>4. CASE j = i
        BY <1>1, <1>2, <3>1, <3>3, <3>4
      <3>5. CASE j # i
        <4>1. Plan[j].gate # g
          BY <1>2, <3>2, <3>5
        <4>2. ch'[g] = ch[g] /\ shouldPause'[g] = shouldPause[g] /\ stage'[i] = stage[i]
          BY <1>1, <3>1, <3>5, <4>1
        <4> QED
          BY <1>2, <2>0, <3>3, <4>2
      <3> QED
        BY <3>4, <3>5
    <2>3. CASE AvoidOngoingRead(j)
      <3>1. stage' = [stage EXCEPT ![j] = "done"] /\ stage[j] = "readlock" /\ UNCHANGED pauseVars
        BY <2>3 DEF AvoidOngoingRead, ProgressTo
      <3> QED
        BY <1>1, <1>5, <3>1 DEF Begun
    <2>4. ASSUME NEW t \in Threads, ResumeAPIServerSend(j, t)
          PROVE  (Shut /\ OneFlag /\ Kinds)'
      <3>1. /\ stage' = [stage EXCEPT ![j] = "close"] /\ stage[j] = "before"
            /\ Plan[j].type = "resumeAPIServer" /\ UNCHANGED <<ch, shouldPause>>
        BY <2>4 DEF ResumeAPIServerSend, ProgressTo, Starts, pauseVars
      <3>2. stage'[i] = stage[i] /\ Kinds'
        BY <1>1, <1>2, <3>1
      <3> QED
        BY <1>2, <2>0, <3>1, <3>2
    <2>5. CASE ResumeAPIServerClose(j) \/ ResumeController(j)
      <3>1. PICK s \in {"unlock"} \cup {AfterEffect(j)} : stage' = [stage EXCEPT ![j] = s]
        BY <2>5 DEF ResumeAPIServerClose, ResumeController, ProgressTo
      <3>2. /\ ch[Plan[j].gate] = "open" /\ stage[j] \in {"before", "close"}
            /\ ch' = [ch EXCEPT ![Plan[j].gate] = "closed"]
            /\ \/ shouldPause' = shouldPause
               \/ shouldPause' = [shouldPause EXCEPT ![Plan[j].gate] = FALSE]
            /\ Plan[j].type \in {"resumeController", "resumeAPIServer"}
            /\ s = "unlock" => Plan[j].type = "resumeAPIServer"
        BY <1>1, <1>2, <2>5, <3>1 DEF ResumeAPIServerClose, ResumeController, Starts, ProgressTo
      <3>3. j # i /\ Begun(j)'
        BY <1>1, <1>2, <3>1, <3>2 DEF Begun
      <3>4. OneFlag' /\ Kinds'
        BY <1>1, <1>2, <3>1, <3>2
      <3>5. stage'[i] = stage[i]
        BY <1>1, <3>1, <3>3
      <3>6. CASE Plan[j].gate = g
        <4>1. Begun(i)
          BY <1>2, <3>2, <3>6 DEF Begun
        <4>2. Reopened(i)'
          BY <2>1, <3>2, <3>3, <3>6, <4>1
        <4> QED
          BY <3>4, <3>5, <4>1, <4>2 DEF Begun
      <3>7. CASE Plan[j].gate # g
        <4>1. ch'[g] = ch[g] /\ shouldPause'[g] = shouldPause[g]
          BY <1>1, <3>2, <3>7
        <4> QED
          BY <1>2, <2>0, <3>4, <3>5, <4>1
      <3> QED
        BY <3>6, <3>7
    <2>6. CASE ResumeAPIServerUnlock(j)
      <3>1. /\ stage' = [stage EXCEPT ![j] = AfterEffect(j)] /\ stage[j] = "unlock"
            /\ shouldPause' = [shouldPause EXCEPT ![Plan[j].gate] = FALSE] /\ ch' = ch
            /\ Plan[j].type = "resumeAPIServer"
        BY <1>2, <2>6 DEF ResumeAPIServerUnlock, ProgressTo
      <3>2. OneFlag' /\ Kinds' /\ j # i /\ stage'[i] = stage[i] /\ Begun(j)'
        BY <1>1, <1>2, <3>1 DEF Begun
      <3>3. CASE Plan[j].gate = g /\ Begun(i)
        <4>1. Reopened(i)'
          BY <2>1, <3>1, <3>2, <3>3
        <4> QED
          BY <3>2, <3>3, <4>1 DEF Begun
      <3>4. CASE ~Begun(i)
        BY <1>2, <3>1, <3>2, <3>4 DEF Begun
      <3>5. CASE Plan[j].gate # g
        <4>1. ch'[g] = ch[g] /\ shouldPause'[g] = shouldPause[g]
          BY <1>1, <3>1, <3>5
        <4> QED
          BY <1>2, <2>0, <3>2, <4>1
      <3> QED
        BY <3>3, <3>4, <3>5
    <2>7. CASE ResumePanics(j)
      <3>1. UNCHANGED <<stage, pauseVars>>
        BY <2>7 DEF ResumePanics, smVars, progVars
      <3> QED
        BY <1>6, <3>1
    <2>8. CASE RestartController(j)
      <3>1. /\ stage' = [stage EXCEPT ![j] = AfterEffect(j)] /\ UNCHANGED <<ch, shouldPause>>
            /\ Plan[j].type \in {"restartController", "reconnectController"}
        BY <2>8 DEF RestartController, ProgressTo, pauseVars, Starts
      <3>2. Kinds' /\ stage'[i] = stage[i]
        BY <1>1, <1>2, <3>1
      <3> QED
        BY <1>2, <2>0, <3>1, <3>2
    <2> QED
      BY <1>9, <2>2, <2>3, <2>4, <2>5, <2>6, <2>7, <2>8 DEF RunStep
  <1> HIDE DEF Shut, OneFlag, Kinds
  <1> QED
    BY <1>6, <1>7, <1>8, <1>9, StageCases

\* A read that the plan may pause finds the cache of its type not empty, and takes
\* the lock (NotifyTestBeforeCacheGet).
LEMMA PausableIsCached ==
    ASSUME ReadsPausedOnce, NEW i \in Actions, PausesReads(i),
           Keys \ VolatileKeys \subseteq cache, NEW c \in CallRecords, PausableRead(c)
    PROVE  Items(c.key) # {}
  <1>1. PICK j \in Actions : Plan[j].type = "pauseController" /\ Plan[j].gate[2] \in KeysOf(c)
    BY DEF PausableRead, Pausable
  <1>2. c.key \in Keys
    BY DEF CallRecords
  <1>3. Plan[j].gate[2] \in Keys /\ TypeOf[Plan[j].gate[2]] = TypeOf[c.key]
    BY <1>1, <1>2 DEF KeysOf, SameType
  <1>4. PICK k \in SameType(Plan[j].gate[2]) : k \notin VolatileKeys
    BY <1>1, <1>3 DEF ReadsPausedOnce
  <1>5. k \in cache /\ k \in SameType(c.key)
    BY <1>3, <1>4 DEF SameType
  <1> QED
    BY <1>5 DEF Items

\* What has begun blindly stays noted.
LEMMA BlindReadStays ==
    ASSUME IndInv, [Next]_vars, ~blindRead'
    PROVE  ~blindRead
  <1>1. CASE StateMachineNext /\ UNCHANGED coordinatorVars
    BY <1>1, ServerMoves
  <1>2. ASSUME NEW t \in Threads, CallStep(t)
        PROVE  ~blindRead
    BY <1>2 DEF CallStep, Notify, UnobservedWrite, RestRead, BeforeCacheRead, threadVars
  <1>3. ASSUME NEW t \in Threads, ServeStep(t)
        PROVE  ~blindRead
    BY <1>3 DEF ServeStep, SendNotificationAndBlock, StoreObject, ProcessPause, EndPause,
                LockRead, AfterCacheRead, UnlockRead
  <1>4. CASE \/ \E t \in Threads, j \in Actions : ConcurrentMapAccess(t, j)
             \/ \E k \in Keys : CacheChanges(k)
             \/ UNCHANGED vars
    BY <1>4 DEF ConcurrentMapAccess, CacheChanges, vars, threadVars
  <1> QED
    BY <1>1, <1>2, <1>3, <1>4 DEF Next

\* A step of one thread keeps the lock with whoever holds it, takes it when nobody
\* does, or gives it back.
LEMMA LockKept ==
    ASSUME LockInv, NEW t \in Threads, ~blindRead' => ~blindRead,
           \A u \in Threads : u # t => /\ pc'[u] = pc[u] /\ call'[u] = call[u]
                                       /\ waitOn'[u] = waitOn[u],
           call'[t].fn = "read" /\ pc'[t] \in {"lock", "pause", "unlock", "pauseAfter"}
              => PausableRead(call'[t]),
           ~blindRead' =>
              \/ UNCHANGED readLock /\ (HoldsReadLock(t)' => HoldsReadLock(t))
              \/ ~readLock /\ readLock'
              \/ HoldsReadLock(t) /\ ~HoldsReadLock(t)'
    PROVE  LockInv'
  <1>1. \A u \in Threads : u # t => (HoldsReadLock(u)' <=> HoldsReadLock(u))
    BY DEF HoldsReadLock, PausableRead, Pausable, KeysOf
  <1>2. ASSUME NEW u \in Threads, call'[u].fn = "read",
               pc'[u] \in {"lock", "pause", "unlock", "pauseAfter"}
        PROVE  PausableRead(call'[u])
    BY <1>2 DEF LockInv
  <1>3. ASSUME ~blindRead'
        PROVE  /\ \A u \in Threads : HoldsReadLock(u)' => readLock'
               /\ \A u, v \in Threads : HoldsReadLock(u)' /\ HoldsReadLock(v)' => u = v
    <2>1. /\ \A u \in Threads : HoldsReadLock(u) => readLock
          /\ \A u, v \in Threads : HoldsReadLock(u) /\ HoldsReadLock(v) => u = v
      BY <1>3 DEF LockInv
    <2> QED
      BY <1>1, <1>3, <2>1
  <1> QED
    BY <1>2, <1>3 DEF LockInv

\* The steps of the threads (ProcessPauseControllerRead of test_coordinator.go and
\* NotifyTest...CacheGet and ...List of test_client.go).
LEMMA ThreadLocks ==
    ASSUME IndInv, DeliveryInv, LockInv, NEW t \in Threads, CallStep(t) \/ ServeStep(t)
    PROVE  LockInv'
  <1>1. /\ pc \in [Threads -> ThreadStates] /\ waitOn \in [Threads -> Gates \cup {<<>>}]
        /\ call \in [Threads -> CallRecords \cup {NoCall}] /\ readLock \in BOOLEAN
        /\ Calls \in [Threads -> SUBSET CallRecords]
    BY CoordinatorAssumption DEF IndInv, TypeOK, ThreadTypeOK, CallTypeOK, CoordinatorAssumption
  <1>3. ~blindRead' => ~blindRead
    BY BlindReadStays DEF Next
  \* A call is made.
  <1>4. ASSUME NEW c \in Calls[t], NEW s, call' = [call EXCEPT ![t] = c],
               pc' = [pc EXCEPT ![t] = s], UNCHANGED <<waitOn, readLock>>,
               \/ c.fn = "notify"
               \/ c.fn = "read" /\ PausableRead(c) /\ s = "lock"
               \/ s = "reading" /\ (blindRead' \/ ~PausableRead(c))
        PROVE  LockInv'
    <2>1. call'[t] = c /\ pc'[t] = s /\ c \in CallRecords
      BY <1>1, <1>4
    <2>2. ~blindRead' => ~HoldsReadLock(t)'
      BY <1>4, <2>1 DEF HoldsReadLock, PausableRead, Pausable, KeysOf
    <2> QED
      BY <1>1, <1>3, <1>4, <2>1, <2>2, LockKept
  \* The call goes on, and nobody takes or gives back the lock.
  <1>5. ASSUME NEW s, UNCHANGED <<call, readLock>>, pc' = [pc EXCEPT ![t] = s],
               \A u \in Threads : u # t => waitOn'[u] = waitOn[u],
               call[t].fn = "read" /\ s \in {"lock", "pause", "unlock", "pauseAfter"}
                  => PausableRead(call[t]),
               HoldsReadLock(t)' => HoldsReadLock(t)
        PROVE  LockInv'
    BY <1>1, <1>3, <1>5, LockKept
  <1>6. CASE CallStep(t)
    <2>1. PICK c \in Calls[t] : \/ Notify(t, c) \/ UnobservedWrite(t, c)
                                \/ RestRead(t, c) \/ BeforeCacheRead(t, c)
      BY <1>6 DEF CallStep
    <2>2. CASE Notify(t, c) \/ UnobservedWrite(t, c)
      BY <1>4, <2>2 DEF Notify, UnobservedWrite
    <2>3. CASE RestRead(t, c)
      <3>1. UNCHANGED <<pc, call, waitOn, readLock>>
        BY <2>3 DEF RestRead, threadVars
      <3>2. HoldsReadLock(t)' <=> HoldsReadLock(t)
        BY <3>1 DEF HoldsReadLock, PausableRead, Pausable, KeysOf
      <3>3. pc' = [pc EXCEPT ![t] = pc[t]]
        BY <1>1, <3>1
      <3> QED
        BY <1>5, <3>1, <3>2, <3>3 DEF LockInv
    <2>4. CASE BeforeCacheRead(t, c)
      BY <1>4, <2>4 DEF BeforeCacheRead
    <2> QED
      BY <2>1, <2>2, <2>3, <2>4
  <1>7. CASE SendNotificationAndBlock(t)
    <2>1. /\ UNCHANGED <<call, readLock, waitOn>> /\ pc' = [pc EXCEPT ![t] = "blocked"]
      BY <1>7 DEF SendNotificationAndBlock, coordinatorVars
    <2>2. ~HoldsReadLock(t)'
      BY <1>1, <2>1 DEF HoldsReadLock
    <2> QED
      BY <1>5, <2>1, <2>2
  <1>8. CASE StoreObject(t)
    <2>1. PICK s \in {"pause", "idle"} : pc' = [pc EXCEPT ![t] = s]
      BY <1>8 DEF StoreObject, Return
    <2>2. UNCHANGED <<call, readLock, waitOn>> /\ call[t].fn = "notify"
      BY <1>8 DEF StoreObject, DeliveryInv
    <2>3. ~HoldsReadLock(t)'
      BY <2>2 DEF HoldsReadLock
    <2> QED
      BY <1>5, <2>1, <2>2, <2>3
  <1>9. ASSUME ProcessPause(t)
        PROVE  LockInv'
    <2>1. /\ UNCHANGED <<call, readLock>> /\ pc[t] \in {"pause", "pauseAfter"}
          /\ \A u \in Threads : u # t => waitOn'[u] = waitOn[u]
      BY <1>1, <1>9 DEF ProcessPause, AfterPause, Return, coordinatorVars
    <2>2. PausePoint(t) = "beforeControllerRead" => call[t].fn = "read" /\ pc[t] = "pause"
      BY <2>1, StoppedByGates DEF PausePoint
    <2>3. ASSUME StoppedBy(call[t], PausePoint(t)) = {}
          PROVE  LockInv'
      <3>1. PICK s \in {"reading", "idle"} :
               /\ pc' = [pc EXCEPT ![t] = s]
               /\ s = "reading" => PausePoint(t) = "beforeControllerRead"
        BY <1>9, <2>3 DEF ProcessPause, AfterPause, Return
      <3>2. pc'[t] = s
        BY <1>1, <3>1
      <3>3. HoldsReadLock(t)' => HoldsReadLock(t)
        BY <2>1, <2>2, <3>1, <3>2 DEF HoldsReadLock, PausableRead, Pausable, KeysOf
      <3> QED
        BY <1>5, <2>1, <3>1, <3>3
    <2>4. ASSUME StoppedBy(call[t], PausePoint(t)) # {}
          PROVE  LockInv'
      <3>1. PICK g \in StoppedBy(call[t], PausePoint(t)) :
               waitOn' = [waitOn EXCEPT ![t] = g] /\ pc' = [pc EXCEPT ![t] = "paused"]
        BY <1>9, <2>4 DEF ProcessPause
      <3>2. pc'[t] = "paused" /\ waitOn'[t] = g /\ g[1] = PausePoint(t)
        BY <1>1, <2>1, <3>1, StoppedByGates
      <3>3. HoldsReadLock(t)' => HoldsReadLock(t)
        BY <2>1, <2>2, <3>2 DEF HoldsReadLock, PausableRead, Pausable, KeysOf
      <3> QED
        BY <1>5, <2>1, <3>1, <3>3
    <2> QED
      BY <2>3, <2>4
  <1>10. CASE EndPause(t)
    <2>1. PICK s \in {"reading", "idle"} :
             /\ pc' = [pc EXCEPT ![t] = s]
             /\ s = "reading" => waitOn[t][1] = "beforeControllerRead"
      BY <1>10 DEF EndPause, AfterPause, Return
    <2>2. UNCHANGED <<call, readLock, waitOn>> /\ pc[t] = "paused" /\ pc'[t] = s
      BY <1>1, <1>10, <2>1 DEF EndPause, coordinatorVars
    <2>3. HoldsReadLock(t)' => HoldsReadLock(t)
      BY <2>1, <2>2 DEF HoldsReadLock, PausableRead, Pausable, KeysOf
    <2> QED
      BY <1>5, <2>1, <2>2, <2>3
  <1>11. CASE LockRead(t)
    <2>1. /\ pc[t] = "lock" /\ ~readLock /\ readLock' = TRUE /\ pc' = [pc EXCEPT ![t] = "pause"]
          /\ UNCHANGED <<call, waitOn>>
      BY <1>11 DEF LockRead, coordinatorVars
    <2>2. call[t].fn = "read" => PausableRead(call[t])
      BY <2>1 DEF LockInv
    <2> QED
      BY <1>1, <1>3, <2>1, <2>2, LockKept
  <1>12. CASE AfterCacheRead(t)
    <2>1. PICK s \in {"unlock", "idle"} : /\ pc' = [pc EXCEPT ![t] = s]
                                          /\ s = "unlock" => PausableRead(call[t])
      BY <1>12 DEF AfterCacheRead
    <2>2. UNCHANGED <<call, readLock, waitOn>> /\ pc[t] = "reading" /\ pc'[t] = s
      BY <1>1, <1>12, <2>1 DEF AfterCacheRead
    <2>3. HoldsReadLock(t)' => HoldsReadLock(t)
      BY <2>1, <2>2 DEF HoldsReadLock, PausableRead, Pausable, KeysOf
    <2> QED
      BY <1>5, <2>1, <2>2, <2>3
  <1>13. CASE UnlockRead(t)
    <2>1. UNCHANGED <<call, waitOn>> /\ pc[t] = "unlock"
      BY <1>13 DEF UnlockRead, coordinatorVars
    <2>2. call[t].fn = "read" /\ PausableRead(call[t]) /\ HoldsReadLock(t)
      BY <2>1 DEF IndInv, CallInv, AtReadPoint, LockInv, HoldsReadLock
    <2>3. CASE pc' = [pc EXCEPT ![t] = "pauseAfter"]
      <3>1. ~HoldsReadLock(t)'
        BY <1>1, <2>3 DEF HoldsReadLock
      <3> QED
        BY <1>1, <1>3, <2>1, <2>2, <2>3, <3>1, LockKept
    <2>4. CASE UNCHANGED <<readLock, pc>>
      <3>1. HoldsReadLock(t)' <=> HoldsReadLock(t)
        BY <2>1, <2>4 DEF HoldsReadLock, PausableRead, Pausable, KeysOf
      <3>2. pc' = [pc EXCEPT ![t] = pc[t]]
        BY <1>1, <2>4
      <3> QED
        BY <1>5, <2>1, <2>2, <2>4, <3>1, <3>2
    <2> QED
      BY <1>13, <2>3, <2>4 DEF UnlockRead
  <1> QED
    BY <1>6, <1>7, <1>8, <1>9, <1>10, <1>11, <1>12, <1>13 DEF ServeStep

\* What moves no thread into a call keeps the lock with whoever holds it.
LEMMA LockFrame ==
    ASSUME LockInv, UNCHANGED <<call, waitOn, readLock>>,
           \A t \in Threads : pc'[t] = pc[t] \/ pc'[t] \in {"idle", "store"},
           ~blindRead' => ~blindRead
    PROVE  LockInv'
  <1>1. \A t \in Threads : HoldsReadLock(t)' => HoldsReadLock(t)
    BY DEF HoldsReadLock, PausableRead, Pausable, KeysOf
  <1>2. ASSUME NEW u \in Threads, call'[u].fn = "read",
               pc'[u] \in {"lock", "pause", "unlock", "pauseAfter"}
        PROVE  PausableRead(call'[u])
    BY <1>2 DEF LockInv
  <1> QED
    BY <1>1, <1>2 DEF LockInv

\* The lock has one holder, as long as no read has begun blindly.
LEMMA LockStep ==
    ASSUME IndInv, DeliveryInv, LockInv, [Next]_vars
    PROVE  LockInv'
  <1>1. CASE StateMachineNext /\ UNCHANGED coordinatorVars
    BY <1>1, ServerMoves, LockFrame
  <1>2. CASE \E t \in Threads : CallStep(t) \/ ServeStep(t)
    BY <1>2, ThreadLocks
  <1>3. CASE \/ \E t \in Threads, j \in Actions : ConcurrentMapAccess(t, j)
             \/ \E k \in Keys : CacheChanges(k)
             \/ UNCHANGED vars
    <2>1. UNCHANGED <<pc, waitOn, readLock, blindRead, call>>
      BY <1>3 DEF ConcurrentMapAccess, CacheChanges, vars, threadVars, coordinatorVars
    <2> QED
      BY <2>1, LockFrame
  <1> QED
    BY <1>1, <1>2, <1>3 DEF Next

\* With any plan and with restarts, a read that the plan may pause has the lock to
\* itself unless one has begun blindly.
LEMMA LockInvariance == Spec => []LockInv
  <1>1. Init => LockInv
    BY DEF Init, LockInv, HoldsReadLock
  <1>2. IndInv /\ DeliveryInv /\ LockInv /\ [Next]_vars => LockInv'
    BY LockStep
  <1> QED
    BY Invariance, DeliveryInvariance, <1>1, <1>2, PTL DEF Spec

\* Until the controller is restarted the cache keeps the objects that are not deleted,
\* so that no read begins blindly if the plan pauses reads of such types only.
LEMMA CacheStep ==
    ASSUME IndInv, ReadsPausedOnce, NEW i \in Actions, PausesReads(i), CacheInv, [Next]_vars
    PROVE  CacheInv'
  <1> SUFFICES ASSUME NotRestarted'
               PROVE  Keys \ VolatileKeys \subseteq cache' /\ ~blindRead'
    BY DEF CacheInv
  <1>1. Keys \ VolatileKeys \subseteq cache /\ ~blindRead
    BY StagesAdvance DEF CacheInv
  <1>2. CASE StateMachineNext /\ UNCHANGED coordinatorVars
    BY <1>1, <1>2, ServerMoves
  <1>3. ASSUME NEW t \in Threads, CallStep(t) \/ ServeStep(t)
        PROVE  Keys \ VolatileKeys \subseteq cache' /\ ~blindRead'
    <2>1. CASE \E c \in Calls[t] : BeforeCacheRead(t, c)
      <3>1. PICK c \in Calls[t] : BeforeCacheRead(t, c)
        BY <2>1
      <3>2. c \in CallRecords
        BY CoordinatorAssumption DEF CoordinatorAssumption
      <3>3. PausableRead(c) => Items(c.key) # {}
        BY <1>1, <3>2, PausableIsCached
      <3> QED
        BY <1>1, <3>1, <3>3 DEF BeforeCacheRead
    <2>2. CASE ~\E c \in Calls[t] : BeforeCacheRead(t, c)
      <3>1. UNCHANGED <<cache, blindRead>>
        BY <1>3, <2>2 DEF CallStep, Notify, UnobservedWrite, RestRead, ServeStep,
           SendNotificationAndBlock, StoreObject, ProcessPause, EndPause, LockRead,
           AfterCacheRead, UnlockRead, threadVars
      <3> QED
        BY <1>1, <3>1
    <2> QED
      BY <2>1, <2>2
  <1>4. CASE \/ \E t \in Threads, j \in Actions : ConcurrentMapAccess(t, j)
             \/ \E k \in Keys : CacheChanges(k)
             \/ UNCHANGED vars
    BY <1>1, <1>4 DEF ConcurrentMapAccess, CacheChanges, vars, threadVars
  <1> QED
    BY <1>2, <1>3, <1>4 DEF Next

\* The action that pauses reads returns only from avoidOngoingRead.
LEMMA PauseReturns ==
    ASSUME IndInv, NEW i \in Actions, PausesReads(i), GateInv(i), [Next]_vars,
           stage'[i] = "done", stage[i] # "done"
    PROVE  AvoidOngoingRead(i)
  <1>1. /\ stage \in [Actions -> Stages] /\ Plan[i].type = "pauseController"
        /\ Plan[i].avoidOngoingRead /\ AfterEffect(i) # "done"
    BY DEF IndInv, TypeOK, ProgTypeOK, PausesReads, AfterEffect
  <1>2. CASE \E j \in Actions : ProcessAsyncDone(j)
    <2>1. PICK j \in Actions : ProcessAsyncDone(j)
      BY <1>2
    <2>2. CASE j = i
      BY <1>1, <2>1, <2>2 DEF ProcessAsyncDone
    <2>3. CASE j # i
      BY <1>1, <2>1, <2>3 DEF ProcessAsyncDone
    <2> QED
      BY <2>2, <2>3
  <1>3. CASE \E j \in Actions : RunStep(j)
    <2>1. PICK j \in Actions : RunStep(j)
      BY <1>3
    <2>2. j = i
      BY <1>1, <2>1, RunStage
    <2>3. stage[i] \notin {"close", "unlock"}
      BY <1>1 DEF GateInv
    <2>4. ~ResumePanics(i)
      BY <1>1, <2>3 DEF ResumePanics, Starts
    <2>5. ~Pause(i)
      BY <1>1 DEF Pause, ProgressTo
    <2> QED
      BY <1>1, <2>1, <2>2, <2>3, <2>4, <2>5 DEF RunStep, Starts, ResumeAPIServerSend,
         ResumeAPIServerClose, ResumeAPIServerUnlock, ResumeController, RestartController
  <1>4. CASE /\ nextState \in Actions
             /\ stage' = [stage EXCEPT ![nextState] = "before"]
    BY <1>1, <1>4
  <1> QED
    BY <1>2, <1>3, <1>4, StageCases

\* No thread gets past the shut gate into a read of the object: a new read takes the
\* lock, is stopped at the gate, and waits there.
LEMMA ReadIsStopped ==
    ASSUME IndInv, ReadsPausedOnce, NEW i \in Actions, PausesReads(i), GateInv(i), CacheInv,
           NotRestarted, ch[Plan[i].gate] = "open", shouldPause[Plan[i].gate],
           NEW t \in Threads, CallStep(t) \/ ServeStep(t),
           pc'[t] = "reading", call'[t].key = Plan[i].gate[2]
    PROVE  pc[t] = "reading" /\ call'[t] = call[t]
  <1> DEFINE g == Plan[i].gate
  <1>1. /\ pc \in [Threads -> ThreadStates] /\ call \in [Threads -> CallRecords \cup {NoCall}]
        /\ Calls \in [Threads -> SUBSET CallRecords]
        /\ g \in Gates /\ g[1] = "beforeControllerRead" /\ g = <<g[1], g[2]>>
        /\ "beforeControllerRead" \notin APIServers
        /\ Plan[i].type = "pauseController"
    BY CoordinatorAssumption, PlanFacts, PlanAssumption
       DEF IndInv, TypeOK, ThreadTypeOK, CallTypeOK, CoordinatorAssumption, PausesReads,
           Gates, PauseAts, PlanAssumption
  <1> HIDE DEF g
  <1>2. ASSUME NEW c \in CallRecords, c.key = g[2]
        PROVE  PausableRead(c) /\ g[2] \in KeysOf(c)
    <2>1. g[2] \in KeysOf(c)
      BY <1>2 DEF KeysOf, SameType, CallRecords
    <2> QED
      BY <1>1, <2>1 DEF PausableRead, Pausable, g
  <1>3. CASE BeforeCacheRead(t, call'[t]) /\ call'[t] \in Calls[t]
    <2>1. call'[t] \in CallRecords /\ PausableRead(call'[t])
      BY <1>1, <1>2, <1>3 DEF g
    <2>2. Items(call'[t].key) # {}
      BY <2>1, PausableIsCached DEF CacheInv
    <2> QED
      BY <1>1, <1>3, <2>1, <2>2 DEF BeforeCacheRead
  <1>4. CASE CallStep(t)
    <2>1. PICK c \in Calls[t] : \/ Notify(t, c) \/ UnobservedWrite(t, c)
                                \/ RestRead(t, c) \/ BeforeCacheRead(t, c)
      BY <1>4 DEF CallStep
    <2>2. CASE Notify(t, c) \/ UnobservedWrite(t, c)
      BY <1>1, <2>2 DEF Notify, UnobservedWrite
    <2>3. CASE RestRead(t, c)
      BY <2>3 DEF RestRead, threadVars
    <2>4. CASE BeforeCacheRead(t, c)
      <3>1. call'[t] = c
        BY <1>1, <2>4 DEF BeforeCacheRead
      <3> QED
        BY <1>3, <2>4, <3>1
    <2> QED
      BY <2>1, <2>2, <2>3, <2>4
  <1>5. CASE ServeStep(t)
    <2>1. UNCHANGED call
      BY <1>5 DEF ServeStep, SendNotificationAndBlock, StoreObject, ProcessPause, EndPause,
                  LockRead, AfterCacheRead, UnlockRead, coordinatorVars
    <2>2. CASE SendNotificationAndBlock(t) \/ LockRead(t) \/ AfterCacheRead(t)
      BY <1>1, <2>2 DEF SendNotificationAndBlock, LockRead, AfterCacheRead
    <2>3. CASE UnlockRead(t)
      BY <1>1, <2>1, <2>3 DEF UnlockRead
    <2>4. CASE StoreObject(t)
      BY <1>1, <2>4 DEF StoreObject, Return
    <2>5. ASSUME ProcessPause(t)
          PROVE  FALSE
      <3>1. pc[t] \in {"pause", "pauseAfter"}
        BY <2>5 DEF ProcessPause
      <3>2. /\ StoppedBy(call[t], PausePoint(t)) = {}
            /\ PausePoint(t) = "beforeControllerRead"
        BY <1>1, <2>5 DEF ProcessPause, AfterPause, Return
      <3>3. call[t] \in CallRecords
        BY <1>1, <3>1 DEF IndInv, CallInv
      <3>4. g[2] \in KeysOf(call[t])
        BY <1>2, <2>1, <3>3 DEF g
      <3>5. g \in {<<"beforeControllerRead", k>> : k \in KeysOf(call[t])}
        BY <1>1, <3>4
      <3>6. StoppedBy(call[t], "beforeControllerRead") # {}
        BY <1>1, <3>5 DEF StoppedBy, Flagged, g
      <3> QED
        BY <3>2, <3>6
    <2>6. ASSUME EndPause(t)
          PROVE  FALSE
      <3>1. pc[t] = "paused" /\ ch[waitOn[t]] = "closed" /\ waitOn[t][1] = "beforeControllerRead"
        BY <1>1, <2>6 DEF EndPause, AfterPause, Return
      <3>2. waitOn[t] = Plan[i].gate
        BY <3>1 DEF GateInv
      <3> QED
        BY <3>1, <3>2
    <2> QED
      BY <1>5, <2>2, <2>3, <2>4, <2>5, <2>6 DEF ServeStep
  <1> QED
    BY <1>4, <1>5

\* When the action returns nobody reads, the lock being free; and nobody begins to.
LEMMA ReadingStep ==
    ASSUME IndInv, ReadsPausedOnce, ReadInv, NoReadWhilePaused, [Next]_vars
    PROVE  NoReadWhilePaused'
  <1> SUFFICES ASSUME NEW i \in Actions, NEW t \in Threads, PausesReads(i),
                      stage'[i] = "done", ~Reopened(i)', pc'[t] = "reading",
                      Plan[i].gate[2] = call'[t].key
               PROVE  FALSE
    BY DEF NoReadWhilePaused
  <1>1. ~Reopened(i) /\ NotRestarted /\ GateInv(i) /\ CacheInv /\ LockInv
    BY StagesAdvance, RestartComesLater DEF ReadInv
  <1>2. CASE stage[i] # "done"
    <2>1. AvoidOngoingRead(i)
      BY <1>1, <1>2, PauseReturns
    <2>2. UNCHANGED pc /\ ~readLock
      BY <2>1 DEF AvoidOngoingRead, threadVars
    <2>3. UNCHANGED call
      <3>1. CASE StateMachineNext /\ UNCHANGED coordinatorVars
        BY <3>1 DEF coordinatorVars
      <3>2. CASE ~StateMachineNext
        BY <2>1, <3>2 DEF StateMachineNext, RunStep
      <3>3. CASE StateMachineNext /\ ~UNCHANGED coordinatorVars
        <4>1. stage' # stage
          BY <1>2
        <4>2. ASSUME NEW u \in Threads, CallStep(u) \/ ServeStep(u)
              PROVE  UNCHANGED stage
          BY <4>2 DEF CallStep, Notify, UnobservedWrite, RestRead, BeforeCacheRead, ServeStep,
             SendNotificationAndBlock, StoreObject, ProcessPause, EndPause, LockRead,
             AfterCacheRead, UnlockRead, smVars, progVars
        <4> QED
          BY <3>3, <4>1, <4>2 DEF Next, ConcurrentMapAccess, CacheChanges, vars, smVars, progVars
      <3> QED
        BY <3>1, <3>2, <3>3
    <2>4. pc[t] = "reading" /\ call[t].key = Plan[i].gate[2] /\ call[t].fn = "read"
      BY <2>2, <2>3 DEF IndInv, CallInv, AtReadPoint
    <2>5. call[t] \in CallRecords
      BY <2>4, CoordinatorAssumption DEF IndInv, CallInv, CoordinatorAssumption
    <2>6. PausableRead(call[t])
      BY <2>4, <2>5 DEF PausesReads, PausableRead, Pausable, KeysOf, SameType, CallRecords
    <2> QED
      BY <1>1, <2>2, <2>4, <2>6 DEF CacheInv, LockInv, HoldsReadLock
  <1>3. CASE stage[i] = "done"
    <2>1. ch[Plan[i].gate] = "open" /\ shouldPause[Plan[i].gate]
      BY <1>1, <1>3 DEF GateInv
    <2>2. ~(pc[t] = "reading" /\ call'[t] = call[t])
      BY <1>1, <1>3 DEF NoReadWhilePaused
    <2>3. CASE StateMachineNext /\ UNCHANGED coordinatorVars
      BY <2>2, <2>3, ServerMoves
    <2>4. ASSUME NEW u \in Threads, CallStep(u) \/ ServeStep(u)
          PROVE  FALSE
      <3>1. CASE u = t
        BY <1>1, <2>1, <2>2, <2>4, <3>1, ReadIsStopped
      <3>2. CASE u # t
        <4>1. /\ pc \in [Threads -> ThreadStates]
              /\ call \in [Threads -> CallRecords \cup {NoCall}]
          BY DEF IndInv, TypeOK, ThreadTypeOK, CallTypeOK
        <4>2. pc'[t] = pc[t]
          BY <2>4, <3>2, <4>1 DEF CallStep, Notify, UnobservedWrite, RestRead, BeforeCacheRead,
             ServeStep, SendNotificationAndBlock, StoreObject, ProcessPause, EndPause, LockRead,
             AfterCacheRead, UnlockRead, AfterPause, Return, threadVars
        <4>3. call'[t] = call[t]
          BY <2>4, <3>2, <4>1 DEF CallStep, Notify, UnobservedWrite, RestRead, BeforeCacheRead,
             ServeStep, SendNotificationAndBlock, StoreObject, ProcessPause, EndPause, LockRead,
             AfterCacheRead, UnlockRead, coordinatorVars
        <4> QED
          BY <2>2, <4>2, <4>3
      <3> QED
        BY <3>1, <3>2
    <2>5. CASE \E u \in Threads, j \in Actions : ConcurrentMapAccess(u, j)
      BY <2>2, <2>5 DEF ConcurrentMapAccess, threadVars, coordinatorVars
    <2>6. CASE \E k \in Keys : CacheChanges(k)
      BY <2>2, <2>6 DEF CacheChanges, coordinatorVars
    <2>7. CASE UNCHANGED vars
      BY <2>2, <2>7 DEF vars, threadVars, coordinatorVars
    <2> QED
      BY <2>3, <2>4, <2>5, <2>6, <2>7 DEF Next
  <1> QED
    BY <1>2, <1>3

\* What NoReadWhilePaused rests on, for the plans of which it holds.
ReadsInv == ReadsPausedOnce => ReadInv /\ NoReadWhilePaused

\* Such a plan keeps it from the start (ReadInv: the gate is shut, the cache holds what
\* a read may find, the lock has one holder).
LEMMA ReadsInvariance == Spec => []ReadsInv
  <1>1. Init => ReadsInv
    <2> SUFFICES ASSUME Init PROVE ReadInv /\ NoReadWhilePaused
      BY DEF ReadsInv
    <2>1. /\ stage = [j \in Actions |-> "idle"] /\ ch = [g \in Gates |-> "none"]
          /\ shouldPause = [g \in Gates |-> FALSE] /\ pc = [t \in Threads |-> "idle"]
          /\ call = [t \in Threads |-> NoCall] /\ Keys \ VolatileKeys \subseteq cache
          /\ blindRead = FALSE
      BY DEF Init, StateMachineInit
    <2>2. ASSUME NEW i \in Actions PROVE GateInv(i)
      BY <2>1, PlanFacts DEF GateInv
    <2>3. CacheInv /\ LockInv
      BY <2>1 DEF CacheInv, LockInv, HoldsReadLock
    <2> QED
      BY <2>1, <2>2, <2>3 DEF ReadInv, NoReadWhilePaused
  <1>2. IndInv /\ DeliveryInv /\ ReadsInv /\ [Next]_vars => ReadsInv'
    <2> SUFFICES ASSUME IndInv, DeliveryInv, ReadsPausedOnce, ReadInv, NoReadWhilePaused,
                        [Next]_vars
                 PROVE  ReadInv' /\ NoReadWhilePaused'
      BY DEF ReadsInv, ReadsPausedOnce, PausesReads, SameType
    <2>1. ASSUME NEW i \in Actions, PausesReads(i)
          PROVE  GateInv(i)' /\ CacheInv' /\ LockInv'
      BY <2>1, GateStep, CacheStep, LockStep DEF ReadInv
    <2>2. ReadInv'
      BY <2>1 DEF ReadInv, PausesReads
    <2> QED
      BY <2>2, ReadingStep
  <1> QED
    BY Invariance, DeliveryInvariance, <1>1, <1>2, PTL DEF Spec

\* For every plan that pauses reads as unobserved_state.py does, and every set of threads
\* and calls, as long as the cache keeps an object of the type: once the pause has
\* returned, no read of the object is under way until the plan resumes reads
\* (PauseControllerAction and avoidOngoingRead of test_plan.go,
\* ProcessPauseControllerRead of test_coordinator.go).
THEOREM ReadsArePaused == Spec => [](ReadsPausedOnce => NoReadWhilePaused)
  <1>1. ReadsInv => (ReadsPausedOnce => NoReadWhilePaused)
    BY DEF ReadsInv
  <1> QED
    BY ReadsInvariance, <1>1, PTL

-----------------------------------------------------------------------------
(* The graphs are triggered one node at a time, and none of them twice.     *)

\* Who changes the graphs: a trigger that is satisfied, and nothing else.  Once the
\* coordinator has exited nothing moves (log.Fatalf).
LEMMA GraphCases ==
    ASSUME [Next]_vars
    PROVE  \/ /\ UNCHANGED <<toSatisfy, satisfied>>
              /\ fatal' = "inSatisfied" <=> fatal = "inSatisfied"
              /\ Running \/ UNCHANGED nextState
           \/ \E n \in Names : TriggerTwice(n) \/ SatisfyTrigger(n) \/ SatisfyLastTrigger(n)
  <1> DEFINE Kept == /\ UNCHANGED <<toSatisfy, satisfied>>
                     /\ fatal' = "inSatisfied" <=> fatal = "inSatisfied"
                     /\ Running \/ UNCHANGED nextState
  <1>1. CASE \/ ReceiveStateNotification \/ ReceiveTimeoutNotification
             \/ EndLoop \/ FinishSyncAction
             \/ \E i \in Actions : ProcessAsyncDone(i)
             \/ \E n \in Names : TimeoutExpires(n)
    BY <1>1 DEF ReceiveStateNotification, ReceiveTimeoutNotification, EndLoop,
                FinishSyncAction, ProcessAsyncDone, TimeoutExpires, graphVars
  <1>2. ASSUME NEW n \in Names, SkipTrigger(n)
        PROVE  Kept
    BY <1>2 DEF SkipTrigger, Visiting
  <1>3. ASSUME NEW i \in Actions, RunStep(i)
        PROVE  Kept
    <2>1. CASE ResumePanics(i)
      BY <2>1 DEF ResumePanics, Starts, Running, smVars, graphVars
    <2>2. CASE ~ResumePanics(i)
      BY <1>3, <2>2 DEF RunStep, Pause, AvoidOngoingRead, ResumeAPIServerSend,
         ResumeAPIServerClose, ResumeAPIServerUnlock, ResumeController,
         RestartController, Starts, unchangedByActions, graphVars
    <2> QED
      BY <2>1, <2>2
  <1>4. ASSUME NEW t \in Threads, CallStep(t) \/ ServeStep(t)
        PROVE  Kept
    <2>1. CASE UnlockRead(t)
      BY <2>1 DEF UnlockRead, Running, smVars, graphVars
    <2>2. CASE ~UnlockRead(t)
      BY <1>4, <2>2 DEF CallStep, Notify, UnobservedWrite, RestRead, BeforeCacheRead,
         ServeStep, SendNotificationAndBlock, StoreObject, ProcessPause, EndPause,
         LockRead, AfterCacheRead, smVars, graphVars
    <2> QED
      BY <2>1, <2>2
  <1>5. CASE \E t \in Threads, i \in Actions : ConcurrentMapAccess(t, i)
    BY <1>5 DEF ConcurrentMapAccess, Running, smVars, graphVars
  <1>6. CASE \E k \in Keys : CacheChanges(k)
    BY <1>6 DEF CacheChanges, smVars, graphVars
  <1>7. CASE UNCHANGED vars
    BY <1>7 DEF vars, smVars, graphVars, progVars
  <1> QED
    BY <1>1, <1>2, <1>3, <1>4, <1>5, <1>6, <1>7
       DEF Next, StateMachineNext, SelectStep, VisitStep

\* An action that has not been started has not been started before either.
LEMMA IdleBefore ==
    ASSUME IndInv, [Next]_vars, NEW i \in Actions, stage'[i] = "idle"
    PROVE  stage[i] = "idle"
  <1>1. stage \in [Actions -> Stages]
    BY DEF IndInv, TypeOK, ProgTypeOK
  <1>2. CASE \E j \in Actions : ProcessAsyncDone(j)
    BY <1>1, <1>2 DEF ProcessAsyncDone
  <1>3. CASE \E j \in Actions : RunStep(j)
    BY <1>1, <1>3, RunStage
  <1> QED
    BY <1>1, <1>2, <1>3, StageCases

\* What is true where the loop of processNotification calls trigger(): the name is a
\* literal that the next action watches, and the action has not been started.
LEMMA CalledOn ==
    ASSUME IndInv, GraphsInv, NEW t \in Names, Visiting(t), SatisfiedBy(t)
    PROVE  /\ nextState \in Actions /\ stage[nextState] = "idle" /\ Running
           /\ t \in toSatisfy[nextState]
           /\ t \in Plan[nextState].graph.nodes
           /\ Plan[nextState].graph.type[t] = "Literal"
           /\ IsTriggerGraph(Plan[nextState].graph)
           /\ GraphInv(Plan[nextState].graph, toSatisfy[nextState], satisfied[nextState])
           /\ ~FullyTriggered(Plan[nextState].graph, satisfied[nextState])
  <1>1. Running /\ smPc = "visit" /\ t \in toSatisfy[nextState]
    BY DEF Visiting
  <1>2. nextState \in Actions /\ stage[nextState] = "idle"
    BY <1>1 DEF IndInv, LoopInv, ActionsInOrder
  <1>3. /\ GraphInv(Plan[nextState].graph, toSatisfy[nextState], satisfied[nextState])
        /\ ~FullyTriggered(Plan[nextState].graph, satisfied[nextState])
    BY <1>2 DEF GraphsInv, GraphInv
  <1>4. t \in Plan[nextState].graph.nodes
    BY <1>1, <1>3 DEF GraphInv, WatchedExactly
  <1>5. t \in Literals(nextState)
    BY <1>4 DEF Literals, SatisfiedBy, Defined
  <1>6. Plan[nextState].graph.type[t] = "Literal" /\ IsTriggerGraph(Plan[nextState].graph)
    BY <1>2, <1>5, LiteralFacts
  <1> QED
    BY <1>1, <1>2, <1>3, <1>4, <1>6

\* Where nothing comes after an Or, the loop never makes trigger() exit: an Or that
\* is satisfied would have completed the expression.
LEMMA NeverFatal ==
    ASSUME IndInv, GraphsInv, NEW t \in Names,
           \A i \in Actions : OrIsLast(Plan[i].graph)
    PROVE  ~TriggerTwice(t)
  <1> SUFFICES ASSUME TriggerTwice(t) PROVE FALSE
    OBVIOUS
  <1> DEFINE g == Plan[nextState].graph
             T == toSatisfy[nextState]
             S == satisfied[nextState]
  <1>1. Visiting(t) /\ SatisfiedBy(t) /\ TriggerFatal(g, S, t)
    BY DEF TriggerTwice
  <1>2. /\ nextState \in Actions /\ t \in T /\ g.type[t] = "Literal"
        /\ IsTriggerGraph(g) /\ GraphInv(g, T, S) /\ ~FullyTriggered(g, S)
    BY <1>1, CalledOn
  <1>3. OrIsLast(g)
    BY <1>2
  <1> HIDE DEF g, T, S
  <1>4. \A m \in S : g.type[m] # "Or"
    BY <1>2, <1>3 DEF GraphInv, WatchedExactly, OrIsLast, FullyTriggered
  <1> QED
    BY <1>1, <1>2, <1>4, TriggerMeetsNoneTwice

\* A trigger that is satisfied keeps the meaning of the graphs, and the last one
\* starts the action.
LEMMA SatisfyKeepsGraphs ==
    ASSUME IndInv, GraphsInv, [Next]_vars, NEW t \in Names,
           SatisfyTrigger(t) \/ SatisfyLastTrigger(t), NEW i \in Actions
    PROVE  /\ GraphInv(Plan[i].graph, toSatisfy'[i], satisfied'[i])
           /\ stage'[i] = "idle" => ~FullyTriggered(Plan[i].graph, satisfied'[i])
  <1> DEFINE g == Plan[nextState].graph
             T == toSatisfy[nextState]
             S == satisfied[nextState]
  <1>1. /\ Visiting(t) /\ SatisfiedBy(t) /\ ~TriggerFatal(g, S, t)
        /\ satisfied' = [satisfied EXCEPT ![nextState] = SatisfiedAfter(g, S, t)]
        /\ toSatisfy' = [toSatisfy EXCEPT ![nextState] = ToSatisfyAfter(g, T, S, t)]
    BY DEF SatisfyTrigger, SatisfyLastTrigger, TriggerNode
  <1>2. /\ nextState \in Actions /\ t \in T /\ g.type[t] = "Literal"
        /\ IsTriggerGraph(g) /\ GraphInv(g, T, S)
    BY <1>1, CalledOn
  <1>3. GraphInv(g, ToSatisfyAfter(g, T, S, t), SatisfiedAfter(g, S, t))
    BY <1>1, <1>2, TriggerKeepsInv
  <1>4. /\ stage \in [Actions -> Stages]
        /\ satisfied \in [Actions -> SUBSET Names] /\ toSatisfy \in [Actions -> SUBSET Names]
    BY DEF IndInv, TypeOK, ProgTypeOK, GraphTypeOK
  <1>5. CASE i = nextState
    <2>1. GraphInv(Plan[i].graph, toSatisfy'[i], satisfied'[i])
      BY <1>1, <1>2, <1>3, <1>4, <1>5
    <2>2. stage'[i] = "idle" => ~FullyTriggered(Plan[i].graph, satisfied'[i])
      BY <1>4, <1>5 DEF SatisfyTrigger, SatisfyLastTrigger
    <2> QED
      BY <2>1, <2>2
  <1>6. CASE i # nextState
    <2>1. toSatisfy'[i] = toSatisfy[i] /\ satisfied'[i] = satisfied[i]
      BY <1>1, <1>4, <1>6
    <2>2. stage'[i] = "idle" => stage[i] = "idle"
      BY IdleBefore
    <2> QED
      BY <2>1, <2>2 DEF GraphsInv, GraphInv
  <1> QED
    BY <1>5, <1>6

\* The meaning of the graphs is kept by every step.
LEMMA GraphsStep ==
    ASSUME IndInv, GraphsInv, [Next]_vars
    PROVE  GraphsInv'
  <1>1. ASSUME /\ UNCHANGED <<toSatisfy, satisfied>>
               /\ fatal' = "inSatisfied" <=> fatal = "inSatisfied"
        PROVE  GraphsInv'
    <2>1. NoSecondTrigger'
      BY <1>1 DEF GraphsInv, NoSecondTrigger
    <2>2. \A i \in Actions : stage'[i] = "idle" => stage[i] = "idle"
      BY IdleBefore
    <2> QED
      BY <1>1, <2>1, <2>2 DEF GraphsInv
  <1>2. ASSUME NEW t \in Names, TriggerTwice(t)
        PROVE  GraphsInv'
    <2>1. UNCHANGED <<toSatisfy, satisfied, stage>>
      BY <1>2 DEF TriggerTwice, smVars, graphVars, progVars
    <2>2. NoSecondTrigger'
      BY <1>2, NeverFatal DEF NoSecondTrigger
    <2> QED
      BY <2>1, <2>2 DEF GraphsInv
  <1>3. ASSUME NEW t \in Names, SatisfyTrigger(t) \/ SatisfyLastTrigger(t)
        PROVE  GraphsInv'
    <2>1. UNCHANGED fatal
      BY <1>3 DEF SatisfyTrigger, SatisfyLastTrigger
    <2>2. NoSecondTrigger'
      BY <2>1 DEF GraphsInv, NoSecondTrigger
    <2>3. \A i \in Actions : /\ GraphInv(Plan[i].graph, toSatisfy'[i], satisfied'[i])
                             /\ stage'[i] = "idle" =>
                                  ~FullyTriggered(Plan[i].graph, satisfied'[i])
      BY <1>3, SatisfyKeepsGraphs
    <2> QED
      BY <2>2, <2>3 DEF GraphsInv, GraphInv
  <1> QED
    BY <1>1, <1>2, <1>3, GraphCases

\* The meaning of the graphs holds at the start and ever after.
LEMMA GraphsInvariance == Spec => []GraphsInv
  <1>1. Init => GraphsInv
    <2> SUFFICES ASSUME Init PROVE GraphsInv
      OBVIOUS
    <2>1. /\ toSatisfy = [i \in Actions |-> Plan[i].graph.sources]
          /\ satisfied = [i \in Actions |-> {}] /\ fatal = "none"
      BY DEF Init, StateMachineInit
    <2>2. ASSUME NEW i \in Actions
          PROVE  /\ GraphInv(Plan[i].graph, toSatisfy[i], satisfied[i])
                 /\ ~FullyTriggered(Plan[i].graph, satisfied[i])
      BY <2>1, LiteralFacts, StartInv DEF FullyTriggered
    <2> QED
      BY <2>1, <2>2 DEF GraphsInv, GraphInv, NoSecondTrigger
  <1> QED
    BY Invariance, GraphsStep, <1>1, PTL DEF Spec

\* For every plan in which nothing comes after an Or, whatever notifications arrive,
\* the coordinator never exits because a node of a graph was triggered twice
\* (processNotification of state_machine.go, trigger of trigger_graph.go).
THEOREM TriggeredOnce == Spec => []NoSecondTrigger
  <1>1. GraphsInv => NoSecondTrigger
    BY DEF GraphsInv
  <1> QED
    BY GraphsInvariance, <1>1, PTL

\* The operators of module TriggerRun are those of the plan.
LEMMA SameGraphs ==
    ASSUME NEW i, NEW g, NEW T, NEW S, NEW n
    PROVE  /\ Graph(i)!IsTriggerGraph(g) <=> IsTriggerGraph(g)
           /\ Graph(i)!TriggerFatal(g, S, n) <=> TriggerFatal(g, S, n)
           /\ Graph(i)!FullyTriggered(g, S) <=> FullyTriggered(g, S)
           /\ Graph(i)!SatisfiedAfter(g, S, n) = SatisfiedAfter(g, S, n)
           /\ Graph(i)!ToSatisfyAfter(g, T, S, n) = ToSatisfyAfter(g, T, S, n)
  BY DEF Graph!IsTriggerGraph, IsTriggerGraph, Graph!NodeTypes, NodeTypes,
         Graph!TriggerFatal, TriggerFatal, Graph!FullyTriggered, FullyTriggered,
         Graph!SatisfiedAfter, SatisfiedAfter, Graph!ToSatisfyAfter, ToSatisfyAfter,
         Graph!Fired, Fired, Graph!GateClosed, GateClosed

\* Every step of the coordinator is, for the graph of each action, one call of trigger()
\* for a literal that it watches, or nothing.
LEMMA GraphsRefined ==
    ASSUME IndInv, GraphsInv, [Next]_vars, NEW i \in Actions
    PROVE  [Graph(i)!RunNext]_(Graph(i)!runVars)
  <1> DEFINE g == Plan[nextState].graph
             T == toSatisfy[nextState]
             S == satisfied[nextState]
  <1>1. CASE /\ UNCHANGED <<toSatisfy, satisfied>>
             /\ fatal' = "inSatisfied" <=> fatal = "inSatisfied"
             /\ Running \/ UNCHANGED nextState
    BY <1>1 DEF Graph!runVars, Running
  <1>2. ASSUME NEW t \in Names, TriggerTwice(t)
        PROVE  [Graph(i)!RunNext]_(Graph(i)!runVars)
    <2>1. /\ Visiting(t) /\ SatisfiedBy(t) /\ TriggerFatal(g, S, t)
          /\ UNCHANGED <<toSatisfy, satisfied, nextState>> /\ fatal' = "inSatisfied"
      BY <1>2 DEF TriggerTwice, smVars, graphVars, progVars
    <2>2. /\ Running /\ t \in T /\ g.type[t] = "Literal" /\ t \in g.nodes
          /\ ~FullyTriggered(g, S)
      BY <2>1, CalledOn
    <2>3. CASE i = nextState
      BY <2>1, <2>2, <2>3, SameGraphs DEF Graph!RunNext, Graph!Trigger, Running
    <2>4. CASE i # nextState
      BY <2>1, <2>4 DEF Graph!runVars
    <2> QED
      BY <2>3, <2>4
  <1>3. ASSUME NEW t \in Names, SatisfyTrigger(t) \/ SatisfyLastTrigger(t)
        PROVE  [Graph(i)!RunNext]_(Graph(i)!runVars)
    <2>1. /\ Visiting(t) /\ SatisfiedBy(t) /\ ~TriggerFatal(g, S, t)
          /\ satisfied' = [satisfied EXCEPT ![nextState] = SatisfiedAfter(g, S, t)]
          /\ toSatisfy' = [toSatisfy EXCEPT ![nextState] = ToSatisfyAfter(g, T, S, t)]
          /\ UNCHANGED <<fatal, nextState>>
      BY <1>3 DEF SatisfyTrigger, SatisfyLastTrigger, TriggerNode, progVars
    <2>2. /\ nextState \in Actions /\ Running /\ t \in T
          /\ g.type[t] = "Literal" /\ t \in g.nodes /\ ~FullyTriggered(g, S)
      BY <2>1, CalledOn
    <2>3. satisfied \in [Actions -> SUBSET Names] /\ toSatisfy \in [Actions -> SUBSET Names]
      BY DEF IndInv, TypeOK, GraphTypeOK
    <2>4. CASE i = nextState
      <3>1. satisfied'[i] = SatisfiedAfter(g, S, t) /\ toSatisfy'[i] = ToSatisfyAfter(g, T, S, t)
        BY <2>1, <2>2, <2>3, <2>4
      <3>2. Graph(i)!Trigger(t)
        BY <2>1, <2>2, <2>4, <3>1, SameGraphs DEF Graph!Trigger, Running
      <3> QED
        BY <2>2, <2>4, <3>2 DEF Graph!RunNext
    <2>5. CASE i # nextState
      BY <2>1, <2>3, <2>5 DEF Graph!runVars
    <2> QED
      BY <2>4, <2>5
  <1> QED
    BY <1>1, <1>2, <1>3, GraphCases

\* For every plan, the coordinator with all its threads implements, on the graph of
\* each action, module TriggerRun: so that what is proved there of one graph at work
\* holds of the graphs of the plan (processNotification of state_machine.go).
THEOREM GraphsImplement == Spec => GraphsAreTriggered
  <1>1. Init => \A i \in Actions : Graph(i)!RunInit
    <2> SUFFICES ASSUME Init, NEW i \in Actions PROVE Graph(i)!RunInit
      OBVIOUS
    <2>1. /\ toSatisfy = [j \in Actions |-> Plan[j].graph.sources]
          /\ satisfied = [j \in Actions |-> {}] /\ fatal = "none"
      BY DEF Init, StateMachineInit
    <2> QED
      BY <2>1, LiteralFacts, SameGraphs DEF Graph!RunInit, Graph!Start
  <1>2. IndInv /\ GraphsInv /\ [Next]_vars
          => [\A i \in Actions : [Graph(i)!RunNext]_(Graph(i)!runVars)]_vars
    BY GraphsRefined
  <1> QED
    BY Invariance, GraphsInvariance, <1>1, <1>2, PTL DEF Spec, GraphsAreTriggered

-----------------------------------------------------------------------------
(* The ways in which the coordinator may exit that a plan rules out.        *)

\* What makes the coordinator exit: log.Fatalf of trigger(), a panic on a channel, the
\* Go runtime on a map, and the mutex of the reads.
LEMMA FatalCases ==
    ASSUME [Next]_vars
    PROVE  \/ fatal' = fatal \/ fatal' = "concurrentMapAccess"
           \/ fatal' = "inSatisfied" /\ \E n \in Names : TriggerTwice(n)
           \/ fatal' = "closedChannel" /\ \E i \in Actions : ResumePanics(i)
           \/ /\ fatal' = "unlockOfUnlocked"
              /\ \E t \in Threads : UnlockRead(t) /\ ~readLock
  <1>1. CASE \/ ReceiveStateNotification \/ ReceiveTimeoutNotification
             \/ EndLoop \/ FinishSyncAction
             \/ \E i \in Actions : ProcessAsyncDone(i)
             \/ \E n \in Names : TimeoutExpires(n)
    BY <1>1 DEF ReceiveStateNotification, ReceiveTimeoutNotification, EndLoop,
                FinishSyncAction, ProcessAsyncDone, TimeoutExpires
  <1>2. ASSUME NEW n \in Names, VisitStep(n)
        PROVE  fatal' = fatal \/ (fatal' = "inSatisfied" /\ TriggerTwice(n))
    <2>1. CASE TriggerTwice(n)
      BY <2>1 DEF TriggerTwice
    <2>2. ASSUME ~TriggerTwice(n) PROVE fatal' = fatal
      BY <1>2, <2>2 DEF VisitStep, SkipTrigger, SatisfyTrigger, SatisfyLastTrigger
    <2> QED
      BY <2>1, <2>2
  <1>3. ASSUME NEW i \in Actions, RunStep(i)
        PROVE  fatal' = fatal \/ (fatal' = "closedChannel" /\ ResumePanics(i))
    <2>1. CASE ResumePanics(i)
      BY <2>1 DEF ResumePanics
    <2>2. ASSUME ~ResumePanics(i) PROVE fatal' = fatal
      BY <1>3, <2>2 DEF RunStep, Pause, AvoidOngoingRead, ResumeAPIServerSend,
         ResumeAPIServerClose, ResumeAPIServerUnlock, ResumeController, RestartController
    <2> QED
      BY <2>1, <2>2
  <1>4. ASSUME NEW t \in Threads, CallStep(t) \/ ServeStep(t)
        PROVE  \/ fatal' = fatal
               \/ fatal' = "unlockOfUnlocked" /\ UnlockRead(t) /\ ~readLock
    <2>1. CASE UnlockRead(t)
      BY <2>1 DEF UnlockRead
    <2>2. CASE ~UnlockRead(t)
      BY <1>4, <2>2 DEF CallStep, Notify, UnobservedWrite, RestRead, BeforeCacheRead,
         ServeStep, SendNotificationAndBlock, StoreObject, ProcessPause, EndPause,
         LockRead, AfterCacheRead
    <2> QED
      BY <2>1, <2>2
  <1>5. CASE \E t \in Threads, i \in Actions : ConcurrentMapAccess(t, i)
    BY <1>5 DEF ConcurrentMapAccess
  <1>6. CASE \E k \in Keys : CacheChanges(k)
    BY <1>6 DEF CacheChanges
  <1>7. CASE UNCHANGED vars
    BY <1>7 DEF vars
  <1> QED
    BY <1>1, <1>2, <1>3, <1>4, <1>5, <1>6, <1>7 DEF Next, StateMachineNext, SelectStep

PauseTypes == {"pauseAPIServer", "pauseController"}

\* The part of ChannelInv that is about one action.
ChannelOf(i, s, c) ==
    /\ s \in {"close", "unlock"} => Plan[i].type = "resumeAPIServer"
    /\ Plan[i].type \in PauseTypes /\ s \notin {"idle", "before"} => c # "none"
    /\ ResumedOnce /\ Plan[i].type \in ResumeTypes /\ s \in {"idle", "before", "close"}
       => c # "closed"

\* ChannelInv action by action, in this state and in the next.
LEMMA ChannelParts ==
    /\ ChannelInv => \A i \in Actions : ChannelOf(i, stage[i], ch[Plan[i].gate])
    /\ /\ ChannelsClosedOnce'
       /\ \A i \in Actions : ChannelOf(i, stage'[i], ch'[Plan[i].gate])
       => ChannelInv'
  BY DEF ChannelInv, ChannelOf, PauseTypes, ResumeTypes, ResumedOnce

\* A resume action of a plan that opens each gate once finds its channel open: the
\* pause before it has returned, and no other action closes it.
LEMMA ResumeFindsOpen ==
    ASSUME IndInv, ChannelInv, ResumedOnce, NEW i \in Actions
    PROVE  ~ResumePanics(i)
  <1> SUFFICES ASSUME ResumePanics(i) PROVE FALSE
    OBVIOUS
  <1> DEFINE g == Plan[i].gate
  <1>1. g \in Gates /\ ch \in [Gates -> ChannelStates]
    BY PlanFacts DEF IndInv, TypeOK, PauseTypeOK
  <1>2. /\ stage[i] \in {"before", "close"} /\ Plan[i].type \in ResumeTypes
        /\ stage[i] = "before" \/ ch[g] = "closed"
        /\ ch[g] # "open"
    BY DEF ResumePanics, Starts, ChannelInv, ResumeTypes
  <1>3. ch[g] # "closed"
    BY <1>2, ChannelParts DEF ChannelOf
  <1>4. ch[g] = "none" /\ stage[i] = "before"
    BY <1>1, <1>2, <1>3 DEF ChannelStates
  <1>5. PICK k \in Actions : k < i /\ Plan[k].gate = g /\ Plan[k].type \in PauseTypes
    BY <1>2 DEF ResumedOnce, PauseTypes
  <1>6. ~(i > nextState)
    BY <1>4 DEF IndInv, ActionsInOrder
  <1>7. k < nextState
    BY <1>5, <1>6, PlanFacts DEF IndInv, TypeOK, ProgTypeOK
  <1>8. stage[k] \in {"readlock", "done"}
    BY <1>7 DEF IndInv, ActionsInOrder
  <1>9. ch[Plan[k].gate] # "none"
    BY <1>5, <1>8, ChannelParts DEF ChannelOf
  <1> QED
    BY <1>4, <1>5, <1>9

\* The steps of an action: a pause makes the channel that is missing, and a resume
\* closes the one that is open.
LEMMA RunChannels ==
    ASSUME IndInv, ChannelInv, NEW i \in Actions, RunStep(i), NEW j \in Actions
    PROVE  ChannelOf(j, stage'[j], ch'[Plan[j].gate])
  <1> DEFINE g == Plan[i].gate
             h == Plan[j].gate
  <1>1. /\ stage \in [Actions -> Stages] /\ ch \in [Gates -> ChannelStates]
        /\ g \in Gates /\ h \in Gates /\ AfterEffect(i) \in {"signal", "readlock", "done"}
    BY PlanFacts DEF IndInv, TypeOK, ProgTypeOK, PauseTypeOK, AfterEffect
  <1>2. ChannelOf(i, stage[i], ch[g]) /\ ChannelOf(j, stage[j], ch[h])
    BY ChannelParts
  <1> SUFFICES ChannelOf(j, stage'[j], ch'[h])
    OBVIOUS
  <1>3. j = i => h = g
    OBVIOUS
  <1>4. Plan[i].type \in ResumeTypes /\ ResumedOnce /\ Plan[j].type \in ResumeTypes /\ h = g
          => j = i
    BY DEF ResumedOnce
  <1> HIDE DEF g, h
  <1>5. ASSUME NEW s \in Stages, stage' = [stage EXCEPT ![i] = s], ch' = ch,
               s \in {"close", "unlock"} => Plan[i].type = "resumeAPIServer",
               Plan[i].type \in PauseTypes => stage[i] \notin {"idle", "before"},
               s = "close" => stage[i] = "before", s \notin {"idle", "before"}
        PROVE  ChannelOf(j, stage'[j], ch'[h])
    BY <1>1, <1>2, <1>3, <1>5 DEF ChannelOf
  <1>6. ASSUME NEW s \in Stages, stage' = [stage EXCEPT ![i] = s],
               ch' = [ch EXCEPT ![g] = "closed"],
               Plan[i].type \in ResumeTypes, s \notin {"idle", "before", "close"},
               s = "unlock" => Plan[i].type = "resumeAPIServer"
        PROVE  ChannelOf(j, stage'[j], ch'[h])
    <2>1. j = i => Plan[j].type \notin PauseTypes
      BY <1>6 DEF PauseTypes, ResumeTypes
    <2>2. ch'[h] # "none" \/ ch'[h] = ch[h]
      BY <1>1, <1>6
    <2>3. ch'[h] = "closed" => h = g \/ ch[h] = "closed"
      BY <1>1, <1>6
    <2> QED
      BY <1>1, <1>2, <1>4, <1>6, <2>1, <2>2, <2>3 DEF ChannelOf
  <1>7. CASE Pause(i)
    <2>1. /\ ch' = [ch EXCEPT ![g] = IF @ = "none" THEN "open" ELSE @]
          /\ stage' = [stage EXCEPT ![i] = AfterEffect(i)]
          /\ Plan[i].type \notin ResumeTypes
      BY <1>7 DEF Pause, ProgressTo, Starts, ResumeTypes, g
    <2>2. CASE h = g
      <3>1. ch'[h] = IF ch[h] = "none" THEN "open" ELSE ch[h]
        BY <1>1, <2>1, <2>2
      <3> QED
        BY <1>1, <1>2, <2>1, <3>1 DEF ChannelOf
    <2>3. CASE h # g
      <3>1. ch'[h] = ch[h] /\ stage'[j] = stage[j]
        BY <1>1, <1>3, <2>1, <2>3
      <3> QED
        BY <1>2, <3>1
    <2> QED
      BY <2>2, <2>3
  <1>8. CASE AvoidOngoingRead(i)
    <2>1. /\ stage' = [stage EXCEPT ![i] = "done"] /\ stage[i] = "readlock" /\ ch' = ch
          /\ "done" \in Stages
      BY <1>8 DEF AvoidOngoingRead, ProgressTo, pauseVars, Stages
    <2> QED
      BY <1>5, <2>1
  <1>9. CASE \E t \in Threads : ResumeAPIServerSend(i, t)
    <2>1. /\ stage' = [stage EXCEPT ![i] = "close"] /\ stage[i] = "before" /\ ch' = ch
          /\ Plan[i].type = "resumeAPIServer" /\ "close" \in Stages
      BY <1>9 DEF ResumeAPIServerSend, ProgressTo, Starts, pauseVars, Stages
    <2> QED
      BY <1>5, <2>1 DEF PauseTypes
  <1>10. CASE ResumeAPIServerClose(i)
    <2>1. /\ stage' = [stage EXCEPT ![i] = "unlock"] /\ ch' = [ch EXCEPT ![g] = "closed"]
          /\ stage[i] = "close" /\ "unlock" \in Stages
      BY <1>10 DEF ResumeAPIServerClose, ProgressTo, Stages, g
    <2>2. Plan[i].type = "resumeAPIServer"
      BY <1>2, <2>1 DEF ChannelOf
    <2> QED
      BY <1>6, <2>1, <2>2 DEF ResumeTypes
  <1>11. CASE ResumeAPIServerUnlock(i)
    <2>1. /\ stage' = [stage EXCEPT ![i] = AfterEffect(i)] /\ stage[i] = "unlock" /\ ch' = ch
          /\ AfterEffect(i) \in Stages
      BY <1>1, <1>11 DEF ResumeAPIServerUnlock, ProgressTo, Stages
    <2> QED
      BY <1>1, <1>5, <2>1
  <1>12. CASE ResumeController(i)
    <2>1. /\ stage' = [stage EXCEPT ![i] = AfterEffect(i)] /\ AfterEffect(i) \in Stages
          /\ ch' = [ch EXCEPT ![g] = "closed"] /\ Plan[i].type = "resumeController"
      BY <1>1, <1>12 DEF ResumeController, Starts, ProgressTo, Stages, g
    <2> QED
      BY <1>1, <1>6, <2>1 DEF ResumeTypes
  <1>13. CASE ResumePanics(i)
    BY <1>2, <1>13 DEF ResumePanics, smVars, progVars, pauseVars
  <1>14. CASE RestartController(i)
    <2>1. /\ stage' = [stage EXCEPT ![i] = AfterEffect(i)] /\ ch' = ch
          /\ AfterEffect(i) \in Stages
          /\ Plan[i].type \in {"restartController", "reconnectController"}
      BY <1>1, <1>14 DEF RestartController, Starts, ProgressTo, pauseVars, Stages
    <2> QED
      BY <1>1, <1>5, <2>1 DEF PauseTypes
  <1> QED
    BY <1>7, <1>8, <1>9, <1>10, <1>11, <1>12, <1>13, <1>14 DEF RunStep

\* Every step keeps the channels.
LEMMA ChannelStep ==
    ASSUME IndInv, ChannelInv, [Next]_vars
    PROVE  ChannelInv'
  <1>1. ChannelsClosedOnce'
    <2> SUFFICES ASSUME ResumedOnce, fatal' = "closedChannel" PROVE FALSE
      BY DEF ChannelsClosedOnce, ResumedOnce, ResumeTypes
    <2>1. fatal # "closedChannel"
      BY DEF ChannelInv, ChannelsClosedOnce
    <2>2. PICK i \in Actions : ResumePanics(i)
      BY <2>1, FatalCases
    <2> QED
      BY <2>2, ResumeFindsOpen
  <1>2. ASSUME NEW j \in Actions
        PROVE  ChannelOf(j, stage'[j], ch'[Plan[j].gate])
    <2>1. stage \in [Actions -> Stages] /\ ChannelOf(j, stage[j], ch[Plan[j].gate])
      BY ChannelParts DEF IndInv, TypeOK, ProgTypeOK
    <2>2. CASE UNCHANGED <<stage, pauseVars>>
      BY <2>1, <2>2 DEF pauseVars
    <2>3. CASE /\ nextState \in Actions /\ stage[nextState] = "idle" /\ UNCHANGED pauseVars
               /\ stage' = [stage EXCEPT ![nextState] = "before"]
      BY <2>1, <2>3 DEF ChannelOf, pauseVars
    <2>4. ASSUME NEW i \in Actions, ProcessAsyncDone(i)
          PROVE  ChannelOf(j, stage'[j], ch'[Plan[j].gate])
      <3>1. PICK s \in {"readlock", "done"} :
               stage[i] = "signal" /\ stage' = [stage EXCEPT ![i] = s] /\ UNCHANGED ch
        BY <2>4 DEF ProcessAsyncDone, pauseVars
      <3> QED
        BY <2>1, <3>1 DEF ChannelOf
    <2>5. CASE \E i \in Actions : RunStep(i)
      BY <2>5, RunChannels
    <2> QED
      BY <2>2, <2>3, <2>4, <2>5, StageCases
  <1> QED
    BY <1>1, <1>2, ChannelParts

\* For every plan that opens each gate once, after it was shut, no resume action makes
\* the coordinator panic on a channel that is closed or was never made
\* (ResumeAPIServerAction and ResumeControllerAction of test_plan.go).
THEOREM ChannelsCorrect == Spec => []ChannelsClosedOnce
  <1>1. Init => ChannelInv
    <2> SUFFICES ASSUME Init PROVE ChannelInv
      OBVIOUS
    <2>1. /\ stage = [j \in Actions |-> "idle"] /\ ch = [g \in Gates |-> "none"]
          /\ fatal = "none"
      BY DEF Init, StateMachineInit
    <2> QED
      BY <2>1, PlanFacts DEF ChannelInv, ChannelsClosedOnce
  <1>2. ChannelInv => ChannelsClosedOnce
    BY DEF ChannelInv
  <1> QED
    BY Invariance, ChannelStep, <1>1, <1>2, PTL DEF Spec

\* For every plan, every set of threads and calls, and with restarts: the mutex of the
\* reads is not unlocked by somebody who has not locked it unless a read that the plan
\* may pause has begun with nothing of its type in the cache (NotifyTestBeforeCacheGet
\* and NotifyTestAfterCacheGet of test_client.go, ProcessPauseControllerRead).
THEOREM LockCorrect == Spec => []UnlockExplained
  <1>1. Init => UnlockExplained
    BY DEF Init, StateMachineInit, UnlockExplained
  <1>2. IndInv /\ LockInv /\ UnlockExplained /\ [Next]_vars => UnlockExplained'
    <2> SUFFICES ASSUME IndInv, LockInv, UnlockExplained, [Next]_vars,
                        fatal' = "unlockOfUnlocked", ~blindRead'
                 PROVE  FALSE
      BY DEF UnlockExplained
    <2>1. CASE fatal = "unlockOfUnlocked"
      BY <2>1, BlindReadStays DEF UnlockExplained
    <2>2. CASE fatal # "unlockOfUnlocked"
      <3>1. PICK t \in Threads : UnlockRead(t) /\ ~readLock
        BY <2>2, FatalCases
      <3>2. pc[t] = "unlock" /\ call[t].fn = "read" /\ ~blindRead
        BY <3>1 DEF UnlockRead, IndInv, CallInv, AtReadPoint
      <3>3. HoldsReadLock(t)
        BY <3>2 DEF LockInv, HoldsReadLock
      <3> QED
        BY <3>1, <3>2, <3>3 DEF LockInv
    <2> QED
      BY <2>1, <2>2
  <1> QED
    BY Invariance, LockInvariance, <1>1, <1>2, PTL DEF Spec

\* For every plan, every set of threads and calls and every interleaving, restarts
\* included, an exit of the coordinator has one of the known reasons: with expressions
\* and gates like those of the policies neither trigger() nor a channel, and only after
\* a read that found the cache empty of its type the lock of the reads.  It says nothing
\* of concurrent accesses to a map.
THEOREM ExitsExplainedEver == Spec => []ExitsExplained
  <1>1. NoSecondTrigger /\ ChannelsClosedOnce /\ UnlockExplained => ExitsExplained
    BY DEF ExitsExplained
  <1> QED
    BY TriggeredOnce, ChannelsCorrect, LockCorrect, <1>1, PTL
============================================================================
