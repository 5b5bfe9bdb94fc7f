-------------------------- MODULE TestCoordinator --------------------------
(***************************************************************************)
(* The test coordinator: the RPC handlers of the event monitor             *)
(* (sieve_server/test_coordinator.go) composed with the state machine, and *)
(* the instrumented threads that call them (sieve_client/test_client.go).  *)
(*                                                                         *)
(* A call is a record                                                      *)
(*   fn    "notify": a handler that sends a notification and blocks;       *)
(*         "get": the result of a read from the API server;                *)
(*         "read": a cached Get or List with the pause points around it    *)
(*   when, by, key      observation point and resource key                 *)
(*   op    "create", "update", "delete", "annotated" or "other" (an event  *)
(*         type the handler does not support); "Get" or "List" of a read   *)
(*   obj   the object state carried by the call                            *)
(*                                                                         *)
(* The thread of a call goes through                                       *)
(*   idle -> send -> blocked -> store -> pause -> paused -> idle           *)
(* for a notification and through                                          *)
(*   idle -> lock -> pause -> paused -> reading -> unlock -> pauseAfter    *)
(*        -> paused -> idle                                                *)
(* for a cached read, leaving out the parts its call does not have.        *)
(***************************************************************************)
EXTENDS StateMachine

CONSTANTS Calls,       \* the calls that each thread may make
          Reconcilers, \* reconcile functions
          TypeOf,      \* resource type of each key
          Objects,     \* object states
          EmptyObject, \* "{}", the state of an object never seen
          VolatileKeys,\* keys of objects that the workload deletes
          MaxCalls,    \* bound: calls made by each thread
          StateChCap   \* capacity of stateNotificationCh

VARIABLES objectStates,  \* by observer, observation point and key
          call,          \* the call each thread is in
          prev,          \* the previous object state the handler has read
          calls          \* calls each thread has made

RecvPoints  == {"beforeAPIServerRecv", "afterAPIServerRecv",
                "beforeControllerRecv", "afterControllerRecv"}
APIPoints   == {"beforeAPIServerRecv", "afterAPIServerRecv"}
WritePoints == {"beforeControllerWrite", "afterControllerWrite"}
CallPoints  == {"beforeAnnotatedAPICall", "afterAnnotatedAPICall"}
Points      == RecvPoints \cup WritePoints \cup CallPoints

Observers == APIServers \cup Reconcilers \cup {"informer"}

CallRecords ==
    [fn : {"notify", "get", "read"}, when : Points, by : Observers, key : Keys,
     op : {"create", "update", "delete", "annotated", "other", "Get", "List"},
     obj : Objects]

NoCall == [fn |-> "none"]

ASSUME CoordinatorAssumption ==
    /\ Calls \in [Threads -> SUBSET CallRecords]
    /\ \A t \in Threads : \A c \in Calls[t] : c.when \in APIPoints => c.by \in APIServers
    /\ DOMAIN TypeOf = Keys
    /\ EmptyObject \in Objects
    /\ MaxCalls \in [Threads -> Nat]
    /\ StateChCap \in Nat \ {0}

\* The events of one object that one observer receives are handled by one thread: a
\* watch cache of an API server, an informer of each controller process.
ASSUME DeliveryAssumption ==
    \A t, u \in Threads : \A c \in Calls[t], d \in Calls[u] :
        /\ c.fn = "notify" /\ d.fn = "notify" /\ c.when \in RecvPoints
        /\ <<c.by, c.when, c.key>> = <<d.by, d.when, d.key>>
        => t = u \/ ({t, u} \subseteq CtlThreads /\ Process[t] # Process[u])

coordinatorVars == <<objectStates, call, prev, calls>>
vars == <<smVars, pauseVars, threadVars, fatal, coordinatorVars>>

-----------------------------------------------------------------------------
(* The filters of the client: an RPC is made only for what the plan names.  *)

SameType(k) == {j \in Keys : TypeOf[j] = TypeOf[k]}

\* The keys a call is about: a List is about all the objects of a type.
KeysOf(c) == IF c.op = "List" THEN SameType(c.key) ELSE {c.key}

\* checkKVPairInTriggerObservationPoint for "when" or "by": some trigger on one
\* of the keys has the value.
Named(K, field, value) ==
    \E i \in Actions : \E n \in DOMAIN Plan[i].defs :
        /\ Plan[i].defs[n].cond \notin {"onTimeout", "onAnnotatedAPICall"}
        /\ Plan[i].defs[n].key \in K /\ Plan[i].defs[n][field] = value

\* The call is reported.  Only the calls of a reconciler are compared with "by",
\* and an annotated call only with the function.
Observed(c) ==
    IF c.op = "annotated"
    THEN \E i \in Actions : \E n \in DOMAIN Plan[i].defs :
             Plan[i].defs[n].cond = "onAnnotatedAPICall" /\ Plan[i].defs[n].key = c.key
    ELSE /\ Named(KeysOf(c), "when", c.when)
         /\ c.when \in WritePoints => Named(KeysOf(c), "by", c.by)

\* checkKVPairInAction: some pauseController action has one of the keys as its
\* pauseScope, and some has one of the points as its pauseAt.
Pausable(c, points) ==
    /\ \E i \in Actions : Plan[i].type = "pauseController" /\ Plan[i].gate[2] \in KeysOf(c)
    /\ \E i \in Actions : Plan[i].type = "pauseController" /\ Plan[i].gate[1] \in points

PausableRead(c)  == Pausable(c, {"beforeControllerRead", "afterControllerRead"})
PausableWrite(c) == Pausable(c, WritePoints)

-----------------------------------------------------------------------------
(* The RPC handlers.                                                       *)

\* The process of thread t is running.
Alive(t) == t \in CtlThreads => Process[t] = process

\* A thread whose process was killed is gone once its RPC has been served.
Return(t, next) ==
    pc' = [pc EXCEPT ![t] = IF Alive(t) THEN next ELSE "idle"]

\* Mutant: the new state is stored before the notification is processed.
Notify_StoresFirst(t, c) ==
    /\ Running /\ Alive(t) /\ pc[t] = "idle" /\ calls[t] < MaxCalls[t]
    /\ c \in Calls[t] /\ c.fn = "notify" /\ Observed(c)
    /\ prev' = [prev EXCEPT ![t] = objectStates[c.by][c.when][c.key]]
    /\ objectStates' = [objectStates EXCEPT ![c.by][c.when][c.key] = c.obj]
    /\ pc' = [pc EXCEPT ![t] = IF c.op = "other" THEN "store" ELSE "send"]
    /\ call' = [call EXCEPT ![t] = c]
    /\ calls' = [calls EXCEPT ![t] = @ + 1]
    /\ UNCHANGED <<smVars, pauseVars, waitOn, process, cache, blindRead, readLock, fatal>>

\* Beginning of the Notify* handlers: the entry is initialized and the previous
\* state read; an unsupported operation type is not notified.
Notify(t, c) ==
    /\ Running /\ Alive(t) /\ pc[t] = "idle" /\ calls[t] < MaxCalls[t]
    /\ c \in Calls[t] /\ c.fn = "notify" /\ Observed(c)
    /\ prev' = [prev EXCEPT ![t] = objectStates[c.by][c.when][c.key]]
    /\ pc' = [pc EXCEPT ![t] = IF c.op = "other" THEN "store" ELSE "send"]
    /\ call' = [call EXCEPT ![t] = c]
    /\ calls' = [calls EXCEPT ![t] = @ + 1]
    /\ UNCHANGED <<smVars, pauseVars, waitOn, process, cache, blindRead, readLock, fatal,
                   objectStates>>

\* A write that no trigger observes: only the pause RPC is made.
UnobservedWrite(t, c) ==
    /\ Running /\ Alive(t) /\ pc[t] = "idle" /\ calls[t] < MaxCalls[t]
    /\ c \in Calls[t] /\ c.fn = "notify" /\ c.when \in WritePoints
    /\ ~Observed(c) /\ PausableWrite(c)
    /\ pc' = [pc EXCEPT ![t] = "pause"]
    /\ call' = [call EXCEPT ![t] = c]
    /\ calls' = [calls EXCEPT ![t] = @ + 1]
    /\ UNCHANGED <<smVars, pauseVars, waitOn, process, cache, blindRead, readLock, fatal,
                   objectStates, prev>>

\* Send...NotificationAndBlock: the notification is put into the channel and
\* the handler waits on the blockingCh in it.
SendNotificationAndBlock(t) ==
    /\ Running /\ pc[t] = "send" /\ Len(stateCh) < StateChCap
    /\ stateCh' = Append(stateCh,
                    [op |-> call[t].op, key |-> call[t].key, when |-> call[t].when,
                     by |-> call[t].by, prev |-> prev[t], cur |-> call[t].obj,
                     thread |-> t])
    /\ pc' = [pc EXCEPT ![t] = "blocked"]
    /\ UNCHANGED <<progVars, graphVars, loopVars, timeoutCh, timers, pauseVars,
                   waitOn, process, cache, blindRead, readLock, fatal, coordinatorVars>>

\* Mutant: the handlers of the API servers return without the pause.
StoreObject_NoPause(t) ==
    /\ Running /\ pc[t] = "store"
    /\ objectStates' = IF call[t].when \in RecvPoints
                       THEN [objectStates EXCEPT ![call[t].by][call[t].when][call[t].key] =
                                                     call[t].obj]
                       ELSE objectStates
    /\ Return(t, "idle")
    /\ UNCHANGED <<smVars, pauseVars, waitOn, process, cache, blindRead, readLock, fatal,
                   call, prev, calls>>

\* After the block: the receive handlers store the object; those of the API
\* servers then may pause.  A write handler returns, and the client calls the
\* WritePause handler of the same point.
StoreObject(t) ==
    LET c == call[t]
    IN  /\ Running /\ pc[t] = "store"
        /\ objectStates' = IF c.when \in RecvPoints
                           THEN [objectStates EXCEPT ![c.by][c.when][c.key] = c.obj]
                           ELSE objectStates
        /\ CASE c.when \in APIPoints ->
                    pc' = [pc EXCEPT ![t] = "pause"]
             [] c.when \in WritePoints /\ PausableWrite(c) -> Return(t, "pause")
             [] OTHER -> Return(t, "idle")
        /\ UNCHANGED <<smVars, pauseVars, waitOn, process, cache, blindRead, readLock, fatal,
                       call, prev, calls>>

\* The table entries that a read by a reconciler refreshes.
RefreshObjects(by, K, obj) ==
    objectStates' = [objectStates EXCEPT ![by] =
                       [w \in Points |-> [k \in Keys |->
                           IF w \in WritePoints /\ k \in K THEN obj
                                                           ELSE @[w][k]]]]

\* NotifyTestAfterControllerGet and ...List after a read from the API server.
RestRead(t, c) ==
    /\ Running /\ Alive(t) /\ pc[t] = "idle" /\ calls[t] < MaxCalls[t]
    /\ c \in Calls[t] /\ c.fn = "get" /\ Observed(c)
    /\ RefreshObjects(c.by, KeysOf(c), c.obj)
    /\ calls' = [calls EXCEPT ![t] = @ + 1]
    /\ UNCHANGED <<smVars, pauseVars, threadVars, fatal, call, prev>>

-----------------------------------------------------------------------------
(* ProcessPause...: which gate, if any, stops the thread.                  *)

Flagged(g) == shouldPause[g]

\* The API servers look at the key and then at "all", the controller at "all"
\* first; a List is stopped by any flagged key of its type.
StoppedBy(c, where) ==
    LET all  == {<<where, "all">>}
        keys == {<<where, k>> : k \in KeysOf(c)}
        On(G) == {g \in G : Flagged(g)}
    IN  IF where \in APIServers
        THEN IF On(keys) # {} THEN On(keys) ELSE On(all)
        ELSE IF On(all) # {} THEN On(all) ELSE On(keys)

\* Where the pause point of a thread at "pause" or "pauseAfter" is.
PausePoint(t) ==
    IF call[t].fn = "read"
    THEN IF pc[t] = "pause" THEN "beforeControllerRead" ELSE "afterControllerRead"
    ELSE IF call[t].when \in APIPoints THEN call[t].by ELSE call[t].when

AfterPause(t, where) ==
    Return(t, IF where = "beforeControllerRead" THEN "reading" ELSE "idle")

ProcessPause(t) ==
    LET G == StoppedBy(call[t], PausePoint(t))
    IN  /\ Running /\ pc[t] \in {"pause", "pauseAfter"}
        /\ IF G = {}
           THEN AfterPause(t, PausePoint(t)) /\ UNCHANGED waitOn
           ELSE /\ \E g \in G : waitOn' = [waitOn EXCEPT ![t] = g]
                /\ pc' = [pc EXCEPT ![t] = "paused"]
        /\ UNCHANGED <<smVars, pauseVars, process, cache, blindRead, readLock, fatal,
                       coordinatorVars>>

\* A receive from a closed channel returns at once.
EndPause(t) ==
    /\ Running /\ pc[t] = "paused" /\ ch[waitOn[t]] = "closed"
    /\ AfterPause(t, waitOn[t][1])
    /\ UNCHANGED <<smVars, pauseVars, waitOn, process, cache, blindRead, readLock, fatal,
                   coordinatorVars>>

\* ProcessPauseAPIServerRecv reads apiserverLockedMap while an action writes to
\* it, without a lock on either side: the Go runtime may stop the process.
ConcurrentMapAccess(t, i) ==
    /\ Running /\ pc[t] = "pause" /\ PausePoint(t) \in APIServers
    /\ \/ Starts(i, {"pauseAPIServer"})
       \/ stage[i] = "unlock"
    /\ fatal' = "concurrentMapAccess"
    /\ UNCHANGED <<smVars, pauseVars, threadVars, coordinatorVars>>

-----------------------------------------------------------------------------
(* Cached reads of the controller.                                         *)

Items(k) == cache \cap SameType(k)

\* NotifyTestBeforeCacheGet and ...List return at once when the cache holds
\* nothing of the type, or the plan pauses no such read.
BeforeCacheRead(t, c) ==
    /\ Running /\ Alive(t) /\ pc[t] = "idle" /\ calls[t] < MaxCalls[t]
    /\ c \in Calls[t] /\ c.fn = "read"
    /\ pc' = [pc EXCEPT ![t] = IF Items(c.key) # {} /\ PausableRead(c)
                                THEN "lock" ELSE "reading"]
    /\ call' = [call EXCEPT ![t] = c]
    /\ calls' = [calls EXCEPT ![t] = @ + 1]
    /\ blindRead' = (blindRead \/ (Items(c.key) = {} /\ PausableRead(c)))
    /\ UNCHANGED <<smVars, pauseVars, waitOn, process, cache, readLock, fatal,
                   objectStates, prev>>

\* ProcessPauseControllerRead(true, ...) takes controllerOngoingReadLock.
LockRead(t) ==
    /\ Running /\ pc[t] = "lock" /\ ~readLock
    /\ readLock' = TRUE
    /\ pc' = [pc EXCEPT ![t] = "pause"]
    /\ UNCHANGED <<smVars, pauseVars, waitOn, process, cache, blindRead, fatal, coordinatorVars>>

\* Mutant: the RPC after the read is made whether or not the plan pauses such reads.
AfterCacheRead_AlwaysUnlocks(t) ==
    LET c == call[t]
        found == IF c.op = "Get" THEN {c.key} \cap cache ELSE Items(c.key)
    IN  /\ Running /\ pc[t] = "reading"
        /\ pc' = [pc EXCEPT ![t] = IF found # {} THEN "unlock" ELSE "idle"]
        /\ IF found # {} /\ Observed(c)
           THEN RefreshObjects(c.by, found, c.obj) ELSE UNCHANGED objectStates
        /\ UNCHANGED <<smVars, pauseVars, waitOn, process, cache, blindRead, readLock, fatal,
                       call, prev, calls>>

\* The read itself and NotifyTestAfterCacheGet or ...List, which returns at once
\* when nothing was found.
AfterCacheRead(t) ==
    LET c == call[t]
        found == IF c.op = "Get" THEN {c.key} \cap cache ELSE Items(c.key)
    IN  /\ Running /\ pc[t] = "reading"
        /\ pc' = [pc EXCEPT ![t] = IF found # {} /\ PausableRead(c)
                                    THEN "unlock" ELSE "idle"]
        /\ IF found # {} /\ Observed(c)
           THEN RefreshObjects(c.by, found, c.obj) ELSE UNCHANGED objectStates
        /\ UNCHANGED <<smVars, pauseVars, waitOn, process, cache, blindRead, readLock, fatal,
                       call, prev, calls>>

\* ProcessPauseControllerRead(false, ...) gives the lock back; Go stops the
\* process when nobody holds it.
UnlockRead(t) ==
    /\ Running /\ pc[t] = "unlock"
    /\ IF readLock
       THEN /\ readLock' = FALSE
            /\ pc' = [pc EXCEPT ![t] = "pauseAfter"]
            /\ UNCHANGED fatal
       ELSE fatal' = "unlockOfUnlocked" /\ UNCHANGED <<readLock, pc>>
    /\ UNCHANGED <<smVars, pauseVars, waitOn, process, cache, blindRead, coordinatorVars>>

\* The informer adds an object, or removes one that the workload deletes.
CacheChanges(k) ==
    /\ Running
    /\ k \in cache => k \in VolatileKeys
    /\ cache' = IF k \in cache THEN cache \ {k} ELSE cache \cup {k}
    /\ UNCHANGED <<smVars, pauseVars, pc, waitOn, process, blindRead, readLock, fatal,
                   coordinatorVars>>

-----------------------------------------------------------------------------
Init ==
    /\ StateMachineInit
    /\ readLock = FALSE
    /\ pc = [t \in Threads |-> "idle"]
    /\ waitOn = [t \in Threads |-> <<>>]
    /\ process = 0 /\ blindRead = FALSE
    /\ cache \in {K \in SUBSET Keys : Keys \ VolatileKeys \subseteq K}
    /\ objectStates = [b \in Observers |-> [w \in Points |-> [k \in Keys |-> EmptyObject]]]
    /\ call = [t \in Threads |-> NoCall]
    /\ prev = [t \in Threads |-> EmptyObject]
    /\ calls = [t \in Threads |-> 0]

\* What a thread does once it has made a call.
ServeStep(t) ==
    \/ SendNotificationAndBlock(t) \/ StoreObject(t)
    \/ ProcessPause(t) \/ EndPause(t)
    \/ LockRead(t) \/ AfterCacheRead(t) \/ UnlockRead(t)

CallStep(t) ==
    \E c \in Calls[t] : \/ Notify(t, c) \/ UnobservedWrite(t, c)
                        \/ RestRead(t, c) \/ BeforeCacheRead(t, c)

Next ==
    \/ StateMachineNext /\ UNCHANGED coordinatorVars
    \/ \E t \in Threads : CallStep(t) \/ ServeStep(t)
    \/ \E t \in Threads, i \in Actions : ConcurrentMapAccess(t, i)
    \/ \E k \in Keys : CacheChanges(k)

Spec == Init /\ [][Next]_vars

\* The state machine, the sleeping timers, the actions and the handlers go on as
\* long as they can.  With a bounded number of calls there are finitely many steps
\* of each kind, so that nothing stronger is needed to let every goroutine go on.
\* Nothing is assumed of the calls that threads make and of the cache.
Fairness ==
    /\ WF_vars(SelectStep /\ UNCHANGED coordinatorVars)
    /\ WF_vars((\E n \in Names : TimeoutExpires(n)) /\ UNCHANGED coordinatorVars)
    /\ WF_vars((\E i \in Actions : RunStep(i)) /\ UNCHANGED coordinatorVars)
    /\ WF_vars(\E t \in Threads : ServeStep(t))

FairSpec == Spec /\ Fairness

-----------------------------------------------------------------------------
StateNotifications ==
    [op : {"create", "update", "delete", "annotated", "other", "Get", "List"},
     key : Keys, when : Points, by : Observers, prev : Objects, cur : Objects,
     thread : Threads]

TimeoutNotifications == [op : {"timeout"}, name : Names]

ThreadStates == {"idle", "send", "blocked", "store", "pause", "paused", "lock",
                 "reading", "unlock", "pauseAfter"}

ProgTypeOK ==
    /\ nextState \in 1 .. Len(Plan) + 1
    /\ asyncActionInExecution \in BOOLEAN
    /\ stage \in [Actions -> Stages]

GraphTypeOK ==
    /\ toSatisfy \in [Actions -> SUBSET Names]
    /\ satisfied \in [Actions -> SUBSET Names]
    /\ occurrence \in [Actions -> [Names -> Nat]]

LoopTypeOK ==
    /\ smPc \in {"select", "visit", "act"}
    /\ cur \in StateNotifications \cup TimeoutNotifications \cup {NoNotification}
    /\ todo \subseteq Names /\ fresh \subseteq Names

QueueTypeOK ==
    /\ stateCh \in Seq(StateNotifications)
    /\ timeoutCh \in Seq(Names)
    /\ timers \in [Names -> Nat]

PauseTypeOK ==
    /\ shouldPause \in [Gates -> BOOLEAN]
    /\ ch \in [Gates -> ChannelStates]
    /\ fatal \in {"none", "inSatisfied", "closedChannel", "concurrentMapAccess",
                  "unlockOfUnlocked"}

ThreadTypeOK ==
    /\ readLock \in BOOLEAN
    /\ pc \in [Threads -> ThreadStates]
    /\ waitOn \in [Threads -> Gates \cup {<<>>}]
    /\ process \in Nat
    /\ cache \subseteq Keys /\ blindRead \in BOOLEAN

CallTypeOK ==
    /\ objectStates \in [Observers -> [Points -> [Keys -> Objects]]]
    /\ call \in [Threads -> CallRecords \cup {NoCall}]
    /\ prev \in [Threads -> Objects]
    /\ calls \in [Threads -> Nat]
    /\ \A t \in Threads : calls[t] <= MaxCalls[t]

TypeOK == /\ ProgTypeOK /\ GraphTypeOK /\ LoopTypeOK /\ QueueTypeOK
          /\ PauseTypeOK /\ ThreadTypeOK /\ CallTypeOK

\* The state machine is processing a notification of thread t.
Processing(t) == smPc # "select" /\ cur.op # "timeout" /\ cur.thread = t

Queued(t) == {i \in DOMAIN stateCh : stateCh[i].thread = t}

\* A handler waits on its blockingCh if and only if exactly one notification that
\* carries the channel is in stateNotificationCh or in processNotification: no
\* early return, loop exit or action loses the release or sends it twice
\* (the deferred function of processNotification).
OneReleasePerHandler ==
    \A t \in Threads :
        /\ pc[t] = "blocked" <=> Queued(t) # {} \/ Processing(t)
        /\ Processing(t) => Queued(t) = {}
        /\ \A i, j \in Queued(t) : i = j

\* Action i has been started and has not reported its end.
Executing(i) == stage[i] \in {"before", "close", "unlock", "signal"}

\* Actions are run once, in the order of the plan and one at a time: those before
\* nextState have taken effect, those after it have not been started, and the
\* current one is under way exactly when the state machine runs it or waits for
\* its goroutine (processNotification, processAsyncDone).
ActionsInOrder ==
    \A i \in Actions :
        /\ i < nextState => stage[i] \in {"readlock", "done"}
        /\ i > nextState => stage[i] = "idle"
        /\ i = nextState =>
             /\ stage[i] # "idle" <=> smPc = "act" \/ asyncActionInExecution
             /\ asyncActionInExecution => Executing(i) /\ Plan[i].async
             /\ smPc = "act" => ~Plan[i].async

\* What the invariants above need to be inductive: where the state machine is in
\* processNotification there is a next action and a notification, and a thread
\* that is in a call is in one of its calls, at a pause point only with a call
\* that has one and at the points of a cached read only with a cached read.
LoopInv ==
    /\ smPc # "select" => /\ nextState \in Actions
                          /\ cur \in StateNotifications \cup TimeoutNotifications
    /\ smPc = "visit" => ~asyncActionInExecution
    /\ asyncActionInExecution => nextState \in Actions

AtReadPoint(t) ==
    \/ pc[t] \in {"lock", "reading", "unlock", "pauseAfter"}
    \/ pc[t] = "paused" /\ waitOn[t][1] = "beforeControllerRead"

CallInv ==
    \A t \in Threads :
        /\ pc[t] # "idle" => call[t] \in Calls[t]
        /\ AtReadPoint(t) => call[t].fn = "read"
        /\ pc[t] \in {"pause", "pauseAfter"} =>
             call[t].fn = "read" \/ call[t].when \in APIPoints \cup WritePoints

IndInv == TypeOK /\ ActionsInOrder /\ LoopInv /\ CallInv /\ OneReleasePerHandler

\* The triggers of action i that its graph is made of.
Literals(i) == Plan[i].graph.nodes \cap DOMAIN Plan[i].defs

\* A trigger is satisfied by exactly the desired occurrence of its condition: the
\* counter, which is compared with "==", never runs past it (satisfy()).
OccurrencesExact ==
    \A i \in Actions : \A n \in Literals(i) :
        LET d == Plan[i].defs[n]
        IN  d.cond # "onTimeout" /\ ~d.anyUpdate /\ d.occurrence > 0 =>
              IF n \in satisfied[i] THEN occurrence[i][n] = d.occurrence
                                    ELSE occurrence[i][n] < d.occurrence

\* What OccurrencesExact needs to be inductive: a trigger that is waited for is a
\* node of its graph and has not been satisfied, and what comes before it in the
\* graph has.
CountInv ==
    /\ OccurrencesExact
    /\ \A i \in Actions :
         /\ toSatisfy[i] \subseteq Plan[i].graph.nodes
         /\ \A n \in Literals(i) :
              /\ n \in toSatisfy[i] => n \notin satisfied[i]
              /\ n \in toSatisfy[i] \cup satisfied[i] =>
                   Plan[i].graph.pred[n] \subseteq satisfied[i]

\* The graph of action i as a graph of its own that is being triggered.
Graph(i) == INSTANCE TriggerRun WITH graph <- Plan[i].graph, toSatisfy <- toSatisfy[i],
                satisfied <- satisfied[i], fatal <- (fatal = "inSatisfied" /\ nextState = i)

\* Whatever notifications arrive, and in whatever order the loop visits the triggers
\* while they are deleted and added, the graph of each action goes through calls of
\* trigger() for triggers that it watches, and through nothing else: none after it is
\* fully triggered, none while another action is the next one (processNotification).
GraphsAreTriggered ==
    /\ \A i \in Actions : Graph(i)!RunInit
    /\ [][\A i \in Actions : [Graph(i)!RunNext]_(Graph(i)!runVars)]_vars

\* No notification makes the coordinator exit with "in satisfied" if nothing comes
\* after an Or in the expressions of the plan, as in the plans of the policies.
NoSecondTrigger == (\A i \in Actions : OrIsLast(Plan[i].graph)) => fatal # "inSatisfied"

\* What NoSecondTrigger needs to be inductive: the progress of each graph has its
\* meaning, and an action that has not been started is not fully triggered.
GraphsInv ==
    /\ NoSecondTrigger
    /\ \A i \in Actions :
         /\ WatchedExactly(Plan[i].graph, toSatisfy[i], satisfied[i])
         /\ SatisfiedExactly(Plan[i].graph, satisfied[i])
         /\ stage[i] = "idle" => ~FullyTriggered(Plan[i].graph, satisfied[i])

\* No handler waits at a gate that nothing will open: the gate is closed as a
\* channel, or still flagged, so that the resume action of the plan is to come
\* (ResumeAPIServerAction and ResumeControllerAction release the waiting handlers
\* before they clear the flag).
PausedBehindFlag ==
    \A t \in Threads :
        pc[t] = "paused" => ch[waitOn[t]] = "closed" \/ shouldPause[waitOn[t]]

\* What PausedBehindFlag needs to be inductive: a paused thread waits on a gate,
\* and the flag of an API server is about to be cleared only when the channel has
\* been closed.
PauseInv ==
    /\ PausedBehindFlag
    /\ \A t \in Threads : pc[t] = "paused" => waitOn[t] \in Gates
    /\ \A i \in Actions : stage[i] = "unlock" => ch[Plan[i].gate] = "closed"

ResumeTypes == {"resumeAPIServer", "resumeController"}

\* The plans whose gates are opened once, after they were shut: those of the policies.
ResumedOnce ==
    \A j \in Actions : Plan[j].type \in ResumeTypes =>
        /\ \E i \in Actions : /\ i < j /\ Plan[i].gate = Plan[j].gate
                              /\ Plan[i].type \in {"pauseAPIServer", "pauseController"}
        /\ \A k \in Actions : Plan[k].type \in ResumeTypes /\ Plan[k].gate = Plan[j].gate
                               => k = j

\* A resume action of such a plan never sends on a channel that is closed, and never
\* closes one that is closed or was never made, also when the actions before it ran
\* in goroutines of their own (the channels are made by a pause and kept for good).
ChannelsClosedOnce == ResumedOnce => fatal # "closedChannel"

\* What ChannelsClosedOnce needs to be inductive.
ChannelInv ==
    /\ ChannelsClosedOnce
    /\ \A i \in Actions :
         /\ stage[i] \in {"close", "unlock"} => Plan[i].type = "resumeAPIServer"
         /\ /\ Plan[i].type \in {"pauseAPIServer", "pauseController"}
            /\ stage[i] \notin {"idle", "before"}
            => ch[Plan[i].gate] # "none"
         /\ /\ ResumedOnce /\ Plan[i].type \in ResumeTypes
            /\ stage[i] \in {"idle", "before", "close"}
            => ch[Plan[i].gate] # "closed"

\* Some action after i has begun to open the gate of i again.
Reopened(i) ==
    \E j \in Actions : /\ j > i /\ Plan[j].gate = Plan[i].gate
                       /\ Plan[j].type \in {"resumeController", "resumeAPIServer"}
                       /\ stage[j] # "idle" /\ stage[j] # "before"

\* A pauseController action with avoidOngoingRead at the reads of an object.
PausesReads(i) ==
    /\ Plan[i].type = "pauseController" /\ Plan[i].avoidOngoingRead
    /\ Plan[i].gate[1] = "beforeControllerRead"

\* From the return of a pauseController action with avoidOngoingRead until its
\* gate is opened again, no read of the object is under way, neither one that was
\* begun before (avoidOngoingRead waits for it) nor a new one (it is paused).
NoReadWhilePaused ==
    \A i \in Actions, t \in Threads :
        PausesReads(i) /\ stage[i] = "done" /\ ~Reopened(i)
        => ~(pc[t] = "reading" /\ Plan[i].gate[2] = call[t].key)

\* The plans of which NoReadWhilePaused holds, those of unobserved_state.py among
\* them.  A second pause may find the channel closed, or stop a thread at another
\* gate, from which it goes on reading; and a read that begins when the cache holds
\* nothing of the type, as after a restart, is neither locked nor paused.
ReadsPausedOnce ==
    \A i \in Actions : PausesReads(i) =>
        /\ \A j \in Actions :
             /\ Plan[j].type \in {"pauseAPIServer", "pauseController"}
             /\ Plan[j].gate[1] = "beforeControllerRead"
             => j = i
        /\ \A j \in Actions :
             Plan[j].type = "pauseController" /\ Plan[j].gate[2] \in Keys =>
               \E k \in SameType(Plan[j].gate[2]) : k \notin VolatileKeys
        /\ \A j \in Actions :
             Plan[j].type \in {"restartController", "reconnectController"} =>
               \E k \in Actions : /\ i < k /\ k < j /\ Plan[k].gate = Plan[i].gate
                                  /\ Plan[k].type \in {"resumeController", "resumeAPIServer"}

\* The controller has not been restarted.
NotRestarted ==
    \A j \in Actions : Plan[j].type \in {"restartController", "reconnectController"} =>
                         stage[j] \in {"idle", "before"}

\* Thread t has taken controllerOngoingReadLock and has to give it back.
HoldsReadLock(t) ==
    /\ call[t].fn = "read" /\ PausableRead(call[t])
    /\ \/ pc[t] \in {"pause", "reading", "unlock"}
       \/ pc[t] = "paused" /\ waitOn[t][1] = "beforeControllerRead"

\* What NoReadWhilePaused needs to be inductive.  The gate of the reads is shut from
\* the pause until a resume, and is the only one at which reads are paused,
GateInv(i) ==
    LET g == Plan[i].gate
    IN  /\ IF stage[i] \in {"idle", "before"} THEN ch[g] = "none"
           ELSE ~Reopened(i) => ch[g] = "open" /\ shouldPause[g]
        /\ \A h \in Gates : shouldPause[h] /\ h[1] = "beforeControllerRead" => h = g
        /\ \A j \in Actions : stage[j] \in {"close", "unlock"} => Plan[j].type = "resumeAPIServer"
        /\ \A t \in Threads :
             pc[t] = "paused" /\ waitOn[t][1] = "beforeControllerRead" => waitOn[t] = g

\* and until the controller is restarted the cache holds what a read may find.
CacheInv ==
    NotRestarted => Keys \ VolatileKeys \subseteq cache /\ ~blindRead

\* With any plan, unless a read has begun blindly, a read that the plan may pause is
\* made under the lock, by one thread at a time, those of a killed process included.
LockInv ==
    /\ \A t \in Threads : /\ call[t].fn = "read"
                          /\ pc[t] \in {"lock", "pause", "unlock", "pauseAfter"}
                          => PausableRead(call[t])
    /\ ~blindRead =>
         /\ \A t \in Threads : HoldsReadLock(t) => readLock
         /\ \A t, u \in Threads : HoldsReadLock(t) /\ HoldsReadLock(u) => t = u

ReadInv == \A i \in Actions : PausesReads(i) => GateInv(i) /\ CacheInv /\ LockInv

\* The client decides by a look at the cache of its own before and after a read whether
\* to make the RPC that takes, and the one that gives back, controllerOngoingReadLock.
\* With any plan, and however often the controller is restarted with reads under way,
\* the coordinator exits with "unlock of unlocked mutex" only when some read has found
\* nothing of its type before; then it may.
UnlockExplained == fatal = "unlockOfUnlocked" => blindRead

\* The coordinator exits in the middle of a plan only for a known reason, whatever the
\* threads call and however their handlers are interleaved: never in trigger() and
\* never at the channels of the gates, for plans of the shape of those of the
\* policies; at the lock of the reads only after a blind read; and else only when two
\* goroutines come together in a map (ConcurrentMapAccess), which may happen whenever
\* an API server is paused or resumed.
ExitsExplained == NoSecondTrigger /\ ChannelsClosedOnce /\ UnlockExplained

\* The previous state that a receive handler has put into its notification is
\* still the last one reported at that observation point when the notification
\* is processed (ReadFromObjectStates before the block, WriteToObjectStates after);
\* at the API servers always, in the controller until it is restarted, since then the
\* handlers of the killed process may still store what they were called with.
PrevStateIsLatest ==
    \A t \in Threads :
        /\ pc[t] \in {"send", "blocked"} /\ call[t].when \in RecvPoints
        /\ t \notin CtlThreads \/ process = 0
        => prev[t] = objectStates[call[t].by][call[t].when][call[t].key]

\* What PrevStateIsLatest needs to be inductive: only the handler of a notification
\* sends, blocks and stores, and only threads of the first process call before a restart.
DeliveryInv ==
    /\ PrevStateIsLatest
    /\ \A t \in CtlThreads : process = 0 /\ pc[t] # "idle" => Process[t] = 0
    /\ \A t \in Threads : pc[t] \in {"send", "blocked", "store"} => call[t].fn = "notify"

-----------------------------------------------------------------------------
\* A handler that waits for its notification to be processed is let go
\* (doc.md: the state machine sends "release" after each notification).
HandlersReturn == \A t \in Threads : pc[t] = "blocked" ~> pc[t] # "blocked" \/ ~Running

\* An action that is started comes to its end, and the state machine watches for
\* the next one (doc.md: "If the triggers get satisfied by the new events, the
\* state machine will progress to the next state").
ActionsReturn ==
    \A i \in Actions : stage[i] = "before" ~> nextState > i \/ ~Running

\* Whoever is paused at a gate when it is opened goes on.
ResumedThreadsGoOn ==
    \A t \in Threads, i \in {i \in Actions :
                            Plan[i].type \in {"resumeAPIServer", "resumeController"}} :
        pc[t] = "paused" /\ waitOn[t] = Plan[i].gate /\ stage[i] = "done"
        ~> pc[t] # "paused" \/ ~Running

\* A timeout that is the next trigger of the plan is met in the end (doc.md: "If
\* the next trigger is onTimeout, it will start a goroutine that sends a
\* timeoutNotification").
TimeoutsAreMet ==
    \A i \in Actions :
        \A n \in {n \in DOMAIN Plan[i].defs : Plan[i].defs[n].cond = "onTimeout"} :
            nextState = i /\ n \in toSatisfy[i] ~> n \notin toSatisfy[i] \/ ~Running
=============================================================================
