---------------------------- MODULE LearnServer ----------------------------
(***************************************************************************)
(* The learn server (sieve_server/learn_server.go) and the instrumented    *)
(* controller threads that call it (sieve_client/learn_client.go).  While  *)
(* Sieve learns, the server is the one place where the steps of all the    *)
(* controller's threads are put in order: every Notify handler puts a      *)
(* notification into notificationCh, the goroutine coordinatingEvents      *)
(* writes a line for it into the log, and the handlers of "before" points  *)
(* return only after their line.  With the rate limiter on, the events     *)
(* that the controller receives are held back in rateLimitedEventCh until  *)
(* no reconcile is going on or an interval has passed.                     *)
(*                                                                         *)
(* The threads are the workers, one for each reconciler, and the receivers *)
(* of the informers.  A notification and a log line are both a record of   *)
(* the thread, the kind of operation, its side (before or after) and its   *)
(* number: the ID of the operation, or the round of the reconciler.        *)
(***************************************************************************)
EXTENDS Integers, Sequences, FiniteSets

CONSTANTS Workers, Receivers,
          NotificationChCap, RateLimitedEventChCap,
          MaxOps            \* bound: operations begun by each thread

Threads == Workers \cup Receivers

ASSUME LearnAssumption ==
    /\ IsFiniteSet(Threads) /\ Workers \cap Receivers = {}
    /\ NotificationChCap \in Nat \ {0} /\ RateLimitedEventChCap \in Nat
    /\ MaxOps \in [Threads -> Nat]

VARIABLES
    rateLimiterEnabled, \* from the configuration, never changed
    pc,               \* "idle", in a handler that is about to "send" or that
                      \* waits ("wait") on its waitingCh, or in between the
                      \* handlers before and after an operation ("busy")
    req,              \* the notification of the handler a thread is in
    reconciling,      \* the workers that are inside a reconcile
    ops,              \* operations begun by each thread
    nextID,           \* eventID, controllerOperationID, annotatedAPICallID
    waitingCh,        \* who waits for each ID: eventChMap, sideEffectChMap and
                      \* nonK8sSideEffectChMap
    reconcileChMap,   \* "absent", "nil" or "channel" for each reconciler
    notificationCh, rateLimitedEventCh,
    ongoingReconcileCnt, reconcileCntMap,
    pushing,          \* the event, if any, that coordinatingEvents is stuck with,
                      \* because rateLimitedEventCh is full
    fatal,
    did, logged       \* history: what each thread did, and its lines in the log

clientVars == <<pc, req, reconciling, ops, nextID, waitingCh, reconcileChMap, did>>
serverVars == <<rateLimitedEventCh, ongoingReconcileCnt, reconcileCntMap, pushing,
                rateLimiterEnabled, logged>>
vars == <<clientVars, serverVars, notificationCh, fatal>>

\* REST reads and writes take their IDs from the same counter.
Counters == {"event", "controllerOperation", "annotatedAPICall"}
CounterOf(kind) ==
    CASE kind = "recv" -> "event"
      [] kind = "annotated" -> "annotatedAPICall"
      [] OTHER -> "controllerOperation"

KindsOf(t) == IF t \in Receivers THEN {"recv"} ELSE {"restWrite", "restRead", "annotated"}

\* Operations that only have a handler after them have the number -1.
Notification(t, kind, side, number) ==
    [thread |-> t, kind |-> kind, side |-> side, number |-> number]

-----------------------------------------------------------------------------
(* The handlers, up to the point where they put n into notificationCh.     *)

Handle(t, n) ==
    /\ req' = [req EXCEPT ![t] = n]
    /\ pc' = [pc EXCEPT ![t] = "send"]
    /\ did' = [did EXCEPT ![t] = Append(@, n)]

\* Where the lines of one kind and side are in a sequence of lines.
Lines(s, kind, side) == {i \in DOMAIN s : s[i].kind = kind /\ s[i].side = side}

\* The round of the reconcile that worker w begins, or is in.
Round(w) == Cardinality(Lines(did[w], "reconcile", "before"))

NotifyLearnBeforeReconcile(w) ==
    /\ fatal = "none" /\ pc[w] = "idle" /\ w \notin reconciling /\ ops[w] < MaxOps[w]
    /\ IF reconcileChMap[w] = "channel"
       THEN fatal' = "should be nil" /\ UNCHANGED clientVars
       ELSE /\ reconcileChMap' = [reconcileChMap EXCEPT ![w] = "channel"]
            /\ ops' = [ops EXCEPT ![w] = @ + 1]
            /\ Handle(w, Notification(w, "reconcile", "before", Round(w)))
            /\ UNCHANGED <<reconciling, nextID, waitingCh, fatal>>
    /\ UNCHANGED <<serverVars, notificationCh>>

NotifyLearnAfterReconcile(w) ==
    /\ fatal = "none" /\ pc[w] = "idle" /\ w \in reconciling
    /\ IF reconcileChMap[w] # "channel"
       THEN fatal' = "should not be nil" /\ UNCHANGED clientVars
       ELSE /\ reconcileChMap' = [reconcileChMap EXCEPT ![w] = "nil"]
            /\ reconciling' = reconciling \ {w}
            /\ Handle(w, Notification(w, "reconcile", "after", Round(w) - 1))
            /\ UNCHANGED <<ops, nextID, waitingCh, fatal>>
    /\ UNCHANGED <<serverVars, notificationCh>>

\* Mutant: the ID is not counted on.
NotifyLearnBefore_SameID(t, kind) ==
    LET c  == CounterOf(kind)
    IN  /\ fatal = "none" /\ pc[t] = "idle" /\ ops[t] < MaxOps[t]
        /\ kind \in {"restWrite", "restRead"} => t \in reconciling
        /\ waitingCh' = [waitingCh EXCEPT ![c] = Append(@, t)]
        /\ ops' = [ops EXCEPT ![t] = @ + 1]
        /\ Handle(t, Notification(t, kind, "before", nextID[c]))
        /\ UNCHANGED <<nextID, reconciling, reconcileChMap, serverVars, notificationCh, fatal>>

\* NotifyLearnBeforeControllerRecv, ...RestWrite, ...RestRead, ...AnnotatedAPICall:
\* a new ID, and a channel for it.
NotifyLearnBefore(t, kind) ==
    LET c  == CounterOf(kind)
        id == nextID[c]
    IN  /\ fatal = "none" /\ pc[t] = "idle" /\ ops[t] < MaxOps[t]
        /\ kind \in {"restWrite", "restRead"} => t \in reconciling
        /\ nextID' = [nextID EXCEPT ![c] = @ + 1]
        /\ waitingCh' = [waitingCh EXCEPT ![c] = Append(@, t)]
        /\ ops' = [ops EXCEPT ![t] = @ + 1]
        /\ Handle(t, Notification(t, kind, "before", id))
        /\ UNCHANGED <<reconciling, reconcileChMap, serverVars, notificationCh, fatal>>

\* The matching handlers after the operation.
NotifyLearnAfter(t) ==
    /\ fatal = "none" /\ pc[t] = "busy"
    /\ Handle(t, [req[t] EXCEPT !.side = "after"])
    /\ UNCHANGED <<reconciling, ops, nextID, waitingCh, reconcileChMap, serverVars,
                   notificationCh, fatal>>

\* NotifyLearnAfterRestCall gives up: the response could not be read.
AfterRestCallReturns(t) ==
    /\ fatal = "none" /\ pc[t] = "busy" /\ req[t].kind \in {"restWrite", "restRead"}
    /\ pc' = [pc EXCEPT ![t] = "idle"]
    /\ UNCHANGED <<req, reconciling, ops, nextID, waitingCh, reconcileChMap, did,
                   serverVars, notificationCh, fatal>>

\* NotifyLearnAfterCacheGet and ...List.
NotifyLearnAfterCacheRead(w) ==
    /\ fatal = "none" /\ pc[w] = "idle" /\ w \in reconciling /\ ops[w] < MaxOps[w]
    /\ ops' = [ops EXCEPT ![w] = @ + 1]
    /\ Handle(w, Notification(w, "cacheRead", "after", -1))
    /\ UNCHANGED <<reconciling, nextID, waitingCh, reconcileChMap, serverVars,
                   notificationCh, fatal>>

\* s.notificationCh <- ...; the handlers before an operation then wait.
SendNotification(t) ==
    /\ fatal = "none" /\ pc[t] = "send" /\ Len(notificationCh) < NotificationChCap
    /\ notificationCh' = Append(notificationCh, req[t])
    /\ pc' = [pc EXCEPT ![t] = IF req[t].side = "before" THEN "wait" ELSE "idle"]
    /\ UNCHANGED <<req, reconciling, ops, nextID, waitingCh, reconcileChMap, did,
                   serverVars, fatal>>

-----------------------------------------------------------------------------
(* coordinatingEvents.                                                     *)

\* The thread that ch <- 0 lets go on: the one that stored the channel of the ID.
WaiterOf(n) == waitingCh[CounterOf(n.kind)][n.number + 1]

Released(t) == [pc EXCEPT ![t] = "busy"]

Log(t, l) == logged' = [logged EXCEPT ![t] = Append(@, l)]

\* The line of n is written and its handler returns.
LogAndRelease(n) ==
    /\ Log(n.thread, n)
    /\ pc' = Released(WaiterOf(n))

\* pollRateLimitedEventCh.
PollRateLimitedEventCh ==
    IF rateLimiterEnabled /\ rateLimitedEventCh # <<>>
    THEN /\ rateLimitedEventCh' = Tail(rateLimitedEventCh)
         /\ pc' = Released(WaiterOf(Head(rateLimitedEventCh)))
    ELSE UNCHANGED <<rateLimitedEventCh, pc>>

Polled == IF rateLimiterEnabled /\ rateLimitedEventCh # <<>>
          THEN {Head(rateLimitedEventCh)} ELSE {}

\* The lines of all the notifications in S, which are of different threads.
LogAll(S) ==
    logged' = [t \in Threads |->
                 logged[t] \o (IF \E n \in S : n.thread = t
                               THEN <<CHOOSE n \in S : n.thread = t>> ELSE <<>>)]

unchangedByServer == <<rateLimiterEnabled, req, ops, nextID, waitingCh, reconcileChMap, did>>

\* Mutant: an event is held back for as long as a reconcile goes on.
Interval_WaitsForReconciles ==
    /\ fatal = "none" /\ pushing = <<>> /\ ongoingReconcileCnt = 0
    /\ PollRateLimitedEventCh
    /\ LogAll(Polled)
    /\ UNCHANGED <<unchangedByServer, reconciling, notificationCh,
                   ongoingReconcileCnt, reconcileCntMap, pushing, fatal>>

\* case <-time.After(...).
Interval ==
    /\ fatal = "none" /\ pushing = <<>>
    /\ PollRateLimitedEventCh
    /\ LogAll(Polled)
    /\ UNCHANGED <<unchangedByServer, reconciling, notificationCh,
                   ongoingReconcileCnt, reconcileCntMap, pushing, fatal>>

Receive(kind, side) ==
    /\ fatal = "none" /\ pushing = <<>> /\ notificationCh # <<>>
    /\ Head(notificationCh).kind = kind /\ Head(notificationCh).side = side
    /\ notificationCh' = Tail(notificationCh)

\* Mutant: the round is counted only after it has been logged.
BeforeControllerReconcile_CountsLate ==
    LET n == Head(notificationCh)
    IN  /\ Receive("reconcile", "before")
        /\ ongoingReconcileCnt' = ongoingReconcileCnt + 1
        /\ reconcileCntMap' = [reconcileCntMap EXCEPT ![n.thread] = @ + 1]
        /\ Log(n.thread, [n EXCEPT !.number = reconcileCntMap[n.thread]])
        /\ pc' = [pc EXCEPT ![n.thread] = "idle"]
        /\ reconciling' = reconciling \cup {n.thread}
        /\ UNCHANGED <<unchangedByServer, rateLimitedEventCh, pushing, fatal>>

BeforeControllerReconcile ==
    LET n == Head(notificationCh)
    IN  /\ Receive("reconcile", "before")
        /\ ongoingReconcileCnt' = ongoingReconcileCnt + 1
        /\ reconcileCntMap' = [reconcileCntMap EXCEPT ![n.thread] = @ + 1]
        /\ Log(n.thread, [n EXCEPT !.number = reconcileCntMap'[n.thread]])
        /\ pc' = [pc EXCEPT ![n.thread] = "idle"]
        /\ reconciling' = reconciling \cup {n.thread}
        /\ UNCHANGED <<unchangedByServer, rateLimitedEventCh, pushing, fatal>>

\* The event that is polled is logged before the end of the reconcile.
AfterControllerReconcile ==
    LET n == Head(notificationCh)
        line == [n EXCEPT !.number = reconcileCntMap[n.thread]]
    IN  /\ Receive("reconcile", "after")
        /\ ongoingReconcileCnt' = ongoingReconcileCnt - 1
        /\ \/ /\ ongoingReconcileCnt' = 0
              /\ PollRateLimitedEventCh /\ LogAll(Polled \cup {line}) /\ UNCHANGED fatal
           \/ /\ ongoingReconcileCnt' < 0
              /\ fatal' = "lower than 0" /\ UNCHANGED <<rateLimitedEventCh, pc, logged>>
           \/ /\ ongoingReconcileCnt' > 0
              /\ LogAll({line}) /\ UNCHANGED <<rateLimitedEventCh, pc, fatal>>
        /\ UNCHANGED <<unchangedByServer, reconciling, reconcileCntMap, pushing>>

BeforeControllerRecv ==
    LET n == Head(notificationCh)
    IN  /\ Receive("recv", "before")
        /\ IF rateLimiterEnabled
           THEN /\ IF Len(rateLimitedEventCh) < RateLimitedEventChCap
                   THEN /\ rateLimitedEventCh' = Append(rateLimitedEventCh, n)
                        /\ UNCHANGED pushing
                   ELSE pushing' = <<n>> /\ UNCHANGED rateLimitedEventCh
                /\ UNCHANGED <<pc, logged>>
           ELSE LogAndRelease(n) /\ UNCHANGED <<rateLimitedEventCh, pushing>>
        /\ UNCHANGED <<unchangedByServer, reconciling, ongoingReconcileCnt,
                       reconcileCntMap, fatal>>

\* beforeRestWrite, beforeRestRead and beforeAnnotatedAPICall.
BeforeOperation(kind) ==
    /\ Receive(kind, "before")
    /\ LogAndRelease(Head(notificationCh))
    /\ UNCHANGED <<unchangedByServer, reconciling, rateLimitedEventCh,
                   ongoingReconcileCnt, reconcileCntMap, pushing, fatal>>

AfterOperation(kind) ==
    LET n == Head(notificationCh)
    IN  /\ Receive(kind, "after")
        /\ Log(n.thread, n)
        /\ UNCHANGED <<unchangedByServer, pc, reconciling, rateLimitedEventCh,
                       ongoingReconcileCnt, reconcileCntMap, pushing, fatal>>

-----------------------------------------------------------------------------
Init ==
    /\ rateLimiterEnabled \in BOOLEAN
    /\ pc = [t \in Threads |-> "idle"]
    /\ req = [t \in Threads |-> Notification(t, "none", "after", -1)]
    /\ reconciling = {}
    /\ ops = [t \in Threads |-> 0]
    /\ nextID = [c \in Counters |-> 0]
    /\ waitingCh = [c \in Counters |-> <<>>]
    /\ reconcileChMap = [w \in Workers |-> "absent"]
    /\ notificationCh = <<>> /\ rateLimitedEventCh = <<>>
    /\ ongoingReconcileCnt = 0
    /\ reconcileCntMap = [w \in Workers |-> -1]
    /\ pushing = <<>> /\ fatal = "none"
    /\ did = [t \in Threads |-> <<>>] /\ logged = [t \in Threads |-> <<>>]

OperationKinds == {"restWrite", "restRead", "annotated"}

CoordinatingEvents ==
    \/ BeforeControllerReconcile \/ AfterControllerReconcile \/ BeforeControllerRecv
    \/ \E kind \in OperationKinds : BeforeOperation(kind)
    \/ \E kind \in OperationKinds \cup {"recv", "cacheRead"} : AfterOperation(kind)

ClientStep(t) ==
    \/ t \in Workers /\ (NotifyLearnBeforeReconcile(t) \/ NotifyLearnAfterReconcile(t)
                         \/ NotifyLearnAfterCacheRead(t))
    \/ \E kind \in KindsOf(t) : NotifyLearnBefore(t, kind)
    \/ NotifyLearnAfter(t) \/ AfterRestCallReturns(t)

Next ==
    \/ CoordinatingEvents \/ Interval
    \/ \E t \in Threads : ClientStep(t) \/ SendNotification(t)

Spec == Init /\ [][Next]_vars

\* The goroutine of the server and the handlers go on as long as they can, and
\* the interval passes; nothing is assumed of the threads between their calls.
FairSpec ==
    /\ Spec
    /\ WF_vars(CoordinatingEvents) /\ WF_vars(Interval)
    /\ \A t \in Threads : WF_vars(SendNotification(t))
-----------------------------------------------------------------------------
\* The notifications of thread t in queue q: SelectSeq, as a recursive function.
Of(q, t) ==
    LET of[i \in 0 .. Len(q)] ==
          IF i = 0 THEN <<>>
          ELSE IF q[i].thread = t THEN Append(of[i - 1], q[i]) ELSE of[i - 1]
    IN  of[Len(q)]

Unsent(t) == IF pc[t] = "send" THEN <<req[t]>> ELSE <<>>

\* Lines that are still to be written for thread t.
Pending(t) ==
    Of(rateLimitedEventCh, t) \o (Of(pushing, t) \o (Of(notificationCh, t) \o Unsent(t)))

\* The log shows the steps of every thread in the order in which the thread made
\* them, with the right IDs and rounds, and none twice or lost; and an operation
\* goes on only after the line that announces it.  The analysis of the log
\* (sieve_analyzer) pairs the lines of an operation and of a reconcile by ID and
\* round.  The events that the rate limiter holds back are overtaken only by
\* lines of other threads (coordinatingEvents, pollRateLimitedEventCh).
LogFollowsProgramOrder ==
    \A t \in Threads : /\ did[t] = logged[t] \o Pending(t)
                       /\ pc[t] = "busy" => logged[t] = did[t]

\* The lines of the log, as pairs of a thread and a position; those of a kind, and of
\* a side and a number.
LinesOf(kind) ==
    {e \in UNION {{t} \X DOMAIN logged[t] : t \in Threads} : logged[e[1]][e[2]].kind = kind}
LinesWith(kind, side, id) ==
    {e \in LinesOf(kind) : logged[e[1]][e[2]].side = side /\ logged[e[1]][e[2]].number = id}

\* The status of each ID of a kind, as the check of the log keeps it.
StatusOf(kind) ==
    [id \in {logged[e[1]][e[2]].number : e \in LinesOf(kind)} |->
        <<Cardinality(LinesWith(kind, "before", id)), Cardinality(LinesWith(kind, "after", id))>>]

\* The open reconciles of worker w.
OpenReconciles(w) == Cardinality(Lines(logged[w], "reconcile", "before"))
                     - Cardinality(Lines(logged[w], "reconcile", "after"))

Check == INSTANCE SanityCheck WITH
    Reconcilers <- Workers,
    reconcile_status <- [w \in Workers |-> OpenReconciles(w)],
    controller_write_status <- StatusOf("restWrite"),
    controller_hear_status <- StatusOf("recv")

\* The log that the server writes passes sanity_check_sieve_server_log, at whatever
\* line the run stops: IDs are used once though the handlers of all threads draw
\* them, no "after" is written before its "before" although events are held back, and
\* the rounds of a reconciler do not overlap.
LogPassesSanityCheck == Check!Spec

\* A handler always returns, also the one of an event that is held back while a
\* reconcile takes for ever.
HandlersReturn ==
    \A t \in Threads : pc[t] \in {"send", "wait"} ~> pc[t] \notin {"send", "wait"}

-----------------------------------------------------------------------------
(* What the properties need to be inductive.                                *)

Kinds == OperationKinds \cup {"recv", "cacheRead", "reconcile", "none"}
Notifications == [thread : Threads, kind : Kinds, side : {"before", "after"}, number : Int]
Events == [thread : Receivers, kind : {"recv"}, side : {"before"}, number : Int]

TypeOK ==
    /\ rateLimiterEnabled \in BOOLEAN
    /\ pc \in [Threads -> {"idle", "send", "wait", "busy"}]
    /\ req \in [Threads -> Notifications]
    /\ reconciling \subseteq Workers
    /\ nextID \in [Counters -> Nat]
    /\ waitingCh \in [Counters -> Seq(Threads)]
    /\ reconcileChMap \in [Workers -> {"absent", "nil", "channel"}]
    /\ notificationCh \in Seq(Notifications)
    /\ rateLimitedEventCh \in Seq(Events) /\ pushing \in Seq(Events)
    /\ ongoingReconcileCnt \in Int
    /\ reconcileCntMap \in [Workers -> Int]
    /\ did \in [Threads -> Seq(Notifications)] /\ logged \in [Threads -> Seq(Notifications)]

\* Each line that thread t makes is one of its kinds, and its number is the right one:
\* an operation has an ID with a channel of its own, that no other operation has, and
\* its two lines follow each other; the rounds of a reconciler are counted and do
\* not overlap.
Earlier(s, i, side) == Cardinality({j \in Lines(s, "reconcile", side) : j < i})

IsOperation(n) == n.kind \in OperationKinds \cup {"recv"}

GoodLine(t, i) ==
    LET n == did[t][i]
        c == CounterOf(n.kind)
    IN  /\ n.thread = t
        /\ n.kind \in IF t \in Receivers THEN {"recv"}
                      ELSE OperationKinds \cup {"cacheRead", "reconcile"}
        /\ n.side = "before" => n.kind # "cacheRead"
        /\ IsOperation(n) /\ n.side = "before" =>
             n.number + 1 \in DOMAIN waitingCh[c] /\ waitingCh[c][n.number + 1] = t
        /\ IsOperation(n) /\ n.side = "after" =>
             i > 1 /\ did[t][i - 1] = [n EXCEPT !.side = "before"]
        /\ n.kind = "reconcile" =>
             LET ends == IF n.side = "after" THEN 1 ELSE 0
             IN  /\ n.number = Earlier(did[t], i, "before") - ends
                 /\ Earlier(did[t], i, "before") = Earlier(did[t], i, "after") + ends

GoodLines == \A t \in Threads : \A i \in DOMAIN did[t] : GoodLine(t, i)

\* An ID is used once.
IDsDiffer ==
    \A t, u \in Threads : \A i \in DOMAIN did[t], j \in DOMAIN did[u] :
        LET m == did[t][i]  n == did[u][j]
        IN  /\ IsOperation(m) /\ IsOperation(n) /\ m.side = "before" /\ n.side = "before"
            /\ CounterOf(m.kind) = CounterOf(n.kind) /\ m.number = n.number
            => t = u /\ i = j

\* Where a thread is: in a handler it has just made its last line; when that is a
\* line before an operation, it stays there until the line is written.
ThreadInv ==
    \A t \in Threads :
        /\ pc[t] # "idle" => did[t] # <<>> /\ req[t] = did[t][Len(did[t])]
        /\ pc[t] \in {"wait", "busy"} => req[t].side = "before"
        /\ pc[t] = "busy" => logged[t] = did[t] /\ req[t].kind # "reconcile"
        /\ \A i \in DOMAIN did[t] : i > Len(logged[t]) /\ did[t][i].side = "before" =>
             i = Len(did[t]) /\ pc[t] \in {"send", "wait"}

\* The reconciles of a worker: reconcileChMap knows whether one is open.
ReconcileInv ==
    \A w \in Workers :
        /\ Cardinality(Lines(did[w], "reconcile", "before")) =
             Cardinality(Lines(did[w], "reconcile", "after"))
               + (IF reconcileChMap[w] = "channel" THEN 1 ELSE 0)
        /\ w \in reconciling => reconcileChMap[w] = "channel"
        /\ reconcileChMap[w] = "channel" /\ w \notin reconciling =>
             pc[w] \in {"send", "wait"} /\ req[w].kind = "reconcile" /\ req[w].side = "before"
        /\ reconcileCntMap[w] + 1 = Cardinality(Lines(logged[w], "reconcile", "before"))

\* The counters that draw IDs, and the one that the rate limiter goes by.
CounterInv ==
    /\ \A c \in Counters : Len(waitingCh[c]) = nextID[c]
    /\ ongoingReconcileCnt = Cardinality({w \in Workers : OpenReconciles(w) = 1})

\* The inductive invariant.
IndInv ==
    /\ TypeOK /\ GoodLines /\ IDsDiffer /\ ThreadInv /\ ReconcileInv /\ CounterInv
    /\ LogFollowsProgramOrder /\ fatal = "none"
=============================================================================
