------------------------------ MODULE TestDriver ------------------------------
(***************************************************************************)
(* The workload process (sieve_test_driver/test_framework.py): commands,   *)
(* pauses and waits for a condition on the cluster, one after the other,   *)
(* with a log of what went wrong, and what the oracle makes of the log.    *)
(*                                                                         *)
(* Time is discrete and passes while the process sleeps or waits for a     *)
(* command.  The cluster is external: a condition may begin or cease to    *)
(* hold at any moment, and a request to the API server may fail.           *)
(***************************************************************************)
EXTENDS Integers, Sequences

CONSTANTS
    WorkLists,       \* the workloads: sequences of [kind, timeout]
    PollInterval,    \* the sleep between two polls
    Delay,           \* how much longer than asked for a sleep may take
    GracePeriod      \* final_grace_period

\* The classes of the work items.
ConditionalWaits == {"status", "number", "storage", "existence", "conditions"}
WorkKinds == {"cmd", "wait"} \cup ConditionalWaits

\* The checks that let some exception through.
Fragile == {"status", "storage", "conditions"}

ASSUME DriverAssumption ==
    /\ \A l \in WorkLists : l \in Seq([kind : WorkKinds, timeout : Nat])
    /\ PollInterval \in Nat \ {0} /\ Delay \in Nat /\ GracePeriod \in Nat

VARIABLES
    work_list,
    pauses,          \* the test plan has a pauseController action
    work,            \* the number of the current item
    at,              \* what the process does
    duration,        \* since the item began
    wake,            \* when the sleep is over
    condition,       \* the condition of a wait holds now
    workload_log,    \* the numbers of the items with an error, and 0 for the end mark
    verdict,         \* what the oracle says of the log
    ended,           \* history: how each item has ended
    unmet            \* history: in the last moments of the wait the condition did not
                     \* hold, or was not seen because of an error

driverVars == <<work_list, pauses, work, at, duration, wake, condition, workload_log,
                verdict, ended, unmet>>

item == work_list[work]
NoVerdict == [completed |-> FALSE, errors |-> {}]

DriverInit ==
    /\ work_list \in WorkLists /\ pauses \in BOOLEAN
    /\ work = 0 /\ at = "next" /\ duration = 0 /\ wake = 0 /\ condition = FALSE
    /\ workload_log = <<>> /\ verdict = NoVerdict
    /\ ended = [i \in DOMAIN work_list |-> "not"] /\ unmet = FALSE

\* The item has returned: 0, or 1 with a message.
Return(how) ==
    /\ at' = "next"
    /\ workload_log' = IF how = "ok" THEN workload_log ELSE Append(workload_log, work)
    /\ ended' = [ended EXCEPT ![work] = how]

\* BuiltInWorkLoad.run: the next item, or the final grace period.
StartWork ==
    /\ at = "next"
    /\ duration' = 0 /\ unmet' = FALSE
    /\ IF work < Len(work_list)
       THEN LET next == work_list[work + 1]
            IN  /\ work' = work + 1
                /\ at' = CASE next.kind = "cmd"  -> "command"
                           [] next.kind = "wait" -> "sleep"
                           [] OTHER              -> "poll"
                /\ wake' = IF next.kind = "wait" THEN next.timeout ELSE 0
       ELSE at' = "grace" /\ wake' = GracePeriod /\ UNCHANGED work
    /\ condition' \in IF at' = "poll" THEN BOOLEAN ELSE {FALSE}
    /\ UNCHANGED <<work_list, pauses, workload_log, verdict, ended>>

CommandEnds ==
    /\ at = "command" /\ duration < item.timeout
    /\ Return("ok") \/ Return("error")
    /\ UNCHANGED <<work_list, pauses, work, duration, wake, condition, verdict, unmet>>

\* Mutant: the command is waited for as long as it takes.
CommandTimeout_Waits ==
    at = "command" /\ duration >= item.timeout /\ UNCHANGED driverVars

\* TestCmd.run: TimeoutExpired, return code 2, which ends the workload.
CommandTimeout ==
    /\ at = "command" /\ duration >= item.timeout
    /\ at' = "done"
    /\ workload_log' = Append(workload_log, work)
    /\ ended' = [ended EXCEPT ![work] = "timeout"]
    /\ UNCHANGED <<work_list, pauses, work, duration, wake, condition, verdict, unmet>>

\* Mutant: a wait is over when its time is.
TimedOut_AtTimeout == duration >= item.timeout

TimedOut == duration > item.timeout

WaitTimeout ==
    /\ at = "poll" /\ duration >= wake /\ TimedOut
    /\ Return("timeout")
    /\ UNCHANGED <<work_list, pauses, work, duration, wake, condition, verdict, unmet>>

\* The condition is seen; a last sleep follows.
ConditionMet ==
    /\ at = "poll" /\ duration >= wake /\ ~TimedOut /\ condition
    /\ at' = "sleep" /\ wake' = duration + PollInterval
    /\ UNCHANGED <<work_list, pauses, work, duration, condition, workload_log, verdict,
                   ended, unmet>>

\* It does not hold, or the request has failed.  A custom resource that cannot be had
\* is asked for again without a sleep: the request itself takes some time.
ConditionUnmet ==
    /\ at = "poll" /\ duration >= wake /\ ~TimedOut
    /\ \/ \E d \in 0..Delay : wake' = duration + PollInterval + d
       \/ item.kind = "conditions" /\ wake' = duration + 1
    /\ unmet' = (unmet \/ condition)
    /\ UNCHANGED <<work_list, pauses, work, at, duration, condition, workload_log, verdict, ended>>

\* An exception that no check catches ends the process.
Dies ==
    /\ at = "poll" /\ duration >= wake /\ ~TimedOut /\ item.kind \in Fragile
    /\ at' = "done"
    /\ UNCHANGED <<work_list, pauses, work, duration, wake, condition, workload_log, verdict,
                   ended, unmet>>

Wake ==
    /\ at \in {"sleep", "grace"} /\ duration >= wake
    /\ IF at = "sleep" THEN Return("ok")
       ELSE at' = "done" /\ workload_log' = Append(workload_log, 0) /\ UNCHANGED ended
    /\ UNCHANGED <<work_list, pauses, work, duration, wake, condition, verdict, unmet>>

\* Time passes; the condition may change with it.  The last moments of a wait are as
\* many as there can be between two polls.
Tick ==
    /\ \/ at = "command" /\ duration < item.timeout
       \/ at \in {"sleep", "grace", "poll"} /\ duration < wake
    /\ duration' = duration + 1
    /\ condition' \in IF at = "poll" THEN BOOLEAN ELSE {FALSE}
    /\ unmet' = \/ unmet
                \/ /\ at = "poll" /\ ~condition'
                   /\ duration' \in (item.timeout - PollInterval - Delay + 1)..item.timeout
    /\ UNCHANGED <<work_list, pauses, work, at, wake, workload_log, verdict, ended>>

\* Mutant: errors are looked for in the runs that came to their end.
workload_error_checker_Finished(log) ==
    IF 0 \notin {log[i] : i \in DOMAIN log} THEN {}
    ELSE {i \in {log[j] : j \in DOMAIN log} \ {0} :
            ~(pauses /\ work_list[i].kind \in ConditionalWaits)}

\* The lines of the log that are alarms: a paused controller explains a wait that
\* has timed out.
workload_error_checker(log) ==
    {i \in {log[j] : j \in DOMAIN log} \ {0} :
        ~(pauses /\ work_list[i].kind \in ConditionalWaits)}

\* is_test_workload_finished looks for the end mark.
test_run_validation ==
    /\ at = "done"
    /\ at' = "checked"
    /\ verdict' = [completed |-> \E i \in DOMAIN workload_log : workload_log[i] = 0,
                   errors |-> workload_error_checker(workload_log)]
    /\ UNCHANGED <<work_list, pauses, work, duration, wake, condition, workload_log, ended, unmet>>

DriverStep ==
    \/ StartWork \/ CommandEnds \/ CommandTimeout \/ WaitTimeout \/ ConditionMet
    \/ ConditionUnmet \/ Dies \/ Wake \/ Tick \/ test_run_validation

\* Time passes, and the process uses it.
DriverSpec == DriverInit /\ [][DriverStep]_driverVars /\ WF_driverVars(DriverStep)
-----------------------------------------------------------------------------
(* Properties.                                                              *)

\* A run without an alarm that is said to be complete has done all of its commands and
\* seen all of its conditions, but for waits under a plan that pauses the
\* controller; and a command that failed or hung is an alarm under every plan, also
\* when the workload was given up because of it (workload_error_checker, is_test_
\* workload_finished).
VerdictIsExact ==
    at = "checked" =>
        /\ verdict.completed /\ verdict.errors = {} =>
             \A i \in DOMAIN work_list :
                \/ ended[i] = "ok"
                \/ pauses /\ work_list[i].kind \in ConditionalWaits /\ ended[i] = "timeout"
        /\ \A i \in DOMAIN work_list :
             work_list[i].kind = "cmd" /\ ended[i] \in {"error", "timeout"} => i \in verdict.errors
        /\ verdict.completed => \A i \in DOMAIN work_list :
             ended[i] # "not" /\ (work_list[i].kind = "cmd" => ended[i] # "timeout")

\* A wait reports a timeout only if its condition did not hold all the time that can
\* pass between two polls before the deadline: the loops compare the duration before
\* they poll, and sleep after it.
SteadyConditionIsSeen ==
    (/\ at = "next" /\ work > 0
     /\ item.kind \in ConditionalWaits /\ item.timeout >= PollInterval + Delay
     /\ ended[work] = "timeout") => unmet

\* Every workload ends, whatever the cluster does, and is judged.
WorkloadEnds == (work > 0) ~> (at = "checked")
==============================================================================
