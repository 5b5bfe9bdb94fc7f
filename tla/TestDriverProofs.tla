--------------------------- MODULE TestDriverProofs ---------------------------
(***************************************************************************)
(* The verdict on a workload is exact, and a wait times out only when its  *)
(* condition was not steady, for every workload, interval and delay.       *)
(***************************************************************************)
EXTENDS TestDriver, SequenceTheorems, TLAPS

Running == {"command", "sleep", "poll"}
Over == {"done", "checked"}
Logged == {workload_log[i] : i \in DOMAIN workload_log}

DriverTypes ==
    /\ work_list \in WorkLists /\ pauses \in BOOLEAN
    /\ work \in 0 .. Len(work_list)
    /\ at \in {"next", "grace"} \cup Running \cup Over
    /\ duration \in Nat /\ wake \in Nat
    /\ condition \in BOOLEAN /\ unmet \in BOOLEAN
    /\ workload_log \in Seq(0 .. Len(work_list))
    /\ ended \in [DOMAIN work_list -> {"not", "ok", "error", "timeout"}]

\* Which item the process is at, and what kind of item it is.
PlaceInv ==
    /\ at \in Running => work > 0
    /\ at = "command" => item.kind = "cmd"
    /\ at = "sleep" => item.kind # "cmd"
    /\ at = "poll" => item.kind \in ConditionalWaits
    /\ at = "grace" => work = Len(work_list)

\* The log has the items that did not end well; the mark comes last, after all of
\* them, and a command that hangs takes its place.
LogInv ==
    /\ \A i \in DOMAIN work_list :
         /\ i < work \/ (i = work /\ at \in {"next", "grace"}) => ended[i] # "not"
         /\ i > work \/ (i = work /\ at \in Running) => ended[i] = "not"
         /\ i \in Logged <=> ended[i] \in {"error", "timeout"}
         /\ ended[i] = "error" => work_list[i].kind = "cmd"
         /\ work_list[i].kind = "cmd" /\ ended[i] = "timeout" => at \in Over /\ 0 \notin Logged
    /\ 0 \in Logged => /\ at \in Over
                       /\ \A i \in DOMAIN work_list : ended[i] # "not"

\* The oracle has judged the log as it is.
JudgeInv ==
    at = "checked" => /\ verdict.completed <=> 0 \in Logged
                      /\ verdict.errors = workload_error_checker(workload_log)

DriverInv == DriverTypes /\ PlaceInv /\ LogInv /\ JudgeInv

\* The items of a workload.
LEMMA Items ==
    ASSUME DriverTypes
    PROVE  /\ work_list \in Seq([kind : WorkKinds, timeout : Nat])
           /\ Len(work_list) \in Nat /\ DOMAIN work_list = 1 .. Len(work_list)
           /\ \A i \in DOMAIN work_list :
                work_list[i].kind \in WorkKinds /\ work_list[i].timeout \in Nat
  <1> DEFINE R == [kind : WorkKinds, timeout : Nat]
  <1>1. work_list \in Seq(R)
    BY DriverAssumption DEF DriverTypes
  <1> HIDE DEF R
  <1>2. Len(work_list) \in Nat /\ DOMAIN work_list = 1 .. Len(work_list)
    BY <1>1
  <1>3. \A i \in DOMAIN work_list : work_list[i] \in R
    BY <1>1, <1>2, ElementOfSeq
  <1> QED
    BY <1>1, <1>2, <1>3 DEF R

\* The current item.
LEMMA ItemIs ==
    ASSUME DriverTypes, work > 0
    PROVE  work \in DOMAIN work_list /\ item.kind \in WorkKinds /\ item.timeout \in Nat
  <1>1. work \in DOMAIN work_list
    BY Items DEF DriverTypes
  <1> QED
    BY <1>1, Items DEF item

\* Appending to the log.
LEMMA AppendLogged ==
    ASSUME DriverTypes, NEW n \in 0 .. Len(work_list), workload_log' = Append(workload_log, n)
    PROVE  Logged' = Logged \cup {n}
  <1>1. workload_log \in Seq(0 .. Len(work_list))
    BY DEF DriverTypes
  <1>2. /\ DOMAIN workload_log' = DOMAIN workload_log \cup {Len(workload_log) + 1}
        /\ workload_log'[Len(workload_log) + 1] = n
        /\ \A i \in DOMAIN workload_log : workload_log'[i] = workload_log[i]
    BY <1>1
  <1> QED
    BY <1>2 DEF Logged

\* The types hold in every state.
LEMMA DriverTypesInductive ==
    ASSUME DriverTypes, PlaceInv, [DriverStep]_driverVars
    PROVE  DriverTypes'
  <1> USE DEF DriverTypes, PlaceInv, Running, Over, Return
  <1>0. work_list' = work_list /\ pauses' = pauses
    BY DEF DriverStep, driverVars, StartWork, CommandEnds, CommandTimeout, WaitTimeout,
       ConditionMet, ConditionUnmet, Dies, Wake, Tick, test_run_validation
  <1>1. CASE StartWork
    <2>1. work < Len(work_list) => work_list[work + 1].timeout \in Nat
      BY Items
    <2>2. work' \in 0 .. Len(work_list)
      BY <1>1, Items DEF StartWork
    <2>3. wake' \in Nat
      BY <1>1, <2>1, DriverAssumption DEF StartWork
    <2>4. at' \in {"grace", "command", "sleep", "poll"}
      BY <1>1 DEF StartWork
    <2>5. duration' = 0 /\ unmet' = FALSE /\ UNCHANGED <<work_list, pauses, workload_log, ended>>
          /\ condition' \in BOOLEAN
      BY <1>1 DEF StartWork
    <2> QED
      BY <2>2, <2>3, <2>4, <2>5
  <1>2. CASE CommandEnds
    <2>1. work \in DOMAIN work_list /\ work \in 0 .. Len(work_list)
      BY <1>2, ItemIs DEF CommandEnds
    <2>2. workload_log' \in {workload_log, Append(workload_log, work)}
      BY <1>2 DEF CommandEnds
    <2>3. workload_log' \in Seq(0 .. Len(work_list))
      BY <2>1, <2>2
    <2>4. PICK how \in {"ok", "error", "timeout"} : ended' = [ended EXCEPT ![work] = how]
      BY <1>2 DEF CommandEnds
    <2>5. ended' \in [DOMAIN work_list -> {"not", "ok", "error", "timeout"}]
      BY <2>4
    <2> QED
      BY <1>0, <1>2, <2>3, <2>5 DEF CommandEnds
  <1>3. CASE CommandTimeout
    <2>1. work \in DOMAIN work_list /\ work \in 0 .. Len(work_list)
      BY <1>3, ItemIs DEF CommandTimeout
    <2>2. workload_log' \in {workload_log, Append(workload_log, work)}
      BY <1>3 DEF CommandTimeout
    <2>3. workload_log' \in Seq(0 .. Len(work_list))
      BY <2>1, <2>2
    <2>4. PICK how \in {"ok", "error", "timeout"} : ended' = [ended EXCEPT ![work] = how]
      BY <1>3 DEF CommandTimeout
    <2>5. ended' \in [DOMAIN work_list -> {"not", "ok", "error", "timeout"}]
      BY <2>4
    <2> QED
      BY <1>0, <1>3, <2>3, <2>5 DEF CommandTimeout
  <1>4. CASE WaitTimeout
    <2>1. work \in DOMAIN work_list /\ work \in 0 .. Len(work_list)
      BY <1>4, ItemIs DEF WaitTimeout
    <2>2. workload_log' \in {workload_log, Append(workload_log, work)}
      BY <1>4 DEF WaitTimeout
    <2>3. workload_log' \in Seq(0 .. Len(work_list))
      BY <2>1, <2>2
    <2>4. PICK how \in {"ok", "error", "timeout"} : ended' = [ended EXCEPT ![work] = how]
      BY <1>4 DEF WaitTimeout
    <2>5. ended' \in [DOMAIN work_list -> {"not", "ok", "error", "timeout"}]
      BY <2>4
    <2> QED
      BY <1>0, <1>4, <2>3, <2>5 DEF WaitTimeout
  <1>5. CASE ConditionMet
    BY <1>0, <1>5, DriverAssumption DEF ConditionMet
  <1>6. CASE ConditionUnmet
    <2>1. wake' \in Nat
      <3>1. CASE \E d \in 0 .. Delay : wake' = duration + PollInterval + d
        BY <3>1, DriverAssumption
      <3>2. CASE wake' = duration + 1
        BY <3>2
      <3> QED
        BY <1>6, <3>1, <3>2 DEF ConditionUnmet
    <2> QED
      BY <1>0, <1>6, <2>1 DEF ConditionUnmet
  <1>7. CASE Dies
    BY <1>0, <1>7, Items, ItemIs DEF Dies
  <1>8. CASE Wake
    <2>1. CASE at = "sleep"
      <3>1. work \in DOMAIN work_list
        BY <2>1, ItemIs
      <3>2. workload_log' = workload_log /\ ended' = [ended EXCEPT ![work] = "ok"]
        BY <1>8, <2>1 DEF Wake
      <3>3. ended' \in [DOMAIN work_list -> {"not", "ok", "error", "timeout"}]
        BY <3>2
      <3> QED
        BY <1>0, <1>8, <2>1, <3>2, <3>3 DEF Wake
    <2>2. CASE at = "grace"
      <3>1. workload_log' = Append(workload_log, 0) /\ 0 \in 0 .. Len(work_list)
        BY <1>8, <2>2, Items DEF Wake
      <3>2. workload_log' \in Seq(0 .. Len(work_list))
        BY <3>1
      <3> QED
        BY <1>0, <1>8, <2>2, <3>2 DEF Wake
    <2> QED
      BY <1>8, <2>1, <2>2 DEF Wake
  <1>9. CASE Tick
    <2>1. duration' \in Nat
      BY <1>9 DEF Tick
    <2>2. condition' \in BOOLEAN
      BY <1>9 DEF Tick
    <2>3. unmet' \in BOOLEAN
      BY <1>9, Zenon DEF Tick
    <2> QED
      BY <1>0, <1>9, <2>1, <2>2, <2>3 DEF Tick
  <1>10. CASE test_run_validation
    BY <1>0, <1>10, Items, ItemIs DEF test_run_validation
  <1>11. CASE UNCHANGED driverVars
    BY <1>11 DEF driverVars
  <1> QED
    BY <1>1, <1>2, <1>3, <1>4, <1>5, <1>6, <1>7, <1>8, <1>9, <1>10, <1>11 DEF DriverStep

\* The process stays at the place that its item asks for.
LEMMA PlaceInductive ==
    ASSUME DriverTypes, PlaceInv, [DriverStep]_driverVars
    PROVE  PlaceInv'
  <1> USE DEF DriverTypes, PlaceInv, Running, Over, Return, item, WorkKinds, ConditionalWaits
  <1>0. work_list' = work_list /\ pauses' = pauses
    BY DEF DriverStep, driverVars, StartWork, CommandEnds, CommandTimeout, WaitTimeout, ConditionMet, ConditionUnmet, Dies, Wake, Tick, test_run_validation
  <1>1. CASE StartWork
    BY <1>0, <1>1, Items DEF StartWork
  <1>2. CASE CommandEnds
    BY <1>0, <1>2, Items DEF CommandEnds
  <1>3. CASE CommandTimeout
    BY <1>0, <1>3, Items DEF CommandTimeout
  <1>4. CASE WaitTimeout
    BY <1>0, <1>4, Items DEF WaitTimeout
  <1>5. CASE ConditionMet
    BY <1>0, <1>5, Items DEF ConditionMet
  <1>6. CASE ConditionUnmet
    BY <1>0, <1>6, Items DEF ConditionUnmet
  <1>7. CASE Dies
    BY <1>0, <1>7, Items DEF Dies
  <1>8. CASE Wake
    BY <1>0, <1>8, Items DEF Wake
  <1>9. CASE Tick
    BY <1>0, <1>9, Items DEF Tick
  <1>10. CASE test_run_validation
    BY <1>0, <1>10, Items DEF test_run_validation
  <1>11. CASE UNCHANGED driverVars
    BY <1>11 DEF driverVars
  <1> QED
    BY <1>1, <1>2, <1>3, <1>4, <1>5, <1>6, <1>7, <1>8, <1>9, <1>10, <1>11 DEF DriverStep

\* An item that ends is logged as it should be.
LEMMA LogInductive ==
    ASSUME DriverTypes, PlaceInv, LogInv, [DriverStep]_driverVars
    PROVE  LogInv'
  <1> USE DEF DriverTypes, PlaceInv, LogInv, Running, Over, Return, ConditionalWaits
  <1>0. work_list' = work_list /\ pauses' = pauses
    BY DEF DriverStep, driverVars, StartWork, CommandEnds, CommandTimeout, WaitTimeout,
       ConditionMet, ConditionUnmet, Dies, Wake, Tick, test_run_validation
  <1>1. CASE StartWork
    <2>1. /\ at = "next" /\ Logged' = Logged /\ ended' = ended
          /\ at' \notin {"next", "done", "checked"}
          /\ \/ work' = work + 1 /\ at' \in Running
             \/ work' = work /\ at' = "grace"
          /\ work \in Nat
      BY <1>1 DEF StartWork, Logged
    <2>2. work' # work /\ work' \in DOMAIN work_list => ended[work'] = "not"
      BY <2>1, Items
    <2> QED
      BY <1>0, <2>1, <2>2, Items
  <1>2. CASE CommandEnds
    <2>0. work \in DOMAIN work_list /\ work_list[work].kind = "cmd" /\ work \in Nat
      BY <1>2, ItemIs DEF CommandEnds, item
    <2>1. CASE Return("ok")
      <3>1. Logged' = Logged
        BY <2>1 DEF Logged
      <3> QED
        BY <1>0, <1>2, <2>0, <2>1, <3>1, Items DEF CommandEnds
    <2>2. CASE Return("error")
      <3>1. Logged' = Logged \cup {work}
        BY <2>0, <2>2, AppendLogged
      <3> QED
        BY <1>0, <1>2, <2>0, <2>2, <3>1, Items DEF CommandEnds
    <2> QED
      BY <1>2, <2>1, <2>2 DEF CommandEnds
  <1>3. CASE CommandTimeout
    <2>0. work \in DOMAIN work_list /\ work_list[work].kind = "cmd" /\ work \in Nat
      BY <1>3, ItemIs DEF CommandTimeout, item
    <2>1. Logged' = Logged \cup {work}
      BY <1>3, <2>0, AppendLogged DEF CommandTimeout
    <2> QED
      BY <1>0, <1>3, <2>0, <2>1, Items DEF CommandTimeout
  <1>4. CASE WaitTimeout
    <2>0. work \in DOMAIN work_list /\ work_list[work].kind # "cmd" /\ work \in Nat
      BY <1>4, ItemIs DEF WaitTimeout, item
    <2>1. Logged' = Logged \cup {work}
      BY <1>4, <2>0, AppendLogged DEF WaitTimeout
    <2> QED
      BY <1>0, <1>4, <2>0, <2>1, Items DEF WaitTimeout
  <1>5. CASE ConditionMet
    <2>1. Logged' = Logged
      BY <1>5 DEF ConditionMet, Logged
    <2> QED
      BY <1>0, <1>5, <2>1, Items, ItemIs DEF ConditionMet, item
  <1>6. CASE ConditionUnmet
    <2>1. Logged' = Logged
      BY <1>6 DEF ConditionUnmet, Logged
    <2> QED
      BY <1>0, <1>6, <2>1, Items, ItemIs DEF ConditionUnmet, item
  <1>7. CASE Dies
    <2>1. Logged' = Logged
      BY <1>7 DEF Dies, Logged
    <2> QED
      BY <1>0, <1>7, <2>1, Items, ItemIs DEF Dies, item
  <1>8. CASE Wake
    <2>1. CASE at = "sleep"
      <3>0. work \in DOMAIN work_list /\ work_list[work].kind # "cmd" /\ work \in Nat
        BY <2>1, ItemIs DEF item
      <3>1. Logged' = Logged
        BY <1>8, <2>1 DEF Wake, Logged
      <3> QED
        BY <1>0, <1>8, <2>1, <3>0, <3>1, Items DEF Wake
    <2>2. CASE at = "grace"
      <3>1. Logged' = Logged \cup {0}
        <4>1. 0 \in 0 .. Len(work_list) /\ workload_log' = Append(workload_log, 0)
          BY <1>8, <2>2, Items DEF Wake
        <4> QED
          BY <4>1, AppendLogged
      <3> QED
        BY <1>0, <1>8, <2>2, <3>1, Items DEF Wake
    <2> QED
      BY <1>8, <2>1, <2>2 DEF Wake
  <1>9. CASE Tick
    <2>1. Logged' = Logged
      BY <1>9 DEF Tick, Logged
    <2> QED
      BY <1>0, <1>9, <2>1, Items, ItemIs DEF Tick, item
  <1>10. CASE test_run_validation
    <2>1. Logged' = Logged
      BY <1>10 DEF test_run_validation, Logged
    <2> QED
      BY <1>0, <1>10, <2>1, Items, ItemIs DEF test_run_validation, item
  <1>11. CASE UNCHANGED driverVars
    BY <1>11 DEF driverVars, Logged
  <1> QED
    BY <1>1, <1>2, <1>3, <1>4, <1>5, <1>6, <1>7, <1>8, <1>9, <1>10, <1>11 DEF DriverStep

\* The log is not written to once it is judged.
LEMMA JudgeInductive ==
    ASSUME DriverTypes, JudgeInv, [DriverStep]_driverVars
    PROVE  JudgeInv'
  <1> USE DEF DriverTypes, JudgeInv, Running, Over, Return, Logged, workload_error_checker
  <1>0. work_list' = work_list /\ pauses' = pauses
    BY DEF DriverStep, driverVars, StartWork, CommandEnds, CommandTimeout, WaitTimeout, ConditionMet, ConditionUnmet, Dies, Wake, Tick, test_run_validation
  <1>1. CASE StartWork
    BY <1>0, <1>1, Items DEF StartWork
  <1>2. CASE CommandEnds
    BY <1>0, <1>2, Items DEF CommandEnds
  <1>3. CASE CommandTimeout
    BY <1>0, <1>3, Items DEF CommandTimeout
  <1>4. CASE WaitTimeout
    BY <1>0, <1>4, Items DEF WaitTimeout
  <1>5. CASE ConditionMet
    BY <1>0, <1>5, Items DEF ConditionMet
  <1>6. CASE ConditionUnmet
    BY <1>0, <1>6, Items DEF ConditionUnmet
  <1>7. CASE Dies
    BY <1>0, <1>7, Items DEF Dies
  <1>8. CASE Wake
    BY <1>0, <1>8, Items DEF Wake
  <1>9. CASE Tick
    BY <1>0, <1>9, Items DEF Tick
  <1>10. CASE test_run_validation
    BY <1>0, <1>10, Items DEF test_run_validation
  <1>11. CASE UNCHANGED driverVars
    BY <1>11 DEF driverVars
  <1> QED
    BY <1>1, <1>2, <1>3, <1>4, <1>5, <1>6, <1>7, <1>8, <1>9, <1>10, <1>11 DEF DriverStep

\* The invariant holds when the process starts.
LEMMA InitHolds == DriverInit => DriverInv
  <1> SUFFICES ASSUME DriverInit PROVE DriverInv
    OBVIOUS
  <1>1. DriverTypes
    <2>1. work_list \in Seq([kind : WorkKinds, timeout : Nat])
      BY DriverAssumption DEF DriverInit
    <2>2. Len(work_list) \in Nat
      BY <2>1, LenProperties
    <2>3. workload_log \in Seq(0 .. Len(work_list))
      BY DEF DriverInit
    <2>4. ended \in [DOMAIN work_list -> {"not", "ok", "error", "timeout"}]
      BY DEF DriverInit
    <2> QED
      <3>1. condition \in BOOLEAN /\ unmet \in BOOLEAN /\ pauses \in BOOLEAN
        BY Zenon DEF DriverInit
      <3>2. /\ work_list \in WorkLists /\ work \in 0 .. Len(work_list) /\ duration \in Nat
            /\ wake \in Nat /\ at \in {"next", "grace"} \cup Running \cup Over
        BY <2>2 DEF DriverInit
      <3> QED
        BY <2>3, <2>4, <3>1, <3>2 DEF DriverTypes
  <1>2. PlaceInv /\ JudgeInv
    BY DEF DriverInit, PlaceInv, JudgeInv, Running
  <1>3. LogInv
    BY <1>1, Items DEF DriverInit, LogInv, Running, Logged
  <1> QED
    BY <1>1, <1>2, <1>3 DEF DriverInv

\* workload_error_checker and is_test_workload_finished: for every workload, and whatever
\* the cluster does, the verdict is exact.
THEOREM VerdictIsExactEver == DriverSpec => []VerdictIsExact
  <1>1. DriverInit => DriverInv
    BY InitHolds
  <1>2. DriverInv /\ [DriverStep]_driverVars => DriverInv'
    BY DriverTypesInductive, PlaceInductive, LogInductive, JudgeInductive DEF DriverInv
  <1>3. DriverInv => VerdictIsExact
    <2> SUFFICES ASSUME DriverInv, at = "checked" PROVE VerdictIsExact
      BY DEF VerdictIsExact
    <2>0. /\ DriverTypes /\ LogInv
          /\ verdict.completed <=> 0 \in Logged
          /\ \A i \in DOMAIN work_list :
               i \in verdict.errors <=>
                 i \in Logged /\ ~(pauses /\ work_list[i].kind \in ConditionalWaits)
          /\ 0 \notin DOMAIN work_list
      BY Items DEF DriverInv, JudgeInv, workload_error_checker, Logged
    <2>1. ASSUME verdict.completed, verdict.errors = {}, NEW i \in DOMAIN work_list
          PROVE  \/ ended[i] = "ok"
                 \/ pauses /\ work_list[i].kind \in ConditionalWaits /\ ended[i] = "timeout"
      BY <2>0, <2>1 DEF LogInv, DriverTypes, ConditionalWaits
    <2>2. ASSUME NEW i \in DOMAIN work_list, work_list[i].kind = "cmd",
                 ended[i] \in {"error", "timeout"}
          PROVE  i \in verdict.errors
      BY <2>0, <2>2 DEF LogInv, ConditionalWaits
    <2>3. ASSUME verdict.completed, NEW i \in DOMAIN work_list
          PROVE  ended[i] # "not" /\ (work_list[i].kind = "cmd" => ended[i] # "timeout")
      BY <2>0, <2>3 DEF LogInv
    <2> QED
      BY <2>1, <2>2, <2>3 DEF VerdictIsExact
  <1> QED
    BY <1>1, <1>2, <1>3, PTL DEF DriverSpec
-----------------------------------------------------------------------------
Window == (item.timeout - PollInterval - Delay + 1) .. item.timeout

\* A wait that is longer than what can pass between two polls.
LongWait == item.kind \in ConditionalWaits /\ item.timeout >= PollInterval + Delay

\* In a wait: a moment of the window at which the condition does not hold is noted,
\* and so is a poll after which there is none before the deadline.
WindowInv ==
    /\ at = "poll" => duration <= wake
    /\ at = "poll" /\ LongWait /\ duration \in Window /\ ~condition => unmet
    /\ at = "poll" /\ LongWait /\ wake > item.timeout => unmet
    /\ SteadyConditionIsSeen

\* Between two polls there is never more time than the window has.
LEMMA WindowInductive ==
    ASSUME DriverTypes, PlaceInv, WindowInv, [DriverStep]_driverVars
    PROVE  WindowInv'
  <1> USE DEF DriverTypes, PlaceInv, WindowInv, SteadyConditionIsSeen, LongWait, Window, Return, item, Running, ConditionalWaits, TimedOut
  <1>0. work_list' = work_list /\ pauses' = pauses
    BY DEF DriverStep, driverVars, StartWork, CommandEnds, CommandTimeout, WaitTimeout,
       ConditionMet, ConditionUnmet, Dies, Wake, Tick, test_run_validation
  <1>1. CASE StartWork
    <2>1. duration' = 0 /\ (at' = "poll" => wake' = 0 /\ work' = work + 1 /\ work < Len(work_list)) /\ at' # "next"
      BY <1>1 DEF StartWork, item
    <2>2. ASSUME at' = "poll" PROVE item'.timeout \in Nat
      BY <1>0, <2>1, <2>2, Items
    <2> QED
      BY <1>0, <2>1, <2>2, DriverAssumption
  <1>2. CASE CommandEnds
    BY <1>0, <1>2, Items, ItemIs DEF CommandEnds
  <1>3. CASE CommandTimeout
    BY <1>0, <1>3, Items, ItemIs DEF CommandTimeout
  <1>4. CASE WaitTimeout
    BY <1>0, <1>4, Items, ItemIs DEF WaitTimeout
  <1>5. CASE ConditionMet
    BY <1>0, <1>5, Items, ItemIs DEF ConditionMet
  <1>6. CASE ConditionUnmet
    <2>0. /\ duration \in Nat /\ item.timeout \in Nat /\ at = "poll" /\ at' = at
          /\ UNCHANGED <<work_list, work, duration, condition>>
          /\ duration <= item.timeout /\ unmet' = (unmet \/ condition)
          /\ PollInterval \in Nat \ {0} /\ Delay \in Nat
      BY <1>6, ItemIs, DriverAssumption DEF ConditionUnmet
    <2>1. PICK d \in Nat : /\ d >= 1 /\ d <= PollInterval + Delay
                           /\ wake' = duration + d
      <3>1. CASE \E d \in 0 .. Delay : wake' = duration + PollInterval + d
        <4>1. PICK d \in 0 .. Delay : wake' = duration + PollInterval + d
          BY <3>1
        <4>2. PollInterval + d \in Nat /\ PollInterval + d >= 1
              /\ PollInterval + d <= PollInterval + Delay /\ wake' = duration + (PollInterval + d)
          BY <2>0, <4>1
        <4> QED
          BY <4>2
      <3>2. CASE wake' = duration + 1
        <4>1. 1 <= PollInterval + Delay
          BY <2>0
        <4> QED
          BY <3>2, <4>1
      <3> QED
        BY <1>6, <3>1, <3>2 DEF ConditionUnmet
    <2>2. ASSUME LongWait', wake' > item'.timeout PROVE unmet'
      <3>1. duration \in Window /\ LongWait
        BY <2>0, <2>1, <2>2
      <3> QED
        BY <2>0, <3>1
    <2> QED
      BY <2>0, <2>1, <2>2
  <1>7. CASE Dies
    BY <1>0, <1>7, Items, ItemIs DEF Dies
  <1>8. CASE Wake
    BY <1>0, <1>8, Items, ItemIs DEF Wake
  <1>9. CASE Tick
    BY <1>0, <1>9, Items, ItemIs DEF Tick
  <1>10. CASE test_run_validation
    BY <1>0, <1>10, Items, ItemIs DEF test_run_validation
  <1>11. CASE UNCHANGED driverVars
    BY <1>11 DEF driverVars
  <1> QED
    BY <1>1, <1>2, <1>3, <1>4, <1>5, <1>6, <1>7, <1>8, <1>9, <1>10, <1>11 DEF DriverStep

\* The loops of the conditional waits: for every interval, delay and timeout, a condition
\* that holds in all of the last moments of a wait is seen.
THEOREM SteadyConditionIsSeenEver == DriverSpec => []SteadyConditionIsSeen
  <1>1. DriverInit => DriverTypes /\ PlaceInv /\ WindowInv
    BY InitHolds DEF DriverInv, DriverInit, WindowInv, SteadyConditionIsSeen
  <1>2. DriverTypes /\ PlaceInv /\ WindowInv /\ [DriverStep]_driverVars
        => (DriverTypes /\ PlaceInv /\ WindowInv)'
    BY DriverTypesInductive, PlaceInductive, WindowInductive
  <1>3. WindowInv => SteadyConditionIsSeen
    BY DEF WindowInv
  <1> QED
    BY <1>1, <1>2, <1>3, PTL DEF DriverSpec
==============================================================================
