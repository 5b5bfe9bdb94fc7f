# Sieve: a TLA+ verification project

Sieve tests Kubernetes controllers by perturbing them. It instruments the controller
and the API servers so that they report what they do to a *Sieve server* by RPC, and
runs the same workload several times:

* in **learn mode** the server (`src/sieve_server/learn_server.go`) records the events of
  a failure-free run in a total order. The analyzer (`src/sieve_analyzer`,
  `src/sieve_perturbation_policies`) derives **test plans** from the log: sequences of
  actions, each with an expression over triggers. Two learn runs give the **oracles**
  (`src/sieve_oracle`): what the two runs agree on;
* in **test mode** the server (`src/sieve_server/test_coordinator.go`,
  `state_machine.go`, `test_plan.go`) is the **test coordinator**. The instrumented
  threads block in their RPCs while a state machine looks at each event, and actions of
  the plan pause and resume API servers and controller threads or restart the controller.
  The result is compared with the oracles;
* `src/sieve.py` drives all this: clusters, deployment, workload
  (`src/sieve_test_driver`), result directories. `src/build.py` makes the images.

This directory models these parts in TLA+, checks them with TLC on small instances and
proves their main invariants with TLAPS for all instances.

## 1. Inventory

| Component | State it keeps | Operations | What makes it correct |
|---|---|---|---|
| Trigger expressions and graphs (`expression.go`, `stack.go`, `trigger_graph.go`) | the graph of an action, the sets `toSatisfy` and `satisfied` | infix → prefix → tree → graph; `trigger` | the graph is complete exactly when the expression is; no node twice |
| Test plan and actions (`test_plan.go`) | occurrence counters, pause flags, channels | `satisfy` of six conditions, `run` of six actions | an action has its effect once, ends, and undoes what it should undo |
| State machine (`state_machine.go`) | `nextState`, `asyncActionInExecution`, two notification channels, sleeping timers | `run` (select), `processNotification`, `processAsyncDone`, `setTimeoutForTimeoutTriggers` | actions in order, once; every handler released once; timeouts met |
| Test coordinator (`test_coordinator.go`) | table of object states, flags, channels, the lock of ongoing reads | `Notify*` handlers, `ProcessPause*`, refresh after reads | handlers return; nobody is left at a gate; no read inside a pause |
| Test client (`test_client.go`, `common.go`) | configuration, tables of triggers and actions, connection | `NotifyTest*` called by the instrumented code; filters | reports exactly what the plan names |
| Learn server (`learn_server.go`) | event and reconcile counters, notification channel, rate-limited channel | `Notify*` handlers, `coordinatingEvents`, `pollRateLimitedEventCh` | a log that the analyzer accepts; every handler returns |
| Learn client (`learn_client.go`) | configuration, reconcile contexts | `NotifyLearn*` | reports begin and end of each step |
| Event model and deltas (`event_delta.py`, `k8s_event.py`), event comparison of the server (`event.go`) | – | difference, canonical form, containment, conflict | a difference is met by the states it comes from and says exactly what changed |
| Analyzer (`analyze.py`, `event_graph.py`) | the events, the marks and sets kept while parsing, the graph | two parsers, causality, signatures and counters, cancellation | no cause is lost, none invented; the sanity checks hold |
| Perturbation policies | – | passes, timing, plans for stale, unobserved and intermediate states | the plan injects its fault at the event it was made for, and takes it back |
| Oracle | family, digest, end state of a run; oracle files | tainting, trimming, masking, comparisons, customized checkers | silent exactly where runs agree |
| Test driver (`test_framework.py`) | the log of the workload | commands, pauses, five kinds of conditional waits | ends; no alarm means that everything was done and seen |
| Orchestration (`sieve.py`) | cluster, server, deployment file, result and oracle directories | set-up with retries, deployment, workload, teardown, postprocessing, batch | a run uses only what belongs to it, whatever failed before |
| Build (`build.py`) | source trees, images, registry | download, import, instrumentation, build, tag, push | an image has the instrumentation its tag says |

**Interactions.** A client thread makes one RPC at a time and waits for it. A handler of the
coordinator puts a notification with a channel of its own into `stateNotificationCh` and
waits on that channel; the goroutine of the state machine takes notifications out, runs
synchronous actions itself and asynchronous ones in a goroutine, and releases the handler
when it is done. Actions and handlers also meet in the pause maps, their channels and in
`controllerOngoingReadLock`, which a client takes with one RPC and gives back with another.
In the learn server a handler waits until `coordinatingEvents` has logged its event, and the
events of informers are held back while a reconcile goes on. From there on everything is
passed in files: the log of the learn server to the analyzer, plans to the coordinator,
the log of the API server to the oracle, the log of the workload to its verdict.

**What is hard.** In the servers everyone waits for someone: API servers and controller
threads for the state machine, the state machine for paused threads or for the read lock,
readers for a resume that is a later action of the plan. Timeouts are goroutines that nobody
cancels. A restart kills threads whose RPCs are being served. In the analyzer, two counts must
agree that are made from different data: the learn run's, by the analyzer, and the test
run's, by the coordinator. The driver leaves files and clusters behind whenever a command
fails. `PROJECT.json` lists the hazards one by one, at the lines.

## 2. Modules

| Module | Models |
|---|---|
| `TriggerGraph` | one trigger graph: gates, the cascade of `trigger` and `triggerOrAnd` as a least fixed point, the fatal error on a node that is satisfied already |
| `Expression` | tokens → postfix of the mirrored infix → prefix → tree → graph. Recursive, used by TLC only |
| `TriggerRun` | one graph at work, whatever the graph and the order of its triggers: the abstract specification that the coordinator implements with the graph of each action |
| `TriggerExpression`, `MCTriggerExpression` | an expression is chosen and its triggers are met in any order: the graph against the meaning of the expression |
| `TestPlan` | plans, actions and trigger definitions; `satisfy` |
| `StateMachine` | `run`, `processNotification` (its loop one visit at a time), `processAsyncDone`, timers, and the six actions step by step |
| `TestCoordinator`, `MCTestCoordinator` | the RPC handlers, the object-state table, the pause points and the read lock, the filters of the client and the threads that call, composed with `StateMachine`; plans, threads and calls of the instances |
| `LearnServer`, `MCLearnServer` | handlers of the learn server, `coordinatingEvents` with its rate limiter, and the threads that call |
| `SanityCheck` | what `sanity_check_sieve_server_log` accepts, as a specification of a log writer: the abstract specification that `LearnServer` implements |
| `EventDelta` | difference, canonical form and containment of object trees. Recursive, used by TLC only |
| `EventMatch` | what analyzer and coordinator do with a difference: what overwrites a change, which update repeats it. The functions on trees are its parameters, so that it can be proved about |
| `MCEventDelta` | both together, on all pairs of small trees |
| `Analyzer`, `MCAnalyzer` | both parsers of the log line by line, and the causality between what is heard and what is written |
| `EventGraph` | on top of `Analyzer` and `EventMatch`: previous states, signatures and their counters, cancellation, order of the events |
| `PerturbationPolicies` | the passes and the plans of the three policies |
| `PlanReplay`, `MCPlans` | the plans executed with `satisfy` of `TestPlan` against the run they were made from; `MCPlans` gives `EventMatch` the functions of `EventDelta`, for the run `plans` |
| `ControllerFamily` | the tainting loop that finds the objects related to the controller |
| `Oracle`, `MCOracle` | the API server as the source of events, digest, end state, trimming, masks, both comparisons and customized checkers over two learn runs and a test run |
| `SieveRun` | `sieve.py` as a sequence of processes with their disk and their cluster |
| `Build` | `build.py` |
| `TestDriver` | the workload process with discrete time, and the verdict on its log |
| `MCPipeline` | instances of the last three, in one run |
| `TriggerGraphProofs`, `TriggerRunProofs`, `TestCoordinatorProofs`, `LearnServerProofs`, `AnalyzerProofs`, `OracleProofs`, `SieveRunProofs`, `TestDriverProofs` | proofs |

`TriggerGraph` ← `TestPlan` ← `StateMachine` ← `TestCoordinator` (each extends the one before), which
instantiates `TriggerRun` for the graph of each action (`Graph(i)`); `TriggerGraph` ← `TriggerRun`;
`TriggerExpression` extends `Expression` and `TriggerRun`; `Analyzer`, `EventMatch` ← `EventGraph` ←
`PerturbationPolicies` ← `PlanReplay` ← `MCPlans`. `PlanReplay` instantiates `TestPlan`, `MCPlans` and
`MCEventDelta` give the parameters of `EventMatch` the definitions of `EventDelta`;
`ControllerFamily` ← `Oracle`; `LearnServer` instantiates `SanityCheck`.

### The servers

* `nextState` counts from 1, and `nextState = Len(Plan) + 1` is the end of the plan.
* A graph of the model holds names; `toSatisfy[i]` and `satisfied[i]` are the maps of the
  graph of action `i`. The mutual recursion of `trigger` and `triggerOrAnd` is the least set
  closed under the gates; the point at which it calls `log.Fatalf` is the action
  `TriggerTwice`.
* The loop over a Go map: `todo` are the entries present when the loop began, `fresh` those
  added by its body, which Go may visit or not. `SkipTrigger`, `SatisfyTrigger` and
  `SatisfyLastTrigger` visit one entry; `EndLoop` needs only `todo` to be done.
* `stage[i]` is how far `run()` of action `i` has come. Sleeps (`waitBefore`, `waitAfter`,
  the timeouts) are the arbitrary time before a step is taken. An asynchronous action
  reports to `asyncDoneCh` in stage `signal`, and an asynchronous `pauseController` takes
  the read lock only after that, as the code does.
* A gate is a pair of a place (an API server or a `pauseAt`) and a scope; `shouldPause` and
  `ch` are the maps of flags and channels. A channel is missing, open or closed; sending on
  or closing a closed one, and closing a missing one, is the step `ResumePanics`.
* A thread of the model is a client thread together with the handler that serves its
  current RPC, and `pc` says where they are. A thread of the controller belongs to one of its
  processes (`Process`), and `process` counts them. `RestartController` starts the next one, whose threads
  call at once; the handlers of the killed process run on beside theirs, and a thread that is not `Alive` is
  gone when its handler returns.
* Object states are model values. A diff of a plan is the set of pairs of states it
  accepts (`desired`); `EventDelta` models the functions that decide it, and
  `PerturbationPolicies` computes `desired` with them.
* `apiserverLockedMap` is read by handlers without a lock while actions write to it. The Go
  runtime may stop the process when it notices: `ConcurrentMapAccess`. All other outcomes
  are those of the two orders.
* The client filters (`checkKVPairInTriggerObservationPoint`, `checkKVPairInAction`) decide
  whether a call is reported and paused: `Observed`, `PausableRead`, `PausableWrite`.
* The refresh of the table after a Get or List is one step: the handler holds the lock of
  the table.
* In the learn server, `rateLimiterEnabled` is chosen initially and both values are
  checked; each reconciler has one worker, as the comment at `learn_server.go:159` says.
  `pushing` is the event, if any, with which `coordinatingEvents` is stuck on a full
  `rateLimitedEventCh`.

### Analyzer and policies

* The log grows line by line and the parser keeps up with it, so that every state is the
  end of the parse of one log. A line number is the timestamp, counted from 1. The lines of
  a log come from the guards that the learn server and the client give them: an operation
  begins before it ends, a reconciler is in one round at a time.
* The sets of read keys and types, and the marks of trivial rounds, are shared by all
  reconcilers in the code and in the model. `ControllerNonK8sWrite` has no `set_range`
  (`analyze.py:165`): a call into another system inside a round ends the parse, here
  `raised = "AttributeError"`.
* An object is a tree: a map, a list or a leaf. `RandomValues` are the strings that the
  regular expressions for times and addresses accept.
* A plan of `PerturbationPolicies` has the trigger definitions of `TestPlan`. The assertions
  of the policies (`common.py:25`, `common.py:32`, `stale_state.py:145`) are the result
  `AssertionError`.

### Oracle

* The API server is external: `APIEvent` is any event its store allows, an object being
  created, modified, deleted and created again with a new uid. An object is a function from its
  leaf fields to values; `VariableValues` are those that look like times or addresses.
* The tainting loop is a step per event; digest, end state, trimming and the comparisons
  are operators, and a check is one step, since nothing else runs at that time.

### Driver, workload and build

* The driver is one process at a time. A command may fail wherever the code calls one
  (`os_system` raises), and so may the making of a plan, of the files of a run or of each oracle;
  the process may be killed at any step, and the disk and the cluster stay. What a file holds is
  abstracted to the number of the run it is from, and a file is written in one step.
* A build is a step per stage; a tree remembers for which mode it was instrumented and how often.
* Time in `TestDriver` passes while the process sleeps or waits; `Delay` is how much longer
  than asked for a sleep may take. The condition of a wait changes at any time, and a request
  may raise, which ends the workload.
* The three share no state of the models: in `MCPipeline` each runs alone, so that
  one run checks them without the product of their states.

## 3. Runs

Passing runs:

| Run | Instance | Shows |
|---|---|---|
| `trigger_expression` | all expressions with up to four triggers, `;`, `\|`, `&` and parentheses, up to five events in any order | the graph is complete with exactly the event that completes the expression (`MeaningPreserved`); `ProgressIsExact`: the triggers watched for are exactly those whose predecessors are met, the gates are met exactly when their operators say, and where nothing comes after an Or no node is triggered twice |
| `stale` | the shape of plan of `stale_state.py`: pause API server 3 (scope `all`), reconnect the controller, resume on a timeout; three watch threads, two of them on the paused server | handshake and gates; every action started ends and the paused go on |
| `reads` | a plan of `unobserved_state.py` (pause and resume the reads of one object) followed by one of `intermediate_state.py` (restart at the second write); two readers, an informer, REST and cached reads; a reader and an informer of the restarted controller | no read of the object is under way between the pause and the resume, also when a restart follows (`NoReadWhilePaused`); occurrences are counted exactly; previous states, until the restart (`PrevStateIsLatest`); why the coordinator may exit: not by a second trigger of a node, not by a channel closed twice, by the read lock only after a read that found nothing (`ExitsExplained`) |
| `mixed` | three actions, sync and async, with Or, And and `;`, an annotated call and timeouts | order of actions, release of all handlers, timeouts; the graph of each action does what `TriggerRun` does (`GraphsAreTriggered`, a refinement) |
| `learn` | two reconcilers, two informers, channels of capacity 1 and 2, with and without rate limiter | program order and numbering of the log; every handler returns; the log is one that `sanity_check_sieve_server_log` accepts (`LogPassesSanityCheck`, the refinement of `SanityCheck`) |
| `event_delta` | all sequences of up to three states of an object with two fields (leaves, maps, lists, lists of maps, random values), with and without masked keys and paths | `DiffIsExact`: exchanging the two sides of a difference turns one state into the other; `SidesAgree`: the coordinator accepts the update from which the analyzer made the difference, and both agree on what overwrites an update |
| `analyzer` | all logs of up to eight lines: two reconcilers, three rounds, two writes, an event, a read, a call; both boundary options | `SeenEventsAreCauses`, `CausesWereRead` against definitions on the log that do not use the parser's sets; `GraphIsSane` |
| `plans` | the pass for nondeterministic events alone, as the plans that the other passes leave are among its plans, on two kinds of learn runs: those of one reconciler and the events of an object with three states, up to seven operations; and those of two reconcilers without events, up to six operations: two rounds, a read, three writes (two may overlap) of five kinds, updates with and without `kind`, a patch, a failed update, a deletion | the plan of each policy, executed by `satisfy` against the same run: it pauses at the event it was made for and resumes, has the timing of a reference definition, and restarts at the write it was made for exactly if the two sides have counted alike (`RestartCountIsExact`). That they have not, for each of the reasons, occurs; so do counts that are equal of sets that differ |
| `oracle` | two learn runs with two events each and a test run with three, of five objects with owners, generated names and several contents; both settings of the checks | `StateIsLive`, `FirstRunAccepted`, `AgreementUnlessAlarm`, `SafetyAlarmExact`, `FamilyIsClosed`, and `OracleEnds` |
| `pipeline` | four runs over any processes with two plans and one kill; two builds; six workloads | clusters, oracles, results and images are those they should be after any failures; the verdict on the workload is exact; processes and workloads end |

Some properties say under which condition they hold, where the code does not promise more, and
the condition is worth knowing:

* `PauseIsAtSource`: unless a relist has brought the same change of the object before. The coordinator
  takes `Replaced` for an update, and the analyzer counts it apart.
* `RestartCountIsExact`: a restart does miss its write, or comes at another one, when the two sides count
  differently, and the property says exactly when: the analyzer counts writes that failed and those of
  other reconcilers, which the coordinator is not told about or which its trigger does not name; the
  coordinator counts updates of another type (an `Update` for a `Patch`), which the analyzer tells apart; and
  each compares with the state that it knows, the analyzer with the last read in the same round, the
  coordinator with the last read in any. Kind and apiVersion make no difference: both sides trim them.
* `TimingIsDecided`: the assertion at `stale_state.py:145` fails if the log ends too early.
* `PrevStateIsLatest`: at the API servers always, in the controller until it is restarted. Afterwards a
  handler of the killed process may still store what it was called with, over what the informer of the
  new process has reported.
* `ExitsExplained`: the coordinator does exit. In plans in which nothing comes after an Or and each gate is
  opened once and after it was shut, neither `trigger` nor a channel makes it. The lock of the reads makes
  it, with any plan, only when a read that the plan may pause has begun with nothing of its type in the
  cache (`blindRead`), and the run reaches such an exit. Two goroutines in a map may always make it
  (`ConcurrentMapAccess`).
* `AgreementUnlessAlarm`: except for what is masked, the families, values that vary by nature,
  and types with random names, of which only the number is compared.
* `ImageOfMode`: except with `--build_only`.
* `OraclesOfOnePair`: the files are all from one pair of runs unless the writing was broken off
  between two of them, by a kill or by an exception, which `run_test` catches. The mix that is left
  then is one of pairs in order: no file is from an older pair than one that is written after it.

Runs that TLC refutes, each a disagreement of the code with a line of the repository quoted
under `findings`:

| Run | Property | What happens |
|---|---|---|
| `unobserved_return` | `ActionsReturn` | a paused read holds the lock that the pause action waits for: everybody waits |
| `family_compared` | `FamilyNotCompared` | a pod of the controller with a generated name is compared under its starred name, which the list of the family does not contain |

`reads` checks only safety properties, because `unobserved_return` shows that the first half of
its plan can come to a stop. Further behaviours of the code that the models contain and
that no run states as a property:

* When both sides of an Or are met before the expression is complete, as in `(t1|t2)&t3`, the
  coordinator exits (`trigger_graph.go:88`); `MeaningPreserved` holds up to there.
* A read begun on a cache without items of the type takes no read lock (`test_client.go:87`), and a
  pause action does not wait for it. If an object has come when the read returns, it gives back the lock that
  it does not have: the Go runtime stops the process, or another reader loses its lock. In `reads` this
  happens after the restart; the paused type is not empty before.
* A Get that does not find its object among others of its type keeps the read lock, since no RPC is made
  after it, and so does a thread that is killed while it holds the lock: every later read that the plan may
  pause waits for ever.
* Nothing sets the timeouts of the first action of a plan (`state_machine.go:109`): a plan that
  begins with `onTimeout` never starts. `TimeoutsAreMet` is checked for a later action. An old timeout
  of the same name may end a wait early (`state_machine.go:93`).
* Resuming an API server at which nobody is paused blocks the state machine (`test_plan.go:297`).
* A second pause at one place reuses the channel that the resume closed, and lets everybody
  through (`test_plan.go:248`, `351`).
* After a deploy script has failed, the deployment file still names the image of that run, and the
  process is in another directory (`sieve.py:389`): the rest of a batch is aborted, and the next
  process deploys the image of the failed one unless the file is restored by hand.

**Deadlock.** Threads make a bounded number of calls, logs and runs have a bounded length:
those runs say `CHECK_DEADLOCK FALSE`. In `oracle` deadlock is checked; its last step is `Done`.

**Bounds.** `MaxCalls` bounds the calls of each thread (one to four), `StateChCap` the
notification channel (500 in the code, 2 here, so that it can be full), the object states
are three, the keys two, of different types. Two or three threads are enough for the
interleavings that matter: a handler that is processed, one that waits and one that comes
later; a gate with a first and a further waiter; a reader that holds the lock and one that
wants it. The channels of the learn server have capacity 1 and 2 instead of 500; since
a handler waits until its event is logged, `rateLimitedEventCh` is never full with fewer informer threads than
its capacity, and `HandlersReturn` says nothing of a full one.
`timeoutNotificationCh` has no bound in the model: a timer that finds it full is one that still
sleeps. Eight lines of a log are enough for a round to begin in the middle of another one's read
and write, and for a third round after a trivial one; fourteen lines (seven operations) for an event, its
repetition, the two writes of a round and an event that overwrites the first. With three writes and two
reconcilers one write can make up in the count for another that is missing. Two events
of a run are enough to delete what was created, and three to bring it back. Four runs are enough for a failed
run, a killed one and a pair after them. Waits are up to three polls long. Larger values of
these bounds multiply the states and add no new order of the steps involved; the proofs below
do not depend on them.

**Fairness.** In the coordinator, weak fairness of the state machine, of the timers, of the
actions and of the handlers, each taken as one group. The code justifies it: they are goroutines
that the Go scheduler runs as long as they can, and sleeps end. In an instance every group has
finitely many steps, so that a group that is treated fairly lets each of its members go on in
the end. Nothing is assumed of the calls that threads make, of the cache, or of mutexes. The
learn server assumes the same of `coordinatingEvents`, its ticker and its handlers, and nothing
of the reconcilers: a reconcile may go on for ever. The oracle and the driver are sequential
programs that go on (weak fairness of their steps; a run ends because its workload does). The
driver also needs strong fairness of `KindDelete`: `kind delete cluster` does not fail for ever. The
loop at `sieve.py:256` does not count a failed deletion as an attempt, so that it would
retry for ever otherwise. In the workload, time passes, and a request to the API ends or raises: one that hangs
without a timeout is not modelled.

## 4. Proofs

| Theorem | States | Assumptions |
|---|---|---|
| `TestCoordinatorProofs!TypeCorrect` | `Spec => []TypeOK` | `PlanAssumption`, `ThreadAssumption`, `CoordinatorAssumption`: the plan's graphs are graphs over their nodes and its gates exist; calls are of the known kinds, and those at API-server points are made by API servers |
| `TestCoordinatorProofs!OrderCorrect` | `Spec => []ActionsInOrder` | the same |
| `TestCoordinatorProofs!ReleaseCorrect` | `Spec => []OneReleasePerHandler` | the same |
| `TestCoordinatorProofs!PauseCorrect` | `Spec => []PausedBehindFlag` | the same |
| `TestCoordinatorProofs!CountCorrect` | `Spec => []OccurrencesExact` | the same; in particular a literal has at most one predecessor and no trigger has the name of a gate |
| `TestCoordinatorProofs!DeliveryCorrect` | `Spec => []PrevStateIsLatest` | also `DeliveryAssumption`: one thread of each API server and of each controller process handles the events of an object |
| `TestCoordinatorProofs!ReadsArePaused` | `Spec => [](ReadsPausedOnce => NoReadWhilePaused)` | also `ReadsPausedOnce`, about the plan and the cache: reads are paused by one action, a restart comes after their resume, and an object of the paused type stays in the cache |
| `TestCoordinatorProofs!ExitsExplainedEver` | `Spec => []ExitsExplained` | the first ones; what two of its three parts need of the plan is stated in them, the third one needs nothing |
| `TestCoordinatorProofs!GraphsImplement` | `Spec => GraphsAreTriggered`, the refinement of `TriggerRun` by the graph of each action | the first ones |
| `TriggerRunProofs!ProgressIsExactEver` | `RunSpec => []ProgressIsExact` | `IsTriggerGraph`, in `RunInit`: literals and gates have the predecessors that `binaryTreeToTriggerGraph` gives them |
| `LearnServerProofs!ProgramOrder` | `Spec => []LogFollowsProgramOrder` | `LearnAssumption`: finitely many threads, one worker per reconciler; `notificationCh` has a capacity |
| `LearnServerProofs!NeverFatal` | `Spec => [](fatal = "none")` | the same |
| `LearnServerProofs!SanityCheckPasses` | `Spec => LogPassesSanityCheck`, the refinement of `SanityCheck` | the same |
| `AnalyzerProofs!TypesCorrect` | `Spec => []TypeOK` | `AnalyzerAssumption`: what can come in a line has its types |
| `AnalyzerProofs!SanityCorrect` | `Spec => []GraphIsSane` | the same |
| `AnalyzerProofs!NoCauseIsLost` | `Spec => []SeenEventsAreCauses` | the same |
| `AnalyzerProofs!CausesWereReadEver` | `Spec => []CausesWereRead` | the same |
| `AnalyzerProofs!PauseIsAtSourceEver` | `Spec => []PauseIsAtSource` | the same |
| `AnalyzerProofs!ResumeComesEver` | `Spec => [](Emitted => ResumeComes)` | also `Emitted`, an informer adds an object once until it is deleted, and `DeltaAssumption`, on the functions on trees: what `SidesAgree` says of those of `EventDelta` |
| `AnalyzerProofs!RestartCountIsExactEver` | `Spec => []RestartCountIsExact` | `AnalyzerAssumption`, and `TrimAssumption`: `diff_event` with `trim_ka` is `diff_event` of the trimmed states |
| `AnalyzerProofs!TimingIsDecidedEver` | `Spec => []TimingIsDecided` | `AnalyzerAssumption` |
| `OracleProofs!FamilyClosed` | `FamilySpec => []FamilyIsClosed` | none: any set of uids, any list of events |
| `OracleProofs!FamilyLeast` | `FamilySpec => []FamilyIsLeast` | none |
| `OracleProofs!StateIsLiveEver` | `Spec => []StateIsLive` | `OracleAssumption`: owners are objects, and a mask by type lists the objects of the type |
| `OracleProofs!SafetyAlarmExactEver` | `Spec => []SafetyAlarmExact` | the same |
| `OracleProofs!FirstRunAcceptedEver` | `Spec => []FirstRunAccepted` | also `MaskAssumption`: the string `SIEVE_LEARN_VALUE_MASK` occurs in no object |
| `OracleProofs!AgreementUnlessAlarmEver` | `Spec => []AgreementUnlessAlarm` | the same |
| `SieveRunProofs!NoStaleClusterEver` | `Spec => []NoStaleCluster` | `RunAssumption`: the names of plans are not those of the result directories; the bounds are numbers |
| `SieveRunProofs!OraclesOfOnePairEver` | `Spec => []OraclesOfOnePair` | the same |
| `SieveRunProofs!ResultsSavedEver` | `Spec => []ResultsSaved` | also `NoDirAssumption`: the value for a missing file is not a result |
| `SieveRunProofs!ImageOfModeEver` | `BuildSpec => []ImageOfMode` | `BuildAssumption`: the bound is a number |
| `TestDriverProofs!VerdictIsExactEver` | `DriverSpec => []VerdictIsExact` | `DriverAssumption`: work lists are lists of the known kinds of work, and times are numbers |
| `TestDriverProofs!SteadyConditionIsSeenEver` | `DriverSpec => []SteadyConditionIsSeen` | the same |

**The coordinator.** No one of the first three is inductive alone, and they need each other, so they
are proved together as `IndInv == TypeOK /\ ActionsInOrder /\ LoopInv /\ CallInv /\
OneReleasePerHandler`:

* `TypeOK` needs `ActionsInOrder`: when a goroutine reports its end, it must be that of
  the next action, or `nextState` could run past the plan. It needs `CallInv` for the
  gates: a thread at a pause point is in a call that has one.
* `ActionsInOrder` needs `LoopInv`: inside `processNotification` there is a next action
  and no asynchronous one is executed, so that the last trigger starts an idle action.
* `CallInv` (a thread that is not idle is in one of its calls) needs
  `OneReleasePerHandler`: the release sets the sender of a notification going, who must
  therefore be blocked in a call.
* `OneReleasePerHandler` is inductive relative to `LoopInv`: a receive takes the only
  notification of its sender out of the channel, a send is made by a thread that has none.

The proofs have three groups of lemmas, one per part of the invariant (`...Typed`,
`...InOrder`, `...Releases`), each with one step per action, and frame lemmas for the steps that
leave a part alone. More invariants are proved on top of `IndInv`:

* `PauseInv` for `PausedBehindFlag`: the flag of an API server is about to be cleared only when
  its channel is closed already.
* `CountInv` for `OccurrencesExact`: a trigger that is waited for has not been satisfied, and what
  comes before it in the graph has. A literal that `trigger` adds to `toSatisfy` has a single
  predecessor, which has just been satisfied for the first time; so the literal cannot have been
  satisfied before, and is not counted again. That `trigger` marks no other literal follows
  from a closed set that consists of the literal and all the gates (`FiredGates`). A desired
  occurrence of zero is never reached, and the property is not about it.
* `DeliveryInv` for `PrevStateIsLatest`: between the read of the table and its update only the
  handler itself writes to the entry, since reads refresh only the entries of write points.
  `DeliveryAssumption` is about Kubernetes: a watch cache or an informer handles its events in one
  goroutine. Two controller processes have an informer each; until the restart all calls come from the
  first process, which is a part of the invariant.
* `ReadInv` for `NoReadWhilePaused`. `GateInv`: the channel of the gate is open and the flag set from the pause
  until a later action of the plan opens the gate; an earlier one cannot, since there is no
  channel yet, and a thread that is paused before a read is paused at this gate. `CacheInv`: until
  the controller is restarted the cache has what the workload does not delete, and no read has begun blindly.
  `LockInv`: as long as none has, every read that the plan may pause holds the lock from before its
  pause point to its end, and no two threads hold it. So when `avoidOngoingRead` gets the lock nobody reads,
  and afterwards whoever wants to read is stopped. `LockInv` is an invariant of every plan and says of a
  killed thread what it says of the others; only `CacheInv` needs the plan and stops at the restart.
* `GraphsInv`, `ChannelInv` and again `LockInv` for the three parts of `ExitsExplained`. The progress of a
  graph keeps its meaning (`GraphInv`, below), so that a node that could be triggered again has an Or
  before it that is satisfied already. A resume action that has not come to its channel finds it open,
  since no other action opens that gate and the pause came before. And a read that unlocks holds the
  lock, of which `LockInv` says that it is locked then, unless some read has begun blindly.

**Trigger graphs.** `TriggerGraphProofs` is about one call of `trigger`. Its cascade is a least fixed
point (`Fired`), so that a fact about it is shown by giving a closed set (`FiredGates`) or by
taking away one node that nothing justifies. `GraphInv` says that `satisfied` and `toSatisfy` are what they
should be; a call keeps it. `TriggerRunProofs` makes an invariant of it for one graph at work, and
`GraphsImplement` carries this over to the coordinator: a step of the coordinator is a step of
`TriggerRun` in the graph of the next action, or leaves all graphs alone.

`NoReadWhilePaused` does not hold for every plan, and `ReadsPausedOnce` says of which it does. A
second pause at a gate that was resumed finds a closed channel and lets everybody through; a List that
is paused at the gate of one object goes on when that is opened, though another is shut; and a read
that begins when the cache has no object of the type, as after a restart or when the workload
has deleted the last one, takes no lock and meets no gate. `MCTestCoordinator` assumes that the plans of its
runs satisfy `ReadsPausedOnce`, which TLC evaluates.

**The learn server.** `LogFollowsProgramOrder` says that what a thread did is what is logged
followed by what is still on its way, through `rateLimitedEventCh`, the event that could not be
pushed into it, and `notificationCh`. The invariant (`IndInv` of `LearnServer`) adds the following.

* `GoodLines` and `IDsDiffer`: each line is numbered as it should be, an ID belongs to one
  operation, and its two lines follow each other.
* `ThreadInv`: a line before an operation is the last one of its thread until it is logged, since
  the handler waits. This is why releasing a handler by its channel finds the right one, and why
  an event that is held back cannot be overtaken by its own end.
* `ReconcileInv` and `CounterInv`: `reconcileChMap` and `ongoingReconcileCnt` agree with the
  reconciles that are open in the log, from which `NeverFatal` follows.

The refinement maps the counts of `SanityCheck` to the numbers of lines in the log. A step that
logs one line changes the status of one ID from nothing to `<<1, 0>>` or from `<<1, 0>>` to
`<<1, 1>>`, by `IDsDiffer` and the order of the log; a step that logs none stutters. Polling when
the last reconcile ends logs two lines in one step, of different kinds; a step of
`SanityCheck` has at most one line of each kind, so that this too is one of its steps.

**The analyzer.** `GraphIsSane` compares lines of events and writes. `SaneInv` adds what is kept
between the lines: what `write_start`, `prev_reconcile` and `cur_reconcile` remember are lines of
the log (`LinesInv`), and no two writes, ended or going on, began in one line (`StartsInv`), without which an
ended write could be taken for another. The causality rests on `CausesInv`, which says in terms of the log what
the parser remembers: which rounds `prev_reconcile` and `cur_reconcile` stand for, also when
trivial rounds are compressed (`RoundsInv`); that the shared sets of reads hold what was read
since the controller has been busy, and at least what the current rounds have read
(`ReadSetsInv`, `StartInv`); what a write took from there when it ended (`WritesSeenInv`), and which line ends an event
(`HearEndsInv`). All of it is stated about a log `l`, so that one lemma per operator shows that a
line at its end changes nothing about the lines before it (`Grown...`).

**The plans.** A plan is good if the coordinator, who hears of a repeated run one event at a time, comes to
the same number at the same event as the analyzer, who had the whole log. `FiresOnce` reduces this to
sets: a trigger fires at an event and at none before if its occurrence is the number of the
counted events up to there. `HearCounted` then shows that the events which the
coordinator counts are those to which the analyzer gave the same signature, under the condition in
`PauseIsAtSource`. For writes there is no such condition: `WriteCounted` says which writes the coordinator
counts, `CountsDiffer` compares them with those of the analyzer, write by write, and `RestartedAtSource`
has both directions: a trigger that fires at its write has counted as many. This needs `TrimAssumption`, as
the coordinator trims the two states of an update before it compares them, and
`WriteOrder`: the writes of a reconciler do not overlap, so that the order in which they begin is the
order in which the coordinator hears of them. `ResumeComes` goes through the cases of the
event for which the controller was paused (`AcceptedIs`): the two triggers accept an event exactly if it
overwrites that one, the first such event is in `cancelled_by`, and the event itself is not accepted.
`Emitted` is needed for an object that was added: any event but another `Added` resumes the controller, and
the object is added again only after a deletion. Of the functions on trees the proofs use
`DeltaAssumption` and `TrimAssumption` only; TLC evaluates both for the trees of `plans`, and
`event_delta` checks the first, as `SidesAgree`, for all small ones.

`TimingIsDecided` compares the walk of `decide_stale_state_timing` along the events of the reconcilers with
a count of the ends of rounds before the object is created again. The walk is a recursive function on the positions; that it
exists is shown by giving its values in closed form, and that it has no others by looking at the
largest position at which they could differ (`WalkDecides`). The list of events has each event at
its rank (`EventsListed`), because they are finitely many (`EventsFinite`) and in different lines.

**The family.** `FamilyIsClosed` speaks about the end of the loop only. `PassInv` says what a pass
knows on its way: as long as it has added nothing, the events it has seen have nothing to add.
A step that adds something makes the claim void by setting `keep_tainting`, and the loop ends
only behind the last event of a pass without it. `FamilyIsLeast` is inductive with the types: what an
event adds lies in every closed set that contains what was there (`AddedInClosed`).

**The oracle.** `OracleInv` relates the log to the store: the last event of each object says what the
store has (`StoreInv`). `generate_state` goes through the log backwards and takes the first event that it
meets of each object; that the fold does so is proved by induction on its length (`SeenStart`,
`SeenStep`, `FirstSeenIs`). `SafetyInv` says what the checker would report if the run ended now, and
`ResultInv` what was saved of the runs. `FirstRunAccepted` and `AgreementUnlessAlarm` are then facts
about the operators: a value that the trimming leaves is that of the first run, and a masked one is not
compared.

**The driver.** `NoStaleCluster` speaks about the steps from the deployment on. `ClusterInv` follows
the cluster through the set-up: behind a deletion there is none, and a retry finds none or the
one of this run; the driver that gives up after five attempts is stopped by the server, which cannot be
copied into a cluster that is not there. For the oracles, an invariant on the two learn
directories (`LearnInv`: in the postprocessing of a pair they are from the last two runs) and
one on the files (`OracleInv`) go together. Each file is from a pair that is over; those before it, in the
order of `OracleFiles`, are from that or a later pair; those that the current process has written are from
its own; and all are from one unless the writing has been broken off. `BatchInv` divides the plans of a batch into those that are done, the current one and those
that are left: the first have their results, and the logs and the files of the current one are of its run.

**Build.** `StageInv` says what the tree is at each stage: new after a download, with the client
after the import, instrumented once for the current mode before an image is built. Only `--build_only`
starts from a tree that another build has left, and its images carry that mark to the registry (`TagInv`).

**The workload.** `LogInv`: the log has exactly the items that did not end well, and the end mark
comes after all of them. `WindowInv` is about time: in a wait that is longer than what can pass
between two polls, a moment near the deadline at which the condition does not hold has been noted,
and there is no way to pass the deadline without a poll in that window.

TLC checked the inductive invariants on the instances of the runs before they were proved.

Induction over data goes by the least or the largest counterexample (`NatClosed`, `HasLeast`, `HasLargest`, from
the theorem that the order of the numbers is well-founded). The functions it is about, `Of` in `LearnServer`,
`FirstSeen` in `Oracle` and `WalkFrom` in `PerturbationPolicies`, are therefore written as recursive functions, of
which the prover knows the equations once it is shown that they exist (`ScanExists`, `SeenExists`,
`WalkDecides`).

Only model-checked:

* all liveness properties (fairness is out of the prover's reach);
* `MeaningPreserved`, and what the difference functions compute (`DiffIsExact`, `SidesAgree`): they are about the
  recursive operators on trees of `Expression` and `EventDelta`, which the prover cannot use.

## 5. Not modelled

* The configuration and the connection of the client (`sieve_client/common.go`): `config` is
  published before its tables are filled, and two functions of the learn client load the
  configuration in test mode. The threads of the
  models are configured and connected.
* The Kubernetes API in `restartAndreconnectController`, and its errors.
* Which objects trigger a reconcile in the learn client (`triggerReconcile`, `taintMap`).
* The conversion of objects to the form of the API (capitalised keys) in `event.go`.
* The edges from writes to hears and `event_vertices_reachable`, which no policy uses.
* The scan of the controller log for panics, and the texts of reports.
* `reproduce_bugs.py`, which calls `sieve.py` with fixed arguments, the loading of configuration
  files, and the other scripts beside it (`check_env.py`, `report_bugs.py`, `start_porting.py`,
  `check_test_plan_gen.py`, `gen_github_action.py`, `parallel_testing`): one-shot helpers without
  state of their own.
* Rewriting Go files (`sieve_instrumentation`): a transformation of syntax trees, of which the
  models see the calls that it inserts.
* The controllers, the API servers and `kind` themselves: external, any behaviour their
  interfaces allow.

## 6. Plan

Done, in this order: the test coordinator with its parts, the learn server, object differences,
analyzer, policies and their plans executed by the coordinator's triggers, oracle, driver, build
and workload, and the proofs above: every safety property of the passing runs that does not speak of
recursive operators on trees is proved. What would come next:

1. The configuration and connection of the client, with the threads that race in it.
2. Plans that combine pauses of API servers with pauses of reads, and resumes that find nobody.
