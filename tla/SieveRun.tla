------------------------------ MODULE SieveRun ------------------------------
(***************************************************************************)
(* The driver sieve.py: one process at a time, which runs the controller   *)
(* once (vanilla, learn, test), twice (learn with --build-oracle) or once  *)
(* for each plan of a folder (test with --batch), and leaves directories   *)
(* and files that later processes read.                                    *)
(*                                                                         *)
(* Every command that the driver starts may fail, which raises an          *)
(* exception (os_system in sieve_common/common.py); the process may be     *)
(* killed at any step.  What files hold is abstracted to the number of the *)
(* run that they are from.  All paths are relative to the directory in     *)
(* which the process was started, as in docs/port.md.                      *)
(***************************************************************************)
EXTENDS Integers, Sequences, FiniteSets

CONSTANTS
    TestPlans,       \* the plans of the folder
    MaxRuns,         \* bound: runs over all processes
    MaxKills,        \* bound: killed processes
    NoDir            \* there is no such file or directory

Modes == {"vanilla", "learn", "test"}
OracleFiles == <<"event", "state", "mask", "controller_family">>
Dirs == {"vanilla", "learn", "learn_prev"} \cup TestPlans
EmptyDir == [logs |-> 0, files |-> 0]
NoCluster == [by |-> 0, server |-> 0, image |-> "none"]
RetryLimit == 5

ASSUME RunAssumption ==
    TestPlans \cap {"vanilla", "learn", "learn_prev"} = {} /\ MaxRuns \in Nat /\ MaxKills \in Nat

\* No result that is saved is the absent one.
ASSUME NoDirAssumption == NoDir \notin [run : Nat, no_exception : BOOLEAN, files : Nat]

VARIABLES
    pc,              \* the step that the process is at
    options,         \* of the process: mode, build_oracle, postprocess, the plans;
                     \* history: the runs before it
    todo,            \* the test plans of a batch that are left
    plan,            \* the current one
    id,              \* the number of the current run
    second,          \* it is the second learning run
    outcome,         \* the TestResult: "none", "checked" or "exception"
    cwd,             \* "root" or "elsewhere"
    retry_cnt,
    written,         \* how many of the oracle files are written
    dir,             \* the result directories: the runs their contents are from
    oracle,          \* the oracle directory: the pair of runs each file is from
    cluster,         \* the kind cluster: who created it, the server, the image
    deployment,      \* the controller's deployment file: "template", or a tag
    backup,          \* its backup
    saved,           \* the result that save_run_result has written for a plan
    killed,          \* how many processes were killed
    torn             \* history: the writing of the oracle files was broken off
                     \* between two of them, and they were not all written since

process == <<pc, options, todo, plan, id, second, outcome, cwd, retry_cnt, written>>
disk == <<dir, oracle, deployment, backup, saved>>
vars == <<process, disk, cluster, killed, torn>>

Idle == pc \in {"idle", "aborted", "killed"}
mode == options.mode
result_dir == IF mode = "test" THEN plan ELSE mode

Init ==
    /\ pc = "idle"
    /\ options = [mode |-> "vanilla", build_oracle |-> FALSE, postprocess |-> FALSE,
                  plans |-> {}, start |-> 0]
    /\ todo = {} /\ plan = NoDir /\ id = 0 /\ second = FALSE
    /\ outcome = "none" /\ cwd = "root" /\ retry_cnt = 0 /\ written = 0
    /\ dir = [d \in Dirs |-> NoDir] /\ oracle = NoDir /\ deployment = "template" /\ backup = NoDir
    /\ saved = [p \in TestPlans |-> NoDir]
    /\ cluster = NoCluster /\ killed = 0 /\ torn = FALSE
-----------------------------------------------------------------------------
(* The process and its exceptions.                                          *)

\* The options that main accepts.  The runs of the process are within the bound.
Invoke(m, build_oracle, postprocess, plans) ==
    /\ Idle
    /\ build_oracle => m = "learn" /\ ~postprocess
    /\ (m = "test") = (plans # {})
    /\ id + (IF m = "test" THEN Cardinality(plans) ELSE IF build_oracle THEN 2 ELSE 1) <= MaxRuns
    /\ options' = [mode |-> m, build_oracle |-> build_oracle, postprocess |-> postprocess,
                   plans |-> plans, start |-> id]
    /\ todo' = plans /\ pc' = "run" /\ cwd' = "root"
    /\ UNCHANGED <<plan, id, second, outcome, retry_cnt, written, disk, cluster, killed, torn>>

\* Mutant: run_test has no exception handler.
Exception_Uncaught ==
    pc' = "aborted" /\ outcome' = "exception"

\* The handler of run_test makes a TestResult of any exception.
Exception ==
    pc' = "return" /\ outcome' = "exception"

\* A step that fails with nothing changed but the working directory.
Raise(where) ==
    /\ Exception /\ cwd' = where
    /\ UNCHANGED <<options, todo, plan, id, second, retry_cnt, written, disk, cluster, killed, torn>>

\* A step that fails when the result directories have become one of those in D.
RaiseWith(D) ==
    /\ Exception /\ dir' \in D
    /\ UNCHANGED <<options, todo, plan, id, second, cwd, retry_cnt, written,
                   oracle, deployment, backup, saved, cluster, killed, torn>>

Goto(next) ==
    pc' = next /\ UNCHANGED <<options, todo, plan, id, second, outcome, cwd, retry_cnt, written>>

\* run: what it does before run_test is outside of the handler.
run ==
    /\ pc = "run"
    /\ IF cwd = "root" /\ (oracle # NoDir \/ options.build_oracle \/ mode = "vanilla")
       THEN /\ oracle' = IF oracle = NoDir THEN [f \in {} |-> 0] ELSE oracle
            /\ id' = id + 1
            /\ plan' \in IF mode = "test" THEN todo ELSE {NoDir}
            /\ todo' = todo \ {plan'}
            /\ pc' = IF options.postprocess THEN "post" ELSE "prepare"
       ELSE pc' = "aborted" /\ UNCHANGED <<oracle, id, plan, todo>>
    /\ second' = FALSE /\ outcome' = "none" /\ written' = 0
    /\ UNCHANGED <<options, cwd, retry_cnt, dir, deployment, backup, saved, cluster, killed, torn>>

\* The result directory is made again, and the plan put into it; each of the three
\* steps may fail.
prepare_test_plan ==
    /\ pc = "prepare"
    /\ \/ /\ dir' = [dir EXCEPT ![result_dir] = EmptyDir]
          /\ Goto("kind")
          /\ UNCHANGED <<oracle, deployment, backup, saved, cluster, killed, torn>>
       \/ RaiseWith({dir} \cup {[dir EXCEPT ![result_dir] = d] : d \in {NoDir, EmptyDir}})
-----------------------------------------------------------------------------
(* setup_cluster.                                                           *)

\* Mutant: the cluster that is there is left.
KindDelete_Skipped ==
    /\ pc = "kind" /\ retry_cnt < RetryLimit
    /\ retry_cnt' = retry_cnt + 1 /\ pc' = "create"
    /\ UNCHANGED <<options, todo, plan, id, second, outcome, cwd, written, disk, cluster, killed, torn>>

KindDelete ==
    /\ pc = "kind" /\ retry_cnt < RetryLimit
    /\ cluster' = NoCluster
    /\ retry_cnt' = retry_cnt + 1 /\ pc' = "create"
    /\ UNCHANGED <<options, todo, plan, id, second, outcome, cwd, written, disk, killed, torn>>

\* The deletion fails before the attempt is counted: the loop starts again.
KindDeleteFails ==
    /\ pc = "kind" /\ retry_cnt < RetryLimit
    /\ UNCHANGED vars

LeaveLoop ==
    /\ pc' = "server" /\ retry_cnt' = 0
    /\ UNCHANGED <<options, todo, plan, id, second, outcome, cwd, written>>

KindCreate ==
    /\ pc = "create" /\ cluster = NoCluster
    /\ cluster' = [NoCluster EXCEPT !.by = id]
    /\ LeaveLoop
    /\ UNCHANGED <<disk, killed, torn>>

\* Mutant: only a creation that succeeds is counted.
KindCreateFails_Uncounted ==
    /\ pc = "create"
    /\ pc' = "kind" /\ retry_cnt' = retry_cnt - 1
    /\ UNCHANGED <<options, todo, plan, id, second, outcome, cwd, written, disk, cluster, killed, torn>>

\* It fails, or it succeeds and the kube config cannot be copied.
KindCreateFails ==
    /\ pc = "create"
    /\ \/ cluster' = cluster
       \/ cluster = NoCluster /\ cluster' = [NoCluster EXCEPT !.by = id]
    /\ Goto("kind")
    /\ UNCHANGED <<disk, killed, torn>>

\* After the last attempt the loop just ends.
KindGivesUp ==
    /\ pc = "kind" /\ retry_cnt = RetryLimit
    /\ LeaveLoop
    /\ UNCHANGED <<disk, cluster, killed, torn>>

\* prepare_sieve_server and start_sieve_server; the learned mask is needed in test
\* mode, and a failed build leaves the process in sieve_server.
prepare_sieve_server ==
    /\ pc = "server"
    /\ \/ /\ cluster # NoCluster /\ (mode = "test" => "mask" \in DOMAIN oracle)
          /\ cluster' = IF mode = "vanilla" THEN cluster ELSE [cluster EXCEPT !.server = id]
          /\ Goto("deploy")
          /\ UNCHANGED <<disk, killed, torn>>
       \/ Raise("root")
       \/ mode # "vanilla" /\ Raise("elsewhere")
-----------------------------------------------------------------------------
(* run_workload: deploy_controller, the workload, the logs.                 *)

\* The CSI driver, the backup, and the tag of the mode for the placeholder, if the
\* file has one.
EditDeployment ==
    /\ pc = "deploy"
    /\ \/ /\ deployment' = IF deployment = "template" THEN mode ELSE deployment
          /\ backup' = deployment
          /\ Goto("deploying")
          /\ UNCHANGED <<dir, oracle, saved, cluster, killed, torn>>
       \/ Raise("elsewhere")

\* deploy.sh; when it succeeds, the file is restored.
Deploy ==
    /\ pc = "deploying"
    /\ \/ /\ cluster' = [cluster EXCEPT !.image = deployment]
          /\ deployment' = backup /\ backup' = NoDir
          /\ Goto("workload")
          /\ UNCHANGED <<dir, oracle, saved, killed, torn>>
       \/ Raise("elsewhere")

\* The controller is ready, the workload runs, the logs are collected; any command
\* may fail when the streamed logs have begun.
run_workload ==
    /\ pc = "workload"
    /\ \/ /\ dir' = [dir EXCEPT ![result_dir].logs = id]
          /\ Goto("teardown")
          /\ UNCHANGED <<oracle, deployment, backup, saved, cluster, killed, torn>>
       \/ RaiseWith({dir, [dir EXCEPT ![result_dir].logs = id]})

teardown_cluster ==
    /\ pc = "teardown"
    /\ \/ /\ cluster' = NoCluster
          /\ Goto("save")
          /\ UNCHANGED <<disk, killed, torn>>
       \/ Raise("root")
-----------------------------------------------------------------------------
(* The results.                                                             *)

\* The files are made from the logs; when one of them cannot be made, those before it
\* are there.
save_history_and_end_state ==
    /\ pc = "save"
    /\ LET made == [dir EXCEPT ![result_dir].files = dir[result_dir].logs]
       IN  \/ /\ dir' = made
              /\ Goto(IF options.build_oracle /\ ~second THEN "previous" ELSE "post")
              /\ UNCHANGED <<oracle, deployment, backup, saved, cluster, killed, torn>>
           \/ RaiseWith({dir, made})

\* Mutant: an old directory is left, and the new one is moved into it.
save_previous_learn_results_Keeps ==
    /\ pc = "previous"
    /\ dir' = [dir EXCEPT !["learn"] = NoDir,
                          !["learn_prev"] = IF @ = NoDir THEN dir["learn"] ELSE @]
    /\ id' = id + 1 /\ second' = TRUE /\ pc' = "prepare"
    /\ UNCHANGED <<options, todo, plan, outcome, cwd, retry_cnt, written,
                   oracle, deployment, backup, saved, cluster, killed, torn>>

\* The first results are moved, and the second run starts.
save_previous_learn_results ==
    /\ pc = "previous"
    /\ \/ /\ dir' = [dir EXCEPT !["learn"] = NoDir, !["learn_prev"] = dir["learn"]]
          /\ id' = id + 1 /\ second' = TRUE /\ pc' = "prepare"
          /\ UNCHANGED <<options, todo, plan, outcome, cwd, retry_cnt, written,
                         oracle, deployment, backup, saved, cluster, killed, torn>>
       \/ RaiseWith({dir, [dir EXCEPT !["learn_prev"] = NoDir]})

\* create_differential_oracles writes one file after the other.
create_differential_oracles ==
    /\ pc = "post" /\ options.build_oracle /\ written < Len(OracleFiles)
    /\ LET f == OracleFiles[written + 1]
       IN  oracle' = [g \in DOMAIN oracle \cup {f} |->
                        IF g = f THEN <<dir["learn_prev"].files, dir["learn"].files>>
                        ELSE oracle[g]]
    /\ torn' = (torn /\ written + 1 < Len(OracleFiles))
    /\ written' = written + 1
    /\ UNCHANGED <<pc, options, todo, plan, id, second, outcome, cwd, retry_cnt,
                   dir, deployment, backup, saved, cluster, killed>>

\* Some files are written and the others are left as they are.
BreakOff ==
    torn' = \/ torn
            \/ pc = "post" /\ options.build_oracle /\ written \in 1..(Len(OracleFiles) - 1)

\* An oracle cannot be made or written: run_test catches the exception.
create_differential_oracles_Fails ==
    /\ pc = "post" /\ options.build_oracle /\ written < Len(OracleFiles)
    /\ Exception /\ BreakOff
    /\ UNCHANGED <<options, todo, plan, id, second, cwd, retry_cnt, written, disk,
                   cluster, killed>>

\* generate_test_plans_from_learn_run, or nothing in vanilla mode.
post_process_learn ==
    /\ pc = "post" /\ mode # "test"
    /\ options.build_oracle => written = Len(OracleFiles)
    /\ \/ /\ pc' = "return" /\ outcome' = "none"
          /\ mode = "learn" => dir["learn"] # NoDir /\ dir["learn"].logs # 0
          /\ UNCHANGED <<options, todo, plan, id, second, cwd, retry_cnt, written, disk,
                         cluster, killed, torn>>
       \/ mode = "learn" /\ Raise("root")

\* check needs the results of the run and all of the oracles.
post_process_test ==
    /\ pc = "post" /\ mode = "test"
    /\ \/ /\ dir[plan] # NoDir /\ dir[plan].files # 0
          /\ Cardinality(DOMAIN oracle) = Len(OracleFiles)
          /\ pc' = "return" /\ outcome' = "checked"
          /\ UNCHANGED <<options, todo, plan, id, second, cwd, retry_cnt, written, disk,
                         cluster, killed, torn>>
       \/ Raise("root")

\* save_run_result opens the plan again: it is not there when the process is in
\* another directory.  Then run_batch takes the next plan.
save_run_result ==
    /\ pc = "return"
    /\ IF mode # "test" THEN pc' = "idle" /\ UNCHANGED saved
       ELSE IF cwd # "root" THEN pc' = "aborted" /\ UNCHANGED saved
       ELSE /\ saved' = [saved EXCEPT ![plan] =
                 [run |-> id, no_exception |-> outcome = "checked",
                  files |-> IF dir[plan] = NoDir THEN 0 ELSE dir[plan].files]]
            /\ pc' = IF todo = {} THEN "idle" ELSE "run"
    /\ UNCHANGED <<options, todo, plan, id, second, outcome, cwd, retry_cnt, written,
                   dir, oracle, deployment, backup, cluster, killed, torn>>

Kill ==
    /\ ~Idle /\ killed < MaxKills
    /\ pc' = "killed" /\ killed' = killed + 1 /\ retry_cnt' = 0
    /\ BreakOff
    /\ UNCHANGED <<options, todo, plan, id, second, outcome, cwd, written, disk, cluster>>

Step ==
    \/ run \/ prepare_test_plan
    \/ KindCreate \/ KindCreateFails \/ KindGivesUp \/ prepare_sieve_server
    \/ EditDeployment \/ Deploy \/ run_workload \/ teardown_cluster
    \/ save_history_and_end_state \/ save_previous_learn_results
    \/ create_differential_oracles \/ create_differential_oracles_Fails
    \/ post_process_learn \/ post_process_test \/ save_run_result

Next ==
    \/ \E m \in Modes, b, p \in BOOLEAN, plans \in SUBSET TestPlans :
         Invoke(m, b, p, plans)
    \/ Step \/ KindDelete \/ KindDeleteFails \/ Kill

\* The process goes on, and the deletion of a cluster does not fail for ever.
Spec == Init /\ [][Next]_vars /\ WF_vars(Step) /\ SF_vars(KindDelete)
-----------------------------------------------------------------------------
(* Properties.                                                              *)

\* The controller is deployed, and the workload run, in a cluster that was created
\* for this run, with a server that was started for this run; also after runs
\* that failed or were killed and left their cluster, and although the driver goes on
\* when no attempt to create a cluster has succeeded.
NoStaleCluster ==
    pc \in {"deploy", "deploying", "workload"} =>
        cluster.by = id /\ (mode # "vanilla" => cluster.server = id)

\* The oracle file number i is of the pair of learning runs that begins with run n.
OfPair(i, n) == OracleFiles[i] \in DOMAIN oracle /\ oracle[OracleFiles[i]] = <<n, n + 1>>

\* Each oracle file is from a pair of learning runs that followed each other, and never
\* from an older pair than a file that is written after it: what earlier runs, complete
\* or not, have left in the two result directories is not taken for one of the pair,
\* and a mix that a kill or an exception has left (which run_test catches) shows in the
\* first and the last file.  Between processes the oracles are all from one pair, or
\* there are none, unless the writing was broken off between two files.
OraclesOfOnePair ==
    LET N == DOMAIN OracleFiles
        present == {i \in N : oracle # NoDir /\ OracleFiles[i] \in DOMAIN oracle}
    IN  /\ \A j \in present : \E n \in 1..MaxRuns :
              OfPair(j, n) /\ \A i \in 1..j : \E m \in n..MaxRuns : OfPair(i, m)
        /\ Idle /\ ~torn => present = {} \/ \E n \in 1..MaxRuns : \A i \in N : OfPair(i, n)

\* A batch that comes to its end has saved a result for every plan, of a run of its
\* own, and one without an exception is about the files of that run (unless only
\* the postprocessing was asked for).  The batch ends early only when there is no
\* oracle directory, or when a failed command has left the process in another one.
ResultsSaved ==
    mode = "test" =>
        /\ pc = "aborted" => oracle = NoDir \/ cwd # "root"
        /\ pc = "idle" => \A p \in options.plans :
             /\ saved[p] # NoDir /\ saved[p].run > options.start
             /\ saved[p].no_exception /\ ~options.postprocess => saved[p].files = saved[p].run

\* A process that is started ends: the retries of setup_kind_cluster do.
RunEnds == ~Idle ~> Idle

=============================================================================
