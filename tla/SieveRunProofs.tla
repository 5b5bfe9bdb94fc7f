--------------------------- MODULE SieveRunProofs ---------------------------
(***************************************************************************)
(* No run of the driver uses the cluster of another one, an oracle file is *)
(* from a pair of learning runs and not from an older pair than those that *)
(* are written after it, and a batch that comes to its end has saved the   *)
(* results of all its plans, for every set of plans and every number of    *)
(* runs and of killed processes, whichever steps fail.  The images that    *)
(* they use are of the mode that their tags say.                           *)
(***************************************************************************)
EXTENDS SieveRun, Build, SequenceTheorems, TLAPS

Images == Modes \cup {"none", "template", NoDir}

Types ==
    /\ id \in Nat /\ retry_cnt \in Nat
    /\ options.mode \in Modes
    /\ deployment \in Images /\ backup \in Images
    /\ cluster \in [by : Nat, server : Nat, image : Images]

\* What is known of the cluster at each step of the set-up: a deletion has taken away
\* whatever was there, and the counter remembers that there was one.
ClusterInv ==
    /\ pc \notin {"kind", "create"} => retry_cnt = 0
    /\ pc = "create" => cluster = NoCluster
    /\ pc = "kind" /\ retry_cnt > 0 => cluster = NoCluster \/ cluster.by = id
    /\ pc = "server" => cluster = NoCluster \/ cluster.by = id
    /\ pc \in {"deploy", "deploying", "workload"} =>
         cluster.by = id /\ (options.mode # "vanilla" => cluster.server = id)

\* The types hold in every state.
LEMMA TypesInductive ==
    ASSUME Types, [Next]_vars
    PROVE  Types'
  <1> USE DEF Types, Images, Modes
  <1> USE DEF Goto, Raise, RaiseWith, BreakOff, Exception, LeaveLoop, disk, process, NoCluster
  <1>1. ASSUME NEW m \in Modes, NEW b \in BOOLEAN, NEW p \in BOOLEAN,
               NEW plans \in SUBSET TestPlans, Invoke(m, b, p, plans)
        PROVE  Types'
    BY <1>1 DEF Invoke
  <1>2. CASE run
    BY <1>2 DEF run
  <1>3. CASE prepare_test_plan
    BY <1>3 DEF prepare_test_plan
  <1>4. CASE KindCreate
    BY <1>4 DEF KindCreate
  <1>5. CASE KindCreateFails
    BY <1>5 DEF KindCreateFails
  <1>6. CASE KindGivesUp
    BY <1>6 DEF KindGivesUp
  <1>7. CASE prepare_sieve_server
    BY <1>7 DEF prepare_sieve_server
  <1>8. CASE EditDeployment
    BY <1>8 DEF EditDeployment, mode
  <1>9. CASE Deploy
    BY <1>9 DEF Deploy
  <1>10. CASE run_workload
    BY <1>10 DEF run_workload
  <1>11. CASE teardown_cluster
    BY <1>11 DEF teardown_cluster
  <1>12. CASE save_history_and_end_state
    BY <1>12 DEF save_history_and_end_state
  <1>13. CASE save_previous_learn_results
    BY <1>13 DEF save_previous_learn_results
  <1>14. CASE create_differential_oracles
    BY <1>14 DEF create_differential_oracles
  <1>15. CASE post_process_learn
    BY <1>15 DEF post_process_learn
  <1>16. CASE post_process_test
    BY <1>16 DEF post_process_test
  <1>17. CASE save_run_result
    BY <1>17 DEF save_run_result
  <1>18. CASE KindDelete
    BY <1>18 DEF KindDelete
  <1>19. CASE Kill
    BY <1>19 DEF Kill
  <1>20. CASE UNCHANGED vars
    BY <1>20 DEF vars
  <1>21. CASE create_differential_oracles_Fails
    BY <1>21 DEF create_differential_oracles_Fails
  <1> QED
    BY <1>1, <1>2, <1>3, <1>4, <1>5, <1>6, <1>7, <1>8, <1>9, <1>10, <1>11, <1>12, <1>13,
       <1>14, <1>15, <1>16, <1>17, <1>18, <1>19, <1>20, <1>21 DEF Next, Step, KindDeleteFails

\* What is known of the cluster is kept by every step.
LEMMA ClusterInductive ==
    ASSUME Types, ClusterInv, [Next]_vars
    PROVE  ClusterInv'
  <1> USE DEF Types, ClusterInv
  <1> USE DEF Goto, Raise, RaiseWith, BreakOff, Exception, LeaveLoop, disk, process, NoCluster, RetryLimit
  <1>1. ASSUME NEW m \in Modes, NEW b \in BOOLEAN, NEW p \in BOOLEAN,
               NEW plans \in SUBSET TestPlans, Invoke(m, b, p, plans)
        PROVE  ClusterInv'
    BY <1>1 DEF Invoke, Idle
  <1>2. CASE run
    BY <1>2 DEF run
  <1>3. CASE prepare_test_plan
    BY <1>3 DEF prepare_test_plan
  <1>4. CASE KindCreate
    BY <1>4 DEF KindCreate
  <1>5. CASE KindCreateFails
    BY <1>5 DEF KindCreateFails
  <1>6. CASE KindGivesUp
    BY <1>6 DEF KindGivesUp
  <1>7. CASE prepare_sieve_server
    BY <1>7 DEF prepare_sieve_server, mode
  <1>8. CASE EditDeployment
    BY <1>8 DEF EditDeployment
  <1>9. CASE Deploy
    BY <1>9 DEF Deploy
  <1>10. CASE run_workload
    BY <1>10 DEF run_workload
  <1>11. CASE teardown_cluster
    BY <1>11 DEF teardown_cluster
  <1>12. CASE save_history_and_end_state
    BY <1>12 DEF save_history_and_end_state
  <1>13. CASE save_previous_learn_results
    BY <1>13 DEF save_previous_learn_results
  <1>14. CASE create_differential_oracles
    BY <1>14 DEF create_differential_oracles
  <1>15. CASE post_process_learn
    BY <1>15 DEF post_process_learn
  <1>16. CASE post_process_test
    BY <1>16 DEF post_process_test
  <1>17. CASE save_run_result
    BY <1>17 DEF save_run_result
  <1>18. CASE KindDelete
    BY <1>18 DEF KindDelete
  <1>19. CASE Kill
    BY <1>19 DEF Kill
  <1>20. CASE UNCHANGED vars
    BY <1>20 DEF vars
  <1>21. CASE create_differential_oracles_Fails
    BY <1>21 DEF create_differential_oracles_Fails
  <1> QED
    BY <1>1, <1>2, <1>3, <1>4, <1>5, <1>6, <1>7, <1>8, <1>9, <1>10, <1>11, <1>12, <1>13,
       <1>14, <1>15, <1>16, <1>17, <1>18, <1>19, <1>20, <1>21 DEF Next, Step, KindDeleteFails

\* setup_cluster: every workload runs in a cluster, and with a server, that were made
\* for its own run, whatever runs failed or were killed before.
THEOREM NoStaleClusterEver == Spec => []NoStaleCluster
  <1>1. Init => Types /\ ClusterInv
    BY DEF Init, Types, ClusterInv, Images, Modes, NoCluster
  <1>2. Types /\ ClusterInv /\ [Next]_vars => (Types /\ ClusterInv)'
    BY TypesInductive, ClusterInductive
  <1>3. Types /\ ClusterInv => NoStaleCluster
    BY DEF ClusterInv, NoStaleCluster, mode
  <1> QED
    BY <1>1, <1>2, <1>3, PTL DEF Spec
-----------------------------------------------------------------------------
Files == {"event", "state", "mask", "controller_family"}
Learning == pc \in {"prepare", "kind", "create", "server", "deploy", "deploying",
                    "workload", "teardown", "save", "previous", "post"}
Function(f) == f = [x \in DOMAIN f |-> f[x]]
IsOracle == Function(oracle) /\ DOMAIN oracle \subseteq Files
Writing == pc = "post" /\ options.build_oracle

\* The oracles are all from one pair of runs, or there are none.
Whole ==
    \/ oracle = NoDir \/ DOMAIN oracle = {}
    \/ \E n \in 1..MaxRuns : \A i \in 1..4 : OfPair(i, n)

PairTypes ==
    /\ Function(dir) /\ DOMAIN dir = Dirs
    /\ written \in 0..4 /\ torn \in BOOLEAN
    /\ options.build_oracle => mode = "learn" /\ ~options.postprocess
    /\ oracle = NoDir \/ IsOracle

\* The runs of a process that builds oracles: where the results of the first and of the
\* second one are, step by step.
LearnInv ==
    options.build_oracle =>
      /\ pc = "run" => id + 2 <= MaxRuns
      /\ Learning => /\ IsOracle
                     /\ IF second
                        THEN id >= 2 /\ id <= MaxRuns /\ dir["learn_prev"].files = id - 1
                        ELSE id >= 1 /\ id + 1 <= MaxRuns
                     /\ pc # "post" => written = 0
      /\ Learning /\ pc \notin {"prepare", "previous", "post"} =>
           dir["learn"] = [logs |-> dir["learn"].logs, files |-> dir["learn"].files]
      /\ pc \in {"teardown", "save"} => dir["learn"].logs = id
      /\ pc \in {"previous", "post"} => dir["learn"].files = id
      /\ pc = "previous" => ~second
      /\ pc = "post" => second

\* A file is from a pair of runs that are over, and the files before it from that pair or
\* a later one; those that this process has written are from its own pair.
OracleInv ==
    /\ oracle # NoDir \/ Learning =>
         \A j \in 1..4 : OracleFiles[j] \in DOMAIN oracle =>
           \E n \in 1..MaxRuns :
             n < id /\ OfPair(j, n) /\ \A i \in 1..j : \E m \in n..MaxRuns : OfPair(i, m)
    /\ Writing => \A i \in 1..written : OfPair(i, id - 1)
    /\ ~Writing \/ written = 0 => torn \/ Whole

PairInv == Types /\ PairTypes /\ LearnInv /\ OracleInv

\* The shapes of the directories and of the oracle are kept.
LEMMA PairTypesInductive ==
    ASSUME PairInv, [Next]_vars
    PROVE  PairTypes'
  <1> USE DEF PairInv, PairTypes, Function, IsOracle, LearnInv, Learning, Files, Types
  <1> USE DEF Goto, Raise, RaiseWith, BreakOff, Exception, LeaveLoop, disk, process, mode
  <1>1. ASSUME NEW m \in Modes, NEW b \in BOOLEAN, NEW p \in BOOLEAN,
               NEW plans \in SUBSET TestPlans, Invoke(m, b, p, plans)
        PROVE  PairTypes'
    BY <1>1 DEF Invoke, Idle
  <1>2. CASE run
    <2>1. CASE oracle' = [f \in {} |-> 0]
      BY <1>2, <2>1 DEF run
    <2>2. CASE oracle' = oracle
      BY <1>2, <2>2 DEF run
    <2> QED
      BY <1>2, <2>1, <2>2 DEF run
  <1>3. CASE prepare_test_plan
    BY <1>3 DEF prepare_test_plan, result_dir, EmptyDir
  <1>4. CASE KindCreate
    BY <1>4 DEF KindCreate
  <1>5. CASE KindCreateFails
    BY <1>5 DEF KindCreateFails
  <1>6. CASE KindGivesUp
    BY <1>6 DEF KindGivesUp
  <1>7. CASE prepare_sieve_server
    BY <1>7 DEF prepare_sieve_server
  <1>8. CASE EditDeployment
    BY <1>8 DEF EditDeployment
  <1>9. CASE Deploy
    BY <1>9 DEF Deploy
  <1>10. CASE run_workload
    BY <1>10 DEF run_workload, result_dir
  <1>11. CASE teardown_cluster
    BY <1>11 DEF teardown_cluster
  <1>12. CASE save_history_and_end_state
    BY <1>12 DEF save_history_and_end_state, result_dir
  <1>13. CASE save_previous_learn_results
    BY <1>13 DEF save_previous_learn_results
  <1>14. CASE create_differential_oracles
    BY <1>14 DEF create_differential_oracles, OracleFiles
  <1>15. CASE post_process_learn
    BY <1>15 DEF post_process_learn, OracleFiles
  <1>16. CASE post_process_test
    BY <1>16 DEF post_process_test
  <1>17. CASE save_run_result
    BY <1>17 DEF save_run_result
  <1>18. CASE KindDelete
    BY <1>18 DEF KindDelete
  <1>19. CASE Kill
    BY <1>19 DEF Kill, Idle, OracleFiles
  <1>20. CASE UNCHANGED vars
    BY <1>20 DEF vars
  <1>21. CASE create_differential_oracles_Fails
    BY <1>21 DEF create_differential_oracles_Fails
  <1> QED
    BY <1>1, <1>2, <1>3, <1>4, <1>5, <1>6, <1>7, <1>8, <1>9, <1>10, <1>11, <1>12, <1>13,
       <1>14, <1>15, <1>16, <1>17, <1>18, <1>19, <1>20, <1>21 DEF Next, Step, KindDeleteFails

\* The results of the two runs stay where the next steps look for them.
LEMMA LearnInductive ==
    ASSUME PairInv, [Next]_vars
    PROVE  LearnInv'
  <1> USE DEF PairInv, PairTypes, Function, LearnInv, Learning, Types, Dirs, IsOracle, Files
  <1> USE DEF Goto, Raise, RaiseWith, BreakOff, Exception, LeaveLoop, disk, process, mode
  <1>1. ASSUME NEW m \in Modes, NEW b \in BOOLEAN, NEW p \in BOOLEAN,
               NEW plans \in SUBSET TestPlans, Invoke(m, b, p, plans)
        PROVE  LearnInv'
    BY <1>1 DEF Invoke, Idle
  <1>2. CASE run
    <2>1. CASE oracle' = [f \in {} |-> 0]
      BY <1>2, <2>1 DEF run
    <2>2. CASE oracle # NoDir /\ oracle' = oracle
      BY <1>2, <2>2 DEF run
    <2>3. CASE pc' = "aborted"
      BY <1>2, <2>3 DEF run
    <2> QED
      BY <1>2, <2>1, <2>2, <2>3 DEF run
  <1>3. CASE prepare_test_plan
    BY <1>3 DEF prepare_test_plan, result_dir, EmptyDir
  <1>4. CASE KindCreate
    BY <1>4 DEF KindCreate
  <1>5. CASE KindCreateFails
    BY <1>5 DEF KindCreateFails
  <1>6. CASE KindGivesUp
    BY <1>6 DEF KindGivesUp
  <1>7. CASE prepare_sieve_server
    BY <1>7 DEF prepare_sieve_server
  <1>8. CASE EditDeployment
    BY <1>8 DEF EditDeployment
  <1>9. CASE Deploy
    BY <1>9 DEF Deploy
  <1>10. CASE run_workload
    BY <1>10 DEF run_workload, result_dir
  <1>11. CASE teardown_cluster
    BY <1>11 DEF teardown_cluster
  <1>12. CASE save_history_and_end_state
    BY <1>12 DEF save_history_and_end_state, result_dir
  <1>13. CASE save_previous_learn_results
    BY <1>13 DEF save_previous_learn_results
  <1>14. CASE create_differential_oracles
    BY <1>14 DEF create_differential_oracles, OracleFiles
  <1>15. CASE post_process_learn
    BY <1>15 DEF post_process_learn, OracleFiles
  <1>16. CASE post_process_test
    BY <1>16 DEF post_process_test
  <1>17. CASE save_run_result
    BY <1>17 DEF save_run_result
  <1>18. CASE KindDelete
    BY <1>18 DEF KindDelete
  <1>19. CASE Kill
    BY <1>19 DEF Kill, Idle, OracleFiles
  <1>20. CASE UNCHANGED vars
    BY <1>20 DEF vars
  <1>21. CASE create_differential_oracles_Fails
    BY <1>21 DEF create_differential_oracles_Fails
  <1> QED
    BY <1>1, <1>2, <1>3, <1>4, <1>5, <1>6, <1>7, <1>8, <1>9, <1>10, <1>11, <1>12, <1>13,
       <1>14, <1>15, <1>16, <1>17, <1>18, <1>19, <1>20, <1>21 DEF Next, Step, KindDeleteFails

\* A step outside of the writing that leaves the files alone.
LEMMA FilesLeft ==
    ASSUME Types, OracleInv, ~Writing, oracle' = oracle, id' \in Nat, id' >= id, torn' = torn,
           Writing' => written' = 0,
           Learning' => oracle # NoDir \/ Learning
    PROVE  OracleInv'
  <1>1. \A j \in 1..4, n \in Nat : OfPair(j, n)' <=> OfPair(j, n)
    BY DEF OfPair
  <1>2. oracle' # NoDir \/ Learning' =>
          \A j \in 1..4 : OracleFiles[j] \in DOMAIN oracle' =>
            \E n \in 1..MaxRuns :
              n < id' /\ OfPair(j, n)' /\ \A i \in 1..j : \E m \in n..MaxRuns : OfPair(i, m)'
    <2> SUFFICES ASSUME oracle' # NoDir \/ Learning', NEW j \in 1..4,
                        OracleFiles[j] \in DOMAIN oracle'
                 PROVE  \E n \in 1..MaxRuns :
                          /\ n < id' /\ OfPair(j, n)'
                          /\ \A i \in 1..j : \E m \in n..MaxRuns : OfPair(i, m)'
      OBVIOUS
    <2>1. PICK n \in 1..MaxRuns :
            n < id /\ OfPair(j, n) /\ \A i \in 1..j : \E m \in n..MaxRuns : OfPair(i, m)
      BY DEF OracleInv
    <2>2. n < id'
      BY <2>1 DEF Types
    <2> QED
      BY <2>1, <2>2 DEF OfPair
  <1>3. (torn \/ Whole) => (torn \/ Whole)'
    BY DEF Whole, OfPair
  <1>4. (Writing => \A i \in 1..written : OfPair(i, id - 1))'
    OBVIOUS
  <1> QED
    BY <1>2, <1>3, <1>4 DEF OracleInv

\* The end of the writing, when all is written or before.
LEMMA WritingEnds ==
    ASSUME Types, PairTypes, LearnInv, OracleInv, Writing, oracle' = oracle, id' = id,
           BreakOff, ~Writing'
    PROVE  OracleInv'
  <1> USE RunAssumption
  <1>1. oracle' # NoDir \/ Learning' =>
          \A j \in 1..4 : OracleFiles[j] \in DOMAIN oracle' =>
            \E n \in 1..MaxRuns :
              n < id' /\ OfPair(j, n)' /\ \A i \in 1..j : \E m \in n..MaxRuns : OfPair(i, m)'
    BY DEF OracleInv, OfPair, Learning, Writing
  <1>2. (torn \/ Whole)'
    <2>1. CASE written = 0
      BY <2>1 DEF OracleInv, BreakOff, Whole, OfPair
    <2>2. CASE written \in 1..3
      BY <2>2 DEF BreakOff, Writing, OracleFiles
    <2>3. CASE written = 4
      <3>1. id - 1 \in 1..MaxRuns
        BY DEF LearnInv, Learning, Writing, Types
      <3>2. \A i \in 1..4 : OfPair(i, id - 1)'
        BY <2>3 DEF OracleInv, OfPair
      <3> QED
        BY <3>1, <3>2 DEF Whole
    <2> QED
      BY <2>1, <2>2, <2>3 DEF PairTypes
  <1> QED
    BY <1>1, <1>2 DEF OracleInv

\* The next file is written.
LEMMA FileWritten ==
    ASSUME Types, PairTypes, LearnInv, OracleInv, create_differential_oracles
    PROVE  OracleInv'
  <1> USE RunAssumption
  <1>1. PICK k \in 1..4 : k = written + 1
    BY DEF create_differential_oracles, OracleFiles, PairTypes
  <1>2. PICK f \in Files : f = OracleFiles[k]
    BY <1>1 DEF OracleFiles, Files
  <1>3. PICK q \in 1..MaxRuns : q = id - 1
    BY DEF create_differential_oracles, LearnInv, Learning, Types
  <1>4. /\ oracle' = [g \in DOMAIN oracle \cup {f} |-> IF g = f THEN <<q, q + 1>> ELSE oracle[g]]
        /\ torn' = (torn /\ k < 4)
        /\ written' = k /\ UNCHANGED <<pc, id, options>>
    BY <1>1, <1>2, <1>3 DEF create_differential_oracles, OracleFiles, LearnInv, Learning, Types
  <1>5. \A i, j \in 1..4 : OracleFiles[i] = OracleFiles[j] => i = j
    BY DEF OracleFiles
  <1>6. OfPair(k, q)'
    BY <1>2, <1>4 DEF OfPair
  <1>7. \A i \in 1..4, n \in Nat : i # k => (OfPair(i, n)' <=> OfPair(i, n))
    BY <1>2, <1>4, <1>5 DEF OfPair
  <1>8. ASSUME NEW i \in 1..4, i < k PROVE OfPair(i, q)
    BY <1>1, <1>3, <1>8 DEF OracleInv, Writing, create_differential_oracles, PairTypes
  <1>9. ASSUME NEW i \in 1..k PROVE OfPair(i, q)'
    BY <1>6, <1>7, <1>8
  <1>10. ASSUME NEW j \in 1..4, OracleFiles[j] \in DOMAIN oracle'
         PROVE  \E n \in 1..MaxRuns :
                  /\ n < id' /\ OfPair(j, n)'
                  /\ \A i \in 1..j : \E m \in n..MaxRuns : OfPair(i, m)'
    <2>1. CASE j = k
      <3>1. q < id' /\ q \in q..MaxRuns
        BY <1>3, <1>4 DEF Types
      <3> QED
        BY <1>6, <1>9, <2>1, <3>1
    <2>2. CASE j # k
      <3>1. OracleFiles[j] \in DOMAIN oracle
        BY <1>2, <1>4, <1>5, <1>10, <2>2
      <3>2. PICK n \in 1..MaxRuns :
              n < id /\ OfPair(j, n) /\ \A i \in 1..j : \E m \in n..MaxRuns : OfPair(i, m)
        BY <3>1 DEF OracleInv, Learning, create_differential_oracles
      <3>3. ASSUME NEW i \in 1..j PROVE \E m \in n..MaxRuns : OfPair(i, m)'
        <4>1. CASE i = k
          <5>1. q \in n..MaxRuns
            BY <1>3, <3>2 DEF Types
          <5> QED
            BY <1>6, <4>1, <5>1
        <4>2. CASE i # k
          BY <1>7, <3>2, <4>2
        <4> QED
          BY <4>1, <4>2
      <3> QED
        BY <1>4, <1>7, <2>2, <3>2, <3>3
    <2> QED
      BY <2>1, <2>2
  <1>11. ASSUME NEW i \in 1..written' PROVE OfPair(i, id - 1)'
    <2>1. id' - 1 = q /\ i \in 1..k
      BY <1>3, <1>4
    <2> QED
      BY <1>9, <2>1 DEF OfPair
  <1>12. written' # 0 /\ Writing'
    BY <1>4 DEF Writing, create_differential_oracles
  <1> QED
    BY <1>10, <1>11, <1>12 DEF OracleInv

\* The files stay of one pair, or of several in the order of their writing.
LEMMA OracleInductive ==
    ASSUME PairInv, [Next]_vars
    PROVE  OracleInv'
  <1> USE DEF PairInv, PairTypes, Types, Writing, Learning, mode
  <1> USE DEF Goto, Raise, RaiseWith, Exception, LeaveLoop, disk, process
  <1>1. ASSUME NEW m \in Modes, NEW b \in BOOLEAN, NEW p \in BOOLEAN,
               NEW plans \in SUBSET TestPlans, Invoke(m, b, p, plans)
        PROVE  OracleInv'
    BY <1>1, FilesLeft DEF Invoke, Idle
  <1>2. CASE run
    <2>1. CASE oracle' = oracle /\ (oracle # NoDir \/ pc' = "aborted")
      BY <1>2, <2>1, FilesLeft DEF run
    <2>2. CASE oracle' = [f \in {} |-> 0]
      BY <1>2, <2>2 DEF run, OracleInv, Whole
    <2> QED
      BY <1>2, <2>1, <2>2 DEF run
  <1>3. CASE prepare_test_plan
    BY <1>3, FilesLeft DEF prepare_test_plan
  <1>4. CASE KindCreate
    BY <1>4, FilesLeft DEF KindCreate
  <1>5. CASE KindCreateFails
    BY <1>5, FilesLeft DEF KindCreateFails
  <1>6. CASE KindGivesUp
    BY <1>6, FilesLeft DEF KindGivesUp
  <1>7. CASE prepare_sieve_server
    BY <1>7, FilesLeft DEF prepare_sieve_server
  <1>8. CASE EditDeployment
    BY <1>8, FilesLeft DEF EditDeployment
  <1>9. CASE Deploy
    BY <1>9, FilesLeft DEF Deploy
  <1>10. CASE run_workload
    BY <1>10, FilesLeft DEF run_workload
  <1>11. CASE teardown_cluster
    BY <1>11, FilesLeft DEF teardown_cluster
  <1>12. CASE save_history_and_end_state
    BY <1>12, FilesLeft DEF save_history_and_end_state, LearnInv, Learning
  <1>13. CASE save_previous_learn_results
    BY <1>13, FilesLeft DEF save_previous_learn_results
  <1>14. CASE create_differential_oracles
    BY <1>14, FileWritten
  <1>15. CASE post_process_learn
    <2>1. CASE Writing
      <3>1. BreakOff
        <4>1. written = 4 /\ torn' = torn
          BY <1>15, <2>1 DEF post_process_learn, OracleFiles
        <4>2. written \notin 1..(Len(OracleFiles) - 1)
          BY <4>1 DEF OracleFiles
        <4> QED
          BY <4>1, <4>2 DEF BreakOff
      <3> QED
        BY <1>15, <2>1, <3>1, WritingEnds DEF post_process_learn
    <2>2. CASE ~Writing
      BY <1>15, <2>2, FilesLeft DEF post_process_learn
    <2> QED
      BY <2>1, <2>2
  <1>16. CASE post_process_test
    BY <1>16, FilesLeft DEF post_process_test, Modes
  <1>17. CASE save_run_result
    BY <1>17, FilesLeft DEF save_run_result
  <1>18. CASE KindDelete
    BY <1>18, FilesLeft DEF KindDelete
  <1>19. CASE Kill
    <2>1. CASE Writing
      BY <1>19, <2>1, WritingEnds DEF Kill
    <2>2. CASE ~Writing
      <3>1. torn' = torn /\ oracle' = oracle /\ id' = id /\ pc' = "killed"
        BY <1>19, <2>2 DEF Kill, BreakOff
      <3> QED
        BY <2>2, <3>1, FilesLeft
    <2> QED
      BY <2>1, <2>2
  <1>20. CASE UNCHANGED vars
    <2> USE <1>20 DEF vars
    <2>1. (Writing <=> Writing') /\ (Learning <=> Learning') /\ (Whole <=> Whole')
      BY DEF Whole, OfPair
    <2>2. \A i \in 1..4, n \in Int : OfPair(i, n)' <=> OfPair(i, n)
      BY DEF OfPair
    <2> HIDE DEF Writing, Learning
    <2> QED
      BY <2>1, <2>2 DEF OracleInv
  <1>21. CASE create_differential_oracles_Fails
    BY <1>21, WritingEnds DEF create_differential_oracles_Fails
  <1> QED
    BY <1>1, <1>2, <1>3, <1>4, <1>5, <1>6, <1>7, <1>8, <1>9, <1>10, <1>11, <1>12, <1>13,
       <1>14, <1>15, <1>16, <1>17, <1>18, <1>19, <1>20, <1>21 DEF Next, Step, KindDeleteFails

\* create_differential_oracles: each file is from the two runs of one process, whatever
\* other runs have left in their directories, and a file that is written later is never
\* from a later pair; so a mix shows in the first and the last file.  Unless the writing
\* was broken off between two files, by a kill or by an exception that run_test catches,
\* they are all from one pair.
THEOREM OraclesOfOnePairEver == Spec => []OraclesOfOnePair
  <1>1. Init => PairInv
    <2> SUFFICES ASSUME Init PROVE PairInv
      OBVIOUS
    <2>1. Types
      BY DEF Init, Types, Images, Modes, NoCluster
    <2>2. PairTypes
      <3>1. torn \in BOOLEAN
        BY Zenon DEF Init
      <3>2. written = 0 /\ oracle = NoDir /\ ~options.build_oracle
        BY DEF Init
      <3>3. Function(dir) /\ DOMAIN dir = Dirs
        BY DEF Init, Function
      <3> QED
        BY <3>1, <3>2, <3>3 DEF PairTypes
    <2>3. LearnInv /\ OracleInv
      BY DEF Init, LearnInv, OracleInv, Writing, Whole, Learning
    <2> QED
      BY <2>1, <2>2, <2>3 DEF PairInv
  <1>2. PairInv /\ [Next]_vars => PairInv'
    BY TypesInductive, PairTypesInductive, LearnInductive, OracleInductive DEF PairInv
  <1>3. PairInv => OraclesOfOnePair
    <2>1. DOMAIN OracleFiles = 1..4
      BY DEF OracleFiles
    <2>2. Idle => ~Writing
      BY DEF Idle, Writing
    <2> QED
      BY <2>1, <2>2 DEF PairInv, OracleInv, Whole, OraclesOfOnePair, OfPair
  <1> QED
    BY <1>1, <1>2, <1>3, PTL DEF Spec
-----------------------------------------------------------------------------
Contents == [logs : Nat, files : Nat]
Results == [run : Nat, no_exception : BOOLEAN, files : Nat]

\* The directory of the run is made first, and then filled.
DirTypes ==
    /\ dir \in [Dirs -> {NoDir} \cup Contents]
    /\ saved \in [TestPlans -> {NoDir} \cup Results]
    /\ pc \in {"kind", "create", "server", "deploy", "deploying", "workload", "teardown",
               "save"} => dir[result_dir] \in Contents

\* A result of the current batch.
Good(p) ==
    /\ saved[p] # NoDir /\ saved[p].run > options.start
    /\ saved[p].no_exception /\ ~options.postprocess => saved[p].files = saved[p].run

\* The plans of a batch are done, current or left; those that are done have their
\* results, and the logs and the files of the current one are of its run.
BatchInv ==
    mode = "test" =>
      /\ ~options.build_oracle
      /\ options.plans \subseteq TestPlans /\ todo \subseteq options.plans
      /\ options.start \in Nat /\ id >= options.start
      /\ pc = "aborted" => oracle = NoDir \/ cwd # "root"
      /\ pc = "idle" => \A p \in options.plans : Good(p)
      /\ pc = "run" => \A p \in options.plans \ todo : Good(p)
      /\ ~Idle /\ pc # "run" =>
           /\ plan \in options.plans /\ id > options.start
           /\ \A p \in options.plans \ (todo \cup {plan}) : Good(p)
      /\ pc \in {"teardown", "save"} => dir[plan].logs = id
      /\ pc = "post" /\ ~options.postprocess => dir[plan].files = id
      /\ pc = "return" /\ outcome = "checked" =>
           dir[plan] # NoDir /\ (~options.postprocess => dir[plan].files = id)

\* The directories and the results keep their shape.
LEMMA DirTypesInductive ==
    ASSUME Types, DirTypes, BatchInv, [Next]_vars
    PROVE  DirTypes'
  <1> USE DEF Types, DirTypes, result_dir, mode, Contents
  <1> USE DEF Goto, Raise, RaiseWith, BreakOff, Exception, LeaveLoop, disk, process
  <1>1. ASSUME NEW m \in Modes, NEW b \in BOOLEAN, NEW p \in BOOLEAN,
               NEW plans \in SUBSET TestPlans, Invoke(m, b, p, plans)
        PROVE  DirTypes'
    BY <1>1 DEF Invoke
  <1>2. CASE run
    BY <1>2 DEF run
  <1>3. CASE prepare_test_plan
    <2>1. result_dir \in Dirs
      BY <1>3 DEF prepare_test_plan, BatchInv, Idle, Dirs, Modes
    <2>2. EmptyDir \in Contents
      BY DEF EmptyDir
    <2>3. saved' = saved /\ result_dir' = result_dir
      BY <1>3 DEF prepare_test_plan
    <2>4. CASE dir' = [dir EXCEPT ![result_dir] = EmptyDir]
      <3> HIDE DEF result_dir, Contents, EmptyDir
      <3> QED
        BY <2>1, <2>2, <2>3, <2>4
    <2>5. CASE pc' = "return" /\ dir' \in {dir, [dir EXCEPT ![result_dir] = NoDir]}
      <3> HIDE DEF result_dir, Contents
      <3> QED
        BY <2>1, <2>3, <2>5
    <2> QED
      BY <1>3, <2>4, <2>5 DEF prepare_test_plan
  <1>4. CASE KindCreate
    BY <1>4 DEF KindCreate
  <1>5. CASE KindCreateFails
    BY <1>5 DEF KindCreateFails
  <1>6. CASE KindGivesUp
    BY <1>6 DEF KindGivesUp
  <1>7. CASE prepare_sieve_server
    BY <1>7 DEF prepare_sieve_server
  <1>8. CASE EditDeployment
    BY <1>8 DEF EditDeployment
  <1>9. CASE Deploy
    BY <1>9 DEF Deploy
  <1>10. CASE run_workload
    BY <1>10 DEF run_workload, Dirs, Modes
  <1>11. CASE teardown_cluster
    BY <1>11 DEF teardown_cluster
  <1>12. CASE save_history_and_end_state
    BY <1>12 DEF save_history_and_end_state, Dirs, Modes
  <1>13. CASE save_previous_learn_results
    BY <1>13 DEF save_previous_learn_results, Dirs, Modes
  <1>14. CASE create_differential_oracles
    BY <1>14 DEF create_differential_oracles
  <1>15. CASE post_process_learn
    BY <1>15 DEF post_process_learn
  <1>16. CASE post_process_test
    BY <1>16 DEF post_process_test
  <1>17. CASE save_run_result
    <2>1. dir' = dir /\ pc' \in {"idle", "aborted", "run"}
      BY <1>17 DEF save_run_result
    <2>2. CASE saved' = saved
      BY <2>1, <2>2
    <2>3. CASE mode = "test" /\ saved' # saved
      <3>1. plan \in TestPlans
        BY <1>17, <2>3 DEF save_run_result, BatchInv, Idle
      <3>2. (IF dir[plan] = NoDir THEN 0 ELSE dir[plan].files) \in Nat
        BY <3>1 DEF Dirs
      <3>3. PICK files \in Nat, e \in BOOLEAN :
              saved' = [saved EXCEPT ![plan] = [run |-> id, no_exception |-> e, files |-> files]]
        BY <1>17, <2>3, <3>2 DEF save_run_result
      <3>4. [run |-> id, no_exception |-> e, files |-> files] \in Results
        BY DEF Results
      <3> HIDE DEF Contents
      <3> QED
        BY <2>1, <3>1, <3>3, <3>4
    <2> QED
      BY <1>17, <2>2, <2>3 DEF save_run_result
  <1>18. CASE KindDelete
    BY <1>18 DEF KindDelete
  <1>19. CASE Kill
    BY <1>19 DEF Kill
  <1>20. CASE UNCHANGED vars
    BY <1>20 DEF vars
  <1>21. CASE create_differential_oracles_Fails
    BY <1>21 DEF create_differential_oracles_Fails
  <1> QED
    BY <1>1, <1>2, <1>3, <1>4, <1>5, <1>6, <1>7, <1>8, <1>9, <1>10, <1>11, <1>12, <1>13,
       <1>14, <1>15, <1>16, <1>17, <1>18, <1>19, <1>20, <1>21 DEF Next, Step, KindDeleteFails

\* A step keeps the results that are saved, and adds one of the current run.
LEMMA BatchInductive ==
    ASSUME Types, DirTypes, BatchInv, [Next]_vars
    PROVE  BatchInv'
  <1> USE DEF Types, DirTypes, BatchInv, Good, Idle, result_dir, mode, Contents
  <1> USE DEF Goto, Raise, RaiseWith, BreakOff, Exception, LeaveLoop, disk, process
  <1>1. ASSUME NEW m \in Modes, NEW b \in BOOLEAN, NEW p \in BOOLEAN,
               NEW plans \in SUBSET TestPlans, Invoke(m, b, p, plans)
        PROVE  BatchInv'
    BY <1>1 DEF Invoke
  <1>2. CASE run
    BY <1>2 DEF run
  <1>3. CASE prepare_test_plan
    BY <1>3 DEF prepare_test_plan, EmptyDir, Dirs, Modes
  <1>4. CASE KindCreate
    BY <1>4 DEF KindCreate
  <1>5. CASE KindCreateFails
    BY <1>5 DEF KindCreateFails
  <1>6. CASE KindGivesUp
    BY <1>6 DEF KindGivesUp
  <1>7. CASE prepare_sieve_server
    BY <1>7 DEF prepare_sieve_server
  <1>8. CASE EditDeployment
    BY <1>8 DEF EditDeployment
  <1>9. CASE Deploy
    BY <1>9 DEF Deploy
  <1>10. CASE run_workload
    BY <1>10 DEF run_workload, Dirs, Modes
  <1>11. CASE teardown_cluster
    BY <1>11 DEF teardown_cluster
  <1>12. CASE save_history_and_end_state
    BY <1>12 DEF save_history_and_end_state, Dirs, Modes
  <1>13. CASE save_previous_learn_results
    BY <1>13 DEF save_previous_learn_results, Dirs, Modes
  <1>14. CASE create_differential_oracles
    BY <1>14 DEF create_differential_oracles
  <1>15. CASE post_process_learn
    BY <1>15 DEF post_process_learn
  <1>16. CASE post_process_test
    BY <1>16 DEF post_process_test
  <1>17. CASE save_run_result
    <2> SUFFICES ASSUME mode' = "test" PROVE BatchInv'
      OBVIOUS
    <2>0. /\ pc = "return" /\ mode = "test" /\ ~options.build_oracle
          /\ plan \in options.plans /\ options.plans \subseteq TestPlans
          /\ todo \subseteq options.plans
          /\ id > options.start /\ id \in Nat /\ options.start \in Nat
          /\ \A p \in options.plans \ (todo \cup {plan}) : Good(p)
      BY <1>17 DEF save_run_result
    <2>1. UNCHANGED <<options, todo, plan, id, dir, outcome, oracle, cwd>>
      BY <1>17 DEF save_run_result
    <2>2. CASE cwd # "root"
      BY <1>17, <2>0, <2>1, <2>2 DEF save_run_result
    <2>3. CASE cwd = "root"
      <3> DEFINE result == [run |-> id, no_exception |-> outcome = "checked",
                            files |-> IF dir[plan] = NoDir THEN 0 ELSE dir[plan].files]
      <3>1. saved' = [saved EXCEPT ![plan] = result]
            /\ pc' = IF todo = {} THEN "idle" ELSE "run"
        BY <1>17, <2>0, <2>3 DEF save_run_result
      <3>2. (IF dir[plan] = NoDir THEN 0 ELSE dir[plan].files) \in Nat
        BY <2>0 DEF Dirs
      <3>3. result \in Results
        BY <2>0, <3>2 DEF Results
      <3>4. result # NoDir
        BY <3>3, NoDirAssumption DEF Results
      <3>5. outcome = "checked" /\ ~options.postprocess => result.files = id
        BY <2>0
      <3>6. Good(plan)'
        <4>1. saved'[plan] = result
          BY <2>0, <3>1
        <4>2. result.run = id /\ (result.no_exception <=> outcome = "checked")
          OBVIOUS
        <4> HIDE DEF result
        <4> QED
          BY <2>0, <2>1, <3>4, <3>5, <4>1, <4>2
      <3>7. ASSUME NEW p \in options.plans \ (todo \cup {plan}) PROVE Good(p)'
        <4>1. saved'[p] = saved[p]
          BY <2>0, <3>1, <3>7
        <4> QED
          BY <2>0, <2>1, <3>7, <4>1
      <3> HIDE DEF result, Good
      <3>8. \A p \in options.plans \ todo : Good(p)'
        <4> TAKE p \in options.plans \ todo
        <4>1. CASE p = plan
          BY <2>1, <3>6, <4>1
        <4>2. CASE p # plan
          BY <3>7, <4>2
        <4> QED
          BY <4>1, <4>2
      <3> QED
        BY <2>0, <2>1, <3>1, <3>8
    <2> QED
      BY <2>2, <2>3
  <1>18. CASE KindDelete
    BY <1>18 DEF KindDelete
  <1>19. CASE Kill
    BY <1>19 DEF Kill
  <1>20. CASE UNCHANGED vars
    BY <1>20 DEF vars
  <1>21. CASE create_differential_oracles_Fails
    BY <1>21 DEF create_differential_oracles_Fails
  <1> QED
    BY <1>1, <1>2, <1>3, <1>4, <1>5, <1>6, <1>7, <1>8, <1>9, <1>10, <1>11, <1>12, <1>13,
       <1>14, <1>15, <1>16, <1>17, <1>18, <1>19, <1>20, <1>21 DEF Next, Step, KindDeleteFails

\* run_batch and save_run_result: a batch that ends has a result of its own for every
\* plan, and one without an exception is about the files of that run, whatever runs
\* failed or were killed before; it ends early only for the two reasons named.
THEOREM ResultsSavedEver == Spec => []ResultsSaved
  <1>1. Init => Types /\ DirTypes /\ BatchInv
    <2> SUFFICES ASSUME Init PROVE Types /\ DirTypes /\ BatchInv
      OBVIOUS
    <2>1. Types
      BY DEF Init, Types, Images, Modes, NoCluster
    <2>2. DirTypes
      BY DEF Init, DirTypes
    <2>3. BatchInv
      BY DEF Init, BatchInv, mode
    <2> QED
      BY <2>1, <2>2, <2>3
  <1>2. Types /\ DirTypes /\ BatchInv /\ [Next]_vars => (Types /\ DirTypes /\ BatchInv)'
    BY TypesInductive, DirTypesInductive, BatchInductive
  <1>3. BatchInv => ResultsSaved
    BY DEF BatchInv, Good, ResultsSaved
  <1> QED
    BY <1>1, <1>2, <1>3, PTL DEF Spec

-----------------------------------------------------------------------------
(* The images: one that carries the tag of a mode is of that mode, for any  *)
(* number of builds, whichever of their commands fail.                      *)

Fresh == [client |-> FALSE, instrumented |-> <<>>]
WithClient == [client |-> TRUE, instrumented |-> <<>>]
Prepared(m) == [client |-> TRUE, instrumented |-> <<m>>]

\* An image that is right under the tag of mode m, or whose tag says nothing.
Right(i, m) == i # NoTree /\ ~i.build_only => i.tree = Prepared(m)

BuildTypes ==
    /\ request \in [target : Targets, build_only : BOOLEAN, push : BOOLEAN]
    /\ modes \in Seq(BuildModes)
    /\ DOMAIN tree = Targets /\ DOMAIN latest = Targets
    /\ DOMAIN image = Targets /\ DOMAIN remote = Targets
    /\ \A t \in Targets : DOMAIN image[t] = BuildModes /\ DOMAIN remote[t] = BuildModes

\* What the current tree is at each step: a download makes it new, so that only
\* --build_only, which has a single mode, starts from the tree of another build.
StageInv ==
    /\ stage # "idle" => modes # <<>>
    /\ stage # "idle" /\ request.build_only => Len(modes) = 1
    /\ stage \in {"download", "install", "instrument"} => ~request.build_only
    /\ stage = "install" => tree[tgt] = Fresh
    /\ stage = "instrument" => tree[tgt] = WithClient
    /\ stage = "build" /\ ~request.build_only => tree[tgt] = Prepared(this_mode)
    /\ stage = "tag" => /\ latest[tgt].build_only = request.build_only
                        /\ ~request.build_only => latest[tgt].tree = Prepared(this_mode)

TagInv ==
    \A t \in Targets, m \in BuildModes : Right(image[t][m], m) /\ Right(remote[t][m], m)

\* Of several modes, one is left after the first.
LEMMA MoreLeft ==
    ASSUME NEW S, NEW s \in Seq(S), s # <<>>, Len(s) # 1
    PROVE  Tail(s) # <<>>
  <1>1. Len(s) \in Nat /\ Len(s) # 0
    BY EmptySeq, LenProperties
  <1>2. Tail(s) \in Seq(S) /\ Len(Tail(s)) = Len(s) - 1
    BY HeadTailProperties
  <1>3. Len(Tail(s)) # 0
    BY <1>1, <1>2
  <1> QED
    BY <1>2, <1>3, EmptySeq

\* The types hold in every state.
LEMMA BuildTypesInductive ==
    ASSUME BuildTypes, StageInv, [BuildNext]_buildVars
    PROVE  BuildTypes'
  <1> USE DEF BuildTypes, BuildModes, Targets, Advance
  <1>1. ASSUME NEW t \in Targets, NEW m \in BuildModes \cup {"all"}, NEW b \in BOOLEAN,
               NEW p \in BOOLEAN, Make(t, m, b, p)
        PROVE  BuildTypes'
    <2>1. modes' \in Seq(BuildModes)
      <3>1. CASE m = "all"
        BY <1>1, <3>1 DEF Make
      <3>2. CASE m \in BuildModes
        <4>1. modes' = <<m>>
          BY <1>1, <3>2 DEF Make
        <4> QED
          BY <3>2, <4>1
      <3> QED
        BY <3>1, <3>2
    <2>2. request' \in [target : Targets, build_only : BOOLEAN, push : BOOLEAN]
      BY <1>1 DEF Make
    <2> QED
      BY <1>1, <2>1, <2>2 DEF Make
  <1>2. CASE Download
    BY <1>2 DEF Download
  <1>3. CASE InstallLib
    BY <1>3 DEF InstallLib
  <1>4. CASE Instrument
    BY <1>4 DEF Instrument
  <1>5. CASE BuildImage
    BY <1>5 DEF BuildImage
  <1>6. CASE Tag
    BY <1>6 DEF Tag
  <1>7. CASE Push
    BY <1>7 DEF Push
  <1>8. CASE NextMode
    <2>1. modes # <<>> /\ modes' = Tail(modes)
      BY <1>8 DEF NextMode, StageInv
    <2>2. modes' \in Seq(BuildModes)
      BY <2>1
    <2> QED
      BY <1>8, <2>2 DEF NextMode
  <1>9. CASE StageFails
    BY <1>9 DEF StageFails
  <1>10. CASE UNCHANGED buildVars
    BY <1>10 DEF buildVars
  <1> QED
    BY <1>1, <1>2, <1>3, <1>4, <1>5, <1>6, <1>7, <1>8, <1>9, <1>10 DEF BuildNext

\* Each step finds the tree that the steps before it have made.
LEMMA StageInductive ==
    ASSUME BuildTypes, StageInv, [BuildNext]_buildVars
    PROVE  StageInv'
  <1> USE DEF BuildTypes, StageInv, Advance, tgt, this_mode, Fresh, WithClient, Prepared, BuildModes
  <1>1. ASSUME NEW t \in Targets, NEW m \in BuildModes \cup {"all"}, NEW b \in BOOLEAN,
               NEW p \in BOOLEAN, Make(t, m, b, p)
        PROVE  StageInv'
    BY <1>1 DEF Make
  <1>2. CASE Download
    BY <1>2 DEF Download
  <1>3. CASE InstallLib
    <2>1. tgt \in Targets /\ tree[tgt] = Fresh /\ ~request.build_only
          /\ tree' = [tree EXCEPT ![tgt].client = TRUE] /\ stage' = "instrument"
          /\ modes # <<>> /\ UNCHANGED <<request, modes>>
      BY <1>3 DEF InstallLib
    <2>2. tree'[tgt] = [Fresh EXCEPT !.client = TRUE]
      BY <2>1
    <2>3. tree'[tgt] = WithClient
      BY <2>2
    <2> QED
      BY <2>1, <2>3
  <1>4. CASE Instrument
    <2>1. tgt \in Targets /\ tree[tgt] = WithClient /\ ~request.build_only
          /\ tree' = [tree EXCEPT ![tgt].instrumented = Append(@, this_mode)]
          /\ stage' = "build" /\ modes # <<>> /\ UNCHANGED <<request, modes>>
      BY <1>4 DEF Instrument
    <2>2. tree'[tgt] = [WithClient EXCEPT !.instrumented = Append(@, this_mode)]
      BY <2>1
    <2>3. WithClient.instrumented = <<>> /\ Append(<<>>, this_mode) = <<this_mode>>
      OBVIOUS
    <2>4. tree'[tgt] = Prepared(this_mode)
      BY <2>2, <2>3
    <2> QED
      BY <2>1, <2>4
  <1>5. CASE BuildImage
    BY <1>5 DEF BuildImage
  <1>6. CASE Tag
    BY <1>6 DEF Tag
  <1>7. CASE Push
    BY <1>7 DEF Push
  <1>8. CASE NextMode
    <2>1. modes \in Seq(BuildModes) /\ modes # <<>> /\ modes' = Tail(modes)
      BY <1>8 DEF NextMode
    <2>2. CASE Len(modes) = 1
      BY <1>8, <2>2 DEF NextMode
    <2>3. CASE Len(modes) # 1
      <3>1. Tail(modes) # <<>>
        BY <2>1, <2>3, MoreLeft
      <3>2. stage' = "download" /\ request' = request /\ ~request.build_only
        BY <1>8, <2>3 DEF NextMode
      <3> QED
        BY <2>1, <3>1, <3>2
    <2> QED
      BY <2>2, <2>3
  <1>9. CASE StageFails
    BY <1>9 DEF StageFails
  <1>10. CASE UNCHANGED buildVars
    BY <1>10 DEF buildVars
  <1> QED
    BY <1>1, <1>2, <1>3, <1>4, <1>5, <1>6, <1>7, <1>8, <1>9, <1>10 DEF BuildNext

\* A tag is moved only to an image that was made for it.
LEMMA TagInductive ==
    ASSUME BuildTypes, StageInv, TagInv, [BuildNext]_buildVars
    PROVE  TagInv'
  <1> USE DEF BuildTypes, StageInv, TagInv, Right, Advance, tgt, this_mode
  <1>1. ASSUME NEW t \in Targets, NEW m \in BuildModes \cup {"all"}, NEW b \in BOOLEAN,
               NEW p \in BOOLEAN, Make(t, m, b, p)
        PROVE  TagInv'
    BY <1>1 DEF Make
  <1>2. CASE Download
    BY <1>2 DEF Download
  <1>3. CASE InstallLib
    BY <1>3 DEF InstallLib
  <1>4. CASE Instrument
    BY <1>4 DEF Instrument
  <1>5. CASE BuildImage
    BY <1>5 DEF BuildImage
  <1>6. CASE Tag
    BY <1>6 DEF Tag
  <1>7. CASE Push
    BY <1>7 DEF Push
  <1>8. CASE NextMode
    BY <1>8 DEF NextMode
  <1>9. CASE StageFails
    BY <1>9 DEF StageFails
  <1>10. CASE UNCHANGED buildVars
    BY <1>10 DEF buildVars
  <1> QED
    BY <1>1, <1>2, <1>3, <1>4, <1>5, <1>6, <1>7, <1>8, <1>9, <1>10 DEF BuildNext

\* build.py: whatever commands failed in this build or in earlier ones, an image with the
\* tag of a mode, here or in the registry, has the client and was instrumented once,
\* for that mode, unless --build_only put the tag on it.
THEOREM ImageOfModeEver == BuildSpec => []ImageOfMode
  <1>1. BuildInit => BuildTypes /\ StageInv /\ TagInv
    BY DEF BuildInit, BuildTypes, StageInv, TagInv, Right, Targets
  <1>2. BuildTypes /\ StageInv /\ TagInv /\ [BuildNext]_buildVars
        => (BuildTypes /\ StageInv /\ TagInv)'
    BY BuildTypesInductive, StageInductive, TagInductive
  <1>3. TagInv => ImageOfMode
    BY DEF TagInv, Right, ImageOfMode, Prepared
  <1> QED
    BY <1>1, <1>2, <1>3, PTL DEF BuildSpec
=============================================================================
