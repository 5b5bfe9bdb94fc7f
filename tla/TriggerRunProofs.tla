-------------------------- MODULE TriggerRunProofs --------------------------
(***************************************************************************)
(* A trigger graph at work, for every graph and every order of triggers.   *)
(***************************************************************************)
EXTENDS TriggerRun, TriggerGraphProofs

\* The graph stays as it was built and its progress keeps its meaning; no Or that is
\* not last is satisfied where there is none.
RunInv ==
    /\ IsTriggerGraph(graph)
    /\ GraphInv(graph, toSatisfy, satisfied)
    /\ NeverTwice

\* The progress of the graph is that of one call of trigger() after the other.
LEMMA RunInvariance == RunSpec => []RunInv
  <1>1. RunInit => RunInv
    BY StartInv DEF RunInit, Start, RunInv, NeverTwice
  <1>2. RunInv /\ [RunNext]_runVars => RunInv'
    <2> SUFFICES ASSUME RunInv, [RunNext]_runVars
                 PROVE  RunInv'
      OBVIOUS
    <2>1. CASE UNCHANGED runVars
      BY <2>1 DEF runVars, RunInv, NeverTwice
    <2>2. ASSUME NEW n \in graph.nodes, Trigger(n)
          PROVE  RunInv'
      <3>1. /\ IsTriggerGraph(graph) /\ GraphInv(graph, toSatisfy, satisfied)
            /\ n \in toSatisfy /\ graph.type[n] = "Literal" /\ ~fatal
            /\ graph' = graph /\ graph.sink \notin satisfied
        BY <2>2 DEF RunInv, Trigger, FullyTriggered
      <3>2. CASE TriggerFatal(graph, satisfied, n)
        <4>1. UNCHANGED <<toSatisfy, satisfied>>
          BY <2>2, <3>2 DEF Trigger
        <4>2. ~OrIsLast(graph)
          <5>1. OrIsLast(graph) => \A m \in satisfied : graph.type[m] # "Or"
            BY <3>1 DEF OrIsLast, GraphInv, WatchedExactly
          <5> QED
            BY <3>1, <3>2, <5>1, TriggerMeetsNoneTwice
        <4> QED
          BY <3>1, <4>1, <4>2 DEF RunInv, NeverTwice
      <3>3. CASE ~TriggerFatal(graph, satisfied, n)
        <4>1. /\ satisfied' = SatisfiedAfter(graph, satisfied, n)
              /\ toSatisfy' = ToSatisfyAfter(graph, toSatisfy, satisfied, n)
              /\ fatal' = fatal
          BY <2>2, <3>3 DEF Trigger
        <4>2. GraphInv(graph, toSatisfy', satisfied')
          BY <3>1, <3>3, <4>1, TriggerKeepsInv
        <4> QED
          BY <3>1, <4>1, <4>2 DEF RunInv, NeverTwice
      <3> QED
        BY <3>2, <3>3
    <2> QED
      BY <2>1, <2>2 DEF RunNext
  <1> QED
    BY <1>1, <1>2, PTL DEF RunSpec

\* For every graph and every order in which the triggers are met: no trigger of a plan
\* is forgotten or watched too early, the gates are met exactly when their predecessors
\* make them true, and log.Fatalf("%s in satisfied") is never reached where nothing
\* comes after an Or.
THEOREM ProgressIsExactEver == RunSpec => []ProgressIsExact
  <1>1. RunInv => ProgressIsExact
    BY DEF RunInv, GraphInv, ProgressIsExact, Frontier, GatesExact
  <1> QED
    BY <1>1, RunInvariance, PTL
=============================================================================
