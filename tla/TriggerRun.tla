----------------------------- MODULE TriggerRun -----------------------------
(***************************************************************************)
(* A trigger graph at work, whatever the graph and the order in which its  *)
(* triggers are met (trigger() of sieve_server/trigger_graph.go).  This is *)
(* what the state machine does to the graph of each action, and what the   *)
(* meaning of an expression is compared with.                              *)
(***************************************************************************)
EXTENDS TriggerGraph

VARIABLES graph,
          toSatisfy, satisfied,
          fatal   \* log.Fatalf: a node was triggered for the second time

runVars == <<graph, toSatisfy, satisfied, fatal>>

\* The graph as binaryTreeToTriggerGraph leaves it.
Start(g) ==
    /\ graph = g
    /\ toSatisfy = g.sources
    /\ satisfied = {}
    /\ fatal = FALSE

\* trigger(n).  The state machine calls it for a literal that is to be satisfied, and
\* no more when the graph is fully triggered.
Trigger(n) ==
    /\ ~fatal /\ ~FullyTriggered(graph, satisfied)
    /\ n \in toSatisfy /\ graph.type[n] = "Literal"
    /\ IF TriggerFatal(graph, satisfied, n)
       THEN fatal' = TRUE /\ UNCHANGED <<toSatisfy, satisfied>>
       ELSE /\ satisfied' = SatisfiedAfter(graph, satisfied, n)
            /\ toSatisfy' = ToSatisfyAfter(graph, toSatisfy, satisfied, n)
            /\ UNCHANGED fatal
    /\ UNCHANGED graph

RunInit == IsTriggerGraph(graph) /\ Start(graph)
RunNext == \E n \in graph.nodes : Trigger(n)
RunSpec == RunInit /\ [][RunNext]_runVars
-----------------------------------------------------------------------------
\* The triggers watched for are exactly those that could bring the expression
\* forward: none that is satisfied, none too early, and none is forgotten
\* (toSatisfy in trigger and triggerOrAnd).
Frontier == WatchedExactly(graph, toSatisfy, satisfied)

\* The cascade through the gates goes exactly as far as the operators say: an Or is
\* met with the first of its sides, an And with the last (triggerOrAnd).
GatesExact == SatisfiedExactly(graph, satisfied)

\* The coordinator never exits with "in satisfied" on an expression in which
\* nothing comes after an Or.
NeverTwice == OrIsLast(graph) => ~fatal

\* Whatever triggers are met, and in whatever order, the two sets of a trigger graph
\* are exactly what they should be, and no node is met twice where nothing comes after
\* an Or (trigger and triggerOrAnd).
ProgressIsExact == Frontier /\ GatesExact /\ NeverTwice
=============================================================================
