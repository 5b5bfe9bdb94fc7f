---------------------------- MODULE TriggerGraph ----------------------------
(***************************************************************************)
(* The trigger graph of one action of a test plan                          *)
(* (sieve_server/trigger_graph.go).  A graph is a record                   *)
(*   nodes    the names of all the nodes                                   *)
(*   type     their types, "Literal", "And" or "Or"                        *)
(*   pred     predecessors of each node                                    *)
(*   succ     successors of each node                                      *)
(*   sources  the nodes to satisfy first                                   *)
(*   sink     the node that stands for the whole expression                *)
(* and its progress is the pair of sets toSatisfy, satisfied.              *)
(***************************************************************************)
NodeTypes == {"Literal", "And", "Or"}

\* What binaryTreeToTriggerGraph makes: names are unique, the edges go both ways, and a
\* literal has at most one predecessor, the sink of the left side of a ";".
IsTriggerGraph(g) ==
    /\ g.type \in [g.nodes -> NodeTypes]
    /\ g.pred \in [g.nodes -> SUBSET g.nodes]
    /\ g.succ \in [g.nodes -> SUBSET g.nodes]
    /\ g.sources \subseteq g.nodes
    /\ g.sink \in g.nodes
    /\ \A m \in g.sources : g.type[m] = "Literal" /\ g.pred[m] = {}
    /\ \A m, n \in g.nodes : m \in g.pred[n] <=> n \in g.succ[m]
    /\ \A n \in g.nodes : g.type[n] = "Literal" => \A p, q \in g.pred[n] : p = q

\* A gate that is reached from S is triggered: an Or by any predecessor, an And
\* by the last of them.
GateClosed(g, satisfied, S) ==
    \A m \in g.nodes :
        /\ g.pred[m] \cap S # {}
        /\ \/ g.type[m] = "Or"
           \/ g.type[m] = "And" /\ g.pred[m] \subseteq satisfied \cup S
        => m \in S

\* The nodes that the mutually recursive calls of trigger and triggerOrAnd mark
\* as satisfied when the literal n is: the least set that contains n and is
\* closed under the gates.
Fired(g, satisfied, n) ==
    {m \in g.nodes : \A S \in SUBSET g.nodes :
                         n \in S /\ GateClosed(g, satisfied, S) => m \in S}

\* log.Fatalf("%s in satisfied"): a node is triggered for the second time.
TriggerFatal(g, satisfied, n) == Fired(g, satisfied, n) \cap satisfied # {}

SatisfiedAfter(g, satisfied, n) == satisfied \cup Fired(g, satisfied, n)

\* Mutant: the node that is triggered stays in toSatisfy.
ToSatisfyAfter_NoDelete(g, toSatisfy, satisfied, n) ==
    toSatisfy \cup UNION {g.succ[m] : m \in Fired(g, satisfied, n)}

ToSatisfyAfter(g, toSatisfy, satisfied, n) ==
    LET F == Fired(g, satisfied, n)
    IN  (toSatisfy \cup UNION {g.succ[m] : m \in F}) \ F

FullyTriggered(g, satisfied) == g.sink \in satisfied

-----------------------------------------------------------------------------
(* What the progress of a graph means.                                      *)

\* The nodes watched for are exactly those that are not satisfied and could be next:
\* the sources, and what comes after a satisfied node.
WatchedExactly(g, toSatisfy, satisfied) ==
    /\ toSatisfy \cup satisfied \subseteq g.nodes
    /\ \A n \in g.nodes :
         LET next == n \in g.sources \/ g.pred[n] \cap satisfied # {}
         IN  n \in toSatisfy <=> next /\ n \notin satisfied

\* A literal is satisfied after the node before it, and a gate as soon as its
\* predecessors make it true.
SatisfiedExactly(g, satisfied) ==
    \A n \in g.nodes :
        LET before == g.pred[n]
            all    == before # {} /\ before \subseteq satisfied
        IN  /\ g.type[n] = "Literal" => (n \in satisfied => before \subseteq satisfied)
            /\ g.type[n] = "Or"      => (n \in satisfied <=> before \cap satisfied # {})
            /\ g.type[n] = "And"     => (n \in satisfied <=> all)

\* Nothing comes after an Or: once it is met the expression is complete.
OrIsLast(g) == \A n \in g.nodes : g.type[n] = "Or" => n = g.sink
=============================================================================
