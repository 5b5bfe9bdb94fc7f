------------------------- MODULE TriggerGraphProofs -------------------------
(***************************************************************************)
(* Lemmas on one call of trigger(), for every trigger graph: the cascade   *)
(* is a least fixed point, it keeps the meaning of the gates and of the    *)
(* set of nodes to satisfy, and it meets no node twice where nothing comes *)
(* after an Or.                                                            *)
(***************************************************************************)
EXTENDS TriggerGraph, TLAPS

\* Triggering a literal marks it and gates, and no other literal (trigger and
\* triggerOrAnd): the literal and the gates together are closed.
LEMMA FiredGates ==
    ASSUME NEW g, IsTriggerGraph(g), NEW S, NEW n \in g.nodes
    PROVE  /\ n \in Fired(g, S, n) /\ Fired(g, S, n) \subseteq g.nodes
           /\ \A m \in Fired(g, S, n) : m = n \/ g.type[m] # "Literal"
  <1> DEFINE closed == {m \in g.nodes : m = n \/ g.type[m] # "Literal"}
  <1>1. closed \in SUBSET g.nodes /\ n \in closed
    OBVIOUS
  <1>2. GateClosed(g, S, closed)
    BY DEF GateClosed
  <1> HIDE DEF closed
  <1>3. \A m \in Fired(g, S, n) : m \in closed
    BY <1>1, <1>2 DEF Fired
  <1>4. n \in Fired(g, S, n) /\ Fired(g, S, n) \subseteq g.nodes
    BY DEF Fired
  <1> QED
    BY <1>3, <1>4 DEF closed

\* The cascade is in every closed set with the literal.
LEMMA FiredLeast ==
    ASSUME NEW g, NEW S, NEW n, NEW C \in SUBSET g.nodes, n \in C, GateClosed(g, S, C)
    PROVE  Fired(g, S, n) \subseteq C
  BY DEF Fired

\* The cascade is closed itself: it stops only at gates that have to wait.
LEMMA FiredClosed ==
    ASSUME NEW g, NEW S, NEW n \in g.nodes
    PROVE  GateClosed(g, S, Fired(g, S, n))
  <1> DEFINE F == Fired(g, S, n)
  <1> SUFFICES ASSUME NEW m \in g.nodes, g.pred[m] \cap F # {},
                      \/ g.type[m] = "Or"
                      \/ g.type[m] = "And" /\ g.pred[m] \subseteq S \cup F,
                      NEW C \in SUBSET g.nodes, n \in C, GateClosed(g, S, C)
               PROVE  m \in C
    BY DEF GateClosed, Fired
  <1>1. F \subseteq C
    BY FiredLeast
  <1> HIDE DEF F
  <1>2. g.pred[m] \cap C # {} /\ (g.pred[m] \subseteq S \cup F => g.pred[m] \subseteq S \cup C)
    BY <1>1
  <1> QED
    BY <1>2 DEF GateClosed

\* A gate is in the cascade for a reason: it is reached from a node of the cascade,
\* and an And has all its predecessors satisfied.
LEMMA FiredReason ==
    ASSUME NEW g, IsTriggerGraph(g), NEW S, NEW n \in g.nodes, g.type[n] = "Literal",
           NEW m \in Fired(g, S, n), m # n
    PROVE  /\ g.pred[m] \cap Fired(g, S, n) # {}
           /\ g.type[m] = "And" => g.pred[m] \subseteq S \cup Fired(g, S, n)
  <1> DEFINE F == Fired(g, S, n)
             C == {x \in F : \/ x = n
                             \/ /\ g.pred[x] \cap F # {}
                                /\ g.type[x] = "And" => g.pred[x] \subseteq S \cup F}
  <1>1. F \subseteq g.nodes /\ n \in F
    BY FiredGates
  <1>2. GateClosed(g, S, F)
    BY FiredClosed
  <1> HIDE DEF F
  <1>3. C \in SUBSET g.nodes /\ n \in C /\ C \subseteq F
    BY <1>1
  <1>4. GateClosed(g, S, C)
    <2> SUFFICES ASSUME NEW x \in g.nodes, g.pred[x] \cap C # {},
                        \/ g.type[x] = "Or"
                        \/ g.type[x] = "And" /\ g.pred[x] \subseteq S \cup C
                 PROVE  x \in C
      BY DEF GateClosed
    <2>1. g.pred[x] \cap F # {} /\ (g.type[x] = "And" => g.pred[x] \subseteq S \cup F)
      BY <1>3
    <2>2. x \in F
      BY <1>2, <2>1 DEF GateClosed
    <2> QED
      BY <2>1, <2>2
  <1>5. F \subseteq C
    BY <1>3, <1>4, FiredLeast DEF F
  <1> QED
    BY <1>5 DEF F

\* The progress of a graph that trigger() may be called on.
GraphInv(g, T, S) == WatchedExactly(g, T, S) /\ SatisfiedExactly(g, S)

\* A node after one that is not satisfied is satisfied only if it is an Or.
LEMMA NotBefore ==
    ASSUME NEW g, IsTriggerGraph(g), NEW S, SatisfiedExactly(g, S),
           NEW m \in g.nodes, NEW p \in g.pred[m], p \notin S, m \in S
    PROVE  g.type[m] = "Or"
  <1>1. g.type[m] \in {"Literal", "And", "Or"}
    BY DEF IsTriggerGraph, NodeTypes
  <1> QED
    BY <1>1 DEF SatisfiedExactly

\* Before the first trigger the sources are watched and nothing is satisfied.
LEMMA StartInv ==
    ASSUME NEW g, IsTriggerGraph(g)
    PROVE  GraphInv(g, g.sources, {})
  <1>1. WatchedExactly(g, g.sources, {})
    BY DEF IsTriggerGraph, WatchedExactly
  <1>2. SatisfiedExactly(g, {})
    BY DEF IsTriggerGraph, SatisfiedExactly
  <1> QED
    BY <1>1, <1>2 DEF GraphInv

\* A literal that is watched has the node before it satisfied.
LEMMA WatchedLiteral ==
    ASSUME NEW g, IsTriggerGraph(g), NEW T, NEW S, GraphInv(g, T, S),
           NEW n \in T, g.type[n] = "Literal"
    PROVE  n \in g.nodes /\ n \notin S /\ g.pred[n] \subseteq S
  <1>1. n \in g.nodes /\ n \notin S
    BY DEF GraphInv, WatchedExactly
  <1>2. CASE n \in g.sources
    BY <1>1, <1>2 DEF IsTriggerGraph
  <1>3. CASE n \notin g.sources
    <2>1. PICK p \in g.pred[n] : p \in S
      BY <1>1, <1>3 DEF GraphInv, WatchedExactly
    <2>2. \A q \in g.pred[n] : q = p
      BY <1>1, <2>1 DEF IsTriggerGraph
    <2> QED
      BY <1>1, <2>1, <2>2
  <1> QED
    BY <1>2, <1>3

\* trigger() keeps both: what it adds to toSatisfy is exactly what comes after the
\* nodes that it marks, and the gates that it marks are exactly those that are met.
LEMMA TriggerKeepsInv ==
    ASSUME NEW g, IsTriggerGraph(g), NEW T, NEW S, GraphInv(g, T, S),
           NEW n \in T, g.type[n] = "Literal", ~TriggerFatal(g, S, n)
    PROVE  GraphInv(g, ToSatisfyAfter(g, T, S, n), SatisfiedAfter(g, S, n))
  <1> DEFINE F == Fired(g, S, n)
             A == ToSatisfyAfter(g, T, S, n)
             B == SatisfiedAfter(g, S, n)
  <1>1. n \in g.nodes /\ n \notin S /\ g.pred[n] \subseteq S
    BY WatchedLiteral
  <1>2. n \in F /\ F \subseteq g.nodes /\ \A m \in F : m = n \/ g.type[m] # "Literal"
    BY <1>1, FiredGates
  <1>3. GateClosed(g, S, F)
    BY <1>1, FiredClosed
  <1>4. \A m \in F : m # n => /\ g.pred[m] \cap F # {}
                              /\ g.type[m] = "And" => g.pred[m] \subseteq S \cup F
    BY <1>1, FiredReason
  <1>5. F \cap S = {}
    BY DEF TriggerFatal
  <1>6. B = S \cup F
    BY DEF SatisfiedAfter
  <1>7. \A m : m \in A <=> m \notin F /\ (m \in T \/ \E p \in F : m \in g.succ[p])
    BY DEF ToSatisfyAfter
  <1>8. /\ g.type \in [g.nodes -> {"Literal", "And", "Or"}]
        /\ g.pred \in [g.nodes -> SUBSET g.nodes]
        /\ g.succ \in [g.nodes -> SUBSET g.nodes]
        /\ \A p, m \in g.nodes : p \in g.pred[m] <=> m \in g.succ[p]
        /\ \A m \in g.nodes : g.type[m] = "Literal" => \A p, q \in g.pred[m] : p = q
    BY DEF IsTriggerGraph, NodeTypes
  <1>9. /\ T \subseteq g.nodes /\ S \subseteq g.nodes
        /\ \A m \in g.nodes :
             m \in T <=> (m \in g.sources \/ g.pred[m] \cap S # {}) /\ m \notin S
    BY DEF GraphInv, WatchedExactly
  <1>10. SatisfiedExactly(g, S)
    BY DEF GraphInv
  <1> HIDE DEF F, A, B
  <1>11. ASSUME NEW m \in g.nodes, NEW p \in g.pred[m], p \in F
         PROVE  m \notin S
    <2> SUFFICES ASSUME m \in S PROVE FALSE
      OBVIOUS
    <2>1. p \notin S
      BY <1>5, <1>11
    <2>2. g.type[m] = "Or"
      BY <1>10, <2>1, NotBefore
    <2>3. m \in F
      BY <1>3, <1>11, <2>2 DEF GateClosed
    <2> QED
      BY <1>5, <2>3
  <1>12. WatchedExactly(g, A, B)
    <2>1. A \cup B \subseteq g.nodes
      BY <1>2, <1>6, <1>7, <1>8, <1>9
    <2>2. ASSUME NEW m \in g.nodes
          PROVE  m \in A <=> (m \in g.sources \/ g.pred[m] \cap B # {}) /\ m \notin B
      <3>1. (\E p \in F : m \in g.succ[p]) <=> g.pred[m] \cap F # {}
        BY <1>2, <1>8
      <3>2. g.pred[m] \cap B # {} <=> g.pred[m] \cap S # {} \/ g.pred[m] \cap F # {}
        BY <1>6
      <3>3. g.pred[m] \cap F # {} => m \notin S
        BY <1>11
      <3>4. m \in A <=> m \notin F /\ (m \in T \/ g.pred[m] \cap F # {})
        BY <1>7, <3>1
      <3>5. m \in T <=> (m \in g.sources \/ g.pred[m] \cap S # {}) /\ m \notin S
        BY <1>9
      <3> QED
        BY <1>6, <3>2, <3>3, <3>4, <3>5
    <2> QED
      BY <2>1, <2>2 DEF WatchedExactly
  <1>13. ASSUME NEW m \in g.nodes, g.type[m] = "Literal", m \in B
         PROVE  g.pred[m] \subseteq B
    <2>1. CASE m \in S
      BY <1>6, <1>10, <1>13, <2>1 DEF SatisfiedExactly
    <2>2. CASE m \in F
      BY <1>1, <1>2, <1>6, <1>13, <2>2
    <2> QED
      BY <1>6, <1>13, <2>1, <2>2
  <1>14. ASSUME NEW m \in g.nodes, g.type[m] = "Or"
         PROVE  m \in B <=> g.pred[m] \cap B # {}
    <2>1. m \in S <=> g.pred[m] \cap S # {}
      BY <1>10, <1>14 DEF SatisfiedExactly
    <2>2. m \in F => g.pred[m] \cap F # {}
      BY <1>4, <1>14
    <2>3. g.pred[m] \cap F # {} => m \in F
      BY <1>3, <1>14 DEF GateClosed
    <2> QED
      BY <1>6, <2>1, <2>2, <2>3
  <1>15. ASSUME NEW m \in g.nodes, g.type[m] = "And"
         PROVE  m \in B <=> g.pred[m] # {} /\ g.pred[m] \subseteq B
    <2>1. m \in S <=> g.pred[m] # {} /\ g.pred[m] \subseteq S
      BY <1>10, <1>15 DEF SatisfiedExactly
    <2>2. m \in F => g.pred[m] # {} /\ g.pred[m] \subseteq S \cup F
      BY <1>4, <1>15
    <2>3. g.pred[m] \cap F # {} /\ g.pred[m] \subseteq S \cup F => m \in F
      BY <1>3, <1>15 DEF GateClosed
    <2>4. g.pred[m] \cap F = {} /\ g.pred[m] \subseteq S \cup F => g.pred[m] \subseteq S
      OBVIOUS
    <2> QED
      BY <1>6, <2>1, <2>2, <2>3, <2>4
  <1>16. SatisfiedExactly(g, B)
    BY <1>13, <1>14, <1>15 DEF SatisfiedExactly
  <1> QED
    BY <1>12, <1>16 DEF GraphInv, A, B

\* As long as no Or is satisfied, the cascade meets nothing that is: an And that is
\* satisfied has no predecessor left.
LEMMA TriggerMeetsNoneTwice ==
    ASSUME NEW g, IsTriggerGraph(g), NEW T, NEW S, GraphInv(g, T, S),
           NEW n \in T, g.type[n] = "Literal",
           \A m \in S : g.type[m] # "Or"
    PROVE  ~TriggerFatal(g, S, n)
  <1> DEFINE F == Fired(g, S, n)
             C == {m \in F : m \notin S}
  <1>1. n \in g.nodes /\ n \notin S
    BY WatchedLiteral
  <1>2. n \in F /\ F \subseteq g.nodes
    BY <1>1, FiredGates
  <1>3. GateClosed(g, S, F)
    BY <1>1, FiredClosed
  <1>4. SatisfiedExactly(g, S)
    BY DEF GraphInv
  <1> HIDE DEF F
  <1>5. C \in SUBSET g.nodes /\ n \in C
    BY <1>1, <1>2
  <1>6. GateClosed(g, S, C)
    <2> SUFFICES ASSUME NEW m \in g.nodes, g.pred[m] \cap C # {},
                        \/ g.type[m] = "Or"
                        \/ g.type[m] = "And" /\ g.pred[m] \subseteq S \cup C
                 PROVE  m \in C
      BY DEF GateClosed
    <2>1. m \in F
      BY <1>3 DEF GateClosed
    <2>2. m \notin S
      BY <1>4, NotBefore
    <2> QED
      BY <2>1, <2>2
  <1>7. F \subseteq C
    BY <1>5, <1>6, FiredLeast DEF F
  <1> QED
    BY <1>7 DEF TriggerFatal, F
=============================================================================
