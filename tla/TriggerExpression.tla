------------------------- MODULE TriggerExpression -------------------------
(***************************************************************************)
(* One trigger expression at work: the graph built for it is driven by     *)
(* the triggers in the order in which the events that satisfy them arrive, *)
(* and is compared with the meaning that the expression language gives to  *)
(* ";", "&" and "|".                                                       *)
(***************************************************************************)
EXTENDS Expression, TriggerRun, FiniteSets

CONSTANTS Triggers,   \* names of triggers, a sequence
          MaxEvents   \* bound: events observed

ASSUME TriggersAssumption ==
    /\ Triggers # <<>> /\ \A i, j \in DOMAIN Triggers : Triggers[i] = Triggers[j] => i = j
    /\ MaxEvents \in Nat

VARIABLES tree,       \* the tree of the expression, as its author means it
          events      \* the triggers whose condition was met, in order

vars == <<tree, events, runVars>>

-----------------------------------------------------------------------------
(* The expressions: every tree over distinct triggers (named from left to  *)
(* right: other names make no difference), written with the parentheses    *)
(* that the priorities & > | > ; make necessary.                           *)

RECURSIVE TreesOver(_, _)
TreesOver(i, j) ==
    IF i = j THEN {<<Triggers[i]>>}
    ELSE UNION {{<<o, l, r>> : o \in Operators, l \in TreesOver(i, k), r \in TreesOver(k + 1, j)}
                : k \in i .. j - 1}

AllTrees == UNION {TreesOver(1, j) : j \in DOMAIN Triggers}

\* doc.md: "Regarding the priority, & > | > ;".
WeakerThan(o) == CASE o = "&" -> {"|", ";"} [] o = "|" -> {";"} [] o = ";" -> {}

RECURSIVE Write(_)
Parenthesized(needed, t) == IF needed THEN <<"(">> \o Write(t) \o <<")">> ELSE Write(t)
Write(t) ==
    IF Len(t) = 1 THEN t
    ELSE LET Below(u) == Len(u) = 3 /\ u[1] \in WeakerThan(t[1])
             Same(u)  == Len(u) = 3 /\ u[1] = t[1]
         IN  Parenthesized(Below(t[2]), t[2]) \o <<t[1]>>
               \o Parenthesized(Below(t[3]) \/ Same(t[3]), t[3])

-----------------------------------------------------------------------------
(* The meaning of an expression that is watched from the moment "start" on: *)
(* the number of the event that completes it, or Never.                     *)

Never == MaxEvents + 1
MinOf(a, b) == IF a < b THEN a ELSE b
MaxOf(a, b) == IF a < b THEN b ELSE a

FirstAfter(name, start) ==
    LET I == {i \in DOMAIN events : i > start /\ events[i] = name}
    IN  IF I = {} THEN Never ELSE CHOOSE i \in I : \A j \in I : i <= j

RECURSIVE CompletedAt(_, _)
CompletedAt(t, start) ==
    IF start = Never THEN Never
    ELSE IF Len(t) = 1 THEN FirstAfter(t[1], start)
    ELSE CASE t[1] = ";" -> CompletedAt(t[3], CompletedAt(t[2], start))
           [] t[1] = "&" -> MaxOf(CompletedAt(t[2], start), CompletedAt(t[3], start))
           [] t[1] = "|" -> MinOf(CompletedAt(t[2], start), CompletedAt(t[3], start))

-----------------------------------------------------------------------------
Init ==
    /\ tree \in AllTrees
    /\ Start(GraphOf(Write(tree)))
    /\ events = <<>>

\* The condition of trigger t is met.  The state machine calls trigger() for a
\* trigger it has still to satisfy and ignores any other one.
Observe(t) ==
    /\ ~fatal /\ ~FullyTriggered(graph, satisfied)
    /\ Len(events) < MaxEvents
    /\ events' = Append(events, t)
    /\ \/ Trigger(<<t>>)
       \/ <<t>> \notin toSatisfy /\ UNCHANGED runVars
    /\ UNCHANGED tree

Next == \E i \in DOMAIN Triggers : Observe(Triggers[i])

Spec == Init /\ [][Next]_vars

-----------------------------------------------------------------------------
\* The graph is fully triggered by exactly the event that completes the
\* expression as its author wrote it: tokenizing, the two conversions, the tree,
\* the graph and the cascade through And and Or gates together implement
\* ";", "&" and "|" with the priorities & > | > ; (trigger_graph.go,
\* expression.go), as long as the process has not exited.
MeaningPreserved ==
    ~fatal => (FullyTriggered(graph, satisfied) <=> CompletedAt(tree, 0) # Never)
=============================================================================
