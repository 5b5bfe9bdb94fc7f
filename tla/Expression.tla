----------------------------- MODULE Expression -----------------------------
(***************************************************************************)
(* Trigger expressions: from the infix tokens of a plan to prefix tokens   *)
(* (sieve_server/expression.go, stack.go), to a binary tree and to a       *)
(* trigger graph (sieve_server/trigger_graph.go).                          *)
(*                                                                         *)
(* A tree is <<name>> for a trigger and <<operator, left, right>> for an   *)
(* inner node; the tree itself stands for its composedName, "(l op r)".    *)
(***************************************************************************)
EXTENDS Naturals, Sequences, SequencesExt

Operators == {";", "|", "&"}
isOperator(token) == token \in Operators \cup {"(", ")"}

\* Mutant: | binds stronger than &.
priority_Swapped(token) == CASE token = ";" -> 1 [] token = "|" -> 3 [] token = "&" -> 2
                             [] OTHER -> 0

priority(token) == CASE token = ";" -> 1 [] token = "|" -> 2 [] token = "&" -> 3
                     [] OTHER -> 0

\* expressionToInfixTokens appends the characters after the last operator as a
\* token even if there are none: an expression that ends in ")" gets one token
\* "" more.
InfixTokens(written) ==
    IF isOperator(Last(written)) THEN Append(written, "") ELSE written

-----------------------------------------------------------------------------
(* A state of infixToPostfix: the stack, top first, and the output.         *)

RECURSIVE PopHigher(_, _)
PopHigher(s, token) ==
    IF s.stack # <<>> /\ priority(token) < priority(Head(s.stack))
    THEN PopHigher([stack |-> Tail(s.stack), out |-> Append(s.out, Head(s.stack))], token)
    ELSE [s EXCEPT !.stack = <<token>> \o @]

RECURSIVE PopToParenthesis(_)
PopToParenthesis(s) ==
    IF Head(s.stack) = "(" THEN [s EXCEPT !.stack = Tail(@)]
    ELSE PopToParenthesis([stack |-> Tail(s.stack), out |-> Append(s.out, Head(s.stack))])

PostfixStep(s, token) ==
    CASE ~isOperator(token) -> [s EXCEPT !.out = Append(@, token)]
      [] token = "("        -> [s EXCEPT !.stack = <<token>> \o @]
      [] token = ")"        -> PopToParenthesis(s)
      [] OTHER              -> PopHigher(s, token)

infixToPostfix(infix) ==
    LET s == FoldLeft(PostfixStep, [stack |-> <<>>, out |-> <<>>], infix)
    IN  s.out \o s.stack

Mirror(token) == CASE token = "(" -> ")" [] token = ")" -> "(" [] OTHER -> token

infixToPrefix(infix) ==
    LET r == Reverse(infix)
    IN  Reverse(infixToPostfix([i \in DOMAIN r |-> Mirror(r[i])]))

-----------------------------------------------------------------------------
\* One token of prefixExpressionToBinaryTree, read from the right; the stack
\* holds trees, top first.
TreeStep(stack, token) ==
    IF isOperator(token)
    THEN <<<<token, stack[1], stack[2]>>>> \o Tail(Tail(stack))
    ELSE <<<<token>>>> \o stack

prefixExpressionToBinaryTree(prefix) == Head(FoldLeft(TreeStep, <<>>, Reverse(prefix)))

ParseExpression(written) ==
    prefixExpressionToBinaryTree(infixToPrefix(InfixTokens(written)))

-----------------------------------------------------------------------------
(* binaryTreeToTriggerNode: the nodes under a tree, its sources and its     *)
(* sink, and the edges between them.                                        *)

RECURSIVE SourcesOf(_)
SourcesOf(tree) ==
    IF Len(tree) = 1 THEN {tree}
    ELSE IF tree[1] = ";" THEN SourcesOf(tree[2])
         ELSE SourcesOf(tree[2]) \cup SourcesOf(tree[3])

RECURSIVE SinkOf(_)
SinkOf(tree) == IF Len(tree) = 3 /\ tree[1] = ";" THEN SinkOf(tree[3]) ELSE tree

RECURSIVE NodesOf(_)
NodesOf(tree) ==
    IF Len(tree) = 1 THEN {tree}
    ELSE NodesOf(tree[2]) \cup NodesOf(tree[3])
           \cup (IF tree[1] = ";" THEN {} ELSE {tree})

RECURSIVE EdgesOf(_)
EdgesOf(tree) ==
    IF Len(tree) = 1 THEN {}
    ELSE EdgesOf(tree[2]) \cup EdgesOf(tree[3]) \cup
         (IF tree[1] = ";" THEN {SinkOf(tree[2])} \X SourcesOf(tree[3])
          ELSE {SinkOf(tree[2]), SinkOf(tree[3])} \X {tree})

binaryTreeToTriggerGraph(tree) ==
    LET N == NodesOf(tree)
        E == EdgesOf(tree)
    IN  [nodes   |-> N,
         type    |-> [n \in N |-> IF Len(n) = 1 THEN "Literal"
                                  ELSE IF n[1] = "&" THEN "And" ELSE "Or"],
         pred    |-> [n \in N |-> {m \in N : <<m, n>> \in E}],
         succ    |-> [n \in N |-> {m \in N : <<n, m>> \in E}],
         sources |-> SourcesOf(tree),
         sink    |-> SinkOf(tree)]

GraphOf(written) == binaryTreeToTriggerGraph(ParseExpression(written))
=============================================================================
