---------------------------- MODULE SanityCheck ----------------------------
(***************************************************************************)
(* What sanity_check_sieve_server_log (sieve_analyzer/analyze.py) asserts  *)
(* of the log of a learning run, as the specification that the log's       *)
(* writers implement: the statuses that the function keeps, and the lines  *)
(* that it lets pass.  A step is one line, or one line of each status: the *)
(* server writes the line of a held-back event and the end of a reconcile  *)
(* at once.                                                                *)
(***************************************************************************)
EXTENDS Integers

CONSTANT Reconcilers

VARIABLES
    reconcile_status,          \* the open reconciles of each reconciler
    controller_write_status,   \* for each ID, the lines before and after; the
    controller_hear_status     \* function keeps their sum

Init ==
    /\ reconcile_status = [r \in Reconcilers |-> 0]
    /\ controller_write_status = <<>> /\ controller_hear_status = <<>>

\* A line before an operation has an ID that no line had.
Begins(s, t) ==
    \E id \in DOMAIN t \ DOMAIN s :
        t = [i \in DOMAIN s \cup {id} |-> IF i = id THEN <<1, 0>> ELSE s[i]]

\* A line after an operation has an ID that was begun and has not ended.
Ends(s, t) == \E id \in DOMAIN s : s[id] = <<1, 0>> /\ t = [s EXCEPT ![id] = <<1, 1>>]

OperationLine(s, t) == Begins(s, t) \/ Ends(s, t) \/ t = s

ReconcileLine ==
    \/ UNCHANGED reconcile_status
    \/ \E r \in Reconcilers : reconcile_status' = [reconcile_status EXCEPT ![r] = 1 - @]

Next ==
    /\ ReconcileLine
    /\ OperationLine(controller_write_status, controller_write_status')
    /\ OperationLine(controller_hear_status, controller_hear_status')

Spec == Init /\ [][Next]_<<reconcile_status, controller_write_status, controller_hear_status>>
=============================================================================
