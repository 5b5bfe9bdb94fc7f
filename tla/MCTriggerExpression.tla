------------------------ MODULE MCTriggerExpression ------------------------
(* Instance of TriggerExpression: all expressions of up to four triggers.  *)
EXTENDS TriggerExpression

FourTriggers == <<"t1", "t2", "t3", "t4">>
=============================================================================
