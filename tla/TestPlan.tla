------------------------------ MODULE TestPlan ------------------------------
(***************************************************************************)
(* The test plan that the test coordinator executes                        *)
(* (sieve_server/test_plan.go): a sequence of actions, each with a trigger *)
(* graph and the definitions of its triggers.  An action is a record       *)
(*   type     the actionType                                               *)
(*   async    whether run() starts a goroutine                             *)
(*   gate     where it pauses or resumes: <<API server, pauseScope>> or    *)
(*            <<pauseAt, pauseScope>>; not read by the restart actions     *)
(*   avoidOngoingRead   of a pauseController action                        *)
(*   graph, defs        the trigger graph, and a function from trigger     *)
(*                      names to definitions                               *)
(* and a trigger definition a record                                       *)
(*   cond     the conditionType                                            *)
(*   key, when, by      resource key (or annotated function) and           *)
(*                      observation point                                  *)
(*   occurrence         desiredOccurrence                                  *)
(*   anyUpdate          the plan gives no state diff                       *)
(*   desired            otherwise, the pairs of object states <<previous,  *)
(*                      current>> that the diff accepts                    *)
(***************************************************************************)
EXTENDS Naturals, Sequences, TriggerGraph

CONSTANTS Plan,        \* the actions, in order
          APIServers,  \* host names of the API servers
          Keys         \* resource keys

ActionTypes == {"pauseAPIServer", "resumeAPIServer", "pauseController",
                "resumeController", "restartController", "reconnectController"}

Conditions == {"onObjectCreate", "onObjectDelete", "onObjectUpdate",
               "onAnyFieldModification", "onTimeout", "onAnnotatedAPICall"}

PauseAts == {"beforeControllerRead", "afterControllerRead",
             "beforeControllerWrite", "afterControllerWrite"}

Gates == (APIServers \cup PauseAts) \X (Keys \cup {"all"})

Actions == 1 .. Len(Plan)

Names == UNION {Plan[i].graph.nodes : i \in Actions}

\* Every trigger definition is of a known condition, and none has the composed name
\* of a gate.
ASSUME PlanAssumption ==
    /\ Len(Plan) \in Nat
    /\ APIServers \cap PauseAts = {}
    /\ \A i \in Actions :
         /\ Plan[i].type \in ActionTypes
         /\ Plan[i].async \in BOOLEAN
         /\ Plan[i].avoidOngoingRead \in BOOLEAN
         /\ Plan[i].gate \in Gates
         /\ IsTriggerGraph(Plan[i].graph)
         /\ \A n \in DOMAIN Plan[i].defs :
              /\ Plan[i].defs[n].cond \in Conditions
              /\ Plan[i].defs[n].occurrence \in Nat
              /\ n \in Plan[i].graph.nodes => Plan[i].graph.type[n] = "Literal"

-----------------------------------------------------------------------------
(* satisfy(): what one trigger makes of one notification.                  *)

\* The kind of notification that each condition waits for.
OpOf(cond) ==
    CASE cond = "onObjectCreate"     -> "create"
      [] cond = "onObjectDelete"     -> "delete"
      [] cond = "onAnnotatedAPICall" -> "annotated"
      [] cond = "onTimeout"          -> "timeout"
      [] OTHER                       -> "update"

\* The notification is about the object and the point that the trigger observes.
Observes(def, n) ==
    /\ n.op = OpOf(def.cond)
    /\ n.op # "timeout"
    /\ n.key = def.key /\ n.when = def.when /\ n.by = def.by

IsDiffed(def) == def.cond \in {"onObjectUpdate", "onAnyFieldModification"}

\* actualOccurrence is incremented.
Counts(def, n) ==
    /\ Observes(def, n)
    /\ IsDiffed(def) => ~def.anyUpdate /\ <<n.prev, n.cur>> \in def.desired

\* Mutant: the occurrence is compared before it is incremented.
Satisfies_OffByOne(name, def, count, n) ==
    \/ def.cond = "onTimeout" /\ n.op = "timeout" /\ n.name = name
    \/ Counts(def, n) /\ count = def.occurrence
    \/ Observes(def, n) /\ IsDiffed(def) /\ def.anyUpdate

\* satisfy() returns true, count being actualOccurrence before the call.
Satisfies(name, def, count, n) ==
    \/ def.cond = "onTimeout" /\ n.op = "timeout" /\ n.name = name
    \/ Counts(def, n) /\ count + 1 = def.occurrence
    \/ Observes(def, n) /\ IsDiffed(def) /\ def.anyUpdate
=============================================================================
