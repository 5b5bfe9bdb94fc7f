----------------------------- MODULE MCPipeline -----------------------------
(* The driver, the build and the workload, which share no state of the models: *)
(* each of them runs while the other two have not started, so that the three   *)
(* are checked in one run without the product of their states.                 *)
EXTENDS SieveRun, Build, TestDriver

Item(k, t) == [kind |-> k, timeout |-> t]

\* A command, a wait of each kind and a pause; a wait that is not much longer than
\* its polls, and a command that comes last.
MCWorkLists ==
    {<<Item("cmd", 2), Item(k, 6), Item("wait", 1)>> : k \in ConditionalWaits}
        \cup {<<Item("number", 4), Item("cmd", 2)>>}

NotRun == id = 0 /\ pc = "idle"
NotDriven ==
    /\ work = 0 /\ at = "next" /\ ~pauses
    /\ work_list = CHOOSE l \in WorkLists : TRUE

MCInit == Init /\ BuildInit /\ DriverInit

Drive == DriverStep /\ NotRun /\ builds = 0 /\ UNCHANGED <<vars, buildVars>>

MCNext ==
    \/ Next /\ builds = 0 /\ NotDriven /\ UNCHANGED <<buildVars, driverVars>>
    \/ BuildNext /\ NotRun /\ NotDriven /\ UNCHANGED <<vars, driverVars>>
    \/ Drive

MCSpec ==
    /\ MCInit /\ [][MCNext]_<<vars, buildVars, driverVars>>
    /\ WF_vars(Step) /\ SF_vars(KindDelete) /\ WF_driverVars(Drive)
=============================================================================
