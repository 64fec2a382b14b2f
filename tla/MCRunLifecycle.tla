--------------------------- MODULE MCRunLifecycle ---------------------------
(* RunLifecycle with the slots of concurrent requests interchangeable, and *)
(* the enforcement its writes pass through.                                *)
EXTENDS RunLifecycle, TLC

Slots == Permutations(Deciders) \cup Permutations(Executors)

-----------------------------------------------------------------------------
P == INSTANCE Permissions

\* The writes of records and files are let through, whatever else the caller brings.
ASSUME WritesAreLetThrough == \A context \in P!Contexts : P!WritesPass(context)

\* Every request with every level and every approval.
ASSUME EnforcementIsSound ==
    \A req \in P!Requests, context \in P!Contexts :
        /\ P!RiskNeedsGrant(req, context)
        /\ P!LevelNeeded(req, context)
        /\ P!HigherMayToo(req, context)
        /\ P!AsksOnlyForUse(req, context)

\* The same through a tool, registered for all levels or for those from 2 on.
ASSUME ToolsAreSound ==
    \A tool \in P!ToolPolicies,
       req \in {r \in P!Requests : r.actionType \in {"read", "terminal_command", "browser_action"}},
       context \in P!Contexts : P!ToolNeedsGrant(tool, req, context)

-----------------------------------------------------------------------------
(* The registry of the control plane, on every state, action and caller.   *)

C == INSTANCE ControlActions

ASSUME ControlIsSound ==
    \A state \in C!RunStates, action \in C!ControlActionNames, caller \in C!Callers :
        /\ C!TableFollowed(state, action, caller)
        /\ C!TenantNamed(state, action, caller)
        /\ C!AsksInVain(state, action, caller)
        /\ C!DoneThoughAsked(state, action, caller)

\* The flag of the command line does what no approval does.
ASSUME FlagIsEnough ==
    /\ C!Done("failed", "rerun", C!LegacyCaller(TRUE))
    /\ ~C!Done("failed", "rerun", C!LegacyCaller(FALSE))

\* A rejection and a cancellation are overtaken by an approval that read the same record.
ASSUME TogetherTheyLeaveTheTable ==
    /\ C!LeavesTable("waiting_for_approval", "reject", "approve")
    /\ C!LeavesTable("waiting_for_approval", "cancel", "approve")
    /\ \A state \in {"queued", "completed", "cancelled", "failed"},
          first, second \in C!ControlActionNames \ {"inspect"} :
            ~C!LeavesTable(state, first, second)

ASSUME TablesAgree ==
    /\ C!RegistryRelaxes
    /\ C!EndsAreInReach
    /\ \A states \in SUBSET C!RunStates : C!RollupHidesNothing(states)
    /\ \A from, to \in C!RunStates :
          /\ C!validateStateTransition(from, to, FALSE) => C!validateStateTransition(from, to, TRUE)
          /\ C!validateStateTransition(from, to, FALSE) => to \in C!VALID_TRANSITIONS[from]
-----------------------------------------------------------------------------
(* The tasks for tools.  A request differs from others only in what its    *)
(* tool looks at.                                                          *)

T == INSTANCE ToolTasks

Approved == {t \in T!Tasks : T!evaluateMcpPolicy(t) # "none"}
Distinct ==
    {req \in [agent : DOMAIN T!allowedTools, task : Approved, tool : T!Tools \cup {"none"},
              dryRun : BOOLEAN, command : DOMAIN T!Shell \cup {"none"}, op : {"none", "read_file"},
              file : BOOLEAN, risky : {FALSE}, granted : BOOLEAN] :
        CASE T!inferTool(req) = "filesystem" -> req.command = "none" /\ req.task.whole = "text"
          [] T!inferTool(req) = "shell"      -> req.op = "none" /\ ~req.file /\ req.task.words = {}
          [] T!inferTool(req) = "browser"    -> /\ req.op = "none" /\ ~req.file /\ req.command = "none"
                                               /\ req.task.words = {} /\ req.task.whole = "text"}

ASSUME TasksAreSound ==
    \A req \in Distinct, world \in T!Worlds :
        /\ T!OnceUnlessUnwritten(req, world)
        /\ T!PlanEndsAsItWent(req, world)
        /\ T!RunsBounded(req, world)
        /\ T!DryRunsRunNothing(req, world)
        /\ T!AskedInVain(req, world)
        /\ T!NeverRun(req, world)

\* What is not approved by its text does nothing.
ASSUME OthersAreRefused ==
    \A task \in T!Tasks \ Approved, dryRun \in BOOLEAN :
        LET req == [agent |-> "runtime", task |-> task, tool |-> "none", dryRun |-> dryRun,
                    command |-> "none", op |-> "none", file |-> TRUE, risky |-> FALSE, granted |-> TRUE]
        IN  \A world \in T!Worlds : T!handleBelRequest(req, world) = [T!Nothing EXCEPT !.answer = "refused"]

\* Work done twice, dry runs that mislead, fall backs elsewhere: there are such.
ASSUME ExceptionsAreThere ==
    /\ \E req \in Distinct, world \in T!Worlds : T!belExecute(req, world).done = 2
    /\ \E req \in Distinct, world \in T!Worlds : T!DryRunMisleads(req, world)
    /\ \E req \in Distinct : T!FallsBackElsewhere(req)
=============================================================================
