------------------------------ MODULE Permissions ------------------------------
(***************************************************************************)
(* What an agent may do (security/permissions): a request is classified,   *)
(* judged by the level of the agent, matched with the approval it brings,  *)
(* and then carried out, turned away or turned into a request for approval *)
(* (SecurityApprovals).  All of it is a function of the request.           *)
(*                                                                         *)
(* Texts are matched with lists of patterns: of a command the model has    *)
(* the list that matches first, of targets and tool names whether one of   *)
(* the words that count is in them.                                        *)
(***************************************************************************)
EXTENDS Naturals

Levels   == 0..5
Commands == {"restricted", "push", "safe", "caution", "other"}

Class(category, risk, asks) == [category |-> category, risk |-> risk, requiresApproval |-> asks]

classifyTerminalCommand ==
    [restricted |-> Class("COMMAND_RESTRICTED", "critical", TRUE),
     push       |-> Class("GIT_PUSH", "high", TRUE),
     safe       |-> Class("COMMAND_SAFE", "low", FALSE),
     caution    |-> Class("COMMAND_CAUTION", "medium", TRUE),
     other      |-> Class("COMMAND_CAUTION", "high", TRUE)]

\* The types of action whose class nothing else in the request decides.
ByType ==
    [read               |-> Class("READ", "low", FALSE),
     write              |-> Class("WRITE", "medium", FALSE),
     git_commit         |-> Class("GIT_COMMIT", "medium", FALSE),
     git_push           |-> Class("GIT_PUSH", "high", TRUE),
     remote_change      |-> Class("REMOTE_CHANGE", "high", TRUE),
     secret_access      |-> Class("SECRET_ACCESS", "high", TRUE),
     secret_modify      |-> Class("SECRET_MODIFY", "critical", TRUE),
     client_data_access |-> Class("CLIENT_DATA_ACCESS", "high", TRUE),
     destructive_admin  |-> Class("DESTRUCTIVE_ADMIN", "critical", TRUE),
     unknown            |-> Class("COMMAND_CAUTION", "high", TRUE)]

ActionTypes == DOMAIN ByType
                 \cup {"terminal_command", "deployment", "mcp_tool_call", "browser_action"}

Requests ==
    [actionType : ActionTypes,
     command    : Commands,
     production : BOOLEAN,   \* its target speaks of production
     force      : BOOLEAN,   \* its command has --force in it
     privileged : BOOLEAN]   \* its tool, or its browser action, is one of the risky ones

classifyAgentAction(req) ==
    CASE req.actionType \in DOMAIN ByType    -> ByType[req.actionType]
      [] req.actionType = "terminal_command" -> classifyTerminalCommand[req.command]
      [] req.actionType = "deployment"       ->
            Class("DEPLOYMENT", IF req.production THEN "critical" ELSE "high", TRUE)
      [] req.actionType = "mcp_tool_call"    ->
            Class("MCP_TOOL_CALL", IF req.privileged THEN "high" ELSE "medium", req.privileged)
      [] req.actionType = "browser_action"   ->
            Class("BROWSER_ACTION", IF req.privileged THEN "high" ELSE "medium", req.privileged)

\* CATEGORY_RULES.
minLevel ==
    [READ |-> 0, WRITE |-> 2, COMMAND_SAFE |-> 2, COMMAND_CAUTION |-> 2, COMMAND_RESTRICTED |-> 5,
     GIT_COMMIT |-> 3, GIT_PUSH |-> 4, REMOTE_CHANGE |-> 4, DEPLOYMENT |-> 4, SECRET_ACCESS |-> 4,
     SECRET_MODIFY |-> 5, MCP_TOOL_CALL |-> 2, BROWSER_ACTION |-> 2, CLIENT_DATA_ACCESS |-> 2,
     DESTRUCTIVE_ADMIN |-> 5]
AlwaysAsks ==
    DOMAIN minLevel \ {"READ", "WRITE", "COMMAND_SAFE", "GIT_COMMIT", "MCP_TOOL_CALL", "BROWSER_ACTION"}

evaluatePermissionPolicy(level, class, req) ==
    CASE \/ level < minLevel[class.category]
         \/ class.category = "DEPLOYMENT" /\ req.production /\ level < 5
         \/ class.category = "GIT_PUSH" /\ req.force /\ level < 5 -> "blocked"
      [] OTHER -> IF class.category \in AlwaysAsks \/ class.requiresApproval
                  THEN "requires_approval" ELSE "allowed"

\* The approval a request brings; one without any is one that was not approved.
Approvals == [approved : BOOLEAN, denied : BOOLEAN, expired : BOOLEAN]

evaluateApprovalGate(asks, approval) ==
    CASE ~asks                                       -> "not_required"
      [] asks /\ approval.denied                     -> "denied"
      [] asks /\ ~(approval.denied \/ approval.approved) -> "required"
      [] OTHER -> IF approval.expired THEN "expired" ELSE "approved"

mapDecision(policy, status) ==
    CASE policy = "blocked"           -> "block"
      [] policy = "allowed"           -> "allow"
      [] policy = "requires_approval" ->
            CASE status = "approved"  -> "allow"
              [] status = "denied"    -> "block"
              [] OTHER                -> "require_approval"

\* level and approval are the caller's, named says that it names a request for approval it
\* made before; asked that a new one is created.
Contexts == [level : Levels, approval : Approvals, named : BOOLEAN]

enforceAgentAction(req, context) ==
    LET class    == classifyAgentAction(req)
        policy   == evaluatePermissionPolicy(context.level, class, req)
        status   == evaluateApprovalGate(policy = "requires_approval", context.approval)
        decision == mapDecision(policy, status)
    IN  [decision |-> decision, risk |-> class.risk,
         asked |-> decision = "require_approval" /\ ~context.named]

executeWithEnforcement(req, context) ==
    [block |-> "blocked", require_approval |-> "approval_required", allow |-> "executed"]
        [enforceAgentAction(req, context).decision]

\* What is on record about a tool, and whether environment and tenant of the call fit it.
ToolPolicies == [registered : BOOLEAN, levels : {Levels, 2..5}, fits : BOOLEAN,
                 requiresApproval : BOOLEAN]

mcpSecureExecute(tool, req, context) ==
    IF ~tool.registered \/ context.level \notin tool.levels \/ ~tool.fits THEN "blocked"
    ELSE IF tool.requiresApproval /\ ~context.approval.approved
         THEN IF enforceAgentAction(req, context).decision = "block"
              THEN "blocked" ELSE "approval_required"
         ELSE executeWithEnforcement(req, context)

\* The levels of those who write records and files, and of the webhooks.
RegisteredLevel == [stores |-> 3, publisher |-> 3, webhooks |-> 4]

-----------------------------------------------------------------------------
(* What the enforcement is for.                                            *)

Live(approval) == approval.approved /\ ~approval.denied /\ ~approval.expired

\* Nothing of high or critical risk is carried out without an approval that is given, not
\* withdrawn and not over (enforcement-engine.ts:90-106).
RiskNeedsGrant(req, context) ==
    /\ executeWithEnforcement(req, context) = "executed"
    /\ enforceAgentAction(req, context).risk \in {"high", "critical"}
    => Live(context.approval)

\* No approval makes up for a level that is too low, and production and forced pushes take
\* the highest (permission-policy.ts:49-77).
LevelNeeded(req, context) ==
    executeWithEnforcement(req, context) = "executed" =>
      /\ context.level >= minLevel[classifyAgentAction(req).category]
      /\ req.actionType = "deployment" /\ req.production => context.level = 5
      /\ classifyAgentAction(req).category = "GIT_PUSH" /\ req.force => context.level = 5

\* An agent of a higher level may do all that one of a lower level may.
HigherMayToo(req, context) ==
    \A higher \in context.level..5 :
        executeWithEnforcement(req, context) = "executed" =>
            executeWithEnforcement(req, [context EXCEPT !.level = higher]) = "executed"

\* A new request for approval is created only for what is not done now and could be done
\* with a live approval: what is out of reach asks nobody (enforcement-engine.ts:59-87).
AsksOnlyForUse(req, context) ==
    enforceAgentAction(req, context).asked =>
      /\ executeWithEnforcement(req, context) # "executed"
      /\ \E approval \in Approvals :
            executeWithEnforcement(req, [context EXCEPT !.approval = approval]) = "executed"

\* A tool that asks for approval is not called without one, and risk is no different by
\* way of a tool (mcp-secure-executor.ts:72-152).
ToolNeedsGrant(tool, req, context) ==
    mcpSecureExecute(tool, req, context) = "executed" =>
      /\ tool.requiresApproval => context.approval.approved
      /\ RiskNeedsGrant(req, context)

\* What the record stores and the publisher write is always let through, and so is what
\* the webhooks do with the approval they bring: the other modules have the enforcement as
\* a part of the write, which may fail but is never turned away (core/run-store.ts:25-60).
WritesPass(context) ==
    LET write   == [actionType |-> "write", command |-> "other", production |-> FALSE,
                    force |-> FALSE, privileged |-> FALSE]
        change  == [write EXCEPT !.actionType = "remote_change"]
        granted == [context EXCEPT !.approval = [approved |-> TRUE, denied |-> FALSE,
                                                 expired |-> FALSE],
                                   !.level = RegisteredLevel.webhooks]
    IN  /\ \A l \in {RegisteredLevel.stores, RegisteredLevel.publisher} :
              executeWithEnforcement(write, [context EXCEPT !.level = l]) = "executed"
        /\ executeWithEnforcement(change, granted) = "executed"
=============================================================================
