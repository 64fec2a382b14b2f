------------------------------- MODULE ToolTasks -------------------------------
(***************************************************************************)
(* Tasks for the tools of the machine (bel/bel-*.ts, mcp): a request that  *)
(* comes to /bel/execute or /mcp/execute is judged by its text, passes the *)
(* enforcement, and is dispatched to a tool; a BEL task by way of a plan   *)
(* with retries, which is kept in a file, and when that throws by the      *)
(* older runner.  In one process nothing else is between: the file is      *)
(* read and written synchronously, each plan under an id of its own.  So a *)
(* request is a function of itself and of the world it meets, which is     *)
(* what each attempt comes to and which of its writes fail.                *)
(*                                                                         *)
(* Of a text the model has what its patterns find, of a command how the    *)
(* enforcement classifies it and whether the shell tool has it listed.     *)
(***************************************************************************)
EXTENDS Permissions, FiniteSets

Tools == {"filesystem", "shell", "browser"}

\* git status, git diff and npm run build; npm test and docker compose ps; what is safe but
\* not listed, like git log; anything else; a push.
Shell  == [status |-> "safe", test |-> "other", log |-> "safe", text |-> "other", push |-> "push"]
Listed == {"status", "test"}                  \* ALLOWED_COMMANDS, of the policy and of the tool

\* A text: its class; whether the path in it is allowed; which of "read" and "write" are in
\* it; the listed command in it; what it is as a command itself; the tool its words hint at.
\* What nothing looks at is fixed.
Tasks ==
    {t \in [class : {"filesystem", "shell", "other"}, path : BOOLEAN, words : SUBSET {"read", "write"},
            command : Listed \cup {"none"}, whole : DOMAIN Shell, hint : Tools] :
        /\ t.class = "shell" => t.hint # "filesystem"
        /\ t.class # "shell" => t.command = "none"
        /\ t.class # "filesystem" => t.path
        /\ t.whole \in Listed => t.class = "shell" /\ t.command = t.whole}

\* The agents that may ask, by the tools they are registered with.
allowedTools ==
    [runtime |-> Tools,
     api     |-> {"read_file", "list_directory", "run_safe_command", "browser_task"},
     files   |-> {"write_file", "read_file", "list_directory"},
     stores  |-> {"write_file"}]

\* tool, command and op are "none" if the request has none of them; file says that it names a
\* file to read, risky that its target sounds like a transaction.
TaskRequests ==
    [agent : DOMAIN allowedTools, task : Tasks, tool : Tools \cup {"none"}, dryRun : BOOLEAN,
     command : DOMAIN Shell \cup {"none"}, op : {"none", "read_file"}, file : BOOLEAN,
     risky : BOOLEAN, granted : BOOLEAN]

\* The first attempt of the plan that a tool would do, what the runner's attempt or the only
\* one of the adapter comes to, and whether the file can be written at the beginning and at
\* the end of the plan.
Attempts == {"ok", "failed", "throws"}
Worlds   == [okFrom : 1..4, single : Attempts, begins : BOOLEAN, ends : BOOLEAN]

\* What the policy makes of a text: the type of the task, "none" if it is not approved.
evaluateMcpPolicy(task) ==
    CASE task.class = "other"                   -> "none"
      [] task.class = "shell"                   ->
            IF task.command = "none" THEN "none" ELSE "run_safe_command"
      [] task.class = "filesystem" /\ ~task.path -> "none"
      [] task.class = "filesystem" /\ task.path  ->
            IF "write" \in task.words THEN "write_file"
            ELSE IF "read" \in task.words THEN "read_file" ELSE "list_directory"

Ask(type, command, privileged) ==
    [actionType |-> type, command |-> command, production |-> FALSE, force |-> FALSE,
     privileged |-> privileged]
Bringing(level, granted) ==
    [level |-> level, named |-> FALSE,
     approval |-> [approved |-> granted, denied |-> FALSE, expired |-> FALSE]]

\* The bridge: whether the tool answers ok, whether it ran, whether a request for approval is
\* left behind, whether it throws.  No caller hands an approval or a tenant on to it.
Result(ok, ran, asks, throws) == [ok |-> ok, ran |-> ran, asks |-> asks, throws |-> throws]
Refused == Result(FALSE, FALSE, FALSE, FALSE)

dispatchToTool(call, attempt) ==
    LET Ran(able) == Result(able /\ attempt = "ok", able /\ attempt # "throws", FALSE, attempt = "throws")
        request   == Ask("terminal_command", Shell[call.command], FALSE)
        enforced  == enforceAgentAction(request, Bringing(2, FALSE))
    IN  CASE call.type = "list_directory"   -> Ran(TRUE)
          [] call.type = "read_file"        -> IF call.file THEN Ran(TRUE) ELSE Refused
          [] call.type = "run_safe_command" ->
                IF enforced.decision = "allow" THEN Ran(call.command \in Listed)
                ELSE Result(FALSE, FALSE, enforced.asked, enforced.decision = "block")
          [] call.type \in {"browser_task", "write_file"} -> Refused

-----------------------------------------------------------------------------
(* The plan and the runner.                                                *)

inferTool(req) == IF req.tool # "none" THEN req.tool ELSE req.task.hint

ToolCall(req, reads) ==
    [type    |-> CASE inferTool(req) = "filesystem" -> IF reads THEN "read_file" ELSE "list_directory"
                   [] inferTool(req) = "shell"      -> "run_safe_command"
                   [] inferTool(req) = "browser"    -> "browser_task",
     command |-> IF req.command = "none" THEN req.task.whole ELSE req.command,
     file    |-> req.file]

\* The plan reads if the text says so, the runner if the parameters do.
createExecutionPlan(req) == ToolCall(req, "read" \in req.task.words)
RunnerCall(req)          == ToolCall(req, req.op = "read_file")

MAX_ATTEMPTS == [filesystem |-> 1, shell |-> 2, browser |-> 3]

\* What an attempt of the plan comes to: one that throws has failed.
Attempt(req, world, i) ==
    dispatchToTool(createExecutionPlan(req), IF i >= world.okFrom THEN "ok" ELSE "failed")

Nothing == [answer |-> "none", ran |-> 0, done |-> 0, asks |-> 0, plan |-> "none"]
Count(b) == IF b THEN 1 ELSE 0

\* How often a tool ran and did it, how many approvals were asked for, where the plan is in
\* the end, and the answer.
executePlan(req, world) ==
    LET Most  == MAX_ATTEMPTS[inferTool(req)]
        Good  == {i \in 1..Most : Attempt(req, world, i).ok}
        Last  == IF Good = {} THEN Most ELSE CHOOSE i \in Good : \A j \in Good : i <= j
    IN  IF ~world.begins THEN [Nothing EXCEPT !.answer = "throws"]
        ELSE [answer |-> IF ~world.ends THEN "throws" ELSE IF Good = {} THEN "failed" ELSE "ok",
              ran    |-> Cardinality({i \in 1..Last : Attempt(req, world, i).ran}),
              done   |-> Count(Good # {}),
              asks   |-> Cardinality({i \in 1..Last : Attempt(req, world, i).asks}),
              plan   |-> IF ~world.ends THEN "active" ELSE IF Good = {} THEN "failed" ELSE "completed"]

\* The runner asks first whether the agent may use the tool.
runBelTask(req, world) ==
    LET result == dispatchToTool(RunnerCall(req), world.single)
    IN  IF inferTool(req) \notin allowedTools[req.agent] THEN [Nothing EXCEPT !.answer = "throws"]
        ELSE IF req.dryRun THEN [Nothing EXCEPT !.answer = "ok"]
        ELSE [answer |-> IF result.throws THEN "throws" ELSE IF result.ok THEN "ok" ELSE "failed",
              ran |-> Count(result.ran), done |-> Count(result.ok), asks |-> Count(result.asks),
              plan |-> "none"]

handleBelRequest(req, world) ==
    LET planned == executePlan(req, world)
        again   == runBelTask(req, world)
    IN  IF evaluateMcpPolicy(req.task) = "none" THEN [Nothing EXCEPT !.answer = "refused"]
        ELSE IF req.dryRun THEN again
        ELSE IF planned.answer # "throws" THEN planned
        ELSE [answer |-> again.answer, ran |-> planned.ran + again.ran, done |-> planned.done + again.done,
              asks |-> planned.asks + again.asks, plan |-> planned.plan]

-----------------------------------------------------------------------------
(* The two routes.                                                         *)

\* The enforcement at the door, which sees the name of a tool if one is given.
AtTheDoor(type, privileged, granted) ==
    enforceAgentAction(Ask(type, "other", privileged), Bringing(2, granted))

belExecute(req, world) ==
    LET door == IF req.tool = "browser" THEN AtTheDoor("browser_action", req.risky, req.granted)
                ELSE AtTheDoor("mcp_tool_call", req.tool = "shell", req.granted)
    IN  IF req.tool # "none" /\ req.tool \notin allowedTools[req.agent]
        THEN [Nothing EXCEPT !.answer = "refused"]
        ELSE IF door.decision = "require_approval"
             THEN [Nothing EXCEPT !.answer = "approval", !.asks = Count(door.asked)]
        ELSE handleBelRequest(req, world)

\* executeMcpTask for a task the policy has read itself: its type, its command, its path.
mcpExecute(req, world) ==
    LET type   == evaluateMcpPolicy(req.task)
        door   == AtTheDoor("mcp_tool_call", type = "write_file", req.granted)
        result == dispatchToTool(
                      [type |-> type, file |-> TRUE,
                       command |-> IF req.task.command = "none" THEN "text" ELSE req.task.command],
                      world.single)
    IN  IF type = "none" THEN [Nothing EXCEPT !.answer = "refused"]
        ELSE IF req.dryRun THEN [Nothing EXCEPT !.answer = "ok"]
        ELSE IF type \notin allowedTools[req.agent] THEN [Nothing EXCEPT !.answer = "refused"]
        ELSE IF door.decision = "require_approval"
             THEN [Nothing EXCEPT !.answer = "approval", !.asks = Count(door.asked)]
        ELSE [answer |-> IF result.throws THEN "throws" ELSE IF result.ok THEN "ok" ELSE "failed",
              ran |-> Count(result.ran), done |-> Count(result.ok), asks |-> Count(result.asks),
              plan |-> "none"]

-----------------------------------------------------------------------------
(* What the routes are for.                                                *)

\* An answer of success has the work behind it, once, unless the end of the plan could not be
\* written: only then is it done twice or done and not answered so (bel-controller.ts:102-114).
OnceUnlessUnwritten(req, world) ==
    LET out == belExecute(req, world)
    IN  /\ ~req.dryRun /\ out.answer = "ok" => out.done >= 1
        /\ world.ends => out.done = Count(out.answer = "ok" /\ ~req.dryRun)
        /\ out.done = 2 => req.agent = "runtime" /\ out.plan = "active"

\* A plan that is begun is ended as it went, or stays active for good because its end could
\* not be written: nothing takes an active plan up again (bel-state-store.ts:58-79).
PlanEndsAsItWent(req, world) ==
    LET out == belExecute(req, world)
    IN  /\ out.plan = "active" <=> out.plan # "none" /\ ~world.ends
        /\ out.plan = "completed" => out.done = 1
        /\ out.plan = "failed" => out.done = 0

\* Files are looked at once, a command is run twice and no more, and not again once it was
\* done; a third run takes the fall back (bel-retry-policy.ts:3-11).
RunsBounded(req, world) ==
    LET out == belExecute(req, world)
    IN  out.ran <= MAX_ATTEMPTS[inferTool(req)] + Count(~world.begins \/ ~world.ends)

\* A dry run touches nothing, by either route.
DryRunsRunNothing(req, world) ==
    req.dryRun => /\ belExecute(req, world).ran = 0 /\ belExecute(req, world).plan = "none"
                  /\ mcpExecute(req, world) \in {[Nothing EXCEPT !.answer = a] : a \in {"ok", "refused"}}

\* But it does not tell how the task would go: it fails for whoever is not registered with the
\* tool, where the plan does not ask for that (bel-task-runner.ts:32-34).
DryRunMisleads(req, world) ==
    /\ req.dryRun /\ belExecute(req, world).answer = "throws"
    /\ belExecute([req EXCEPT !.dryRun = FALSE], world).answer = "ok"

\* What asks for an approval on the way is not done, whatever the world and the approval at
\* the door: the approval is not handed on, and a plan asks once more for each attempt
\* (bel-execution-runtime.ts:36-71, 85-113).
AskedInVain(req, world) ==
    LET out == belExecute(req, world)
    IN  out.asks > 0 => /\ out.done = 0 /\ out.answer # "ok"
                        /\ inferTool(req) = "shell" /\ world.begins /\ out.answer # "approval" => out.asks >= 2

\* Of the listed commands those that the enforcement does not call safe are approved by the
\* policy and run by neither route; and neither route ever drives a browser
\* (mcp-policy.ts:14, action-classifier.ts:3-11, mcp-tool-policy.ts:36-45).
NeverRun(req, world) ==
    /\ evaluateMcpPolicy(req.task) = "run_safe_command" /\ req.task.command = "test"
       => mcpExecute(req, world).ran = 0
    /\ \/ inferTool(req) = "browser"
       \/ inferTool(req) = "shell" /\ createExecutionPlan(req).command = "test"
       => belExecute(req, world).ran = 0

\* The fall back may do something else than the plan: list where that would have read.
FallsBackElsewhere(req) ==
    /\ evaluateMcpPolicy(req.task) # "none" /\ inferTool(req) = "filesystem"
    /\ createExecutionPlan(req).type # RunnerCall(req).type
=============================================================================
