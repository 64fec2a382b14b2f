# AJ Digital OS: a TLA+ model of its lifecycles

AJ Digital OS runs content work for several brands: it drafts, asks a human for
approval, publishes files, executes plans and commands, and keeps all of its state in
JSON files that the command line, the web shell, webhooks and a Telegram bot read and
rewrite without locks. This directory models the parts of it that decide something and
can go wrong in an order nobody wrote a test for. Paths below are relative to the
TypeScript root `src/src/` unless they begin with `docs/`, `tests/` or
`sql/`; `README.md:68` below is the repository's own.

Contents: [the system](#the-system), [the modules](#the-modules),
[the runs](#the-runs), [the proofs](#the-proofs),
[what the code does against its own words](#what-the-code-does-against-its-own-words),
[what is not modelled](#what-is-not-modelled), [the plan](#the-plan).

## The system

### How it hangs together

```
 task ──> orchestrator ──> RUN RECORD  <── approval resolver <── webhook, CLI, bot
                              │  ^
                              │  └── execution coordinator > resumer > agent > publisher ──> files
                              v
            deliverable recorder / lifecycle ──> DELIVERABLE REGISTRY + output files

 command lane ──> IDEMPOTENCY MAP, EVENT LEDGER        security approvals ──> APPROVAL MAP
 DAG routes, CLI, lead-to-offer workflow ──> DAG RUNS FILE
 schedules ──> bridge ──> mission controller > pipeline runner ──> MISSION ROWS
     ^           ^                                                    │
     │           └──────────── repair engine <── failure watcher <────┘
     │
 Stripe ──> webhook ──> CLIENT, SUBSCRIPTION, AGENT, MISSION AND SCHEDULE ROWS
 runs of a client ──> proof cycles ──> PROOFS ──> expansion ──> ASSETS <── operators, publishing poll

 every write, command and tool ──> permission enforcement ──> carried out | blocked | approval asked for
```

Everything in capitals is a file (or a table) that more than one process works on. One
process is one Node event loop: what lies between two awaits is atomic in it; across
processes nothing is. There are two ways of saving. The older stores call `writeFile` on
the record itself, which truncates and then writes; the newer ones write a temporary file
and rename it. Neither takes a lock, so each update is a read, a check and a blind write.

### Inventory of the modelled components

**Content run lifecycle** (`core/run-store.ts`, `core/run-manager.ts`,
`agents/orchestrator.agent.ts`, `services/approval/approval-resolver.ts`,
`services/execution/*`, `agents/publisher.agent.ts`).
State: one JSON record per run (status, approval status, revision count, workflow result,
published paths) and the published files.
Operations: create, seven orchestration updates, approve / reject / ask for a revision,
execute through up to four layers, each of which can be entered directly.
Hard: every `update` is an unlocked read-check-write; the layers check one snapshot and
act on another; files are written before the run is marked; a save can be cut short.
Correct when: nothing goes out without a recorded approval; a record is never a mix of two
decisions; a decision stands; a run marked executed has all its files.

**Command lane** (`core/commands/command-executor.ts`, `core/idempotency/*`,
`core/policy/policy-engine.ts`, `core/events/event-ledger.ts`).
State: the map from idempotency key to record in one file; the append-only ledger.
Operations: submit (schema, duplicate check, policy gate, start, handler, success or
failure), purge, expiry.
Hard: a handler outlives the TTL of its record; a write throws before or after it has
truncated the map; a read fails and counts as the empty map; the process dies inside the
rewrite; two processes.
Correct when: a key's work is under way once at a time and, until its record lapses or a
failed write or read of the map loses it, done once.

**DAG runtime and lead-to-offer workflow** (`bel/dag/dag-runtime.ts`,
`bel/dag/dag-store.ts`, `hermes/hermes-status-api.ts`, `commands/dag-*.ts`,
`workflows/lead-to-offer.workflow.ts`).
State: per run a status per node, attempts per node and a status of the run; the copy of
the run that each request, and the workflow for its whole length, holds.
Operations: create, execute one pass, execute to completion, with force, retry, skip,
complete and fail a stage.
Hard: saves that throw are swallowed, stale copies are saved whole, gates, skips in any
status, nodes skipped and ready at once, deaths in the middle of a pass.
Correct when: the run's status is the one of its nodes; on record a completed node has its
parents behind it; nothing passes a gate; a run that ends says why; no node is left on record
that is neither over nor ready, waiting or retryable.
The validator a plan passes first (`bel/dag/dag-validator.ts`) keeps no state; it is correct
when it lets through exactly the plans that have no cycle and nothing out of reach.

**Security approvals** (`security/approvals/*`, `security/persistence/json-file-store.ts`,
`security/permissions/enforcement-engine.ts`, `telegram/telegram-bot.ts`).
State: a map from id to request in each process, loaded once; the file the maps are saved
to; the files of the saves that are under way.
Operations: create, approve, deny, list, the expiry of what is overdue when it is looked at.
Hard: maps of several processes never meet again; a process may load twice at once; a read
that fails counts as an empty file; saves are renamed out of order; a save that throws leaves
its map changed.
Correct when: an answer is recorded only if it was given; what was told to somebody stays
true of the process that told it; one answer per request.

**Mission control** (`agent-roles/*`).
State: of a mission the status, plan, output and verdict; of its pipeline the stage, the
attempt, the rejections and the list of results.
Operations: the end of a wait for a handler (done, failed, too late, thrown) and all that
follows from it: a retry, the next stage, a rejection that sends the executor back, a round
of escalation, the sentinel's pass, the end.
Hard: a time-out does not stop the handler; results are looked up in a list that retries and
rejections extend; a failed pipeline leaves its results in the state.
Correct when: what a completed mission delivers is what its auditor accepted last; a verdict
is not asked for twice; work is bounded; every mission comes to one end.

**Hermes: schedules, mission records, failure watcher and repair**
(`hermes/hermes-scheduler.ts`, `hermes-bridge.ts`, `missions/mission-db-hooks.ts`,
`hermes-failure-watcher.ts`, `hermes-repair-engine.ts`).
State: the missions under way, the counter their ids are made of, the table of mission runs,
the set of failures seen, where each poll stands and what became of each repair.
Operations: a schedule is due, a mission ends, its row is made and updated, a poll asks and
is answered, a repair begins, runs its mission again, gives up; stop, start, death.
Hard: polls overlap while a repair is awaited inside one of them; a restart forgets what was
seen and counts ids from 1 again; any request to a table may fail and nobody minds.
Correct when: a failure is repaired once; retries do not breed retries; a repair reports the
end its own missions had; a failure among the newest on record is taken up.

**Distribution and scheduled publishing** (`hermes/missions/generate-case-study.ts`,
`generate-performance-report.ts`, `expand-distribution-assets.ts`,
`publish-scheduled-assets.ts`, `services/distribution.ts`).
State: the proofs and the assets made of them, in tables; what each cycle has yet to do.
Operations: store a report, check milestones and store a case study, expand a proof into an
asset per channel, approve and schedule an asset, poll for what is due and publish it.
Hard: each cycle looks up what is there and inserts blindly; the lookup is limited and its
failure counts as "nothing there"; the poll patches by id what it read some time ago.
Correct when: a copy has a failed lookup behind it; an asset goes through the queue in
order, not before its time, and what is scheduled comes out.

**Client provisioning** (`api/stripe.ts`, `api/stripe-handlers.ts`,
`services/provisioning.ts`, `hermes/hermes-client-schedules.ts`).
State: the events on record; rows of the client, its subscription, agents, missions and
schedules; the schedules in memory.
Operations: an event is delivered, looked up, recorded, handled (checkout, creation, update,
failed payment, deletion), its handler throws, the client is entered, each of the inserts of a
checkout made or refused; restart.
Hard: Stripe delivers again and in any order; the event is recorded before it is worked on;
missions are inserted without looking; any request may fail and none is taken back.
Correct when: a client has each mission once per checkout on record; an event on record is
worked on, or was lost with its process, or had a handler that threw or could not enter the
client; a client whose checkout came to its end has all it paid for but what was refused.

**Permission enforcement** (`security/permissions/*`, `mcp/mcp-secure-executor.ts`).
State: none but the requests it creates. Operations: classify a request, judge it by level,
match it with its approval, carry it out, block it or ask.
Hard: three tables that have to agree, and a second way in through the tools.
Correct when: risk takes a live approval, levels are never made up for, asking is of use.

**Model routing and roles** (`model-routing/*`, `agent-roles/handlers/*`).
State: none. Operations: choose a provider for a task, dispatch to it, escalate once; judge
the output of the stage before (validator), report on checks (monitor).
Hard: preference, weight, constraints and escalation each change the choice, in an order.
Correct when: what must stay on the machine stays there, by every way; an answer has a
provider behind it.

**Control-plane registry and canonical table** (`control-plane/run-registry/*`, `core/state/*`).
State: a control state per run. Operations: eight actions by three kinds of callers.
Hard: the record is read before the enforcement is awaited and written after it; five gates
in a row; two tables of the same states.
Correct when: actions follow the table, name a tenant, and the tables agree.

**Tasks for tools: BEL plans and MCP** (`bel/bel-*.ts`, `mcp/*`).
State: active and ended plans in one file. Operations: `/bel/execute`, `/mcp/execute`: judge a
text, pass the enforcement, plan, attempt with retries, end the plan, fall back to the runner.
Hard: a throw after the last step looks like one before the first; four tables of tools and
commands; approvals that are not handed on.
Correct when: an answer has its work behind it, once; a plan ends as it went; a dry run is dry.

**Governance, decision, offer and content engine** (`governance/*`, `decision/*`,
`apps/offer-engine`, `apps/content-engine`).
State: the offers, briefs and publications that are saved. Operations: judge a text, an
offer, a list of steps, an action of a role; score; save what is not blocked.
Hard: the outcome of a request is put together from five judgements, each changed by the
client's overrides; scores are banded and raised by other scores.
Correct when: no part hides another; a client only tightens; what is saved as approved needed
no approval; a better score never leads to less.

**Cache (CAL)** (`cache/*`).
State: entries by key, with scope and age. Operations: look up, write, invalidate; planning
and scoring through the cache.
Hard: key and scope are made of different parts of the caller.
Correct when: a hit is the caller's own and current, whatever others wrote under its key.

**Retrieval** (`retrieval/*`).
State: chunks with namespace and tenant. Operations: ingest, search.
Hard: the policy is on the request, the filter on the chunk; naming nothing widens both.
Correct when: nobody finds another tenant's documents, and everybody finds its own.

**CRM** (`crm/*`, `db/crm-tenant-context.ts`).
State: contacts, leads and opportunities by tenant, in one file or in rows; the audit lines.
Operations: resolve a context; create and update through the service.
Hard: an update is a read and a write of what was read, of everything in the file, of one row
in the database; the audit line comes after the record and may fail alone.
Correct when: a context is earned; a call changes one record of its tenant; of two creates of
an id one is taken; whatever answers ok was allowed, done and noted.

**Assistant, conversations and memory** (`services/runtime/assistant-runtime.ts`,
`conversation/*`, `memory/semantic-memory-*`, `brands/*`, `skills/*`).
State: threads and their turns, chunks of memory, a file each. Operations: run a request as
advice or as a governed run, stitch its context, record the exchange, index it.
Hard: a request is put together from a brand, a profile, a thread, a skill and a workflow, each
found or not on its own, and each may lift or add a limit; the context has a limit of its own.
Correct when: only a request nothing is wrong with does anything, in a mode its profile has;
what a client or a thread said is found by no other; the context keeps its limit.

**Approval and execution webhooks** (`api/approval-webhook.ts`, `api/execution-webhook.ts`,
`security/webhook-*.ts`). State: nonces and ids that were seen, in memory. Operations: verify
headers, time and signature, enter the delivery, read its body, do the work.
Hard: a delivery is entered before its work and stays entered; entries expire; a restart forgets.
Correct when: work is done for a fresh signed delivery only, once, and deliveries do not get in
each other's way.

**Telegram** (`control-plane/*.ts`, `telegram/telegram-bot.ts`). State: the last update known, in
memory; the timer of the bot's loop. Operations: poll, handle a command, start, stop.
Hard: the process dies in a batch; updates that cannot be read; stop and start during a poll.
Correct when: no text is lost, each is handled once but for deaths, one loop runs, and only the
listed have anything done.

**Browser agent** (`browser-agent/*.ts`) and **local agent** (`local-agent/*.ts`). State: a
session file; the files a task writes. Operations: a job of steps or of a model's replies, a
capture of a login; a task with its mode, paths, writes and checks.
Hard: replies that are refused, repeated or fail; one write of several that fails.
Correct when: the work is bounded, ok means untroubled, sessions and files are kept with reason,
nothing is written out of place, a patch keeps what it does not name.

**Workflow runner and its memory** (`workflows/workflow-runner.ts`, `workflows/orchestrator.ts`,
`memory-runtime/*.ts`). State: run logs, the day's log, mistakes, one working context.
Operations: tell a run what was before, run steps up to the first that fails, store, write down
how it ended.
Hard: a hook that stops writing half way; logs found by the order of random names.
Correct when: the next run is told of the last one, and of failures as failures.

**Content workflows** (`workflows/transcript-to-content.workflow.ts`, `blog-authority.workflow.ts`,
`services/observability/run-summary.ts`). State: the events of a run. Operations: ask a model,
read its answer, fall back section by section, leave events, sum them up.
Hard: any event may not be recorded; an answer may be of use in part.
Correct when: what the summary says of the model is what became of its answer.

**Run observability** (`run-tracker.ts`, `run-dashboard.ts`, `commands/list-*.command.ts`). State: a
file of events per run. Operations: track, list, count, compare a day with a week.
Hard: two tracks at once; files that cannot be read; limits applied before and after a selection.
Correct when: events are kept, one bad file hides no other run, a list is the newest of its kind.

**Database migrations** (`db/migrator.ts`, `sql/*.sql`). State: the schema and a ledger of applied
files. Operations: make the ledger, read it, apply a file statement by statement, enter it.
Hard: a request that is refused, lost or never made, with no transaction around a file; two runs
at once; a statement that cannot be repeated.
Correct when: what is entered was applied, in order, and a run can be repeated.

**Deliverable lifecycle** (`core/deliverable-store.ts`,
`services/runtime/deliverable-lifecycle.ts`, `services/runtime/deliverable-recorder.ts`).
State: a record file per deliverable; the root its output file lies in; the run behind it.
Operations: record (and submit at once), submit, approve, publish, publish through the
publisher, record the published run.
Hard: the file is renamed before the record is saved and never moved back; three separate
reads of the record per call; a read of one record parses all of them, so a record being
written fails everybody's reads.
Correct when: one operator moves a file; the file stays at its record or one root ahead;
nothing lies in the published root without approval; a save never lands on a later one.

### The other components

Without a protocol of their own, and left out: metrics, logging and replay, the Hermes status
router and most report missions, tenancy and agent registries, audit logs, database adapters,
attribution, intelligence, normalization, connectors, preflight checks, dashboards' rendering, the
command line, the web shell, static registries, object storage and secrets, scripts, and the gate that
checks commits against their charters. The repository pruner (`src/skills/repo-pruner`, copied in
`src/plugins/aj-prune`), a command beside the system, has no module yet.
`PROJECT.json` has an entry with sources and the reason for each.

## The modules

| Module | Models | State |
|---|---|---|
| `ApprovalLifecycle` | what a run promises about approval, in two variables | `phase`, `published` |
| `RunLifecycle` | one run's record, the orchestrator, deciders and executors | `form run artifacts granted`, per actor `pc goal staged count written` |
| `CommandExecutor` | the command lane, its map and ledger | `records ledger`, per submission `command pc op snap answer` |
| `DagRuntime` | one DAG run, its requests and the workflow | `present saved`, per process `pc mode copy queue iter target`, workflow `stage blocked own` |
| `DeliverableLifecycle` | deliverables, their files and runs | `registry artifact run`, per operator `call pc held` |
| `DagValidation` | the validator of plans: operators, no state | |
| `SecurityApprovals` | the approval requests of several processes and their file | `file map call due late fresh restarts failures` |
| `Permissions` | classification, policy, gate and enforcement: operators, no state | |
| `ControlActions` | the control-plane registry and the canonical table: operators on states | |
| `ModelRouting` | the choice of a model, the requests of the roles, the validator: operators, no state | |
| `ToolTasks` | BEL tasks and MCP tasks: operators on a request and the world it meets | |
| `Crm` | contexts, permissions and the two stores of the CRM: operators on calls and records | |
| `Assistant` | requests to the assistant and their context: operators on a request and the records it meets | |
| `Webhooks` | signed deliveries: operators on a delivery, what was seen and the time | |
| `Telegram` | polls, loops and commands: operators on updates and events | |
| `BrowserAgent` | jobs and sessions: operators on a job, the world and the model's replies | |
| `LocalAgent` | tasks and their files: operators on a task and the world | |
| `WorkflowMemory` | a run of steps and what is remembered of it: operators on a memory | |
| `ContentWorkflows` | answers, content, events and their summary: operators, no state | |
| `RunViews` | tracks of events, dashboard and lists: operators on files | |
| `Migrations` | runs of the migrations: operators on a database | |
| `Governance` | policies, scores and the two engines: operators, no state | |
| `PlanCache` | the cache: operators on a store | |
| `Retrieval` | the documents: operators on a set of chunks | |
| `MissionOutcome` | what a mission promises: one end | `outcome` |
| `MissionControl` | one mission and its pipelines | `mission pipe state outputs strays rejected accepted` |
| `Hermes` | schedules, mission rows, watcher, repairs | `runs missionSeq rows watching seenFailures poll repairs clears` |
| `Distribution` | proofs, assets, the cycles that make them and the poll that publishes | `proofs assets teller expander publisher lapses` |
| `Provisioning` | one client with one subscription, as Stripe tells of it | `unnamed unfit recorded client subscription agents missions schedules kept keeping delivery over lost dropped refused lapses` |
| `MC...` | the instances that are model-checked | |
| `...Proofs` | theorems and their proofs | |

All modules follow one convention. An actor is a call in flight; `pc` names the await it
has reached; an action is the code from one await to the next, with every state change and
early return in it. What a call holds in its locals is a variable (`staged`, `snap`,
`copy`, `held`), so that what is stale is visible. A file has a shape of its own next to
its last whole content: `form` in `RunLifecycle`, `present` in `DagRuntime`, the values
`Empty` and `Torn` in `DeliverableLifecycle`. Definitions named `X_Something`, preceded by
the words "Wrong on purpose", are mutations of `X`; no specification uses them, and each
property is known to fail when its mutation takes the place of the original.

### RunLifecycle

- `UpdateRead`, `UpdateRefused`: `RunStore.update` up to the save: `store.get`,
  `assertValidTransition` on that snapshot, `buildUpdatedRun`.
- `SaveOpen`, `SaveWrite`: `writeFile` truncates, then writes. If another save has written
  since the truncation, a longer text may stick out behind the new one: `garbled`.
- `CreateRun`, `Orchestrate`, `OrchestrateReturn`: `orchestrateTask`, with `NextGoals` for
  the order of its updates. It stops at `validation_failed`, at `pending_approval`, and, for
  a run that needs no approval, at `validation_passed`.
- `ApprovalRequest`, `Resolve`, `ResolveRefused`, `markRevisionRequested`: the resolver's
  own pending check, the additional read for the revision count, then the update.
- `ExecutionRequest`, `Coordinate`, `Resume`, `Execute`, `Publish`: the four layers; each
  reads the run again and each can be where a request comes in.
- `WriteArtifact`, `ArtifactsWritten`: one file at a time, then `markExecuted`.
- `Fail`: an await rejects or the process dies, anywhere; a file being written may be torn.

Slots of `Deciders` and `Executors` are requests in flight together, not people: a slot
that has finished may be used again without limit, so a run sees any number of requests one
after another. The content of the result, the brand's rules and all messages are left out.

`KeepsPromise` is the refinement: `ApprovalLifecycle` with `phase` read off the status and
`published` off the files.

### CommandExecutor

`Refuse`, `Deduplicate`, `GateRefuses` and `Admit` are the synchronous part up to
`recordCommandStart`; `Load`, `LoadMissing`, `Open`, `OpenFails`, `Put` one update of the
map, used for start, success and failure (`op`); `RefuseFails` an event of a refusal that
cannot be written; `HandlerReturns`, `HandlerThrows`, `Catch`
the part after the await. `MayRun` says that the submissions of one process do not
interleave there, since nothing in it awaits; submissions of two processes do, at every
file access. `Expire` is time passing the `expiresAt` of a record, `Purge`
`purgeExpiredIdempotencyRecords`, `Crash` the death of a process. A map that does not parse
reads as the empty map, so a file caught between truncation and write is `EmptyMap`.

`writeFileSync` may throw before the truncation (`OpenFails`) or after it (`PutFails`,
`PurgeFails`), when every key is lost with its process alive; `readAll` takes a file it
cannot read for the empty map, in the check of the key (`AdmitBlind`) and in an update
(`LoadBlind`), whose write then drops all other keys. The history `gone` has the submissions
whose record such a fault, or a death inside the rewrite, took or hid. Both properties except
them and the lapsed ones (`Excused`), and nothing else.
The gate is `evaluateActionRisk` with the lists of the policy files in `runtime/policies`.

### DagRuntime

The functions of the runtime are operators on a run record (`getReadyNodes`,
`SkipBelowFailed`, `transitionNodeStatus`, `Counted`, `Reset`, `Retried`); requests are
`Receive...`, `BeginPass`, `HoldAtGate`, `StartNode`, `FinishNode`, `EndPass`, `Finish`,
`retryNode`, `skipNode`. `Save` is `saveDagRun` in the `try` block that swallows what it
throws (`DiskMayFail`), before it has truncated the file or after it. The node status *running* exists in a copy only, for `executeNode`
does not save before its handler is done. The workflow is `StageCompletes`, `StageFails`,
`WorkflowEnds` on a copy of its own, `own`. The last stage is the attribution, whose failure is
caught without a mark on its node. `Crash` may leave the file truncated, which reads as "no
runs".

Abstractions: the file holds one run; the cache hook, which always
misses, the audit and output files and the attribution events decide nothing and are left out;
the plan is a valid one. A CLI process serves one request; several in a row are one process
here.

### DeliverableLifecycle

`recordAssistantResult`, `publishDeliverable` (its own read), `ReadRecord`,
`moveOutputArtifacts`, `storeTransition` (the second read), `OpenForWrite`, `SaveFails` (the
write throws before the truncation), `WriteFails` (it throws after it: the record stays empty or
torn, with its process alive), `WriteRecord`, and the publisher's side `LoadRun`, `WriteOutputs`, `MarkExecuted`,
`FindByRun`, `recordPublishedRun`. `RegistryReadable` is the guard of every read, since
`listAll` parses all records. Ids are fresh per call, so each deliverable is recorded once.

Abstractions: one output file per deliverable; the run side is abbreviated to what the
publisher asks of it, as `RunLifecycle` has it in full; the record made for a run that has
none, indexing and outcome sync (errors swallowed) are left out.

### DagValidation

`detectCycle` with `dfs`: the three pieces of state all calls of the search share are the
fields of `search`, threaded through the folds over nodes and neighbours. `Errors` is
`validateDagPlan` as the set of the kinds of its errors. Warnings and risk flags are left
out. `DagRuntime` assumes its plan to be valid; `PlanPasses` has the plan of its instance
go through this validator.

### SecurityApprovals

A call is `Ask` (an agent's action creates a request) or `Order` (an operator answers one or
lists them). It finds the map of its process (`Warm`) or reads the file (`Read`) and installs
what it read (`Install`), even if another call has installed a map since. `Work` is then the
whole of `Create`, `Answer` or `List` down to the snapshot that `Save` takes; the file is
replaced by it in `Rename`, or the write throws in `Throw`, which leaves the map changed.
`Expire` is time passing `expiresAt`. `Restart` ends a process with its calls and its map.

A read that fails, or finds something that is no JSON, is tolerated: `readJSON` returns null, the
store takes that for no requests, and the next save of the process writes a file without all the
others. That is `ReadInVain`; the decisions its process had confirmed leave `fresh`.

`Line` says which calls are made one after another: the bot takes one message at a time; a
command line is a process of its own. `late` and `fresh` are history. The file is there from
the start. Left out: `cancelApproval`, `updateStatus` and `canUseApproval`, which nothing
outside the tests calls, and the store on Neon (`db/neon-approval-store.ts`), which nothing
constructs but its own factory.

### Permissions

Operators only: `classifyAgentAction`, `evaluatePermissionPolicy`, `evaluateApprovalGate`,
`mapDecision`, `enforceAgentAction`, `executeWithEnforcement`, and the way in through a tool,
`mcpSecureExecute`. A text is what its pattern makes of it: a command is the list that
matches first, a target is of production or not. `WritesPass` is why the other modules do
not mention the enforcement: what the record stores and the publisher write is always let
through, so it is part of the write.

### MissionControl and MissionOutcome

A step is the end of one wait for a handler (`Done`, `Fails`, `TimesOut`, `Throws`) with all
that follows until the next handler is called: `Conclude` appends the result, then `Retry`,
`Advance`, `Reject` (the executor runs again, `rerun`), `Redelivered`, or the end of the
pipeline, which is `PrimaryDone`, `PrimaryFailed` or a `Round` of escalation.
`applyPipelineToState` takes the last result of each role, a failure's null included. Outputs
are numbers in the order they are made, so "the very output that was accepted" can be said.
`strays` counts executors the timer has given up on; nothing stops them. Contents, timings and
the notes a rejection hands on are left out.

`Missions` may hold any missions whose stages are those of a template: the options of a template
leave the limit of escalations to the caller. A template's own are `Full`, `Review` and the rest.

`ComesToOneEnd` is the refinement: the mission implements `MissionOutcome`, fairness included
(`OneEnd` is its part without), and a mission of `Hermes` is no more than that, which
`HermesSeesOneEnd` states.

### Hermes

`TriggerFromSchedule`; `MissionEnds` and `UpdateMissionRunStatus`, the two hooks, each of which
may fail; `Ask`, `Answer`, `NoAnswer`, a poll of the watcher; `BeginRepair`, `RetryMission`,
`NoMission`, `Retried`, `GiveUp`, the repair that poll awaits; `StopHermes`, `StartHermes`,
`Die`. A mission's id is made of the day, its type and `missionSeq`, which begins at 1 again
in each process: `ref`. Rows from elsewhere (`Linked`) name their mission; the rows of the
hooks (`HookRow`) do not, which is why a retry that fails is not itself retried. `created` is the
order in which rows were made; a poll gets the `FetchLimit` newest of the failed ones (`Newest`),
20 by default in the code. `AutoRepair` is the option of that name, which is off by default: a
watcher without it marks what it sees and repairs nothing (`ToRepair`). Left out: message texts
and the record a repair leaves of itself.

### Distribution

The cycles are `CheckMilestones`, `LookUpStudy`, `StoreStudy` for case studies, `StoreReport`
for reports, `ListProofs`, `Dedup`, `BuildVariants`, `SaveVariant` for the expansion; a lookup
that fails (`LookUpStudyFails`, `DedupFails`) or comes back short (`Found`) is counted in
`lapses`. The operators are `Approve`, `Schedule`; `TimeComes` is the time of an asset; the poll
is `Poll`, `Publish`, `PublishFails`. `Die` stops all that is under way. Left out: texts,
metrics, the limit of 100 newest proofs, and the missions that only compute scores.

### Provisioning

`Webhook` is `handleStripeWebhook` up to the handler: `Deliver`, `SkipDuplicate`, `LookUp`,
`Record`, `RecordFails` ("proceeding anyway"). `Provision` is the handler of a checkout with
`provisionClient`: `Enter` and `EnterFails`, which make the client of a checkout without
`client_id` or fail to, `Subscribe`, `ListAgents`, `InsertAgent`, `InsertMission` one row at a time, each of which may fail, `Seed`,
`Activate`. `OtherEvents` are the handlers of creation, update, failed payment and deletion.
`Keep` is the write of the schedules nobody waits for; `Restart` restores them from their rows.
The order of the inserts within a kind is left open.

What an event carries is fixed from the start: `unnamed` are the checkouts without `client_id`,
which the session route makes when it is given none (`hermes/hermes-status-api.ts:899`), and
`unfit` the events on which a handler throws: a tier no plan has (`ThrowOnTier`,
`services/provisioning.ts:113`) or a period that is no date (`ThrowOnDate`,
`api/stripe-handlers.ts:179`, `:214`). The route answers 500 to these, and the delivery Stripe then
makes is skipped, since the event is on record. A checkout that cannot enter its client ends there
with a 200. Both go into the history `dropped`, not into `over`.

Left out: a second client, which a checkout without `client_id` makes when its address gives a name
nobody has yet though the client is there under another one; messages; the content of the folder.

### ModelRouting

`resolveRoute` is the policy, `dispatched` the router with isHeavyTask's preference before and
the escalation after it, `Usable` the options a dispatch throws without, `routeModelTask` what
the caller gets. A request is its constraints and whether the task is heavy; the world is the
set of providers that answer. `PlannerRequest`, `ExecutorRequest`, `LocalAgentRequest` are the
requests the code makes, so the handlers of `MissionControl` answer as `ExecutorStaysLocal` and
`AgentsKeepTheirPlace` say. `validatorOk` and `runCheck` are the validator's, `monitorOutput`
the monitor's. Left out: prompts, memory, answers, the texts of warnings.

### ControlActions

`executeControlAction` is the call up to its write, with its gates in their order and
`Permissions` for the enforcement; `updateControlState` the write, which looks at the record
it finds no more. That the two are functions, of the state read and of the state found, is
what lets `LeavesTable` put two calls on top of one another. `CanonicalTransitions`,
`validateStateTransition` and `deriveRunStatus` are the canonical table and its rollup. Left
out: audit lines, creation (only tests create a record), the file.

### ToolTasks

`belExecute` and `mcpExecute` are the two routes, `executePlan` the plan with its retries,
`runBelTask` the older runner, `dispatchToTool` the bridge with the enforcement of
`Permissions`. A world says which attempt of a plan succeeds, what a single one comes to and
which writes of the plan file fail; one process reads and writes that file in one step, so a
request is a function of these. Left out: sessions, logs, the file as two processes see it.

### Crm

`resolveCrmTenantContext` makes a request a context or none, `assertActionAllowed` asks for
permission and approval. `FileWrite` and `RowWrite` are the second step of a call in either
store, from what its first step read; `Alone` and `Both` put the steps of one and two calls
together, `Perform` the service around them. A transaction is a read of what is committed and
a write: a second insert or update of one row waits for the first transaction, which the
isolation of the database gives. Left out: reads, schemas, row level security, the collection
in memory.

### Assistant

`run` is a request from its refusals (`RefusedFor`) over skill, workflow and mode to what was
started; `ThreadOf` is the thread it uses or makes, in which the exchange is recorded whatever
came of it. `listTurns`, `tryInclude`, `matchesFilters` and `DeliverableFits` choose what goes
into the context, `indexText` writes a text over its former one. `RefusedFor` stands for the
errors of a resolution, of which a model profile has two. Left out: the route of a model
profile, scores, sessions, failing writes, prompts, the empty task, which is refused outright.

### Webhooks

`RefusedEarly` has the checks before the store is asked, in their order, `checkAndStore` the store,
`Handle` what follows; the two handlers differ in the bodies they can read. Time goes in half
seconds, since a timestamp has whole ones. Left out: the route and how headers and bodies are read.

### Telegram

`Poll` handles a batch up to where the process dies; `ListenerTakes` and `BotTakes` are what the
control plane and the bot make of an update, `Confirmed` and `getUpdates` the service. `Fire` and
`Land` are the begin and end of a poll in the bot's loop. `handleCommand`, `botCommand` are the
commands; what a decision does to an approval is `SecurityApprovals`'. Left out: texts.

### BrowserAgent and LocalAgent

`loop` folds `Advance` over the model's replies, `runWorkflow` and `runDirectExtract` say what is
kept of a job; `runLoginSessionCapture` is the second workflow. `runLocalAgentTask` puts together
`mapTask`, the paths, the writes in their order and the checks; `patchEnvFile` works on lines. Left
out: pages, prompts, extraction, the texts that are written.

### WorkflowMemory

`executeWorkflow` is a run from its steps to its last hook, which writes as many of its files as
the world lets it; `History` is one run after the other; `beforeRun` is what the next is told.
An id is a number, in the order of the files' names. Left out: cutting to a budget, policies other
than the default, runs at the same time.

### ContentWorkflows

`execute` is either workflow, `Events` what it hands to the orchestrator, `Recorded` what the
tracker kept of that, `deriveModelExecutionSummary` what is made of it. Content is where it comes
from. Left out: `previousStepOutput`, prompts, texts.

### RunViews

`track` is one step of a track, of which two go on in any order over a file that is emptied and
filled; a text over a longer one leaves its end. `getDashboard` has the lists and the counts, the
commands cut them again. `deriveTrendStatus` compares two rates without dividing. Left out:
filters, providers, DAG runs, rendering, rounding at the threshold.

### Migrations

`Request` is one request of a run and its answer, `Settle` the files it passes over without one;
`runMigrations` is a run whose requests are refused, lost or not made somewhere, `Together` two in
any order of turns. The shipped files are a few statements of each, those that decide whether they
can be applied. Left out: how a text is split into statements.

### Governance

A text is what is found in it (`Texts`), a category the lists that have it (`Categories`), a
client its file of overrides (`Overrides`). Each policy makes a `Judgement` of them;
`deriveOverall` makes one outcome of all. `calculateMapScore`, `MapDecision`,
`compoundDecisionPath`, `applyDecisionPolicy` are the decision engine; efficiency is counted in
halves, so that it is an integer. `createOffer`, `createContentBrief`, `publishContent` say with
which status something is saved, `WorkflowOffer` and `governanceCheck` are what the
lead-to-offer workflow asks. Left out: how patterns match, attribution, the stores.

### PlanCache

A store is a function from keys to entries, a caller its scope. `cached` is a planning or a
scoring through the cache: look up, and write unless that was a hit. Left out: high risk
callers of which there are none, the two processes that may write the file at once, audit.

### Retrieval

`Stored` is all that ingesting can ever have stored; `searchRetrieval` has the sets of chunks a
search may return, any choice of the best up to its limit. Left out: splitting, scores, traces.

## The runs

A run named *pass* holds in every reachable state of its instance. The instances are small
on purpose: a property that needs two stale reads needs two actors, and one more is there
to have somebody act in between.

| Run (cfg) | Instance | States | Shows |
|---|---|---|---|
| `run_races` (`MCRunRaces`) | orchestrator, 2 concurrent deciders, 1 executor, 2 files | 23 332 | `PublishedOnlyAfterApproval`, `RecordCoherent`, `RevisionCountExact`, `ExecutedMeansWritten`, `DecidedStaysDecided` |
| `run_one_decider` (`MCRunOneDecider`) | 1 decider, 2 concurrent executors, 1 file | 12 520 | `KeepsPromise` (the run implements `ApprovalLifecycle`), `TableRespected` |
| `exec_one_process` (`MCExecOneProcess`) | 2 submissions in one process, every command the gate tells apart, failing reads and writes | 281 042 | `TypeOK`, `SingleFlight`, `AtMostOnce` |
| `dag_processes` (`MCDagProcesses`) | 4 nodes, a gate on one of two branches that meet again; the server and a command line | 1 811 973 | `GateHolds`, `RecordInOrder`, `FinishExplained` |
| `dag_workflow` (`MCDagWorkflow`) | the last 4 stages, workflow and requests in one process, failing disk | 315 721 | `StatusDerived`, `NeverStuck` |
| `deliverables` (`MCDeliverables`) | an advisory deliverable and one of a run, 3 operators, saves that fail before and after the truncation | 662 706 | `OneMover`, `ArtifactNearRecord`, `PublishedRootApproved`, `RecordCatchesUp` |
| `approvals` (`MCApprovals`) | 2 requests of the application, 2 commands of the bot, 1 command line, a read or save that fails | 1 393 199 | `TypeOK`, `DecisionsAreGiven`, `ConfirmedHolds`, `AnswerStands` |
| `approvals_one_operator` (`MCApprovalsOneOperator`) | 2 requests, 1 command line, no failure, no restart | violation | `SafeForOneOperator` |
| `missions` (`MCMissions`) | one mission of each template and one with a sentinel added | 15 657 | `TypeOK`, `DeliveredWasAccepted`, `VerdictsHold`, `WorkBounded`, `ComesToOneEnd` (implements `MissionOutcome`) |
| `hermes` (`MCHermes`) | 2 polls of the 2 newest failures, 1 schedule, a failed run from elsewhere, a stop or death | 348 388 | `TypeOK`, `RepairedOnce`, `RepairsTell`, `RepairsSettle` |
| `distribution` (`MCDistribution`) | a milestone, a report, 2 channels, one cycle of each kind | 342 658 | `TypeOK`, `CopiesExplained`, `NotBeforeItsTime`, `QueueInOrder`, `ScheduledComesOut` |
| `provisioning` (`MCProvisioning`) | 2 deliveries at once of a checkout, its subscription and a cancellation; with or without a client, a `client_id` and data a handler throws on | 3 407 624 | `MissionsExplained`, `TakenOrLost`, `EquippedAfterCheckout` |

The modules without state are checked by `ASSUME`s that TLC evaluates before a run; each has
its claims at its end, as operators, and the `MC` module quantifies them.

| Module | Assumed in | Shows |
|---|---|---|
| `DagValidation` | `MCDagRuntime` | `CyclesAreFound`, `FoundAreCycles`, `PassedAreSound`, `PlanPasses` |
| `Permissions` | `MCRunLifecycle` | `WritesAreLetThrough`, `EnforcementIsSound`, `ToolsAreSound` |
| `ControlActions` | `MCRunLifecycle` | `ControlIsSound` (table, tenant, approvals asked in vain), `FlagIsEnough`, `TogetherTheyLeaveTheTable`, `TablesAgree` |
| `ModelRouting` | `MCMissionControl` | `RoutingIsSound` (what stays here, cost, privacy), `AnswersAreExplained`, `RolesKeepTheirPlace`, `EscalationHasNoLimit`, `ValidatorIsSound` |
| `ToolTasks` | `MCRunLifecycle` | `TasksAreSound` (done once unless the end of the plan cannot be written, plans end as they went, runs bounded, dry runs dry, approvals asked in vain, what is never run), `OthersAreRefused`, `ExceptionsAreThere` |
| `Crm` | `MCMissionControl` | `CallsAreSound` (contexts earned, one record at most, stores agree, ok is noted), `RowsAreSound` (two calls as one after the other, one creator), `RecordsAreForgotten` |
| `Assistant` | `MCMissionControl` | `RequestsAreSound` (refusals, modes, approvals, tools), `ContextIsSound` (limit, order of turns, whose memory), `AssistantHasExceptions` |
| `Webhooks` | `MCMissionControl` | `CallbacksAreSound` (fresh and signed, once, none in the way), `CallbacksHaveExceptions` |
| `Telegram` | `MCMissionControl` | `UpdatesAreHandled` (none lost, again by a death only, one loop, asked by the listed), `TelegramHasExceptions` |
| `BrowserAgent` | `MCCommandExecutor` | `JobsAreSound` (bounded, ok is untroubled, kept with reason, captures of logins), `JobsHaveExceptions` |
| `LocalAgent` | `MCCommandExecutor` | `FilesAreSound` (in place, in order, passes alone, patches keep), `FilesHaveExceptions` |
| `WorkflowMemory` | `MCHermes` | `MemoryIsSound` (failures are failures, context of the last run, last run if ids are in order, what is stored stays last), `MemoryHasExceptions` |
| `ContentWorkflows` | `MCDistribution` | `ContentIsSound` (the last outcome is true, the flags agree), `ContentHasExceptions` |
| `RunViews` | `MCDistribution` | `ViewsAreSound` (events kept in turn, none invented, bad hides none, lists newest, trends), `ViewsHaveExceptions` |
| `Migrations` | `MCProvisioning` | `MigrationsAreSound` (entered is applied, again is nothing, one of two gets through, retries of guarded statements, changed stops), `MigrationsHaveExceptions` |
| `Governance` | `MCDagRuntime` | `OutcomesCompose`, `OverridesAreJudged`, `ClientsCanLoosen`, `EnginesAreSound`, `DecisionsAreSound` |
| `PlanCache` | `MCDagRuntime` | `HitsAreOwn`, `CacheIsSound`, `SomeEvict` |
| `Retrieval` | `MCDagRuntime` | `RetrievalIsSound` |

Those that say that something exists (`ClientsCanLoosen`, `EscalationHasNoLimit`, `SomeEvict`,
`TogetherTheyLeaveTheTable`, `FlagIsEnough`, `RecordsAreForgotten`,
and all of the name `...HaveExceptions` or `...HasExceptions`) show the exceptions that the others leave room for.

### Bounds

- `RunLifecycle` has no bound but the numbers of slots and files: slots are reused, so
  sequences of requests are of any length. Two deciders are the least that undo each
  other's decision; two files are the least of which one can be there and one not.
  `TableRespected` and `KeepsPromise` hold with one decider in flight and not with two:
  the race of two resolvers (`core/run-store.ts:78`) lets a save from a stale snapshot
  turn *executed* into *rejected*. That is why there are two passing runs.
- `CommandExecutor`: two submissions. The third would be a second duplicate, which changes
  nothing the first duplicate does not. `lapsed` and `ran` are sets of submissions, so time
  needs no clock.
- `DagRuntime`: the passes of a request are bounded by the code itself (`maxIterations`),
  attempts by the retry budgets. Requests come without limit. The gate plan is the least in
  which a gated and an ungated path meet, and it is worked on by two processes, each of which may
  act on a copy the other has overtaken; the lead plan keeps one stage before the checkpoint, the
  checkpoint and the two after it, in the order and with the budgets of the workflow.
- `DagValidation`: all sets of edges among three nodes of either type, and up to two nodes
  that may share an id with up to three edges that may lead nowhere, edges in two orders.
  Three nodes give cycles of every length up to three, joins and parts nothing reaches.
- `Permissions`, `ControlActions`, `Retrieval`: none. Their domains are finite and TLC goes
  through all of them; of tenants there are two and none.
- `ModelRouting`: all requests and options for where a task goes; for what is answered, those
  without a preference, which changes only where it starts.
- `ToolTasks`: all requests, with what their tool does not look at fixed, and all worlds.
- `Crm`: all requests and calls and all sets of records of two tenants, with one id; of pairs
  those of two kinds. A third call would meet each of the two as they meet one another.
- `Assistant`: words that start each of the workflows by a skill, by more than one and by none;
  two clients with a brand and a thread each; contexts of three sources, sets of three turns.
- `Webhooks`: a window of two seconds and a memory of four, in half seconds; pairs of deliveries.
- `Telegram`: up to four updates in batches of one or two, three polls with a death at any place;
  five events around the loops.
- `BrowserAgent`: up to four replies of a model of every kind, up to six of the kinds that are
  counted; `LocalAgent`: up to two targets of every format, files of up to three lines.
- `WorkflowMemory`: up to three runs, the least of which the middle one can be last by its name.
- `ContentWorkflows`: all answers and all losses of events.
- `RunViews`: two tracks in every order, with events of other sizes; three files and limits around
  that; rates of up to six runs.
- `Migrations`: two files of up to two statements of every kind; an answer that is not ok at each
  place; two runs in every order of their first nine requests.
- `Governance`: all texts, offers, actions and overrides. Scores from -1 to 4 on each side of
  the limits 0 and 3, and of the limits 70 and 80 of the answer engines' score.
- `PlanCache`: two callers, the least that meet in a key, and a third to be answered; two
  versions and two environments, the least that differ.
- `DeliverableLifecycle`: `MaxCalls` 6 leaves, after the two deliverables are recorded, the
  three transitions and one more call to race with any of them; `MaxDeaths` is 1. The three
  operators are interchangeable (symmetry).
- `SecurityApprovals`: two requests, because a save carries the other one with it; two commands
  of the bot, one to be told and one to undo it; a command line, for a process whose map is
  always new. `MaxRestarts` and `MaxFailures`, of reads and saves together, are 1. Requests and the bot's commands are
  interchangeable.
- `MissionControl`: the missions are those of the templates, with their default numbers of
  rounds, and the retries those of `ROLE_DEFAULTS`, as in the code; nothing else is bounded, and
  the proofs leave both open.
- `Hermes`: two polls are the least that overlap; `MaxRuns` 2 and `MaxDue` 1 leave a
  repair its two attempts, or one beside a scheduled mission; `MaxClears` 1 is one stop or
  death to forget by. One class of failures is retried twice, one not at all. `FetchLimit` 2 is
  small enough for a third failure to push the oldest out of a poll's reach.
- `Distribution`: two channels are the least of which one can be saved and one not; the lookup
  limit of 2 and the batch of 1 are small enough to be reached; `MaxLapses` 1, `MaxQueue` 2.
- `Provisioning`: two deliveries at once, interchangeable, may carry one event twice or two
  events; `MaxLapses` is 1; restarts are not bounded. Every choice of what the events carry, and of
  a client who is there or not, is an initial state. One agent and one mission, since those
  of a kind are treated alike.
- Deadlock is not checked where the system may come to rest: all calls made, everyone
  answered, a registry nobody can read any more.

### Fairness

- `RunLifecycle`, `CommandExecutor`, `DagRuntime`, `DeliverableLifecycle`, `SecurityApprovals`
  and `Provisioning` assume none and claim no liveness: a call may be dropped at any await and
  nothing in the code takes it up again.
- `MissionControl`: weak fairness of `TimesOut`, since a timer that is set goes off; handlers owe
  nothing. That is all `ComesToOneEnd` takes. `MissionOutcome` in turn has its end weakly fair.
- `Hermes`: weak fairness of the steps of a mission (it ends, as `MissionOutcome` says; its hooks
  are answered or fail), of asking (the interval) and of the steps of a repair; strong
  fairness of `Answer`: a table that is asked again and again answers some time. `RepairsSettle`
  speaks of a watcher started with `autoRepair`, as the run's is, and of failures that any poll
  would get; one that newer failures push beyond the limit may never be seen.
- `Distribution`: weak fairness of `TimeComes` and `Poll`, strong fairness of `Publish`, for the
  same reason; a process that dies again and again within one interval would not poll, and that is
  taken not to happen forever. Nothing is assumed of operators and of the other cycles.

The run that finds a violation uses no fairness.

## The proofs

TLC checks the instances above; the theorems hold for every value of the constants: any
number of requests, submissions, processes, operators, files, nodes, any plan, no bound on
anything. They use only the named assumptions of the modules (`ActorsAssumption`,
`NumAssetsAssumption`, `CommandsAssumption`, `NoOneAssumption`, `PlanAssumption`,
`WorkflowAssumption`, `OfRunAssumption`, `BoundsAssumption` and those named below) and what a
theorem states.

### RunLifecycleProofs

`TypeCorrect`, `NoPublishingUnapproved`, `RecordStaysCoherent`, `RevisionsExact`,
`ExemptStaysUnpublished`, `DecisionsStand`, all from `Invariance`, that `IInv` is inductive.
`IInv` is the conjunction of

- `Roles`: who can be where, with which goal;
- `HandedOver`: deciders and executors act on a record only after the orchestrator made its
  last save, so its stale copies cannot undo a decision; and whoever is about to flush finds
  a truncated file or a decided run;
- `ApprovalBehind`: an executor beyond its last check, a published file and a record that
  says approved or executed all imply that an approval was recorded. This is what makes the
  stale check of `publisher.agent.ts:75` harmless for `PublishedOnlyAfterApproval`;
- `RecordsGood`: the record on disk *and every record about to be saved* is coherent and
  counts its revisions right. The second half is needed because a save writes what was read
  long before.

The proof of preservation has one lemma per group of actions; `DecisionsStand` is an action
property, proved of each step from `IInv`.

`ExecutedIsWritten` (`ExecutedMeansWritten`) assumes one executor (`OneExecutor`), since two
write the same files at once. Its strengthening `WritesCounted` says of the executor how many
files it has written so far and that it has written all of them when it is about to save
*executed*.

`TableIsRespected` and `PromiseIsKept` (`KeepsPromise`, the refinement to `ApprovalLifecycle`)
assume one decider (`OneDecider`). Both rest on `Undisturbed`: what a request was let through
for is still so when it saves: a decider that has passed its check finds the run pending until
it has decided, an executor finds it approved or executed, and the orchestrator is done before
either may act.
Then only saves change the run (`OnlySavesChangeTheRun`), only writers change the files
(`OnlyWritersChangeTheFiles`), and each of these steps is one of `ApprovalLifecycle` or none
(`PromiseStep`).

### CommandExecutorProofs

`TypeCorrect`. `OneHandlerPerKey` (`SingleFlight`) and `WorkDoneOnce` (`AtMostOnce`), with
`OneProcess` assumed. The file is truncated while a record should be in it, and any write or read
of it may fail. A submission *holds* its key when it works or has worked on it, unless it is
`Excused`: its record is over its time, or a fault took it from the map or hid it. The invariant has
four parts: `OneAtTheMap` (the synchronous code is exclusive), `HoldersOnRecord` (a holder's record
is in the file, or somebody is about to write the map), `SnapHolds` (and then it is in what will be
written), `StartsAlone` (who is about to start has found no holder). Two processes break both
properties: each may read the map before the other has written it. Nothing is claimed across
processes.

### DagRuntimeProofs

`TypeCorrect`; `StatusAgrees` (`StatusDerived`), because each save of each path stores a
record that agrees with its nodes and a lost save stores nothing; `GatesHold`. The last is
about sets: `HeldBack(U)` when each node of `U` is a gate or has a parent in `U`. If no copy
and no saved record has a node of `U` completed, then only gates of `U` are ever ready
(`ReadyHeldIsGate`), a gate is never worked on, so no node of `U` completes. It is stated
for runs no workflow owns (`Stages = <<>>`), as the workflow completes its stages without
asking for edges or types; the lead-to-offer plan has no gate.

`RecordStaysInOrder` (`RecordInOrder`) is about records, and so holds for any number of processes on
stale copies: by `OrderInv` the record on file and every copy are `Ordered` - the nodes before a
completed one are completed or skipped, and none has failed - what a request has queued is pending
in its copy and what it works on has its parents completed there. A save puts one ordered record in
place of another, so what it undoes it undoes with all that came of it. It is stated for runs no
workflow owns: the handler of a request answers always, so nothing fails there, while a workflow's
stages do not ask for edges.

`NothingIsStuck` (`NeverStuck`) needs no such restriction and only `Acyclic`: no record on file has a
running node (`PassInv`), and of the pending nodes upstream of a pending one some
has no pending parent, so it is ready or has a parent that shows why not.

`FinishIsExplained` (`FinishExplained`) rests on `PassInv`, about each request by itself: what is
queued has its parents completed in the copy, only the node under way is running and no record on
file has a running one, and a run to completion has begun at most as many passes as there are nodes
that are queued or not pending any more. The last is what keeps `maxIterations` from being met: a
pass begins with something ready, and what it takes up is never pending again in that request.
`FinishIsExplained` assumes that writes succeed and that the plan has no cycle, stated for sets
(`Acyclic`), so that its proof needs no induction: of the pending nodes upstream of a pending one
some has no pending parent, and as it is not ready it has one that is skipped. Plans come through
the validator, which refuses cycles (`DagValidation`).

### DeliverableLifecycleProofs

`TypeCorrect` (with `Routes`: which call can stand where), `RenameDecides` (`OneMover`),
`OneRootApart` (`ArtifactNearRecord`), `NothingPublishedUnapproved`
(`PublishedRootApproved`), `UnreadableOnlyThen` (`UnreadableWhileWritten`), and of each step
`NoStaleSaveLands` (`RecordCatchesUp`). For each advisory
deliverable the invariant `DInv` says: the file is near its record (`Near`); what the
recorder (`RecorderInv`), the one mover (`MoverInv`) and readers that have yet to move
(`ReaderInv`) hold fits the file's place; the owner is alone (`Alone`); an unreadable record
has a writer, or a save of its own that a throw or a death cut short (`cut`), behind it (`Written`). The heart of the argument is `ReaderInv`:
whoever read a record before the mover renamed holds a root the file has left, so its
rename fails. `RecordCatchesUp` follows: only the owner writes the record, what it holds names
where the file is, and a rename goes by the table from where the file lay.

### ProvisioningProofs

`TypeCorrect`, `MissionsAreExplained`, `RecordedIsTakenOrLost`, `CheckoutEquips`, all from
`Invariance` of `IInv`, which adds to the three properties that only a checkout sets a client up
and only one without `client_id` enters it (`RightHandler`), that there is a client for whom a
checkout is worked on (`ClientThere`), that what a provisioning has yet to make is all that may be missing
(`MadeSoFar`), and `MissionsPaidFor`: a delivery that may yet insert a mission *owes* it, and the
rows there are plus those owed are at most the checkouts on record plus the lapses. Recording
an event and lapsing are the only steps that make a delivery owe, and each pays for it. The
assumptions are `EventsAssumption`, `PlanAssumption`, `DeliveriesAssumption`, `LapsesAssumption`.

### HermesProofs

`TypeCorrect`; `RepairedOnceOnly` (`RepairedOnce`) by `TakenUpOnce`: the repairs of a failure
plus the polls that have it before them are at most the stops and deaths, plus one if it has
been seen; `RepairsTellTheTruth` (`RepairsTell`) by `RepairsApart`: a repair belongs to one
poll, its number is new when it begins, only its poll triggers missions for it, one at a time,
and all but the one that runs have failed. The assumptions are `PollsAssumption`,
`RetriesAssumption`, `WatcherAssumption`, `BoundsAssumption`: any limit of rows, with `autoRepair`
or without. Fairness plays no part.

The second half is about `MissionControl`, for any retries of the roles, any missions over the
stages of the templates and any limit of escalations (`RoleRetriesAssumption`,
`MissionsAssumption`). `StepCases` says what a step can be: another attempt, the next stage, a
rejection, the executor's new output, the end of the mission, or a late executor's end. From
`MissionInv`, which is inductive, follow `MissionTypeCorrect`, `WhatIsDeliveredWasAccepted`
(`DeliveredWasAccepted`) and `VerdictsAreKept` (`VerdictsHold`). Its parts are

- `MissionTyped`: types, and where a pipeline can be: what came before the stage under way has
  its results, a re-run is of the executor before a validator, rejections are within the retries;
- `Carried`: what the executor delivered last is what the validator is given, and past the
  validator it is what was accepted. `DeliveredWasAccepted` alone is not inductive, because
  the pipeline that will end the mission says nothing of what is in its results;
- `Vouched`: a sentinel's pass begins with an accepted result, and cannot change it;
- `Unjudged`: the validator is about to be given an output that was not judged yet, since each
  re-run makes a new one (`Redelivered`);
- `Settled`: with an acceptance, only a sentinel may still be under way.

`WorkIsBounded` (`WorkBounded`) adds `Spending`: the executors that may be at work late are at
most those of the rounds that are over, at a square of the attempts each, plus the attempts of
the rejections so far and of the stage under way. It is the bound the code keeps, not the one
`mission-types.ts:30-35` announces (see below). `MissionEndsOnce` is the refinement of
`MissionOutcome` without its fairness, and `HermesSeesOneEnd` the same of a mission as `Hermes`
has it, with its hooks, repairs and restarts: the composition of the two modules is at
`MissionOutcome`. Before the proof, the type invariant of `MissionControl` had, by the
precedence of `<=>`, one conjunct weaker than it read; the proof needed the strong one, which holds.

### SecurityApprovalsProofs

`TypeCorrect`, and `DecisionsWereGiven` (`DecisionsAreGiven`). A decision travels: from the map
of a process into a snapshot, from there to the file, and back into the maps and hands of other
processes. So the inductive invariant `CopiesGiven` speaks of all copies at once, the snapshots
not yet renamed and what has been read and not yet installed included: each holds only decisions
some call has made (`Given`), and nothing was answered late. A step makes at most one new copy,
out of one there was (`WorkForms`), and a call that has answered keeps its order and its request
to the end, also when its process is restarted (`Kept`). The assumptions are `CallsAssumption`
and `BoundsAssumption`.

`ConfirmedIsOnFile` (`ConfirmedHolds`) assumes that a process in which requests are answered takes
one command at a time (`OneCommand`), as the bot's poll loop and a command line do; `AnswersStand`
(`AnswerStands`) has that condition in its statement. Both rest on `InTurn`: calls of one line are
never under way together, a request is answered after its creation has ended, so the call that
creates it cannot replace the answer, and in such a process only one without a map reads the file
and what is saved is the map. Then `FreshKept` is inductive: a fresh answer stands on file, in its
process's map and in whatever that process has read, which are all the places its next save can
come from; a read in vain takes the decisions of its process out of `fresh`. `AnswersStand` needs `CopiesGiven` besides: a decision in a map was given by somebody,
to a request that existed.

### DistributionProofs

`PublishedInTime` (`NotBeforeItsTime`) and `QueueKeepsOrder` (`QueueInOrder`), both from `QInv`.
The poll works on a list it read earlier; `PollsHoldDue` says that whatever is on it was due when
it was read and is, since no operation takes an asset back, still scheduled or already published.
They assume nothing of the constants.

`TypeCorrect` (`TypeOK`) and, with at most one cycle of each kind at a time (`OneTeller`,
`OneExpander`), `TwiceOnlyByLapse` (`CopiesExplained`), from `OrdersAssumption` - the channels are
distinct - and `LimitsAssumption`. The invariant `CInv` adds to the two bounds on copies what the
cycles may yet do: a case study about to be stored (`StoresOwed`), and an asset a cycle may yet save
(`MaySave`, `SavesOwed`), is there no more often than lookups have lapsed. A lookup that tells the
truth finds none there, one that does not pays with a lapse, and a save takes its own variant off
what the cycle may save.

### Proved only, model-checked only

`TypeOK` of `RunLifecycle`, `DagRuntime`, `DeliverableLifecycle` and `Provisioning`,
`ExemptRunNeverPublished` and `UnreadableWhileWritten` are theorems and are in no run.

Only model-checked are `RepairsSettle`, `ScheduledComesOut` and the fairness in
`ComesToOneEnd`: they are liveness under fairness, which the prover does not handle. What is said of `DagValidation` is about a recursive search; what is said of
the other modules without state needs no proof, TLC having gone through their domains.

## What the code does against its own words

`SafeForOneOperator`, with a run that finds the counterexample: the application loads its map
with its first request and writes all of it back with every later one, so an answer that the
operator gave at the command line in between, and was told is recorded, is pending again on
file. `docs/system/AJ_DIGITAL_OS_APPROVAL_SYSTEM_SPEC.md:225` calls the store "Safe for
single-operator, single-server use".

Seen on the way, without a run:

- Runs: an approve and a reject both pass the pending check, and a rejected run may have its
  content published; `docs/recovery-playbook.md:142` gives as the symptom of a rejected run that
  it "does not move to execution". An executed run can be written again by a second executor
  (`agents/publisher.agent.ts:74`).
- Command lane: two processes run one key's handler twice, though
  `core/idempotency/idempotency-store.ts:4` says the map short-circuits duplicates; *executed* and
  *failed* can both be in the ledger for one command; a record that says failed is answered as
  "still in flight", ok (`idempotency-store.ts:80`); a write of the map that throws after the
  truncation, or a read that fails, forgets every key, and the next save makes that last
  (`idempotency-store.ts:34`, `:49`); two tenants who send one action with one
  payload share the default key (`core/commands/command-envelope.ts:41`).
- DAG: a node may be both skipped and run, as ready nodes are fixed before others are skipped
  (`bel/dag/dag-runtime.ts:476`); no operation completes a gate node, so a run with a gate ends
  there; nodes skipped below a failed one stay skipped after it is retried; two processes can run
  a completed node again (`commands/dag-execute.command.ts:28`); the workflow's saves overwrite
  what requests did.
- Deliverables: when the second read of a submit fails, the output has moved and the record has
  not, and no later submit works; `recordPublishedRun` publishes a draft or pending record
  around the table (`deliverable-recorder.ts:167`); a slow submit can take an approved record of
  a run back to pending (`core/deliverable-store.ts:109`).
- Permissions: an approval that is named by its id is not looked up again
  (`security/permissions/enforcement-engine.ts:66`); a tool whose policy asks for an approval
  while its class of actions does not is called with one that is marked approved, even if it is
  also denied or over (`mcp/mcp-secure-executor.ts:72`).
- Model routing: the escalation looks at neither cost nor privacy (`model-router.ts:124`): a
  private transform, kept from openai at first, goes there when the local model fails. The
  executor hands over deterministic options that its route never uses.
- Control actions: who is not the system is asked for approval of an action of high risk each
  time and cannot bring one (`control-actions.ts:101`); a flag of the command line, or a request
  that names no actor (`hermes/hermes-status-api.ts:1361`), makes the caller the system. Each
  action that is done, also an inspection, leaves a request for approval nobody waits for. An
  approval that read its record before a rejection was written sets the run running after it.
- Tasks for tools: if the end of a plan cannot be written, its work is done again by the runner
  (`bel/bel-controller.ts:107`) and the plan stays active for good. A dry run fails for an agent
  whose real run is done (`bel/bel-task-runner.ts:33`). `npm test` and `docker compose ps` are
  listed (`mcp/mcp-policy.ts:14`) but not called safe (`action-classifier.ts:3`), and the approval
  they then need is handed on by neither route; so is the tenant without which no browser runs.
- Governance: "a client cannot loosen a base restriction" (`client-rule-engine.ts:6`), but its
  own disclaimer takes the place of the base's and `never_required` lifts an approval. The
  engines name no category, so what the law blocks is drafted and published. The offer of the
  lead-to-offer workflow has no timeline, which the policy requires, so it is never saved. With
  force a weak decision is executed and a moderate one is not (`decision/decision-policy.ts:27`).
- Cache: keys are said to have the version of the policy (`cache-bel-integration.ts:4`) and have
  not; two versions, and for scores two environments, write over each other's entries. In
  production without a tenant entries are written and never read.
- CRM: in the file store two calls at once both answer ok and the later save takes back the
  other's record, also another tenant's (`crm/persistent-crm-store.ts`); a file that cannot be read
  counts as empty and the next save keeps only its own record. In the database two updates of
  different fields of one row do the same to each other. A create whose audit line fails is
  answered with an error, and its retry is refused as a duplicate. The one permission an agent's
  context has, `agent:tenant`, is accepted by no action (`crm/crm-service.ts:202`).
- Assistant: a trigger word chooses a skill, and two skills ask for no approval, so a word of the
  task lifts the approval of the run, also of another workflow than the skill's
  (`assistant-runtime.ts:430`). A thread is used whoever names it (`conversation-thread-registry.ts:26`): its turns and its
  client's deliverables go into the prompt. A request refused for its profile or mode leaves a
  thread, with the refusal as a turn. One manifest that cannot be read drops the brand that was
  asked for, with a warning (`assistant-runtime.ts:1333`). No tool is ever registered, so no profile removes one
  (`assistant-runtime.ts:1022`). The two turns of an exchange have one time, and their order is that of random ids;
  the oldest of the recent turns are fitted in first, so a long one pushes out the latest. A
  text indexed again with fewer chunks keeps the last ones of the former text
  (`memory/semantic-memory-indexer.ts:161`). Two exchanges at once count as one
  (`conversation/conversation-store.ts:87`).
- Webhooks: what is remembered need only last longer than the clock may be off
  (`security/webhook-signature.ts`), while a delivery is good for twice that time. A delivery whose
  work threw is refused as seen when it comes again.
- Telegram: a batch of updates without a text, or one without a sender, holds the listener up for
  good. Stopped and started during a poll, the bot has two loops.
- Browser agent: one refused reply fails a job that read and wrote everything; a limit that is no
  number gives ok with nothing done. Local agent: ok may come with failed checks, since all files
  are checked as the first one's kind; a patch without an input file writes the file over.
- Memory: "Read the most recent run-log" (`memory-runtime/retrieval.ts:110`) takes the last file by
  name, and names are random; once a step has stored something, that record, whose name begins
  with `mem-`, is the last run for good, even if its own run failed. The hooks always answer ok
  (`memory-runtime/hooks.ts:128`), so the orchestrator never passes on that they could not write.
- Content: `docs/deployment/staging-runbook.md:194` says of *succeeded* that the workflow completed
  with model-backed output; an object without any of the sections is *succeeded*, without a
  warning, and all content is the deterministic one. If the last event could not be recorded, the
  outcome is *not_attempted* next to `attempted`.
- Run views: two tracks at once lose an event or leave a file no later track can read
  (`run-tracker.ts:96`). "Show runs ready for execution" (`README.md:68`): with `--limit` the
  dashboard's newest runs of any status are cut first (`list-approved-runs.command.ts:39`), so
  approved runs behind newer ones are not listed. A failed run may be counted twice, a run in
  progress in no counter. The week a day is compared with contains that day, so a fall by half
  can be *neutral*.
- Migrations: `sql/002-saas-onboarding.sql` refers to `clients`, which only the schema of the other
  database makes, so the manifest stops there on a new Neon database, each time. "Not recorded —
  safe to retry" (`tests/db/migrator.test.ts:119`) does not hold for a file with a trigger or a policy:
  after half of it was applied it can never be. Of two runs at once one fails, though all is well.
- Retrieval: a document of a tenant's namespace that was ingested without a tenant is found by
  every tenant, in production too (`retrieval/retrieval-policy.ts:147`).
- Security approvals: a file that cannot be read, or is no JSON, counts as no requests, and the
  next save writes it over (`security/persistence/json-file-store.ts:19`).
- Missions: `agent-roles/mission-types.ts:30` announces "Maximum times the operator can retry before
  escalation", and nothing reads `maxOperatorRetries`: what is retried is each role's own number, and each
  rejection gives the executor its attempts again. `:34` says of `maxEscalations` "0 = no escalation
  limit", and 0 is one round (`agent-roles/mission-controller.ts:65`). An escalated mission completes without the sentinel's pass
  (`agent-roles/mission-controller.ts:87`); a throw in that pass fails a mission whose output was
  accepted (`:96`).
- Hermes: the empty `mission_id` of the hooks' rows is refused by its `uuid` column
  (`sql/supabase-schema.sql:57`); ids collide with those of the process before a restart; only
  the 20 newest failed rows are looked at (`hermes-failure-watcher.ts:115`), so a failure behind 20
  newer ones is never taken up; repairs are off unless asked for (`:52`, `:162`); `startHermes` restores schedules it never hands to the
  scheduler.
- Distribution: the comment at `expand-distribution-assets.ts:8` promises no duplicates, and a
  failed or truncated lookup makes some; a proof of which some variants were saved is never
  completed; metrics are recorded for an asset of any status.
- Provisioning: `services/provisioning.ts:11` and `:94` say idempotent, while missions are
  inserted again each time and a failed insert counts as done; the event is recorded before it
  is worked on, so work that dies with the process, or whose handler throws at an unknown tier
  (`services/provisioning.ts:113`) or a bad date, is never done: the webhook answers 500 to a throw,
  and skips what Stripe then delivers again; to anything else it answers 200, also to a checkout
  whose client could not be entered (`api/stripe-handlers.ts:86`); the rows of a cancelled client's schedules stay enabled and a restart
  restores them; a cancellation that overlaps a checkout can leave an active client without
  schedules, and one that comes before the subscription's row pauses nobody.

## What is not modelled

Text, prompts, model answers, layout and logging, because no property depends on them. The
components listed at the end of the inventory, because they keep no state that two actors work on, or because the state is in services
outside the repository. In the modelled parts: metric counters and resets of the command
lane; the other runs in the DAG file; deliverables with several files; and what each module's
section above says it leaves out. TLC says nothing of larger instances than its own where no theorem does, and
liveness is claimed only where fairness is stated above.

Most of the repository's lines are text, formatting, request routing, prompts and adapters to
services, or pure computations of scores and drafts: they keep no protocol between two actors,
and a model of them would repeat them.

## The plan

Done: run lifecycle and its promise, command lane, DAG runtime with its workflow and validator,
deliverable lifecycle; security approvals and permission enforcement; missions, Hermes with its
watcher and repairs; distribution; provisioning; model routing, control actions, governance and
decisions, cache, retrieval, tasks for tools, customer records, assistant; webhooks, Telegram, browser
and local agents, workflows with their memory and content, the views of runs, migrations. Proved of
them: see above.

1. **Composition** of `SecurityApprovals` with `RunLifecycle` over the bot, which resolves the
   run by the approval's id (`telegram/telegram-bot.ts:224`).
2. **`DagRuntime`** with two runs in the file.
3. **The repository pruner**: how findings of its detectors become actionable, what a run that is
   blocked or killed leaves on disk, and that nothing in use is ever among the actionable ones.
