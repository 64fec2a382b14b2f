---------------------------- MODULE RunLifecycle ----------------------------
(***************************************************************************)
(* The life of one content run: the record file data/runs/<runId>.json and *)
(* the requests that read and rewrite it.                                  *)
(*                                                                         *)
(*   - one orchestration (agents/orchestrator.agent.ts) creates the record *)
(*     and carries it up to pending_approval;                              *)
(*   - any number of approval requests (webhook, CLI, Telegram) go through *)
(*     services/approval/approval-resolver.ts;                             *)
(*   - any number of execution requests go through the coordinator, the    *)
(*     resumer, the execution agent and the publisher, entering at any of  *)
(*     the four, and write the artifacts before they mark the run.         *)
(*                                                                         *)
(* The store (core/run-store.ts) has no lock: an update reads the file,    *)
(* checks the transition on what it read, and rewrites the whole file      *)
(* later.  The file is rewritten in place: it is truncated, then written.  *)
(* Every await is a step boundary here, and a request may fail or its      *)
(* process may die at any of them.                                         *)
(***************************************************************************)
EXTENDS Naturals

CONSTANTS
    Orch,        \* the orchestration that creates the run
    Deciders,    \* slots for approval requests in flight at the same time
    Executors,   \* slots for execution requests in flight at the same time
    NumAssets    \* files the workflow result of this run is published as

ASSUME ActorsAssumption ==
    /\ Orch \notin Deciders \cup Executors
    /\ Deciders \cap Executors = {}

ASSUME NumAssetsAssumption == NumAssets \in Nat

VARIABLES
    form,       \* what the record file is: missing, empty, whole or garbled
    run,        \* the last record the file held whole
    artifacts,  \* the published files: absent, torn (cut short) or whole
    granted,    \* decisions reported as recorded to whoever took them
    pc,         \* where each actor stands
    goal,       \* the status its current update is to set
    staged,     \* the record it is about to save, from the snapshot it read
    count,      \* the revisionCount a revision request has computed
    written     \* how many files an execution request has written

vars == <<form, run, artifacts, granted, pc, goal, staged, count, written>>

Actors == {Orch} \cup Deciders \cup Executors
Assets == 1 .. NumAssets

-----------------------------------------------------------------------------
(* Statuses and the transition table.                                      *)

Decisions == {"approved", "rejected", "revision_requested"}

OrchGoals == {"queued", "context_loaded", "in_progress", "draft_complete",
              "validation_passed", "validation_failed", "pending_approval"}

Status == OrchGoals \cup Decisions \cup {"executed", "logged", "closed"}

ApprovalStatus == {"not_required", "not_requested", "pending"} \cup Decisions

RUN_STATE_TRANSITIONS ==
    [s \in Status |->
        CASE s = "queued"             -> {"context_loaded"}
          [] s = "context_loaded"     -> {"in_progress"}
          [] s = "in_progress"        -> {"draft_complete", "validation_failed"}
          [] s = "draft_complete"     -> {"validation_passed", "validation_failed"}
          [] s = "validation_passed"  -> {"pending_approval", "executed"}
          [] s = "validation_failed"  -> {"in_progress", "closed"}
          [] s = "pending_approval"   -> Decisions
          [] s = "approved"           -> {"executed"}
          [] s = "rejected"           -> {"closed"}
          [] s = "revision_requested" -> {"in_progress", "closed"}
          [] s = "executed"           -> {"logged"}
          [] s = "logged"             -> {"closed"}
          [] s = "closed"             -> {}]

\* Wrong on purpose: setting the status a run already has is let through.
canTransition_Repeat(from, to) == from = to \/ to \in RUN_STATE_TRANSITIONS[from]

canTransition(from, to) == to \in RUN_STATE_TRANSITIONS[from]

RunRecord ==
    [status: Status \cup {"absent"}, approvalRequired: BOOLEAN,
     approvalStatus: ApprovalStatus, revisionCount: Nat,
     workflowResult: BOOLEAN, publishedPath: BOOLEAN]

\* No record: what `run` and `staged` hold before there is one.
NoRun ==
    [status |-> "absent", approvalRequired |-> FALSE,
     approvalStatus |-> "not_required", revisionCount |-> 0,
     workflowResult |-> FALSE, publishedPath |-> FALSE]

createRun(required) ==
    [NoRun EXCEPT !.status = "queued", !.approvalRequired = required,
                  !.approvalStatus = IF required THEN "not_requested"
                                                 ELSE "not_required"]

\* Wrong on purpose: an update sets the status and forgets the details.
buildUpdatedRun_StatusOnly(current, status, revisions) ==
    [current EXCEPT !.status = status]

\* The snapshot with the details of one update merged over it.
buildUpdatedRun(current, status, revisions) ==
    [current EXCEPT
        !.status = status,
        !.approvalStatus = CASE status = "pending_approval" -> "pending"
                             [] status \in Decisions        -> status
                             [] OTHER                       -> @,
        !.revisionCount = IF status = "revision_requested" THEN revisions ELSE @,
        !.workflowResult = @ \/ status \in {"draft_complete", "pending_approval"},
        !.publishedPath = @ \/ status = "executed"]

-----------------------------------------------------------------------------
(* The ends of a request.                                                  *)

\* readFile and JSON.parse succeed on a whole file only.
Readable == form = "whole"

Rest(p) == IF p = Orch THEN "done" ELSE "idle"

\* The request of p is over; nothing it held in memory survives.
Finish(p) ==
    /\ pc'      = [pc EXCEPT ![p] = Rest(p)]
    /\ goal'    = [goal EXCEPT ![p] = "none"]
    /\ staged'  = [staged EXCEPT ![p] = NoRun]
    /\ count'   = [count EXCEPT ![p] = 0]
    /\ written' = [written EXCEPT ![p] = 0]

Goto(p, label) ==
    /\ pc' = [pc EXCEPT ![p] = label]
    /\ UNCHANGED <<staged, count, written>>

disk == <<form, run, artifacts, granted>>

Init ==
    /\ form      = "missing"
    /\ run       = NoRun
    /\ artifacts = [a \in Assets |-> "absent"]
    /\ granted   = {}
    /\ pc        = [p \in Actors |-> "idle"]
    /\ goal      = [p \in Actors |-> "none"]
    /\ staged    = [p \in Actors |-> NoRun]
    /\ count     = [p \in Actors |-> 0]
    /\ written   = [p \in Actors |-> 0]

-----------------------------------------------------------------------------
(* RunStore.update and RunStore.save, shared by every actor.               *)

\* store.get, then the updater on the snapshot: the transition is checked
\* against what was read now, and the record to save is built from it.
UpdateRead(p) ==
    /\ pc[p] = "read" /\ Readable
    /\ canTransition(run.status, goal[p])
    /\ staged' = [staged EXCEPT ![p] = buildUpdatedRun(run, goal[p], count[p])]
    /\ pc' = [pc EXCEPT ![p] = "save"]
    /\ UNCHANGED <<disk, goal, count, written>>

\* The run is missing or unreadable, or assertValidTransition throws.
UpdateRefused(p) ==
    /\ pc[p] = "read"
    /\ ~ (Readable /\ canTransition(run.status, goal[p]))
    /\ Finish(p)
    /\ UNCHANGED disk

\* writeFile opens the file and so truncates it.
SaveOpen(p) ==
    /\ pc[p] = "save"
    /\ form' = "empty"
    /\ Goto(p, "flush")
    /\ UNCHANGED <<run, artifacts, granted, goal>>

\* writeFile writes the record from offset 0.  When another save has written
\* since this one truncated, a longer text may stick out behind this one.
SaveWrite(p) ==
    /\ pc[p] = "flush"
    /\ \/ form' = "whole" /\ run' = staged[p]
       \/ form # "empty" /\ form' = "garbled" /\ UNCHANGED run
    /\ granted' = IF p \in Deciders THEN granted \cup {goal[p]} ELSE granted
    /\ IF p = Orch THEN Goto(p, "between") /\ UNCHANGED goal ELSE Finish(p)
    /\ UNCHANGED artifacts

-----------------------------------------------------------------------------
(* The orchestrator.                                                       *)

CreateRun ==
    /\ pc[Orch] = "idle"
    /\ \E required \in BOOLEAN : staged' = [staged EXCEPT ![Orch] = createRun(required)]
    /\ goal' = [goal EXCEPT ![Orch] = "queued"]
    /\ pc' = [pc EXCEPT ![Orch] = "save"]
    /\ UNCHANGED <<disk, count, written>>

\* The updates orchestrateTask may ask for after the one it has just made.
\* (validateContext re-checks the schema the context loader has just parsed
\* with, so its failing branch is never taken.)
NextGoals(s, required) ==
    CASE s = "queued"            -> {"context_loaded"}
      [] s = "context_loaded"    -> {"in_progress"}
      [] s = "in_progress"       -> {"draft_complete"}
      [] s = "draft_complete"    -> {"validation_passed", "validation_failed"}
      [] s = "validation_passed" -> IF required THEN {"pending_approval"} ELSE {}
      [] OTHER                   -> {}

\* Wrong on purpose: the orchestrator saves its copy of the pending run again.
Orchestrate_SaveAgain ==
    /\ pc[Orch] = "between"
    /\ \/ /\ \E s \in NextGoals(goal[Orch], staged[Orch].approvalRequired) :
                goal' = [goal EXCEPT ![Orch] = s]
          /\ Goto(Orch, "read")
       \/ /\ goal[Orch] = "pending_approval"
          /\ Goto(Orch, "save") /\ UNCHANGED goal
    /\ UNCHANGED disk

Orchestrate ==
    /\ pc[Orch] = "between"
    /\ \E s \in NextGoals(goal[Orch], staged[Orch].approvalRequired) :
          goal' = [goal EXCEPT ![Orch] = s]
    /\ Goto(Orch, "read")
    /\ UNCHANGED disk

\* The orchestrator returns: the run awaits approval, has failed validation,
\* or has passed it and needs no approval.
OrchestrateReturn ==
    /\ pc[Orch] = "between"
    /\ NextGoals(goal[Orch], staged[Orch].approvalRequired) = {}
    /\ Finish(Orch)
    /\ UNCHANGED disk

-----------------------------------------------------------------------------
(* Approval requests.                                                      *)

ApprovalRequest(d) ==
    /\ pc[d] = "idle"
    /\ \E decision \in Decisions : goal' = [goal EXCEPT ![d] = decision]
    /\ Goto(d, "resolve")
    /\ UNCHANGED disk

\* ApprovalResolver.resolve reads the run and goes on when it is pending; a
\* request for a revision reads it once more to count.
Resolve(d) ==
    /\ pc[d] = "resolve" /\ Readable /\ run.status = "pending_approval"
    /\ Goto(d, IF goal[d] = "revision_requested" THEN "count" ELSE "read")
    /\ UNCHANGED <<disk, goal>>

ResolveRefused(d) ==
    /\ pc[d] = "resolve"
    /\ ~ (Readable /\ run.status = "pending_approval")
    /\ Finish(d)
    /\ UNCHANGED disk

markRevisionRequested(d) ==
    /\ pc[d] = "count"
    /\ \/ /\ Readable
          /\ count' = [count EXCEPT ![d] = run.revisionCount + 1]
          /\ pc' = [pc EXCEPT ![d] = "read"]
          /\ UNCHANGED <<goal, staged, written>>
       \/ ~ Readable /\ Finish(d)
    /\ UNCHANGED disk

-----------------------------------------------------------------------------
(* Execution requests.  Each layer reads the run anew before it delegates. *)

\* Wrong on purpose: a run still waiting for its approval passes.
Executable_Pending ==
    Readable /\ run.status \in {"pending_approval", "approved"} /\ run.workflowResult

Executable == Readable /\ run.status = "approved" /\ run.workflowResult

\* ExecutionPolicy.evaluate allows an approved run; it skips or denies the rest.
PolicyAllows == Readable /\ run.status = "approved"

ExecutionRequest(e) ==
    /\ pc[e] = "idle"
    /\ \E entry \in {"coordinator", "resumer", "agent", "publisher"} : Goto(e, entry)
    /\ goal' = [goal EXCEPT ![e] = "executed"]
    /\ UNCHANGED disk

\* One layer: the run passes its check and the next layer is called, or not.
Layer(e, here, check, next) ==
    /\ pc[e] = here
    /\ \/ check /\ Goto(e, next) /\ UNCHANGED goal
       \/ ~ check /\ Finish(e)
    /\ UNCHANGED disk

Coordinate(e) == Layer(e, "coordinator", PolicyAllows, "resumer")
Resume(e)     == Layer(e, "resumer", Executable, "agent")
Execute(e)    == Layer(e, "agent", Executable, "publisher")
Publish(e)    == Layer(e, "publisher", Executable, "writing")

\* writeArtifacts, one file at a time, in the order of the assets.
WriteArtifact(e) ==
    /\ pc[e] = "writing" /\ written[e] < NumAssets
    /\ artifacts' = [artifacts EXCEPT ![written[e] + 1] = "whole"]
    /\ written' = [written EXCEPT ![e] = @ + 1]
    /\ UNCHANGED <<form, run, granted, pc, goal, staged, count>>

\* Wrong on purpose: the run is marked once the first file is there.
ArtifactsWritten_Early(e) ==
    /\ pc[e] = "writing" /\ written[e] > 0
    /\ Goto(e, "read") /\ UNCHANGED goal
    /\ UNCHANGED disk

\* All files are written: markExecuted.  With no file at all it throws.
ArtifactsWritten(e) ==
    /\ pc[e] = "writing" /\ written[e] = NumAssets
    /\ IF NumAssets > 0 THEN Goto(e, "read") /\ UNCHANGED goal ELSE Finish(e)
    /\ UNCHANGED disk

-----------------------------------------------------------------------------
(* An await of p rejects, or its process dies, wherever it stands; a file   *)
(* it was writing may be left cut short.                                    *)
Fail(p) ==
    /\ pc[p] \notin {"idle", "done"}
    /\ Finish(p)
    /\ \/ UNCHANGED artifacts
       \/ /\ pc[p] = "writing" /\ written[p] < NumAssets
          /\ artifacts' = [artifacts EXCEPT ![written[p] + 1] = "torn"]
    /\ UNCHANGED <<form, run, granted>>

Store(p)    == UpdateRead(p) \/ UpdateRefused(p) \/ SaveOpen(p) \/ SaveWrite(p)
Decide(d)   == ApprovalRequest(d) \/ Resolve(d) \/ ResolveRefused(d) \/ markRevisionRequested(d)
RunIt(e)    == \/ ExecutionRequest(e) \/ Coordinate(e) \/ Resume(e) \/ Execute(e)
               \/ Publish(e) \/ WriteArtifact(e) \/ ArtifactsWritten(e)

Next ==
    \/ CreateRun \/ Orchestrate \/ OrchestrateReturn
    \/ \E d \in Deciders : Decide(d)
    \/ \E e \in Executors : RunIt(e)
    \/ \E p \in Actors : Store(p) \/ Fail(p)

Spec == Init /\ [][Next]_vars
-----------------------------------------------------------------------------
(* Properties.                                                             *)

\* The types of the state; pc names the awaits of the three kinds of request.
TypeOK ==
    /\ form \in {"missing", "empty", "whole", "garbled"}
    /\ run \in RunRecord
    /\ artifacts \in [Assets -> {"absent", "torn", "whole"}]
    /\ granted \subseteq Status
    /\ pc \in [Actors -> {"idle", "done", "between", "read", "save", "flush",
                          "resolve", "count", "coordinator", "resumer",
                          "agent", "publisher", "writing"}]
    /\ goal \in [Actors -> Status \cup {"none"}]
    /\ staged \in [Actors -> RunRecord]
    /\ count \in [Actors -> Nat]
    /\ written \in [Actors -> 0 .. NumAssets]
    /\ form = "whole" => run.status \in Status
    /\ \A p \in Actors : pc[p] \in {"save", "flush"} =>
          goal[p] \in Status /\ staged[p].status = goal[p]

Decided == Decisions \cup {"executed"}

\* Nothing is written to the output directory before an approve decision has
\* been recorded, whichever layer an execution request enters at and however
\* requests interleave, fail or die (docs/system-architecture.md: "Execution
\* is not supposed to bypass approval").
PublishedOnlyAfterApproval ==
    (\E a \in Assets : artifacts[a] # "absent") => "approved" \in granted

Coherent(r) ==
    /\ r.status \in Decisions => r.approvalStatus = r.status
    /\ r.status = "executed" => r.approvalStatus = "approved"
    /\ r.status = "pending_approval" => r.approvalStatus = "pending"
    /\ r.status \in Decided \cup {"pending_approval"} => r.workflowResult
    /\ r.publishedPath <=> r.status = "executed"

\* A record is never a mix of two decisions: racing updates overwrite each
\* other, but status, approvalStatus, workflowResult and publishedPath of any
\* record on disk belong to one chain of updates.
RecordCoherent == Coherent(run)

RevisionsCounted(r) ==
    r.revisionCount = IF r.status = "revision_requested" THEN 1 ELSE 0

\* revisionCount is computed from a read of its own, before the read the
\* update is checked against; even so racing revision requests never count
\* a revision twice nor leave one behind on a run decided otherwise.
RevisionCountExact == RevisionsCounted(run)

\* A run created with approvalRequired false is never published: the
\* orchestrator leaves it at validation_passed, which no resolver and no
\* execution layer accepts.
ExemptRunNeverPublished ==
    run.status # "absent" /\ ~ run.approvalRequired =>
        \A a \in Assets : artifacts[a] = "absent"

\* With one execution request at a time, a run marked executed has every one
\* of its files whole on disk, also after failed and repeated attempts.
ExecutedMeansWritten ==
    run.status = "executed" => \A a \in Assets : artifacts[a] = "whole"

\* Once a decision has been reported as recorded, the record never goes back
\* to a status from before the decision: no stale snapshot of the
\* orchestrator's or of a resolver's can undo that the run was decided.
DecidedStaysDecided ==
    [][granted # {} => run'.status \in Decided]_vars

\* Successive records follow the transition table of core/constants.ts.
TableRespected ==
    [][run.status # "absent" /\ run'.status # run.status =>
          canTransition(run.status, run'.status)]_vars

Phase ==
    CASE run.status = "pending_approval" -> "pending"
      [] run.status = "approved"         -> "approved"
      [] run.status = "executed"         -> "executed"
      [] run.status \in {"rejected", "revision_requested"} -> "refused"
      [] OTHER                           -> "preparing"

Promise == INSTANCE ApprovalLifecycle
               WITH phase <- Phase,
                    published <- \E a \in Assets : artifacts[a] # "absent"

\* With one approval request at a time the run keeps the approval promise:
\* asked once, decided once, content only after approve.
KeepsPromise == Promise!Spec
-----------------------------------------------------------------------------
(* The inductive invariant behind the safety properties.                   *)

Awaited == {"pending_approval"} \cup Decided

Published == \E a \in Assets : artifacts[a] # "absent"

\* Each kind of request stays among its own steps and keeps its own goal.
Roles ==
    /\ pc[Orch] \in {"idle", "done", "between", "read", "save", "flush"}
    /\ pc[Orch] \notin {"idle", "done"} => goal[Orch] \in OrchGoals
    /\ \A d \in Deciders :
          /\ pc[d] \in {"idle", "resolve", "count", "read", "save", "flush"}
          /\ pc[d] # "idle" => goal[d] \in Decisions
          /\ pc[d] = "count" => goal[d] = "revision_requested"
    /\ \A e \in Executors :
          /\ pc[e] \in {"idle", "coordinator", "resumer", "agent", "publisher",
                        "writing", "read", "save", "flush"}
          /\ pc[e] # "idle" => goal[e] = "executed"

\* The orchestrator has made its last update.
Settled == pc[Orch] = "done" \/ (pc[Orch] = "between" /\ goal[Orch] = "pending_approval")

\* The requests take over only once the orchestrator has settled, so that its
\* saves and theirs never overlap and a decided run stays decided.
HandedOver ==
    /\ run.status \in Awaited => Settled
    /\ pc[Orch] = "flush" => form = "empty"
    /\ granted # {} => run.status \in Decided
    /\ \A p \in Deciders \cup Executors :
          /\ pc[p] \in {"count", "read", "save", "flush"} => run.status \in Awaited
          /\ pc[p] = "flush" => form = "empty" \/ run.status \in Decided

\* Whatever shows that the run may go out rests on a recorded approval.
ApprovalBehind ==
    /\ run.status \in {"approved", "executed"} => "approved" \in granted
    /\ Published => "approved" \in granted
    /\ \A e \in Executors :
          pc[e] \notin {"idle", "coordinator", "resumer", "agent", "publisher"}
             => "approved" \in granted

\* What is on disk, or about to be, is coherent.
GoodRecord(r) ==
    /\ Coherent(r)
    /\ RevisionsCounted(r)
    /\ r.status \in Awaited => r.approvalRequired

RecordsGood ==
    /\ GoodRecord(run)
    /\ \A p \in Actors : pc[p] \in {"save", "flush"} => GoodRecord(staged[p])
    /\ \A d \in Deciders :
          pc[d] = "read" /\ goal[d] = "revision_requested"
             => count[d] = 1 \/ run.status \in Decided
    /\ pc[Orch] \in {"between", "read"} =>
          staged[Orch].approvalRequired = run.approvalRequired
    /\ pc[Orch] = "read" /\ goal[Orch] = "pending_approval" =>
          staged[Orch].approvalRequired

IInv == TypeOK /\ Roles /\ HandedOver /\ ApprovalBehind /\ RecordsGood

\* Behind ExecutedMeansWritten, with one executor: it counts what it has written, writes
\* only into a run that is not executed and marks the run when all is there.
WritesCounted ==
    /\ ExecutedMeansWritten
    /\ \A e \in Executors :
          /\ pc[e] \in {"idle", "coordinator", "resumer", "agent", "publisher"} => written[e] = 0
          /\ pc[e] = "writing" =>
                run.status # "executed" /\ \A a \in 1 .. written[e] : artifacts[a] = "whole"
          /\ pc[e] \in {"read", "save", "flush"} => \A a \in Assets : artifacts[a] = "whole"

\* Behind KeepsPromise and TableRespected, with one decider: what a request was let through
\* for is still so when it saves.
Undisturbed ==
    /\ \A d \in Deciders :
          pc[d] \in {"count", "read", "save", "flush"} => run.status = "pending_approval"
    /\ \A e \in Executors :
          /\ pc[e] \in {"writing", "read", "save", "flush"} => run.status \in {"approved", "executed"}
          /\ pc[e] \in {"read", "save", "flush"} \/ written[e] > 0 => Published
    /\ pc[Orch] = "idle" => run.status = "absent"
    /\ pc[Orch] \in {"save", "flush"} /\ run.status # "absent" =>
          canTransition(run.status, goal[Orch])
=============================================================================
