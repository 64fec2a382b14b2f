------------------------- MODULE DeliverableLifecycle -------------------------
(***************************************************************************)
(* Deliverables: the registry (core/deliverable-store.ts), the lifecycle   *)
(* that carries a deliverable and its output file from root to root        *)
(* (services/runtime/deliverable-lifecycle.ts) and the recorder that makes *)
(* the records (services/runtime/deliverable-recorder.ts).                 *)
(*                                                                         *)
(* An advisory deliverable has an output file and no run; a deliverable of *)
(* a run has no file until PublisherAgent writes the run's outputs.  The   *)
(* requests come from the CLI and the web shell and interleave at every    *)
(* file access.  Every read parses the whole registry, so one file that    *)
(* does not parse fails it; a save truncates the record's file and then    *)
(* writes it, so that a death or a write that throws in between leaves a   *)
(* file no later call can read; the file is renamed before the record is   *)
(* saved.                                                                  *)
(***************************************************************************)
EXTENDS Naturals

CONSTANTS
    Deliverables,  \* the ids the recorder draws
    OfRun,         \* those recorded for an orchestrated run
    Requests,      \* who may have a call under way
    SaveMayFail,   \* a save can be blocked, or its write can throw
    MaxCalls,      \* bound: calls made
    MaxDeaths      \* bound: calls cut short by the end of their process

ASSUME OfRunAssumption == OfRun \subseteq Deliverables
ASSUME BoundsAssumption ==
    MaxCalls \in Nat /\ MaxDeaths \in Nat /\ SaveMayFail \in BOOLEAN

VARIABLES
    registry,  \* the record file of each deliverable
    artifact,  \* the root its output file lies in
    run,       \* the status of the run behind it
    call,      \* the call a request makes: what, and on which deliverable
    pc,        \* where the call stands
    held,      \* the record it has read, or is about to write
    calls,
    deaths,
    cut        \* the records whose save a death or a throw has cut short

vars == <<registry, artifact, run, call, pc, held, calls, deaths, cut>>

Advisory == Deliverables \ OfRun

-----------------------------------------------------------------------------
(* Records and the lifecycle table.                                        *)

Roots    == {"draft", "pending_approval", "approved", "published"}
Statuses == Roots \cup {"failed"}

\* A record: its status, the root its outputPath is under, and whether
\* approvedAt has been set.
Records == [status : Statuses, at : Roots \cup {"none"}, approved : BOOLEAN]

Missing == [status |-> "missing"]
Empty   == [status |-> "empty"]   \* truncated and not yet written
Torn    == [status |-> "torn"]    \* holds a part of a write, or the end of a longer one

Readable(d) == registry[d] \in Records

\* listAll parses every file of the registry.
RegistryReadable == \A d \in Deliverables : registry[d] \notin {Empty, Torn}

nextStatus == [submit |-> "pending_approval", approve |-> "approved",
               publish |-> "published"]

VALID_TRANSITIONS ==
    {<<"draft", "pending_approval">>, <<"pending_approval", "approved">>,
     <<"approved", "published">>}

canTransition(status, act) == <<status, nextStatus[act]>> \in VALID_TRANSITIONS

\* Wrong on purpose: the record is built afresh and drops its approval.
Transitioned_Fresh(record, act) ==
    [status   |-> nextStatus[act],
     at       |-> IF record.at = "none" THEN "none" ELSE nextStatus[act],
     approved |-> act = "approve"]

\* Wrong on purpose: the moved path is not recorded.
Transitioned_PathKept(record, act) ==
    [status |-> nextStatus[act], at |-> record.at,
     approved |-> record.approved \/ act = "approve"]

\* The updater of transition: the outputs follow the record's own move.
Transitioned(record, act) ==
    [status   |-> nextStatus[act],
     at       |-> IF record.at = "none" THEN "none" ELSE nextStatus[act],
     approved |-> record.approved \/ act = "approve"]

Draft(d, status) ==
    [status |-> status, at |-> IF d \in OfRun THEN "none" ELSE "draft",
     approved |-> FALSE]

Calls  == [act : {"record", "record_submit", "submit", "approve", "publish", "publish_run"},
           on : Deliverables]
Places == {"idle", "look", "read", "move", "reread", "save", "write",
           "load", "mark", "execute", "find", "update"}

Published(record) == [record EXCEPT !.status = "published", !.at = "published"]

-----------------------------------------------------------------------------
On(r)      == call[r].on
Goto(r, l) == pc' = [pc EXCEPT ![r] = l]

NoCall == [act |-> "none", on |-> "none"]

\* A call goes on at l, with what it holds.
Pass(r, l) == Goto(r, l) /\ UNCHANGED <<call, held>>

End(r) ==
    /\ Goto(r, "idle")
    /\ call' = [call EXCEPT ![r] = NoCall]
    /\ held' = [held EXCEPT ![r] = Missing]

\* An id nothing was recorded under yet.
Fresh(d) == /\ registry[d] = Missing
            /\ artifact[d] = "none"
            /\ \A r \in Requests : On(r) # d

Init ==
    /\ registry = [d \in Deliverables |-> Missing]
    /\ artifact = [d \in Deliverables |-> "none"]
    /\ run \in [Deliverables -> {"none", "pending_approval", "failed"}]
    /\ \A d \in Deliverables : run[d] = "none" <=> d \in Advisory
    /\ call = [r \in Requests |-> NoCall]
    /\ pc = [r \in Requests |-> "idle"]
    /\ held = [r \in Requests |-> Missing]
    /\ calls = 0
    /\ deaths = 0
    /\ cut = {}

\* A call begins: an operator's submit, approve or publish of a deliverable, or
\* publish-run, which goes to PublisherAgent at once.
Begin(r, d, act) ==
    /\ pc[r] = "idle"
    /\ calls < MaxCalls
    /\ act = "publish_run" => d \in OfRun
    /\ registry[d] # Missing
    /\ call' = [call EXCEPT ![r] = [act |-> act, on |-> d]]
    /\ Goto(r, CASE act = "publish_run" -> "load" [] act = "publish" -> "look"
                 [] OTHER -> "read")
    /\ calls' = calls + 1
    /\ UNCHANGED <<registry, artifact, run, held, deaths, cut>>

-----------------------------------------------------------------------------
(* The recorder.                                                           *)

\* recordAssistantResult under a fresh id.  The advisory output is written first;
\* a run that did not end well leaves a failed record.
recordAssistantResult(r, d, submits) ==
    /\ pc[r] = "idle"
    /\ calls < MaxCalls
    /\ Fresh(d)
    /\ submits => run[d] \notin {"none", "failed"}
    /\ artifact' = IF d \in Advisory THEN [artifact EXCEPT ![d] = "draft"] ELSE artifact
    /\ call' = [call EXCEPT ![r] =
                   [act |-> IF submits THEN "record_submit" ELSE "record", on |-> d]]
    /\ held' = [held EXCEPT ![r] = Draft(d, IF run[d] = "failed" THEN "failed" ELSE "draft")]
    /\ Goto(r, "save")
    /\ calls' = calls + 1
    /\ UNCHANGED <<registry, run, deaths, cut>>

-----------------------------------------------------------------------------
(* submitForApproval, approveDeliverable, publishDeliverable.              *)

\* publishDeliverable's own read: a deliverable of a run that has no output of
\* its own yet goes to PublisherAgent.
publishDeliverable(r) ==
    LET d == On(r) IN
    /\ pc[r] = "look"
    /\ IF RegistryReadable /\ Readable(d) /\ registry[d].status = "approved"
       THEN Pass(r, IF d \in OfRun /\ registry[d].at = "none" THEN "load" ELSE "read")
       ELSE End(r)
    /\ UNCHANGED <<registry, artifact, run, calls, deaths, cut>>

MayTransition(r) ==
    /\ RegistryReadable
    /\ Readable(On(r))
    /\ canTransition(registry[On(r)].status, call[r].act)

\* Wrong on purpose: the table is asked only after the file has moved.
ReadRecord_Unasked(r) ==
    /\ pc[r] = "read"
    /\ IF RegistryReadable /\ Readable(On(r))
       THEN /\ Goto(r, "move")
            /\ held' = [held EXCEPT ![r] = registry[On(r)]]
            /\ UNCHANGED call
       ELSE End(r)
    /\ UNCHANGED <<registry, artifact, run, calls, deaths, cut>>

\* transition reads the record and asks its table.
ReadRecord(r) ==
    /\ pc[r] = "read"
    /\ IF MayTransition(r)
       THEN /\ Goto(r, "move")
            /\ held' = [held EXCEPT ![r] = registry[On(r)]]
            /\ UNCHANGED call
       ELSE End(r)
    /\ UNCHANGED <<registry, artifact, run, calls, deaths, cut>>

\* Wrong on purpose: the file is moved from wherever it lies.
moveOutputArtifacts_Anyway(r) ==
    /\ pc[r] = "move"
    /\ artifact' = IF held[r].at = "none" THEN artifact
                   ELSE [artifact EXCEPT ![On(r)] = nextStatus[call[r].act]]
    /\ Pass(r, "reread")
    /\ UNCHANGED <<registry, run, calls, deaths, cut>>

\* moveOutputArtifacts: a record without an output moves nothing; the rename fails
\* when the file is not where the record that was read says.
moveOutputArtifacts(r) ==
    LET d == On(r) IN
    /\ pc[r] = "move"
    /\ \/ held[r].at = "none" /\ Pass(r, "reread") /\ UNCHANGED artifact
       \/ /\ held[r].at # "none" /\ artifact[d] = held[r].at
          /\ artifact' = [artifact EXCEPT ![d] = nextStatus[call[r].act]]
          /\ Pass(r, "reread")
       \/ held[r].at \notin {"none", artifact[d]} /\ End(r) /\ UNCHANGED artifact
    /\ UNCHANGED <<registry, run, calls, deaths, cut>>

\* DeliverableStore.transition reads the record again, asks its own table and
\* applies the updater.
storeTransition(r) ==
    /\ pc[r] = "reread"
    /\ IF MayTransition(r)
       THEN /\ held' = [held EXCEPT ![r] = Transitioned(registry[On(r)], call[r].act)]
            /\ Goto(r, "save")
            /\ UNCHANGED call
       ELSE End(r)
    /\ UNCHANGED <<registry, artifact, run, calls, deaths, cut>>

-----------------------------------------------------------------------------
(* save.                                                                   *)

OpenForWrite(r) ==
    /\ pc[r] = "save"
    /\ registry' = [registry EXCEPT ![On(r)] = Empty]
    /\ Pass(r, "write")
    /\ UNCHANGED <<artifact, run, calls, deaths, cut>>

\* The save is blocked, or throws before the file is open.
SaveFails(r) ==
    /\ SaveMayFail
    /\ pc[r] = "save"
    /\ End(r)
    /\ UNCHANGED <<registry, artifact, run, calls, deaths, cut>>

\* The write throws with the file truncated: its process lives on, and the record
\* stays empty or cut off.
WriteFails(r) ==
    /\ SaveMayFail
    /\ pc[r] = "write"
    /\ registry' \in {registry, [registry EXCEPT ![On(r)] = Torn]}
    /\ cut' = cut \cup {On(r)}
    /\ End(r)
    /\ UNCHANGED <<artifact, run, calls, deaths>>

\* A write into a file that another write has filled since may leave the end of
\* the longer of the two behind.
WriteRecord(r) ==
    LET d == On(r) IN
    /\ pc[r] = "write"
    /\ \/ registry' = [registry EXCEPT ![d] = held[r]]
       \/ registry[d] # Empty /\ registry' = [registry EXCEPT ![d] = Torn]
    /\ IF call[r].act = "record_submit"
       THEN /\ Goto(r, "read")
            /\ call' = [call EXCEPT ![r].act = "submit"]
            /\ held' = [held EXCEPT ![r] = Missing]
       ELSE End(r)
    /\ UNCHANGED <<artifact, run, calls, deaths, cut>>

-----------------------------------------------------------------------------
(* PublisherAgent.publish, and recordPublishedRun after it.  RunLifecycle   *)
(* has the run's side in full.                                             *)

LoadRun(r) ==
    /\ pc[r] = "load"
    /\ IF run[On(r)] = "approved" THEN Pass(r, "mark") ELSE End(r)
    /\ UNCHANGED <<registry, artifact, run, calls, deaths, cut>>

\* The outputs are written, and markExecuted reads the run and asks its table.
WriteOutputs(r) ==
    /\ pc[r] = "mark"
    /\ artifact' = [artifact EXCEPT ![On(r)] = "published"]
    /\ IF run[On(r)] = "approved" THEN Pass(r, "execute") ELSE End(r)
    /\ UNCHANGED <<registry, run, calls, deaths, cut>>

MarkExecuted(r) ==
    /\ pc[r] = "execute"
    /\ run' = [run EXCEPT ![On(r)] = "executed"]
    /\ Pass(r, "find")
    /\ UNCHANGED <<registry, artifact, calls, deaths, cut>>

\* recordPublishedRun: the record is found by its run, read again and saved as
\* published, whatever status it has.
FindByRun(r) ==
    /\ pc[r] = "find"
    /\ IF RegistryReadable /\ Readable(On(r)) THEN Pass(r, "update") ELSE End(r)
    /\ UNCHANGED <<registry, artifact, run, calls, deaths, cut>>

recordPublishedRun(r) ==
    /\ pc[r] = "update"
    /\ IF RegistryReadable /\ Readable(On(r))
       THEN /\ held' = [held EXCEPT ![r] = Published(registry[On(r)])]
            /\ Goto(r, "save")
            /\ UNCHANGED call
       ELSE End(r)
    /\ UNCHANGED <<registry, artifact, run, calls, deaths, cut>>

-----------------------------------------------------------------------------
\* The run is approved (ApprovalResolver; RunLifecycle).
RunApproved(d) ==
    /\ run[d] = "pending_approval"
    /\ run' = [run EXCEPT ![d] = "approved"]
    /\ UNCHANGED <<registry, artifact, call, pc, held, calls, deaths, cut>>

\* The process of a call ends in the middle of it.
Dies(r) ==
    /\ pc[r] # "idle"
    /\ deaths < MaxDeaths
    /\ End(r)
    /\ deaths' = deaths + 1
    /\ cut' = IF pc[r] = "write" THEN cut \cup {On(r)} ELSE cut
    /\ UNCHANGED <<registry, artifact, run, calls>>

Step(r) ==
    \/ publishDeliverable(r)
    \/ ReadRecord(r)
    \/ moveOutputArtifacts(r)
    \/ storeTransition(r)
    \/ OpenForWrite(r)
    \/ SaveFails(r)
    \/ WriteFails(r)
    \/ WriteRecord(r)
    \/ LoadRun(r)
    \/ WriteOutputs(r)
    \/ MarkExecuted(r)
    \/ FindByRun(r)
    \/ recordPublishedRun(r)

Next ==
    \/ \E r \in Requests, d \in Deliverables :
          \/ \E act \in {"submit", "approve", "publish", "publish_run"} : Begin(r, d, act)
          \/ \E submits \in BOOLEAN : recordAssistantResult(r, d, submits)
    \/ \E r \in Requests : Step(r) \/ Dies(r)
    \/ \E d \in Deliverables : RunApproved(d)

Spec == Init /\ [][Next]_vars

-----------------------------------------------------------------------------
\* The values of the variables: files, runs, calls and where they stand
\* (types/deliverable.types.ts, DeliverableStatus).
TypeOK ==
    /\ registry \in [Deliverables -> Records \cup {Missing, Empty, Torn}]
    /\ artifact \in [Deliverables -> Roots \cup {"none"}]
    /\ run \in [Deliverables -> {"none", "pending_approval", "approved", "executed", "failed"}]
    /\ call \in [Requests -> Calls \cup {NoCall}]
    /\ pc \in [Requests -> Places]
    /\ held \in [Requests -> Records \cup {Missing}]
    /\ \A r \in Requests : call[r] = NoCall <=> pc[r] = "idle"
    /\ calls \in Nat /\ deaths \in Nat
    /\ cut \subseteq Deliverables

Prior == [pending_approval |-> "draft", approved |-> "pending_approval",
          published |-> "approved"]

\* The calls that are between the rename of a deliverable's file and the end of the
\* save of its record, and the one that records it first.
Owner(r, d) ==
    /\ On(r) = d
    /\ \/ pc[r] \in {"reread", "save", "write"} /\ call[r].act \in DOMAIN nextStatus
       \/ pc[r] \in {"save", "write"} /\ call[r].act \in {"record", "record_submit"}

\* However many operators ask for the same transition at once, one of them moves the
\* output file and saves the record: the rename of deliverable-lifecycle.ts:223
\* decides, for neither read of the record does.
OneMover ==
    \A d \in Advisory, r, s \in Requests : Owner(r, d) /\ Owner(s, d) => r = s

\* The output file lies in the root the record names or, while a call is between the
\* rename and the save or after one that never saved, in the next one: it is never
\* two stages from its record (deliverable-lifecycle.ts:142-171).
ArtifactNearRecord ==
    \A d \in Advisory :
       Readable(d) => /\ registry[d].at = registry[d].status
                      /\ \/ artifact[d] = registry[d].at
                         \/ <<registry[d].at, artifact[d]>> \in VALID_TRANSITIONS

\* No output lies in the published root unless its record carries an approval: the
\* approval survives every later save (deliverable-lifecycle.ts:144-171).
PublishedRootApproved ==
    \A d \in Advisory :
       artifact[d] = "published" /\ Readable(d) => registry[d].approved

\* A save that ends names the root the output file lies in at that moment, and the
\* file never goes back a root, whatever was read before: no stale save lands on a
\* later one (deliverable-store.ts:97, :118).
RecordCatchesUp ==
    [][\A d \in Advisory :
         /\ Readable(d)' /\ registry'[d] # registry[d] => registry'[d].at = artifact'[d]
         /\ artifact'[d] \notin {artifact[d], "draft"} => artifact[d] = Prior[artifact'[d]]]_vars

\* A record of an advisory output that does not parse - and with it every read of
\* the registry - is being written at this moment, or its own save was cut short
\* between the truncation and the end of the write (deliverable-store.ts:49-53,
\* :155): no race of two saves leaves one.
UnreadableWhileWritten ==
    \A d \in Advisory :
       registry[d] \in {Empty, Torn} =>
          d \in cut \/ \E r \in Requests : On(r) = d /\ pc[r] = "write"

=============================================================================
