------------------------- MODULE RunLifecycleProofs -------------------------
(***************************************************************************)
(* What TLAPS proves of RunLifecycle, for any number of concurrent         *)
(* requests and any number of files.                                       *)
(***************************************************************************)
EXTENDS RunLifecycle, TLAPS

LEMMA NoRunIsRecord == NoRun \in RunRecord
  BY DEF NoRun, RunRecord, Status, OrchGoals, ApprovalStatus, Decisions

LEMMA CreateRunIsRecord ==
  ASSUME NEW required \in BOOLEAN
  PROVE  createRun(required) \in RunRecord /\ createRun(required).status = "queued"
  BY DEF createRun, NoRun, RunRecord, Status, OrchGoals, ApprovalStatus, Decisions

\* An update of a record is a record.
LEMMA UpdatedIsRecord ==
  ASSUME NEW r \in RunRecord, NEW s \in Status, NEW n \in Nat
  PROVE  /\ buildUpdatedRun(r, s, n) \in RunRecord
         /\ buildUpdatedRun(r, s, n).status = s
  BY DEF buildUpdatedRun, RunRecord, ApprovalStatus, Decisions

\* The table takes a status to statuses.
LEMMA TransitionsAreStatuses ==
  ASSUME NEW s \in Status, NEW t, canTransition(s, t)
  PROVE  t \in Status
  BY DEF canTransition, RUN_STATE_TRANSITIONS, Status, OrchGoals, Decisions

\* The end of a request keeps the types of what it resets.
LEMMA FinishTyped ==
  ASSUME TypeOK, NEW p \in Actors, Finish(p)
  PROVE  /\ pc' \in [Actors -> {"idle", "done", "between", "read", "save", "flush",
                          "resolve", "count", "coordinator", "resumer",
                          "agent", "publisher", "writing"}]
         /\ goal' \in [Actors -> Status \cup {"none"}]
         /\ staged' \in [Actors -> RunRecord]
         /\ count' \in [Actors -> Nat]
         /\ written' \in [Actors -> 0 .. NumAssets]
         /\ \A q \in Actors : pc'[q] \in {"save", "flush"} =>
               goal'[q] \in Status /\ staged'[q].status = goal'[q]
  BY NoRunIsRecord, NumAssetsAssumption DEF TypeOK, Finish, Rest

\* Every step keeps the types.
LEMMA TypeStep == TypeOK /\ [Next]_vars => TypeOK'
<1> SUFFICES ASSUME TypeOK, [Next]_vars PROVE TypeOK'
  OBVIOUS
<1> USE DEF disk
<1> Orch \in Actors /\ Deciders \subseteq Actors /\ Executors \subseteq Actors
  BY DEF Actors
<1>1. CASE CreateRun
  BY <1>1, CreateRunIsRecord DEF CreateRun, TypeOK, Status, OrchGoals
<1>2. CASE Orchestrate
  <2>1. \A s \in NextGoals(goal[Orch], staged[Orch].approvalRequired) : s \in Status
    BY DEF NextGoals, Status, OrchGoals
  <2>2. QED
    BY <1>2, <2>1 DEF Orchestrate, Goto, TypeOK
<1>3. CASE OrchestrateReturn
  BY <1>3, FinishTyped DEF OrchestrateReturn, TypeOK
<1>4. ASSUME NEW d \in Deciders, Decide(d) PROVE TypeOK'
  <2>1. CASE ApprovalRequest(d)
    BY <2>1 DEF ApprovalRequest, Goto, TypeOK, Status
  <2>2. CASE Resolve(d)
    BY <2>2 DEF Resolve, Goto, TypeOK
  <2>3. CASE ResolveRefused(d)
    BY <2>3, FinishTyped DEF ResolveRefused, TypeOK
  <2>4. CASE markRevisionRequested(d)
    <3>1. run.revisionCount + 1 \in Nat
      BY DEF TypeOK, RunRecord
    <3>2. QED
      BY <2>4, <3>1, FinishTyped DEF markRevisionRequested, TypeOK
  <2>5. QED
    BY <1>4, <2>1, <2>2, <2>3, <2>4 DEF Decide
<1>5. ASSUME NEW e \in Executors, RunIt(e) PROVE TypeOK'
  <2>1. CASE ExecutionRequest(e)
    BY <2>1 DEF ExecutionRequest, Goto, TypeOK, Status
  <2>2. ASSUME NEW here, NEW check,
               NEW next \in {"resumer", "agent", "publisher", "writing"},
               Layer(e, here, check, next)
        PROVE  TypeOK'
    BY <2>2, FinishTyped DEF Layer, Goto, TypeOK
  <2>3. CASE WriteArtifact(e)
    BY <2>3, NumAssetsAssumption DEF WriteArtifact, TypeOK, Assets
  <2>4. CASE ArtifactsWritten(e)
    BY <2>4, FinishTyped DEF ArtifactsWritten, Goto, TypeOK
  <2>5. QED
    BY <1>5, <2>1, <2>2, <2>3, <2>4 DEF RunIt, Coordinate, Resume, Execute, Publish
<1>6. ASSUME NEW p \in Actors, Store(p) PROVE TypeOK'
  <2>1. CASE UpdateRead(p)
    <3>1. run.status \in Status /\ canTransition(run.status, goal[p])
      BY <2>1 DEF UpdateRead, Readable, TypeOK
    <3>2. goal[p] \in Status
      BY <3>1, TransitionsAreStatuses
    <3>3. /\ buildUpdatedRun(run, goal[p], count[p]) \in RunRecord
          /\ buildUpdatedRun(run, goal[p], count[p]).status = goal[p]
      BY <3>2, UpdatedIsRecord DEF TypeOK
    <3>4. QED
      BY <2>1, <3>2, <3>3 DEF UpdateRead, TypeOK
  <2>2. CASE UpdateRefused(p)
    BY <2>2, FinishTyped DEF UpdateRefused, TypeOK
  <2>3. CASE SaveOpen(p)
    BY <2>3 DEF SaveOpen, Goto, TypeOK
  <2>4. CASE SaveWrite(p)
    <3>1. run' \in RunRecord /\ (form' = "whole" => run'.status \in Status)
      BY <2>4 DEF SaveWrite, TypeOK
    <3>2. form' \in {"missing", "empty", "whole", "garbled"}
      BY <2>4 DEF SaveWrite
    <3>3. CASE p = Orch
      <4>1. p \notin Deciders
        BY <3>3, ActorsAssumption
      <4>2. QED
        BY <2>4, <3>1, <3>2, <3>3, <4>1 DEF SaveWrite, Goto, TypeOK
    <3>4. CASE p # Orch
      <4>1. Finish(p)
        BY <2>4, <3>4 DEF SaveWrite
      <4>2. granted' \subseteq Status
        BY <2>4 DEF SaveWrite, TypeOK
      <4>3. QED
        BY <2>4, <3>1, <3>2, <4>1, <4>2, FinishTyped DEF SaveWrite, TypeOK
    <3>5. QED
      BY <3>3, <3>4
  <2>5. QED
    BY <1>6, <2>1, <2>2, <2>3, <2>4 DEF Store
<1>7. ASSUME NEW p \in Actors, Fail(p) PROVE TypeOK'
  BY <1>7, FinishTyped, NumAssetsAssumption DEF Fail, TypeOK, Assets
<1>8. CASE UNCHANGED vars
  BY <1>8 DEF vars, TypeOK
<1>9. QED
  BY <1>1, <1>2, <1>3, <1>4, <1>5, <1>6, <1>7, <1>8 DEF Next

\* The state of a run is always of the types TypeOK gives.
THEOREM TypeCorrect == Spec => []TypeOK
<1>1. Init => TypeOK
  BY NoRunIsRecord, NumAssetsAssumption DEF Init, TypeOK
<1>2. QED
  BY <1>1, TypeStep, PTL DEF Spec

-----------------------------------------------------------------------------
(* The inductive invariant.                                                *)

LEMMA ActorsDistinct ==
  /\ Orch \in Actors /\ Orch \notin Deciders /\ Orch \notin Executors
  /\ \A d \in Deciders : d \in Actors /\ d # Orch /\ d \notin Executors
  /\ \A e \in Executors : e \in Actors /\ e # Orch /\ e \notin Deciders
  /\ \A p \in Actors : p = Orch \/ p \in Deciders \/ p \in Executors
  BY ActorsAssumption DEF Actors

\* What the end of a request does to the actors.
LEMMA FinishFrame ==
  ASSUME TypeOK, NEW p \in Actors, Finish(p)
  PROVE  /\ pc'[p] = Rest(p)
         /\ \A q \in Actors : q # p => /\ pc'[q] = pc[q] /\ goal'[q] = goal[q]
                                       /\ staged'[q] = staged[q] /\ count'[q] = count[q]
  BY DEF TypeOK, Finish

\* The end of a request disturbs nothing the invariant says.
LEMMA FinishKeeps ==
  ASSUME IInv, NEW p \in Actors, Finish(p), UNCHANGED <<form, run, granted>>,
         Published' => Published \/ "approved" \in granted
  PROVE  Roles' /\ HandedOver' /\ ApprovalBehind' /\ RecordsGood'
<1>1. /\ pc'[p] = Rest(p)
      /\ \A q \in Actors : q # p => /\ pc'[q] = pc[q] /\ goal'[q] = goal[q]
                                    /\ staged'[q] = staged[q] /\ count'[q] = count[q]
  BY FinishFrame DEF IInv
<1>2. Roles'
  BY <1>1, ActorsDistinct DEF IInv, Roles, Rest
<1>3. HandedOver'
  BY <1>1, ActorsDistinct DEF IInv, HandedOver, Settled, Rest
<1>4. ApprovalBehind'
  BY <1>1, ActorsDistinct DEF IInv, ApprovalBehind, Rest
<1>5. RecordsGood'
  BY <1>1, ActorsDistinct DEF IInv, RecordsGood, GoodRecord, Coherent, RevisionsCounted, Rest
<1>6. QED
  BY <1>2, <1>3, <1>4, <1>5

\* The part of the invariant that is not about types.
Safe == Roles /\ HandedOver /\ ApprovalBehind /\ RecordsGood

LEMMA CreateRunSafe ==
  ASSUME IInv, CreateRun
  PROVE  Safe'
<1>1. PICK required \in BOOLEAN : staged' = [staged EXCEPT ![Orch] = createRun(required)]
  BY DEF CreateRun
<1>2. /\ pc'[Orch] = "save" /\ goal'[Orch] = "queued" /\ staged'[Orch] = createRun(required)
      /\ \A q \in Actors : q # Orch => /\ pc'[q] = pc[q] /\ goal'[q] = goal[q]
                                       /\ staged'[q] = staged[q]
      /\ UNCHANGED <<form, run, artifacts, granted, count>>
      /\ pc[Orch] = "idle"
  BY <1>1, ActorsDistinct DEF CreateRun, disk, IInv, TypeOK
<1>3. GoodRecord(createRun(required))
  BY DEF createRun, NoRun, GoodRecord, Coherent, RevisionsCounted, Awaited, Decided, Decisions
<1>4. Roles'
  BY <1>2, ActorsDistinct DEF IInv, Roles, OrchGoals
<1>5. HandedOver'
  BY <1>2, ActorsDistinct DEF IInv, HandedOver, Settled
<1>6. ApprovalBehind'
  BY <1>2, ActorsDistinct DEF IInv, ApprovalBehind, Published
<1>7. RecordsGood'
  BY <1>2, <1>3, ActorsDistinct DEF IInv, RecordsGood, GoodRecord, Coherent, RevisionsCounted
<1>8. QED
  BY <1>4, <1>5, <1>6, <1>7 DEF Safe

LEMMA OrchestrateSafe ==
  ASSUME IInv, Orchestrate
  PROVE  Safe'
<1>1. PICK s \in NextGoals(goal[Orch], staged[Orch].approvalRequired) :
         goal' = [goal EXCEPT ![Orch] = s]
  BY DEF Orchestrate
<1>2. /\ pc[Orch] = "between" /\ pc'[Orch] = "read" /\ goal'[Orch] = s
      /\ \A q \in Actors : q # Orch => pc'[q] = pc[q] /\ goal'[q] = goal[q]
      /\ UNCHANGED <<form, run, artifacts, granted, count, staged>>
  BY <1>1, ActorsDistinct DEF Orchestrate, Goto, disk, IInv, TypeOK
<1>3. /\ s \in OrchGoals
      /\ s = "pending_approval" => staged[Orch].approvalRequired
      /\ goal[Orch] # "pending_approval"
  BY <1>1 DEF NextGoals, OrchGoals
<1>4. Roles'
  BY <1>2, <1>3, ActorsDistinct DEF IInv, Roles
<1>5. HandedOver'
  BY <1>2, <1>3, ActorsDistinct DEF IInv, HandedOver, Settled
<1>6. ApprovalBehind'
  BY <1>2, ActorsDistinct DEF IInv, ApprovalBehind, Published
<1>7. RecordsGood'
  BY <1>2, <1>3, ActorsDistinct DEF IInv, RecordsGood, GoodRecord, Coherent, RevisionsCounted
<1>8. QED
  BY <1>4, <1>5, <1>6, <1>7 DEF Safe

\* A request that only moves on: nothing but its own pc (and, for a revision
\* request, its own count) changes.
LEMMA DecideSafe ==
  ASSUME IInv, NEW d \in Deciders, Decide(d)
  PROVE  Safe'
<1>d. d \in Actors
  BY ActorsDistinct
<1>1. CASE ApprovalRequest(d)
  <2>1. /\ pc'[d] = "resolve" /\ goal'[d] \in Decisions
        /\ \A q \in Actors : q # d => pc'[q] = pc[q] /\ goal'[q] = goal[q]
        /\ UNCHANGED <<form, run, artifacts, granted, count, staged>>
    BY <1>1, <1>d DEF ApprovalRequest, Goto, disk, IInv, TypeOK
  <2>2. Roles'
    BY <2>1, ActorsDistinct DEF IInv, Roles
  <2>3. HandedOver'
    BY <2>1, ActorsDistinct DEF IInv, HandedOver, Settled
  <2>4. ApprovalBehind'
    BY <2>1, ActorsDistinct DEF IInv, ApprovalBehind, Published
  <2>5. RecordsGood'
    BY <2>1, ActorsDistinct DEF IInv, RecordsGood, GoodRecord, Coherent, RevisionsCounted
  <2>6. QED
    BY <2>2, <2>3, <2>4, <2>5 DEF Safe
<1>2. CASE Resolve(d)
  <2>1. /\ run.status = "pending_approval"
        /\ pc'[d] = (IF goal[d] = "revision_requested" THEN "count" ELSE "read")
        /\ \A q \in Actors : q # d => pc'[q] = pc[q]
        /\ UNCHANGED <<form, run, artifacts, granted, count, staged, goal>>
    BY <1>2, <1>d DEF Resolve, Goto, disk, IInv, TypeOK
  <2>2. Roles'
    <3>1. pc[d] # "idle"
      BY <1>2 DEF Resolve
    <3>2. QED
      BY <2>1, <3>1, ActorsDistinct DEF IInv, Roles
  <2>3. HandedOver'
    BY <2>1, ActorsDistinct DEF IInv, HandedOver, Settled, Awaited
  <2>4. ApprovalBehind'
    BY <2>1, ActorsDistinct DEF IInv, ApprovalBehind, Published
  <2>5. RecordsGood'
    BY <2>1, ActorsDistinct DEF IInv, RecordsGood, GoodRecord, Coherent, RevisionsCounted
  <2>6. QED
    BY <2>2, <2>3, <2>4, <2>5 DEF Safe
<1>3. CASE ResolveRefused(d)
  BY <1>3, <1>d, FinishKeeps DEF ResolveRefused, disk, Safe, Published
<1>4. CASE markRevisionRequested(d) /\ ~ Finish(d)
  <2>1. /\ pc[d] = "count" /\ pc'[d] = "read" /\ count'[d] = run.revisionCount + 1
        /\ \A q \in Actors : q # d => pc'[q] = pc[q] /\ count'[q] = count[q]
        /\ UNCHANGED <<form, run, artifacts, granted, staged, goal>>
    BY <1>4, <1>d DEF markRevisionRequested, disk, IInv, TypeOK
  <2>2. Roles'
    BY <2>1, ActorsDistinct DEF IInv, Roles
  <2>3. HandedOver'
    BY <2>1, ActorsDistinct DEF IInv, HandedOver, Settled
  <2>4. ApprovalBehind'
    BY <2>1, ActorsDistinct DEF IInv, ApprovalBehind, Published
  <2>5. run.status \in Awaited /\ RevisionsCounted(run)
    BY <2>1, ActorsDistinct DEF IInv, HandedOver, RecordsGood, GoodRecord
  <2>6. run.status \in Decided \/ run.revisionCount = 0
    BY <2>5 DEF Awaited, RevisionsCounted
  <2>7. count'[d] = 1 \/ run.status \in Decided
    BY <2>1, <2>6
  <2>8. RecordsGood'
    BY <2>1, <2>7, ActorsDistinct DEF IInv, RecordsGood, GoodRecord, Coherent, RevisionsCounted
  <2>9. QED
    BY <2>2, <2>3, <2>4, <2>8 DEF Safe
<1>5. CASE markRevisionRequested(d) /\ Finish(d)
  BY <1>5, <1>d, FinishKeeps DEF markRevisionRequested, disk, Safe, Published
<1>6. QED
  BY <1>1, <1>2, <1>3, <1>4, <1>5 DEF Decide

\* One layer of an execution request: it moves on only past its check.
LEMMA LayerSafe ==
  ASSUME IInv, NEW e \in Executors,
         NEW here \in {"coordinator", "resumer", "agent", "publisher"},
         NEW check \in BOOLEAN,
         NEW next \in {"resumer", "agent", "publisher", "writing"},
         Layer(e, here, check, next),
         check /\ next = "writing" => run.status = "approved"
  PROVE  Safe'
<1>e. e \in Actors
  BY ActorsDistinct
<1>1. CASE Finish(e)
  BY <1>1, <1>e, FinishKeeps DEF Layer, disk, Safe, Published
<1>2. CASE check /\ Goto(e, next) /\ UNCHANGED goal
  <2>1. /\ pc[e] = here /\ pc'[e] = next
        /\ \A q \in Actors : q # e => pc'[q] = pc[q]
        /\ UNCHANGED <<form, run, artifacts, granted, count, staged, goal>>
    BY <1>2, <1>e DEF Layer, Goto, disk, IInv, TypeOK
  <2>2. Roles'
    BY <2>1, ActorsDistinct DEF IInv, Roles
  <2>3. HandedOver'
    BY <2>1, ActorsDistinct DEF IInv, HandedOver, Settled
  <2>4. next = "writing" => "approved" \in granted
    BY <1>2 DEF IInv, ApprovalBehind
  <2>5. ApprovalBehind'
    BY <2>1, <2>4, ActorsDistinct DEF IInv, ApprovalBehind, Published
  <2>6. RecordsGood'
    BY <2>1, ActorsDistinct DEF IInv, RecordsGood, GoodRecord, Coherent, RevisionsCounted
  <2>7. QED
    BY <2>2, <2>3, <2>5, <2>6 DEF Safe
<1>3. QED
  BY <1>1, <1>2 DEF Layer

LEMMA ExecutableIsApproved ==
  ASSUME TypeOK
  PROVE  Executable \in BOOLEAN /\ (Executable => run.status = "approved")
  BY DEF TypeOK, RunRecord, Executable, Readable

LEMMA RunItSafe ==
  ASSUME IInv, NEW e \in Executors, RunIt(e)
  PROVE  Safe'
<1>e. e \in Actors
  BY ActorsDistinct
<1>1. CASE ExecutionRequest(e)
  <2>1. /\ pc'[e] \in {"coordinator", "resumer", "agent", "publisher"}
        /\ goal'[e] = "executed"
        /\ \A q \in Actors : q # e => pc'[q] = pc[q] /\ goal'[q] = goal[q]
        /\ UNCHANGED <<form, run, artifacts, granted, count, staged>>
    BY <1>1, <1>e DEF ExecutionRequest, Goto, disk, IInv, TypeOK
  <2>2. Roles'
    BY <2>1, ActorsDistinct DEF IInv, Roles
  <2>3. HandedOver'
    BY <2>1, ActorsDistinct DEF IInv, HandedOver, Settled
  <2>4. ApprovalBehind'
    BY <2>1, ActorsDistinct DEF IInv, ApprovalBehind, Published
  <2>5. RecordsGood'
    BY <2>1, ActorsDistinct DEF IInv, RecordsGood, GoodRecord, Coherent, RevisionsCounted
  <2>6. QED
    BY <2>2, <2>3, <2>4, <2>5 DEF Safe
<1>2. CASE Coordinate(e)
  BY <1>2, LayerSafe DEF Coordinate, PolicyAllows, Readable
<1>3. CASE Resume(e)
  BY <1>3, LayerSafe, ExecutableIsApproved DEF Resume, IInv
<1>4. CASE Execute(e)
  BY <1>4, LayerSafe, ExecutableIsApproved DEF Execute, IInv
<1>5. CASE Publish(e)
  BY <1>5, LayerSafe, ExecutableIsApproved DEF Publish, IInv
<1>6. CASE WriteArtifact(e)
  <2>1. /\ pc[e] = "writing"
        /\ UNCHANGED <<form, run, granted, pc, goal, staged, count>>
    BY <1>6 DEF WriteArtifact
  <2>2. "approved" \in granted
    BY <2>1 DEF IInv, ApprovalBehind
  <2>3. Roles' /\ HandedOver'
    BY <2>1 DEF IInv, Roles, HandedOver, Settled
  <2>4. ApprovalBehind'
    BY <2>1, <2>2 DEF IInv, ApprovalBehind
  <2>5. RecordsGood'
    BY <2>1 DEF IInv, RecordsGood, GoodRecord, Coherent, RevisionsCounted
  <2>6. QED
    BY <2>3, <2>4, <2>5 DEF Safe
<1>7. CASE ArtifactsWritten(e) /\ Finish(e)
  BY <1>7, <1>e, FinishKeeps DEF ArtifactsWritten, disk, Safe, Published
<1>8. CASE ArtifactsWritten(e) /\ ~ Finish(e)
  <2>1. /\ pc[e] = "writing" /\ pc'[e] = "read"
        /\ \A q \in Actors : q # e => pc'[q] = pc[q]
        /\ UNCHANGED <<form, run, artifacts, granted, count, staged, goal>>
    BY <1>8, <1>e DEF ArtifactsWritten, Goto, disk, IInv, TypeOK
  <2>2. "approved" \in granted /\ run.status \in Awaited
    BY <2>1 DEF IInv, ApprovalBehind, HandedOver, Awaited
  <2>3. Roles'
    BY <2>1, ActorsDistinct DEF IInv, Roles
  <2>4. HandedOver'
    BY <2>1, <2>2, ActorsDistinct DEF IInv, HandedOver, Settled
  <2>5. ApprovalBehind'
    BY <2>1, <2>2, ActorsDistinct DEF IInv, ApprovalBehind, Published
  <2>6. RecordsGood'
    BY <2>1, ActorsDistinct DEF IInv, RecordsGood, GoodRecord, Coherent, RevisionsCounted
  <2>7. QED
    BY <2>3, <2>4, <2>5, <2>6 DEF Safe
<1>9. QED
  BY <1>1, <1>2, <1>3, <1>4, <1>5, <1>6, <1>7, <1>8 DEF RunIt

\* The update of a record the run may hold is a record it may hold.
LEMMA UpdateGood ==
  ASSUME IInv, NEW p \in Actors, UpdateRead(p)
  PROVE  GoodRecord(buildUpdatedRun(run, goal[p], count[p]))
<1>1. /\ pc[p] = "read" /\ canTransition(run.status, goal[p])
      /\ run \in RunRecord /\ run.status \in Status /\ GoodRecord(run)
  BY DEF UpdateRead, Readable, IInv, TypeOK, RecordsGood
<1>2. CASE p = Orch
  <2>1. /\ goal[p] \in OrchGoals /\ run.status \notin Awaited
        /\ goal[p] = "pending_approval" => run.approvalRequired
    BY <1>1, <1>2 DEF IInv, Roles, HandedOver, Settled, RecordsGood
  <2>2. QED
    BY <1>1, <2>1 DEF buildUpdatedRun, GoodRecord, Coherent, RevisionsCounted, Awaited,
          Decided, Decisions, OrchGoals, RunRecord, canTransition, RUN_STATE_TRANSITIONS, Status
<1>3. CASE p \in Deciders
  <2>1. /\ goal[p] \in Decisions /\ run.status \in Awaited
        /\ goal[p] = "revision_requested" => count[p] = 1 \/ run.status \in Decided
    BY <1>1, <1>3 DEF IInv, Roles, HandedOver, RecordsGood
  <2>2. run.status = "pending_approval"
    BY <1>1, <2>1 DEF Awaited, Decided, Decisions, canTransition, RUN_STATE_TRANSITIONS
  <2>3. QED
    BY <1>1, <2>1, <2>2 DEF buildUpdatedRun, GoodRecord, Coherent, RevisionsCounted, Awaited,
          Decided, Decisions, RunRecord
<1>4. CASE p \in Executors
  <2>1. goal[p] = "executed" /\ run.status \in Awaited
    BY <1>1, <1>4 DEF IInv, Roles, HandedOver
  <2>2. run.status = "approved"
    BY <1>1, <2>1 DEF Awaited, Decided, Decisions, canTransition, RUN_STATE_TRANSITIONS
  <2>3. QED
    BY <1>1, <2>1, <2>2 DEF buildUpdatedRun, GoodRecord, Coherent, RevisionsCounted, Awaited,
          Decided, Decisions, RunRecord
<1>5. QED
  BY <1>2, <1>3, <1>4, ActorsDistinct

LEMMA UpdateReadSafe ==
  ASSUME IInv, NEW p \in Actors, UpdateRead(p)
  PROVE  Safe'
<1>1. /\ pc[p] = "read" /\ pc'[p] = "save"
      /\ staged'[p] = buildUpdatedRun(run, goal[p], count[p])
      /\ \A q \in Actors : q # p => pc'[q] = pc[q] /\ staged'[q] = staged[q]
      /\ UNCHANGED <<form, run, artifacts, granted, goal, count>>
  BY DEF UpdateRead, disk, IInv, TypeOK
<1>2. GoodRecord(staged'[p])
  BY <1>1, UpdateGood
<1>3. Roles'
  BY <1>1, ActorsDistinct DEF IInv, Roles
<1>4. HandedOver'
  BY <1>1, ActorsDistinct DEF IInv, HandedOver, Settled
<1>5. ApprovalBehind'
  BY <1>1, ActorsDistinct DEF IInv, ApprovalBehind, Published
<1>6. RecordsGood'
  <2>1. GoodRecord(run') /\ \A q \in Actors : pc'[q] \in {"save", "flush"} => GoodRecord(staged'[q])
    BY <1>1, <1>2 DEF IInv, RecordsGood
  <2>2. QED
    BY <1>1, <2>1, ActorsDistinct DEF IInv, RecordsGood, GoodRecord, Coherent, RevisionsCounted
<1>7. QED
  BY <1>3, <1>4, <1>5, <1>6 DEF Safe

LEMMA SaveOpenSafe ==
  ASSUME IInv, NEW p \in Actors, SaveOpen(p)
  PROVE  Safe'
<1>1. /\ pc[p] = "save" /\ pc'[p] = "flush" /\ form' = "empty"
      /\ \A q \in Actors : q # p => pc'[q] = pc[q]
      /\ UNCHANGED <<run, artifacts, granted, goal, staged, count>>
  BY DEF SaveOpen, Goto, IInv, TypeOK
<1>2. Roles'
  BY <1>1, ActorsDistinct DEF IInv, Roles
<1>3. HandedOver'
  BY <1>1, ActorsDistinct DEF IInv, HandedOver, Settled
<1>4. ApprovalBehind'
  BY <1>1, ActorsDistinct DEF IInv, ApprovalBehind, Published
<1>5. RecordsGood'
  BY <1>1, ActorsDistinct DEF IInv, RecordsGood, GoodRecord, Coherent, RevisionsCounted
<1>6. QED
  BY <1>2, <1>3, <1>4, <1>5 DEF Safe

\* While the orchestrator saves, nobody else has got past its first check.
LEMMA OrchestratorSaveSafe ==
  ASSUME IInv, SaveWrite(Orch)
  PROVE  Safe'
<1>1. /\ pc[Orch] = "flush" /\ form = "empty" /\ run.status \notin Awaited
      /\ goal[Orch] \in OrchGoals /\ staged[Orch].status = goal[Orch]
      /\ GoodRecord(staged[Orch])
  BY ActorsDistinct DEF SaveWrite, IInv, TypeOK, Roles, HandedOver, Settled, RecordsGood
<1>2. granted = {} /\ ~ Published
  BY <1>1 DEF IInv, HandedOver, ApprovalBehind, Awaited
<1>3. /\ form' = "whole" /\ run' = staged[Orch] /\ pc'[Orch] = "between"
      /\ \A q \in Actors : q # Orch => pc'[q] = pc[q]
      /\ UNCHANGED <<artifacts, granted, goal, staged, count>>
  BY <1>1, ActorsDistinct DEF SaveWrite, Goto, IInv, TypeOK
<1>4. run'.status \in OrchGoals /\ (run'.status \in Awaited => goal[Orch] = "pending_approval")
  BY <1>1, <1>3 DEF OrchGoals, Awaited, Decided, Decisions
<1>5. Roles'
  BY <1>1, <1>3, ActorsDistinct DEF IInv, Roles
<1>6. HandedOver'
  BY <1>1, <1>2, <1>3, <1>4, ActorsDistinct DEF IInv, HandedOver, Settled
<1>7. ApprovalBehind'
  BY <1>2, <1>3, <1>4, ActorsDistinct DEF IInv, ApprovalBehind, Published, OrchGoals
<1>8. RecordsGood'
  <2>1. GoodRecord(run') /\ \A q \in Actors : pc'[q] \in {"save", "flush"} => GoodRecord(staged'[q])
    BY <1>1, <1>3 DEF IInv, RecordsGood
  <2>2. \A d \in Deciders : pc'[d] # "read"
    BY <1>1, <1>3, ActorsDistinct DEF IInv, HandedOver
  <2>3. QED
    BY <1>3, <2>1, <2>2 DEF RecordsGood
<1>9. QED
  BY <1>5, <1>6, <1>7, <1>8 DEF Safe

\* The save of a request leaves a decided run, whichever record wins.
LEMMA RequestSaveSafe ==
  ASSUME IInv, NEW p \in Deciders \cup Executors, SaveWrite(p)
  PROVE  Safe'
<1>p. p \in Actors /\ p # Orch
  BY ActorsDistinct
<1>1. /\ pc[p] = "flush" /\ staged[p].status = goal[p] /\ GoodRecord(staged[p])
      /\ run.status \in Awaited /\ (form = "empty" \/ run.status \in Decided)
      /\ goal[p] \in Decided
      /\ p \in Deciders => goal[p] \in Decisions
      /\ p \in Executors => goal[p] = "executed" /\ "approved" \in granted
  BY <1>p, ActorsDistinct
     DEF SaveWrite, IInv, TypeOK, Roles, HandedOver, RecordsGood, ApprovalBehind, Decided
<1>2. /\ Finish(p) /\ UNCHANGED artifacts
      /\ granted' = IF p \in Deciders THEN granted \cup {goal[p]} ELSE granted
      /\ \/ run' = staged[p]
         \/ run' = run /\ run.status \in Decided
  BY <1>1, <1>p DEF SaveWrite
<1>3. /\ pc'[p] = "idle"
      /\ \A q \in Actors : q # p => /\ pc'[q] = pc[q] /\ goal'[q] = goal[q]
                                    /\ staged'[q] = staged[q] /\ count'[q] = count[q]
  BY <1>2, <1>p, FinishFrame DEF IInv, Rest
<1>4. run'.status \in Decided /\ GoodRecord(run') /\ granted \subseteq granted'
  BY <1>1, <1>2 DEF IInv, RecordsGood
<1>5. Settled /\ Settled'
  BY <1>1, <1>3, <1>p, ActorsDistinct DEF IInv, HandedOver, Settled
<1>6. Roles'
  BY <1>3, <1>p, ActorsDistinct DEF IInv, Roles
<1>7. HandedOver'
  BY <1>3, <1>4, <1>5, <1>p, ActorsDistinct DEF IInv, HandedOver, Settled, Awaited
<1>8. ApprovalBehind'
  <2>1. run'.status \in {"approved", "executed"} => "approved" \in granted'
    BY <1>1, <1>2 DEF IInv, ApprovalBehind, Decisions
  <2>2. QED
    BY <1>2, <1>3, <1>4, <2>1, <1>p, ActorsDistinct DEF IInv, ApprovalBehind, Published
<1>9. RecordsGood'
  <2>1. run.approvalRequired = TRUE /\ run'.approvalRequired = TRUE
    <3>1. run.approvalRequired \in BOOLEAN /\ run'.approvalRequired \in BOOLEAN
      BY <1>2, <1>p DEF IInv, TypeOK, RunRecord
    <3>2. QED
      BY <1>1, <1>4, <3>1 DEF IInv, RecordsGood, GoodRecord, Awaited
  <2>2. \A q \in Actors : pc'[q] \in {"save", "flush"} => GoodRecord(staged'[q])
    BY <1>3 DEF IInv, RecordsGood
  <2>3. pc'[Orch] \in {"between", "read"} => staged'[Orch].approvalRequired = run'.approvalRequired
    BY <1>3, <2>1, <1>p, ActorsDistinct DEF IInv, RecordsGood
  <2>4. pc'[Orch] = "read" => FALSE
    BY <1>5 DEF Settled
  <2>5. QED
    BY <1>4, <2>2, <2>3, <2>4 DEF RecordsGood
<1>10. QED
  BY <1>6, <1>7, <1>8, <1>9 DEF Safe

LEMMA FailSafe ==
  ASSUME IInv, NEW p \in Actors, Fail(p)
  PROVE  Safe'
<1>1. Published' => Published \/ "approved" \in granted
  <2>1. CASE UNCHANGED artifacts
    BY <2>1 DEF Published
  <2>2. CASE pc[p] = "writing"
    BY <2>2, ActorsDistinct DEF IInv, Roles, ApprovalBehind
  <2>3. QED
    BY <2>1, <2>2 DEF Fail
<1>2. QED
  BY <1>1, FinishKeeps DEF Fail, Safe

\* IInv is inductive.
LEMMA InvariantStep == IInv /\ [Next]_vars => IInv'
<1> SUFFICES ASSUME IInv, [Next]_vars PROVE IInv'
  OBVIOUS
<1>1. TypeOK'
  BY TypeStep DEF IInv
<1>2. Safe'
  <2>1. CASE CreateRun
    BY <2>1, CreateRunSafe
  <2>2. CASE Orchestrate
    BY <2>2, OrchestrateSafe
  <2>3. CASE OrchestrateReturn
    BY <2>3, FinishKeeps, ActorsDistinct DEF OrchestrateReturn, disk, Safe, Published
  <2>4. ASSUME NEW d \in Deciders, Decide(d) PROVE Safe'
    BY <2>4, DecideSafe
  <2>5. ASSUME NEW e \in Executors, RunIt(e) PROVE Safe'
    BY <2>5, RunItSafe
  <2>6. ASSUME NEW p \in Actors, Store(p) PROVE Safe'
    <3>1. CASE UpdateRefused(p)
      BY <3>1, FinishKeeps DEF UpdateRefused, disk, Safe, Published
    <3>2. CASE SaveWrite(p)
      <4>1. p = Orch \/ p \in Deciders \cup Executors
        BY DEF Actors
      <4>2. QED
        BY <3>2, <4>1, OrchestratorSaveSafe, RequestSaveSafe
    <3>3. QED
      BY <2>6, <3>1, <3>2, UpdateReadSafe, SaveOpenSafe DEF Store
  <2>7. ASSUME NEW p \in Actors, Fail(p) PROVE Safe'
    BY <2>7, FailSafe
  <2>8. CASE UNCHANGED vars
    BY <2>8 DEF vars, IInv, Safe, Roles, HandedOver, Settled, ApprovalBehind, Published,
                RecordsGood, GoodRecord, Coherent, RevisionsCounted
  <2>9. QED
    BY <2>1, <2>2, <2>3, <2>4, <2>5, <2>6, <2>7, <2>8 DEF Next
<1>3. QED
  BY <1>1, <1>2 DEF IInv, Safe

\* The inductive invariant holds of every run, however many requests there are.
THEOREM Invariance == Spec => []IInv
<1>1. Init => IInv
  <2>1. Init => TypeOK
    BY NoRunIsRecord, NumAssetsAssumption DEF Init, TypeOK
  <2>2. Init => Safe
    BY ActorsDistinct DEF Init, Safe, Roles, HandedOver, Settled, ApprovalBehind, Published,
       RecordsGood, GoodRecord, Coherent, RevisionsCounted, NoRun, Awaited, Decided, Decisions
  <2>3. QED
    BY <2>1, <2>2 DEF IInv, Safe
<1>2. QED
  BY <1>1, InvariantStep, PTL DEF Spec

\* Nothing reaches the output directory before an approve decision has been
\* recorded, for any number of racing, failing and repeated requests.
THEOREM NoPublishingUnapproved == Spec => []PublishedOnlyAfterApproval
<1>1. IInv => PublishedOnlyAfterApproval
  BY DEF IInv, ApprovalBehind, Published, PublishedOnlyAfterApproval
<1>2. QED
  BY <1>1, Invariance, PTL

\* The record on disk is always coherent: never a mix of two decisions.
THEOREM RecordStaysCoherent == Spec => []RecordCoherent
<1>1. IInv => RecordCoherent
  BY DEF IInv, RecordsGood, GoodRecord, RecordCoherent
<1>2. QED
  BY <1>1, Invariance, PTL

\* Racing revision requests never count a revision twice.
THEOREM RevisionsExact == Spec => []RevisionCountExact
<1>1. IInv => RevisionCountExact
  BY DEF IInv, RecordsGood, GoodRecord, RevisionCountExact
<1>2. QED
  BY <1>1, Invariance, PTL

\* A run that needs no approval is never published.
THEOREM ExemptStaysUnpublished == Spec => []ExemptRunNeverPublished
<1>1. IInv => ExemptRunNeverPublished
  <2> SUFFICES ASSUME IInv, Published PROVE run.approvalRequired
    BY DEF Published, ExemptRunNeverPublished
  <2>1. run.status \in Decided
    BY DEF IInv, ApprovalBehind, HandedOver
  <2>2. QED
    BY <2>1 DEF IInv, RecordsGood, GoodRecord, Awaited
<1>2. QED
  BY <1>1, Invariance, PTL

\* No stale snapshot takes a decided run back to a status from before the
\* decision.
THEOREM DecisionsStand == Spec => DecidedStaysDecided
<1>1. IInv' /\ [Next]_vars => [granted # {} => run'.status \in Decided]_vars
  <2> SUFFICES ASSUME IInv', Next, granted # {} PROVE run'.status \in Decided
    BY DEF vars
  <2>1. granted \subseteq granted'
    BY DEF Next, CreateRun, Orchestrate, OrchestrateReturn, Decide, ApprovalRequest, Resolve,
           ResolveRefused, markRevisionRequested, RunIt, ExecutionRequest, Coordinate, Resume,
           Execute, Publish, Layer, WriteArtifact, ArtifactsWritten, Store, UpdateRead,
           UpdateRefused, SaveOpen, SaveWrite, Fail, disk
  <2>2. QED
    BY <2>1 DEF IInv, HandedOver
<1>2. QED
  BY <1>1, Invariance, PTL DEF Spec, DecidedStaysDecided
-----------------------------------------------------------------------------
(* With one execution request at a time: executed means written.           *)

OneExecutor == \A e, f \in Executors : e = f

\* Only an executor saves a record that says executed.
LEMMA WhoMarks ==
  ASSUME IInv, NEW p \in Actors, pc[p] \in {"save", "flush"}, staged[p].status = "executed"
  PROVE  p \in Executors
<1>1. staged[p].status = goal[p]
  BY DEF IInv, TypeOK
<1>2. p # Orch
  BY <1>1 DEF IInv, Roles, OrchGoals
<1>3. p \notin Deciders
  BY <1>1 DEF IInv, Roles, Decisions
<1>4. QED
  BY <1>2, <1>3, ActorsDistinct

\* A request that ends leaves the files and the run alone, or cuts a file of its own short.
LEMMA FinishCounted ==
  ASSUME OneExecutor, IInv, WritesCounted, NEW p \in Actors, Finish(p), run' = run,
         \/ artifacts' = artifacts
         \/ p \in Executors /\ pc[p] = "writing"
  PROVE  WritesCounted'
<1>1. /\ pc'[p] = Rest(p) /\ written'[p] = 0
      /\ \A q \in Actors : q # p => pc'[q] = pc[q] /\ written'[q] = written[q]
  BY DEF Finish, IInv, TypeOK
<1>2. ExecutedMeansWritten'
  BY DEF WritesCounted, ExecutedMeansWritten
<1>3. \A e \in Executors : e = p => pc'[e] = "idle" /\ written'[e] = 0
  BY <1>1, ActorsDistinct DEF Rest
<1>4. \A e \in Executors : e # p => /\ pc'[e] = pc[e] /\ written'[e] = written[e]
                                    /\ artifacts' = artifacts
  BY <1>1, ActorsDistinct DEF OneExecutor
<1>5. QED
  BY <1>2, <1>3, <1>4 DEF WritesCounted

LEMMA CountedStep == OneExecutor /\ IInv /\ WritesCounted /\ [Next]_vars => WritesCounted'
<1> SUFFICES ASSUME OneExecutor, IInv, WritesCounted, [Next]_vars PROVE WritesCounted'
  OBVIOUS
<1> USE ActorsDistinct
\* Steps that touch neither the files, nor the run, nor an executor.
<1>a. ASSUME NEW p \in Actors, p \notin Executors, UNCHANGED <<run, artifacts>>,
             \A q \in Actors : q # p => pc'[q] = pc[q] /\ written'[q] = written[q]
      PROVE  WritesCounted'
  BY <1>a DEF WritesCounted, ExecutedMeansWritten
<1>1. CASE CreateRun \/ Orchestrate
  BY <1>1, <1>a DEF CreateRun, Orchestrate, Goto, disk, IInv, TypeOK
<1>2. CASE OrchestrateReturn
  BY <1>2, FinishCounted DEF OrchestrateReturn, disk
<1>3. ASSUME NEW d \in Deciders, Decide(d) PROVE WritesCounted'
  <2>1. CASE Finish(d) /\ UNCHANGED disk
    BY <2>1, FinishCounted DEF disk
  <2>2. CASE ~ (Finish(d) /\ UNCHANGED disk)
    <3>1. /\ UNCHANGED <<run, artifacts>>
          /\ \A q \in Actors : q # d => pc'[q] = pc[q] /\ written'[q] = written[q]
      BY <1>3, <2>2 DEF Decide, ApprovalRequest, Resolve, ResolveRefused, markRevisionRequested,
                        Goto, disk, IInv, TypeOK
    <3>2. QED
      BY <3>1, <1>a
  <2>3. QED
    BY <2>1, <2>2
<1>4. ASSUME NEW e \in Executors, RunIt(e) PROVE WritesCounted'
  <2>1. \A f \in Executors : f = e
    BY DEF OneExecutor
  <2>2. CASE ExecutionRequest(e)
    BY <2>1, <2>2 DEF ExecutionRequest, Goto, disk, WritesCounted, ExecutedMeansWritten, IInv, TypeOK
  <2>3. ASSUME NEW here \in {"coordinator", "resumer", "agent"},
               NEW check \in BOOLEAN, NEW next \in {"resumer", "agent", "publisher"},
               Layer(e, here, check, next)
        PROVE  WritesCounted'
    <3>1. CASE Finish(e)
      BY <2>3, <3>1, FinishCounted DEF Layer, disk
    <3>2. CASE Goto(e, next)
      BY <2>1, <2>3, <3>2 DEF Layer, Goto, disk, WritesCounted, ExecutedMeansWritten, IInv, TypeOK
    <3>3. QED
      BY <2>3, <3>1, <3>2 DEF Layer
  <2>4. CASE Coordinate(e) \/ Resume(e) \/ Execute(e)
    <3>1. PolicyAllows \in BOOLEAN /\ Executable \in BOOLEAN
      BY ExecutableIsApproved DEF PolicyAllows, IInv
    <3>2. QED
      BY <2>3, <2>4, <3>1 DEF Coordinate, Resume, Execute
  <2>5. CASE Publish(e)
    <3>1. CASE Finish(e)
      BY <2>5, <3>1, FinishCounted DEF Publish, Layer, disk
    <3>2. CASE ~ Finish(e)
      <4>1. /\ pc[e] = "publisher" /\ pc'[e] = "writing" /\ written' = written
            /\ run.status = "approved" /\ UNCHANGED <<run, artifacts>>
        BY <2>5, <3>2, ExecutableIsApproved DEF Publish, Layer, Goto, disk, IInv, TypeOK
      <4>2. written[e] = 0
        BY <4>1 DEF WritesCounted
      <4>3. QED
        BY <2>1, <4>1, <4>2 DEF WritesCounted, ExecutedMeansWritten
    <3>3. QED
      BY <3>1, <3>2
  <2>6. CASE WriteArtifact(e)
    <3>1. /\ pc[e] = "writing" /\ pc' = pc /\ run' = run
          /\ written[e] \in Nat /\ written'[e] = written[e] + 1
          /\ artifacts' = [artifacts EXCEPT ![written[e] + 1] = "whole"]
          /\ written[e] + 1 \in Assets
      BY <2>6, NumAssetsAssumption DEF WriteArtifact, IInv, TypeOK, Assets
    <3>2. run.status # "executed" /\ \A a \in 1 .. written[e] : artifacts[a] = "whole"
      BY <3>1 DEF WritesCounted
    <3>3. \A a \in 1 .. written'[e] : artifacts'[a] = "whole"
      <4> SUFFICES ASSUME NEW a \in 1 .. (written[e] + 1) PROVE artifacts'[a] = "whole"
        BY <3>1
      <4>0. artifacts \in [Assets -> {"absent", "torn", "whole"}]
        BY DEF IInv, TypeOK
      <4>1. CASE a = written[e] + 1
        BY <3>1, <4>0, <4>1
      <4>2. CASE a # written[e] + 1
        <5>1. a \in 1 .. written[e] /\ a \in Assets
          BY <3>1, <4>2, NumAssetsAssumption DEF Assets
        <5>2. QED
          BY <3>1, <3>2, <4>0, <4>2, <5>1
      <4>3. QED
        BY <4>1, <4>2
    <3>4. QED
      BY <2>1, <3>1, <3>2, <3>3 DEF WritesCounted, ExecutedMeansWritten
  <2>7. CASE ArtifactsWritten(e)
    <3>1. CASE Finish(e)
      BY <2>7, <3>1, FinishCounted DEF ArtifactsWritten, disk
    <3>2. CASE ~ Finish(e)
      <4>1. /\ pc[e] = "writing" /\ written[e] = NumAssets /\ pc'[e] = "read"
            /\ UNCHANGED <<run, artifacts>>
        BY <2>7, <3>2 DEF ArtifactsWritten, Goto, disk, IInv, TypeOK
      <4>2. \A a \in Assets : artifacts[a] = "whole"
        BY <4>1 DEF WritesCounted, Assets
      <4>3. QED
        BY <2>1, <4>1, <4>2 DEF WritesCounted, ExecutedMeansWritten
    <3>3. QED
      BY <3>1, <3>2
  <2>8. QED
    BY <1>4, <2>2, <2>4, <2>5, <2>6, <2>7 DEF RunIt
<1>5. ASSUME NEW p \in Actors, Store(p) PROVE WritesCounted'
  <2>1. CASE UpdateRead(p) \/ SaveOpen(p)
    <3>1. /\ UNCHANGED <<run, artifacts, written>>
          /\ pc[p] \in {"read", "save"} /\ pc'[p] \in {"save", "flush"}
          /\ \A q \in Actors : q # p => pc'[q] = pc[q]
      BY <2>1 DEF UpdateRead, SaveOpen, Goto, disk, IInv, TypeOK
    <3>2. QED
      BY <3>1 DEF WritesCounted, ExecutedMeansWritten
  <2>2. CASE UpdateRefused(p)
    BY <2>2, FinishCounted DEF UpdateRefused, disk
  <2>3. CASE SaveWrite(p)
    <3>1. /\ pc[p] = "flush" /\ artifacts' = artifacts
          /\ run' = run \/ run' = staged[p]
          /\ \A q \in Actors : q # p => pc'[q] = pc[q] /\ written'[q] = written[q]
          /\ p # Orch => pc'[p] = "idle" /\ written'[p] = 0
      BY <2>3 DEF SaveWrite, Goto, Finish, Rest, IInv, TypeOK
    <3>2. run'.status = "executed" /\ run' # run => p \in Executors
      BY <3>1, WhoMarks
    <3>3. ExecutedMeansWritten'
      BY <3>1, <3>2 DEF WritesCounted, ExecutedMeansWritten
    <3>4. \A e \in Executors : pc'[e] = "writing" => run'.status # "executed"
      <4> SUFFICES ASSUME NEW e \in Executors, pc'[e] = "writing", run'.status = "executed"
                   PROVE  FALSE
        OBVIOUS
      <4>1. pc[e] = "writing" /\ e # p
        BY <3>1
      <4>2. run' = run
        BY <3>2, <4>1 DEF OneExecutor
      <4>3. QED
        BY <4>1, <4>2 DEF WritesCounted
    <3>5. QED
      BY <3>1, <3>3, <3>4 DEF WritesCounted
  <2>4. QED
    BY <1>5, <2>1, <2>2, <2>3 DEF Store
<1>6. ASSUME NEW p \in Actors, Fail(p) PROVE WritesCounted'
  <2>1. artifacts' = artifacts \/ (p \in Executors /\ pc[p] = "writing")
    BY <1>6 DEF Fail, IInv, Roles
  <2>2. QED
    BY <1>6, <2>1, FinishCounted DEF Fail
<1>7. CASE UNCHANGED vars
  BY <1>7 DEF vars, WritesCounted, ExecutedMeansWritten
<1>8. QED
  BY <1>1, <1>2, <1>3, <1>4, <1>5, <1>6, <1>7 DEF Next

\* With one execution request at a time a run marked executed has all its files, after
\* any number of failed attempts and whatever the deciders do meanwhile.
THEOREM ExecutedIsWritten == ASSUME OneExecutor PROVE Spec => []ExecutedMeansWritten
<1>1. Init => WritesCounted
  BY ActorsDistinct DEF Init, WritesCounted, ExecutedMeansWritten, NoRun
<1>2. IInv /\ WritesCounted /\ [Next]_vars => WritesCounted'
  BY CountedStep
<1>3. WritesCounted => ExecutedMeansWritten
  BY DEF WritesCounted
<1>4. QED
  BY <1>1, <1>2, <1>3, Invariance, PTL DEF Spec
-----------------------------------------------------------------------------
(* With one approval request at a time: the promise of ApprovalLifecycle.  *)

OneDecider == \A c, d \in Deciders : c = d

\* Who saves, and what: the run moves along the table.
LEMMA SavesFollowTable ==
  ASSUME IInv, Undisturbed, NEW p \in Actors, pc[p] = "flush", run' = staged[p]
  PROVE  /\ p = Orch => run.status \notin Awaited /\ run'.status \in OrchGoals
         /\ p \in Deciders => run.status = "pending_approval" /\ run'.status \in Decisions
         /\ p \in Executors => /\ run.status \in {"approved", "executed"} /\ Published
                               /\ run'.status = "executed"
         /\ run.status # "absent" /\ run'.status # run.status =>
               canTransition(run.status, run'.status)
<1>1. run'.status = goal[p]
  BY DEF IInv, TypeOK
<1>2. CASE p = Orch
  BY <1>1, <1>2, ActorsDistinct DEF IInv, Roles, HandedOver, Settled, Undisturbed
<1>3. CASE p \in Deciders
  <2>1. run.status = "pending_approval" /\ run'.status \in Decisions
    BY <1>1, <1>3 DEF IInv, Roles, Undisturbed
  <2>2. canTransition("pending_approval", run'.status)
    BY <2>1 DEF canTransition, RUN_STATE_TRANSITIONS, Status, OrchGoals
  <2>3. QED
    BY <1>3, <2>1, <2>2, ActorsDistinct
<1>4. CASE p \in Executors
  <2>1. run.status \in {"approved", "executed"} /\ Published /\ run'.status = "executed"
    BY <1>1, <1>4 DEF IInv, Roles, Undisturbed
  <2>2. canTransition("approved", "executed")
    BY DEF canTransition, RUN_STATE_TRANSITIONS, Status, Decisions
  <2>3. QED
    BY <1>4, <2>1, <2>2, ActorsDistinct
<1>5. QED
  BY <1>2, <1>3, <1>4, ActorsDistinct

\* The end of a request that leaves the run alone.
LEMMA FinishUndisturbed ==
  ASSUME IInv, Undisturbed, NEW p \in Actors, Finish(p), run' = run, Published => Published'
  PROVE  Undisturbed'
<1>1. /\ pc'[p] = Rest(p) /\ written'[p] = 0
      /\ \A q \in Actors : q # p => /\ pc'[q] = pc[q] /\ goal'[q] = goal[q]
                                    /\ written'[q] = written[q]
  BY DEF Finish, IInv, TypeOK
<1>2. QED
  BY <1>1, ActorsDistinct DEF Undisturbed, Rest

\* A step inside a request, the run and the files left alone: it may bring p
\* to a save only with the leave Undisturbed speaks of.
LEMMA GotoUndisturbed ==
  ASSUME Undisturbed, NEW p \in Actors, UNCHANGED <<run, artifacts, written>>,
         \A q \in Actors : q # p => pc'[q] = pc[q] /\ goal'[q] = goal[q],
         p \in Deciders /\ pc'[p] \in {"count", "read", "save", "flush"} =>
            run.status = "pending_approval",
         p \in Executors /\ pc'[p] \in {"writing", "read", "save", "flush"} =>
            run.status \in {"approved", "executed"},
         p \in Executors /\ pc'[p] \in {"read", "save", "flush"} => Published,
         p = Orch => pc'[p] # "idle",
         p = Orch /\ pc'[p] \in {"save", "flush"} /\ run.status # "absent" =>
            canTransition(run.status, goal'[p])
  PROVE  Undisturbed'
<1>1. Published' = Published
  BY DEF Published
<1>2. QED
  BY <1>1, ActorsDistinct DEF Undisturbed

\* With one decider nobody acts on a leave another request has taken back.
LEMMA UndisturbedStep == OneDecider /\ IInv /\ Undisturbed /\ [Next]_vars => Undisturbed'
<1> SUFFICES ASSUME OneDecider, IInv, Undisturbed, [Next]_vars PROVE Undisturbed'
  OBVIOUS
<1> USE ActorsDistinct
<1>1. CASE CreateRun
  <2>1. run.status = "absent"
    BY <1>1 DEF CreateRun, Undisturbed
  <2>2. QED
    BY <1>1, <2>1, GotoUndisturbed DEF CreateRun, disk, IInv, TypeOK
<1>2. CASE Orchestrate
  BY <1>2, GotoUndisturbed DEF Orchestrate, Goto, disk, IInv, TypeOK
<1>3. CASE OrchestrateReturn
  BY <1>3, FinishUndisturbed DEF OrchestrateReturn, disk, Published
<1>4. ASSUME NEW d \in Deciders, Decide(d) PROVE Undisturbed'
  <2>1. CASE Finish(d) /\ UNCHANGED disk
    BY <2>1, FinishUndisturbed DEF disk, Published
  <2>2. CASE ~ (Finish(d) /\ UNCHANGED disk)
    <3>1. /\ UNCHANGED <<run, artifacts, written>>
          /\ \A q \in Actors : q # d => pc'[q] = pc[q] /\ goal'[q] = goal[q]
          /\ pc'[d] \in {"count", "read", "save", "flush"} =>
                pc[d] = "count" \/ run.status = "pending_approval"
      BY <1>4, <2>2 DEF Decide, ApprovalRequest, Resolve, ResolveRefused, markRevisionRequested,
                        Goto, disk, IInv, TypeOK
    <3>2. QED
      BY <3>1, GotoUndisturbed DEF Undisturbed
  <2>3. QED
    BY <2>1, <2>2
<1>5. ASSUME NEW e \in Executors, RunIt(e) PROVE Undisturbed'
  <2>1. CASE Finish(e) /\ UNCHANGED disk
    BY <2>1, FinishUndisturbed DEF disk, Published
  <2>2. CASE ExecutionRequest(e)
    BY <2>2, GotoUndisturbed DEF ExecutionRequest, Goto, disk, IInv, TypeOK
  <2>3. ASSUME NEW here, NEW check \in BOOLEAN,
               NEW next \in {"resumer", "agent", "publisher", "writing"},
               Layer(e, here, check, next),
               check /\ next = "writing" => run.status = "approved"
        PROVE  Undisturbed'
    <3>1. CASE Finish(e)
      BY <2>1, <2>3, <3>1 DEF Layer
    <3>2. CASE check /\ Goto(e, next) /\ UNCHANGED goal
      BY <2>3, <3>2, GotoUndisturbed DEF Layer, Goto, disk, IInv, TypeOK
    <3>3. QED
      BY <2>3, <3>1, <3>2 DEF Layer
  <2>4. CASE Coordinate(e) \/ Resume(e) \/ Execute(e) \/ Publish(e)
    <3>1. /\ PolicyAllows \in BOOLEAN /\ Executable \in BOOLEAN
          /\ Executable => run.status = "approved"
      BY ExecutableIsApproved DEF PolicyAllows, IInv
    <3>2. QED
      BY <2>3, <2>4, <3>1 DEF Coordinate, Resume, Execute, Publish
  <2>5. CASE WriteArtifact(e)
    <3>1. /\ pc[e] = "writing" /\ pc' = pc /\ goal' = goal /\ run' = run
          /\ \A q \in Actors : q # e => written'[q] = written[q]
          /\ written[e] + 1 \in Assets
          /\ artifacts' = [artifacts EXCEPT ![written[e] + 1] = "whole"]
      BY <2>5, NumAssetsAssumption DEF WriteArtifact, IInv, TypeOK, Assets
    <3>2. artifacts'[written[e] + 1] = "whole"
      BY <3>1 DEF IInv, TypeOK
    <3>3. Published'
      BY <3>1, <3>2 DEF Published
    <3>4. QED
      BY <3>1, <3>3 DEF Undisturbed
  <2>6. CASE ArtifactsWritten(e) /\ ~ (Finish(e) /\ UNCHANGED disk)
    <3>1. /\ pc[e] = "writing" /\ pc'[e] = "read" /\ written[e] = NumAssets /\ NumAssets > 0
          /\ \A q \in Actors : q # e => pc'[q] = pc[q] /\ goal'[q] = goal[q]
          /\ UNCHANGED <<run, artifacts, written>>
      BY <2>6 DEF ArtifactsWritten, Goto, disk, IInv, TypeOK
    <3>2. Published /\ run.status \in {"approved", "executed"}
      BY <3>1 DEF Undisturbed
    <3>3. QED
      BY <3>1, <3>2, GotoUndisturbed
  <2>7. QED
    BY <1>5, <2>1, <2>2, <2>4, <2>5, <2>6 DEF RunIt
<1>6. ASSUME NEW p \in Actors, Store(p) PROVE Undisturbed'
  <2>1. CASE UpdateRead(p) \/ SaveOpen(p)
    <3>1. /\ UNCHANGED <<run, artifacts, written, goal>>
          /\ pc[p] \in {"read", "save"} /\ pc'[p] \in {"save", "flush"}
          /\ \A q \in Actors : q # p => pc'[q] = pc[q]
          /\ pc[p] = "read" => canTransition(run.status, goal[p])
      BY <2>1 DEF UpdateRead, SaveOpen, Goto, disk, IInv, TypeOK
    <3>2. QED
      BY <3>1, GotoUndisturbed DEF Undisturbed
  <2>2. CASE UpdateRefused(p)
    BY <2>2, FinishUndisturbed DEF UpdateRefused, disk, Published
  <2>3. CASE SaveWrite(p)
    <3>1. /\ pc[p] = "flush" /\ artifacts' = artifacts
          /\ run' = run \/ run' = staged[p]
          /\ \A q \in Actors : q # p => /\ pc'[q] = pc[q] /\ goal'[q] = goal[q]
                                        /\ written'[q] = written[q]
          /\ IF p = Orch THEN pc'[p] = "between" ELSE pc'[p] = "idle" /\ written'[p] = 0
      BY <2>3 DEF SaveWrite, Goto, Finish, Rest, IInv, TypeOK
    <3>2. Published' = Published
      BY <3>1 DEF Published
    <3>3. CASE run' = run
      BY <3>1, <3>2, <3>3 DEF Undisturbed
    <3>4. CASE run' = staged[p]
      <4>1. p # Orch => Settled
        BY <3>1 DEF IInv, HandedOver
      <4>2. pc'[Orch] \notin {"idle", "save", "flush"}
        BY <3>1, <4>1 DEF Settled
      <4>3. ASSUME NEW d \in Deciders PROVE pc'[d] \notin {"count", "read", "save", "flush"}
        BY <3>1, <3>4, <4>3, SavesFollowTable DEF OneDecider, Undisturbed, Awaited
      <4>4. ASSUME NEW e \in Executors, pc'[e] \in {"writing", "read", "save", "flush"}
            PROVE  run'.status \in {"approved", "executed"}
        BY <3>1, <3>4, <4>4, SavesFollowTable DEF Undisturbed, Awaited, Decided, Decisions
      <4>5. QED
        BY <3>1, <3>2, <4>2, <4>3, <4>4 DEF Undisturbed
    <3>5. QED
      BY <3>1, <3>3, <3>4
  <2>4. QED
    BY <1>6, <2>1, <2>2, <2>3 DEF Store
<1>7. ASSUME NEW p \in Actors, Fail(p) PROVE Undisturbed'
  <2>1. Published => Published'
    <3>1. CASE UNCHANGED artifacts
      BY <3>1 DEF Published
    <3>2. CASE artifacts' = [artifacts EXCEPT ![written[p] + 1] = "torn"]
      BY <3>2 DEF Published, IInv, TypeOK
    <3>3. QED
      BY <1>7, <3>1, <3>2 DEF Fail
  <2>2. QED
    BY <1>7, <2>1, FinishUndisturbed DEF Fail
<1>8. CASE UNCHANGED vars
  BY <1>8 DEF vars, Undisturbed, Published
<1>9. QED
  BY <1>1, <1>2, <1>3, <1>4, <1>5, <1>6, <1>7, <1>8 DEF Next

LEMMA UndisturbedFirst == Init => Undisturbed
  BY ActorsDistinct DEF Init, Undisturbed, NoRun

THEOREM StaysUndisturbed == ASSUME OneDecider PROVE Spec => []Undisturbed
<1>1. IInv /\ Undisturbed /\ [Next]_vars => Undisturbed'
  BY UndisturbedStep
<1>2. QED
  BY <1>1, UndisturbedFirst, Invariance, PTL DEF Spec

\* The run changes by a save only.
LEMMA OnlySavesChangeTheRun ==
  ASSUME IInv, Next, run' # run
  PROVE  \E p \in Actors : SaveWrite(p) /\ pc[p] = "flush" /\ run' = staged[p]
<1>1. PICK p \in Actors : SaveWrite(p)
  BY DEF Next, CreateRun, Orchestrate, OrchestrateReturn, Decide, ApprovalRequest, Resolve,
         ResolveRefused, markRevisionRequested, RunIt, ExecutionRequest, Coordinate, Resume,
         Execute, Publish, Layer, WriteArtifact, ArtifactsWritten, Store, UpdateRead,
         UpdateRefused, SaveOpen, Fail, disk
<1>2. QED
  BY <1>1 DEF SaveWrite

\* With one approval request at a time successive records follow the transition table,
\* however the requests fail and whatever the execution requests do.
THEOREM TableIsRespected == ASSUME OneDecider PROVE Spec => TableRespected
<1>1. IInv /\ Undisturbed /\ [Next]_vars =>
        [run.status # "absent" /\ run'.status # run.status =>
            canTransition(run.status, run'.status)]_vars
  <2> SUFFICES ASSUME IInv, Undisturbed, Next, run.status # "absent", run'.status # run.status
               PROVE  canTransition(run.status, run'.status)
    BY DEF vars
  <2>1. PICK p \in Actors : pc[p] = "flush" /\ run' = staged[p]
    BY OnlySavesChangeTheRun
  <2>2. QED
    BY <2>1, SavesFollowTable
<1>2. QED
  BY <1>1, Invariance, StaysUndisturbed, PTL DEF Spec, TableRespected

\* The files change only under an execution request that writes them, and stay once there.
LEMMA OnlyWritersChangeTheFiles ==
  ASSUME IInv, Next, artifacts' # artifacts
  PROVE  /\ run' = run /\ Published'
         /\ \E e \in Executors : pc[e] = "writing"
<1>1. CASE \E e \in Executors : WriteArtifact(e)
  <2>1. PICK e \in Executors : WriteArtifact(e)
    BY <1>1
  <2>2. written[e] + 1 \in Assets
    BY <2>1, ActorsDistinct, NumAssetsAssumption DEF WriteArtifact, IInv, TypeOK, Assets
  <2>3. artifacts'[written[e] + 1] = "whole"
    BY <2>1, <2>2 DEF WriteArtifact, IInv, TypeOK
  <2>4. QED
    BY <2>1, <2>2, <2>3 DEF WriteArtifact, Published
<1>2. CASE \E p \in Actors : Fail(p)
  <2>1. PICK p \in Actors : Fail(p)
    BY <1>2
  <2>2. /\ pc[p] = "writing" /\ written[p] < NumAssets /\ run' = run
        /\ artifacts' = [artifacts EXCEPT ![written[p] + 1] = "torn"]
    BY <2>1 DEF Fail
  <2>3. written[p] + 1 \in Assets
    BY <2>2, NumAssetsAssumption DEF IInv, TypeOK, Assets
  <2>4. artifacts'[written[p] + 1] = "torn"
    BY <2>2, <2>3 DEF IInv, TypeOK
  <2>5. p \in Executors
    BY <2>2, ActorsDistinct DEF IInv, Roles
  <2>6. QED
    BY <2>2, <2>3, <2>4, <2>5 DEF Published
<1>3. QED
  BY <1>1, <1>2
     DEF Next, CreateRun, Orchestrate, OrchestrateReturn, Decide, ApprovalRequest, Resolve,
         ResolveRefused, markRevisionRequested, RunIt, ExecutionRequest, Coordinate, Resume,
         Execute, Publish, Layer, ArtifactsWritten, Store, UpdateRead,
         UpdateRefused, SaveOpen, SaveWrite, disk

\* Every step is a step of the promise or leaves what it sees alone.
LEMMA PromiseStep ==
  ASSUME IInv, Undisturbed, [Next]_vars
  PROVE  [Promise!Next]_(Promise!vars)
<1> USE DEF Promise!Next, Promise!vars, Published
<1>1. CASE run' = run /\ artifacts' = artifacts
  BY <1>1 DEF Phase
<1>2. CASE Next /\ artifacts' # artifacts
  <2>1. run' = run /\ Published' /\ \E e \in Executors : pc[e] = "writing"
    BY <1>2, OnlyWritersChangeTheFiles
  <2>2. run.status \in {"approved", "executed"}
    BY <2>1 DEF Undisturbed
  <2>3. Promise!Emit
    BY <2>1, <2>2 DEF Promise!Emit, Phase
  <2>4. QED
    BY <2>3
<1>3. CASE Next /\ run' # run /\ artifacts' = artifacts
  <2>1. PICK p \in Actors : pc[p] = "flush" /\ run' = staged[p]
    BY <1>3, OnlySavesChangeTheRun
  <2>2. CASE p = Orch
    <3>1. run.status \notin Awaited /\ run'.status \in OrchGoals
      BY <2>1, <2>2, SavesFollowTable
    <3>2. Phase = "preparing"
      BY <3>1 DEF Phase, Awaited, Decided, Decisions
    <3>3. Phase' = IF run'.status = "pending_approval" THEN "pending" ELSE "preparing"
      BY <3>1 DEF Phase, OrchGoals
    <3>4. QED
      BY <1>3, <3>2, <3>3 DEF Promise!Ask
  <2>3. CASE p \in Deciders
    <3>1. run.status = "pending_approval" /\ run'.status \in Decisions
      BY <2>1, <2>3, SavesFollowTable
    <3>2. Phase = "pending" /\ Phase' \in {"approved", "refused"}
      BY <3>1 DEF Phase, Decisions
    <3>3. QED
      BY <1>3, <3>2 DEF Promise!Decide
  <2>4. CASE p \in Executors
    <3>1. run.status \in {"approved", "executed"} /\ Published /\ run'.status = "executed"
      BY <2>1, <2>4, SavesFollowTable
    <3>2. Phase \in {"approved", "executed"} /\ Phase' = "executed"
      BY <3>1 DEF Phase
    <3>3. QED
      BY <1>3, <3>1, <3>2 DEF Promise!Conclude
  <2>5. QED
    BY <2>2, <2>3, <2>4, ActorsDistinct
<1>4. QED
  BY <1>1, <1>2, <1>3 DEF vars

\* With one approval request at a time the lifecycle, with its files, its failures and
\* any number of execution requests, implements ApprovalLifecycle.
THEOREM PromiseIsKept == ASSUME OneDecider PROVE Spec => KeepsPromise
<1>1. Init => Promise!Init
  BY DEF Init, Promise!Init, Phase, NoRun
<1>2. IInv /\ Undisturbed /\ [Next]_vars => [Promise!Next]_(Promise!vars)
  BY PromiseStep
<1>3. QED
  BY <1>1, <1>2, Invariance, StaysUndisturbed, PTL DEF Spec, KeepsPromise, Promise!Spec
=============================================================================
