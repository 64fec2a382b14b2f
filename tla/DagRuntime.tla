------------------------------ MODULE DagRuntime ------------------------------
(***************************************************************************)
(* One run of the BEL v4 DAG runtime (bel/dag/dag-runtime.ts) and the      *)
(* processes that work on it: the API server, whose routes advance a run   *)
(* by one pass, retry and skip nodes; the command line, which runs it to   *)
(* completion; and the lead-to-offer workflow, which keeps its own copy of *)
(* the run from the first stage to the last.                               *)
(*                                                                         *)
(* The run is one record in dag-runs.json.  Every request reads the whole  *)
(* record, works on its copy and writes the whole record back; a write     *)
(* that throws is swallowed.  Requests of one process do not interleave    *)
(* (nothing between their reads and writes waits for I/O); requests of     *)
(* different processes do, between every two accesses to the file.  A      *)
(* command-line process serves one request; several that follow each other *)
(* are one process here.                                                   *)
(***************************************************************************)
EXTENDS Integers, Sequences, FiniteSets

CONSTANTS
    Nodes,        \* the nodes of the plan
    Rank,         \* their positions in the plan's array
    Edges,        \* pairs <<from, to>>
    Override,     \* the edges whose condition is on_failure or always
    Gates,        \* the nodes of type approval_gate
    MaxAttempts,  \* the retry budget of each node
    Processes,    \* the processes that serve requests
    Host,         \* the process the workflow runs in
    Stages,       \* the nodes the workflow works through; <<>> when no workflow owns the run
    Checkpoint,   \* the stage whose failure fails all later ones
    DiskMayFail,  \* whether a write may throw
    NoNode

ASSUME PlanAssumption ==
    /\ IsFiniteSet(Nodes) /\ Nodes # {}
    /\ Rank \in [Nodes -> Nat]
    /\ \A m, n \in Nodes : Rank[m] = Rank[n] => m = n
    /\ Edges \subseteq Nodes \X Nodes
    /\ Override \subseteq Edges
    /\ Gates \subseteq Nodes
    /\ MaxAttempts \in [Nodes -> Nat \ {0}]
    /\ NoNode \notin Nodes

ASSUME WorkflowAssumption ==
    /\ Stages \in Seq(Nodes)
    /\ Host \in Processes
    /\ DiskMayFail \in BOOLEAN

VARIABLES
    present,  \* the record can be read back from the file
    saved,    \* the record in the file
    pc,       \* where the request of a process stands
    mode,     \* the request: one pass, run to completion, or that with --force
    copy,     \* the process's copy of the record
    queue,    \* the ready nodes the current pass has yet to execute
    iter,     \* passes begun by the current request
    target,   \* the node to retry or skip, or the one being executed
    stage,    \* the workflow: 0 before it starts, then the stage it is at
    blocked,  \* the workflow: its checkpoint has failed
    own       \* the workflow: its copy of the record

requestVars  == <<pc, mode, copy, queue, iter, target>>
workflowVars == <<stage, blocked, own>>
vars == <<present, saved, requestVars, workflowVars>>

NodeStatus == {"pending", "running", "completed", "failed", "skipped",
               "waiting_for_approval"}
RunStatus  == {"pending", "running", "waiting_for_approval", "completed", "failed"}

Runs == [node     : [Nodes -> NodeStatus],
         attempts : [Nodes -> Nat],
         status   : RunStatus]

-----------------------------------------------------------------------------
(* The runtime's functions on a run record.                                *)

deriveRunStatusFromNodes(node) ==
    LET some(s) == \E n \in Nodes : node[n] = s
        all(S)  == \A n \in Nodes : node[n] \in S
    IN  CASE some("failed")               -> "failed"
          [] ~ some("failed") /\ some("waiting_for_approval") -> "waiting_for_approval"
          [] all({"completed", "skipped"}) -> "completed"
          [] all({"pending"})             -> "pending"
          [] OTHER                        -> "running"

Derived(r) == [r EXCEPT !.status = deriveRunStatusFromNodes(r.node)]

Parents(n) == {p \in Nodes : <<p, n>> \in Edges}

\* Wrong on purpose: one completed parent is enough.
getReadyNodes_Any(r) ==
    {n \in Nodes : /\ r.node[n] = "pending"
                   /\ Parents(n) = {} \/ \E p \in Parents(n) : r.node[p] = "completed"}

\* Wrong on purpose: a parent that waits for approval does not hold its children.
getReadyNodes_Settled(r) ==
    {n \in Nodes : /\ r.node[n] = "pending"
                   /\ \A p \in Parents(n) : r.node[p] \in {"completed", "waiting_for_approval"}}

getReadyNodes(r) ==
    {n \in Nodes : /\ r.node[n] = "pending"
                   /\ \A p \in Parents(n) : r.node[p] = "completed"}

\* n and everything upstream of it.
Upstream == [n \in Nodes |->
    {m \in Nodes : \A U \in SUBSET Nodes :
        n \in U /\ (\A e \in Edges : e[2] \in U => e[1] \in U) => m \in U}]

hasFailedAncestor(r, n) ==
    \E e \in Edges \ Override : e[2] \in Upstream[n] /\ r.node[e[1]] = "failed"

\* The first half of executeReadyNodes: pending nodes below a failed one.
SkipBelowFailed(r) ==
    [r EXCEPT !.node = [n \in Nodes |->
        IF r.node[n] = "pending" /\ hasFailedAncestor(r, n) THEN "skipped" ELSE r.node[n]]]

transitionNodeStatus(r, n, s) == Derived([r EXCEPT !.node[n] = s])

\* A node's first start is its first attempt; later ones are counted by retryNode.
Counted(r, n) == [r EXCEPT !.attempts[n] = IF @ = 0 THEN 1 ELSE @]

\* --force: completed nodes are pending again, in the copy and without a save.
Reset(r) ==
    [r EXCEPT !.node     = [n \in Nodes |->
                                IF r.node[n] = "completed" THEN "pending" ELSE r.node[n]],
              !.attempts = [n \in Nodes |->
                                IF r.node[n] = "completed" THEN 0 ELSE r.attempts[n]]]

NewRun == [node     |-> [n \in Nodes |-> "pending"],
           attempts |-> [n \in Nodes |-> 0],
           status   |-> "pending"]

\* saveDagRun in its try block.  A write that throws before it has truncated the
\* file leaves the record; one that throws after it leaves nothing to read.
Save(r) ==
    \/ saved' = r /\ present' = TRUE
    \/ DiskMayFail /\ UNCHANGED saved /\ present' \in {present, FALSE}

maxIterations == Cardinality(Nodes) * 4 + 4

-----------------------------------------------------------------------------
Init ==
    /\ present = FALSE
    /\ saved   = NewRun
    /\ pc      = [p \in Processes |-> "idle"]
    /\ mode    = [p \in Processes |-> "pass"]
    /\ copy    = [p \in Processes |-> NewRun]
    /\ queue   = [p \in Processes |-> {}]
    /\ iter    = [p \in Processes |-> 0]
    /\ target  = [p \in Processes |-> NoNode]
    /\ stage   = 0
    /\ blocked = FALSE
    /\ own     = NewRun

\* createDagRun, from a request or at the start of the workflow.
Create ==
    /\ stage = 0
    /\ stage' = 1
    /\ Save(NewRun)
    /\ own' = NewRun
    /\ UNCHANGED <<requestVars, blocked>>

-----------------------------------------------------------------------------
(* Requests.                                                               *)

\* getDagRun finds the record and hands over a copy of it.
Receive(p, m, n, at) ==
    /\ pc[p] = "idle"
    /\ present
    /\ pc'     = [pc EXCEPT ![p] = at]
    /\ mode'   = [mode EXCEPT ![p] = m]
    /\ target' = [target EXCEPT ![p] = n]
    /\ copy'   = [copy EXCEPT ![p] = IF m = "force" THEN Reset(saved) ELSE saved]
    /\ iter'   = [iter EXCEPT ![p] = 0]
    /\ UNCHANGED <<present, saved, queue, workflowVars>>

ReceiveExecute(p) == \E m \in {"pass", "complete", "force"} : Receive(p, m, NoNode, "head")
ReceiveRetry(p)   == \E n \in Nodes : Receive(p, "pass", n, "retry")
ReceiveSkip(p)    == \E n \in Nodes : Receive(p, "pass", n, "skip")

\* The request is over; what it leaves in its locals is forgotten.
Answer(p) ==
    /\ pc'     = [pc EXCEPT ![p] = "idle"]
    /\ mode'   = [mode EXCEPT ![p] = "pass"]
    /\ target' = [target EXCEPT ![p] = NoNode]
    /\ copy'   = [copy EXCEPT ![p] = NewRun]
    /\ queue'  = [queue EXCEPT ![p] = {}]
    /\ iter'   = [iter EXCEPT ![p] = 0]

\* Wrong on purpose: the bound is less than a plan can need.
MustStop_Short(p) ==
    mode[p] # "pass" /\ (getReadyNodes(copy[p]) = {} \/ iter[p] >= 1)

\* runDagToCompletion stops looping: nothing is ready, or the bound is reached.
MustStop(p) ==
    mode[p] # "pass" /\ (getReadyNodes(copy[p]) = {} \/ iter[p] >= maxIterations)

\* executeReadyNodes: the ready nodes are fixed first, then others are skipped.
BeginPass(p) ==
    /\ pc[p] = "head"
    /\ ~ MustStop(p)
    /\ pc'    = [pc EXCEPT ![p] = "pass"]
    /\ iter'  = [iter EXCEPT ![p] = @ + 1]
    /\ queue' = [queue EXCEPT ![p] = getReadyNodes(copy[p])]
    /\ copy'  = [copy EXCEPT ![p] = SkipBelowFailed(@)]
    /\ UNCHANGED <<present, saved, mode, target, workflowVars>>

IsNext(p, n) ==
    n \in queue[p] /\ \A m \in queue[p] : Rank[n] <= Rank[m]

\* executeNode on a gate: the run waits, and nobody in the program completes the gate.
HoldAtGate(p) == \E n \in Gates :
    /\ pc[p] = "pass"
    /\ IsNext(p, n)
    /\ LET r == transitionNodeStatus(copy[p], n, "waiting_for_approval")
       IN  copy' = [copy EXCEPT ![p] = r] /\ Save(r)
    /\ queue' = [queue EXCEPT ![p] = @ \ {n}]
    /\ UNCHANGED <<pc, mode, iter, target, workflowVars>>

\* Wrong on purpose: a node that starts is saved, as every other transition is.
StartNode_Saves(p) == \E n \in Nodes \ Gates :
    /\ pc[p] = "pass"
    /\ IsNext(p, n)
    /\ copy'   = [copy EXCEPT ![p] = transitionNodeStatus(Counted(@, n), n, "running")]
    /\ Save(copy'[p])
    /\ pc'     = [pc EXCEPT ![p] = "work"]
    /\ target' = [target EXCEPT ![p] = n]
    /\ queue'  = [queue EXCEPT ![p] = @ \ {n}]
    /\ UNCHANGED <<mode, iter, workflowVars>>

\* executeNode up to its await: the node runs, in the copy only.
StartNode(p) == \E n \in Nodes \ Gates :
    /\ pc[p] = "pass"
    /\ IsNext(p, n)
    /\ copy'   = [copy EXCEPT ![p] = transitionNodeStatus(Counted(@, n), n, "running")]
    /\ pc'     = [pc EXCEPT ![p] = "work"]
    /\ target' = [target EXCEPT ![p] = n]
    /\ queue'  = [queue EXCEPT ![p] = @ \ {n}]
    /\ UNCHANGED <<present, saved, mode, iter, workflowVars>>

\* executeNode after it: the node is completed and the record saved.
FinishNode(p) ==
    /\ pc[p] = "work"
    /\ LET r == transitionNodeStatus(copy[p], target[p], "completed")
       IN  copy' = [copy EXCEPT ![p] = r] /\ Save(r)
    /\ pc'     = [pc EXCEPT ![p] = "pass"]
    /\ target' = [target EXCEPT ![p] = NoNode]
    /\ UNCHANGED <<mode, queue, iter, workflowVars>>

\* The end of executeReadyNodes, and whether another pass follows.
EndPass(p) ==
    /\ pc[p] = "pass"
    /\ queue[p] = {}
    /\ LET r == Derived(copy[p])
       IN  /\ copy' = [copy EXCEPT ![p] = r]
           /\ Save(r)
           /\ pc' = [pc EXCEPT ![p] = IF /\ mode[p] # "pass"
                                         /\ r.status \notin {"completed", "failed",
                                                             "waiting_for_approval"}
                                      THEN "head" ELSE "last"]
    /\ UNCHANGED <<mode, queue, iter, target, workflowVars>>

\* The last save: the route's, or the one at the end of runDagToCompletion.
Finish(p) ==
    /\ pc[p] = "last" \/ (pc[p] = "head" /\ MustStop(p))
    /\ Save(Derived(copy[p]))
    /\ Answer(p)
    /\ UNCHANGED workflowVars

MayRetry(r, n) == r.node[n] = "failed" /\ r.attempts[n] < MaxAttempts[n]

\* Wrong on purpose: the status of the run is left as it was.
Retried_Status(r, n) ==
    [r EXCEPT !.node[n] = "pending", !.attempts[n] = @ + 1]

Retried(r, n) ==
    transitionNodeStatus([r EXCEPT !.attempts[n] = r.attempts[n] + 1], n, "pending")

retryNode(p) ==
    /\ pc[p] = "retry"
    /\ IF MayRetry(copy[p], target[p])
       THEN Save(Retried(copy[p], target[p]))
       ELSE UNCHANGED <<saved, present>>
    /\ Answer(p)
    /\ UNCHANGED workflowVars

\* skipNode asks nothing of the node's status.
skipNode(p) ==
    /\ pc[p] = "skip"
    /\ Save(transitionNodeStatus(copy[p], target[p], "skipped"))
    /\ Answer(p)
    /\ UNCHANGED workflowVars

\* The process dies and comes back without its request and its workflow; a
\* death inside a write leaves a truncated file, which reads as no runs.
RunsWorkflow(p) == p = Host /\ Stages # <<>> /\ stage \in 1..(Len(Stages) + 1)

Saving(p) ==
    \/ pc[p] \in {"pass", "work", "retry", "skip", "last"}
    \/ pc[p] = "head" /\ MustStop(p)
    \/ pc[p] = "idle" /\ RunsWorkflow(p)

Crash(p) ==
    /\ pc[p] # "idle" \/ RunsWorkflow(p)
    /\ present' \in {present} \cup (IF Saving(p) THEN {FALSE} ELSE {})
    /\ stage' = IF RunsWorkflow(p) THEN Len(Stages) + 2 ELSE stage
    /\ Answer(p)
    /\ UNCHANGED <<saved, blocked, own>>

-----------------------------------------------------------------------------
(* The workflow.  It runs its stages in their fixed order and looks at no  *)
(* edge; between two stages its process may serve requests.                *)

AtStage == stage \in 1..Len(Stages) /\ pc[Host] = "idle"

\* completeNode.
StageCompletes ==
    /\ AtStage /\ ~ blocked
    /\ own' = transitionNodeStatus(own, Stages[stage], "completed")
    /\ Save(own')
    /\ stage' = stage + 1
    /\ UNCHANGED <<requestVars, blocked>>

\* failNode: a stage throws, or comes after the failed checkpoint.  A failure of
\* the last stage, the attribution, is caught without a mark on its node.
StageFails ==
    /\ AtStage /\ (blocked \/ stage < Len(Stages))
    /\ own' = transitionNodeStatus(own, Stages[stage], "failed")
    /\ Save(own')
    /\ stage' = stage + 1
    /\ blocked' = (blocked \/ Stages[stage] = Checkpoint)
    /\ UNCHANGED requestVars

\* The save after the last stage.
WorkflowEnds ==
    /\ Stages # <<>> /\ stage = Len(Stages) + 1 /\ pc[Host] = "idle"
    /\ Save(own)
    /\ stage' = stage + 1
    /\ UNCHANGED <<requestVars, blocked, own>>

-----------------------------------------------------------------------------
Request(p) ==
    \/ BeginPass(p) \/ HoldAtGate(p) \/ StartNode(p) \/ FinishNode(p)
    \/ EndPass(p) \/ Finish(p) \/ retryNode(p) \/ skipNode(p)

Workflow == StageCompletes \/ StageFails \/ WorkflowEnds

Next ==
    \/ Create
    \/ Workflow
    \/ \E p \in Processes :
          ReceiveExecute(p) \/ ReceiveRetry(p) \/ ReceiveSkip(p) \/ Request(p) \/ Crash(p)

Spec == Init /\ [][Next]_vars

-----------------------------------------------------------------------------
(* Properties.                                                             *)

TypeOK ==
    /\ present \in BOOLEAN
    /\ saved \in Runs
    /\ pc \in [Processes -> {"idle", "head", "pass", "work", "last", "retry", "skip"}]
    /\ mode \in [Processes -> {"pass", "complete", "force"}]
    /\ copy \in [Processes -> Runs]
    /\ queue \in [Processes -> SUBSET Nodes]
    /\ iter \in [Processes -> Nat]
    /\ target \in [Processes -> Nodes \cup {NoNode}]
    /\ stage \in 0..(Len(Stages) + 2)
    /\ blocked \in BOOLEAN
    /\ own \in Runs

\* The run's status is the one its nodes give, at every moment the record can
\* be read: no save of any path stores a status of before its node changes.
StatusDerived == saved.status = deriveRunStatusFromNodes(saved.node)

\* A set of nodes each of which is a gate or has a parent in the set.
HeldBack(U) == \A n \in U : n \in Gates \/ \E p \in Parents(n) : p \in U

\* Nothing behind an approval gate is ever completed: not after retries, skips
\* (of the gate itself, too), forced executions or crashes.
GateHolds == \A U \in SUBSET Nodes : HeldBack(U) => \A n \in U : saved.node[n] # "completed"

\* No parent of a completed node is left to do.
InOrder(r) ==
    \A n \in Nodes : r.node[n] = "completed" =>
        \A m \in Parents(n) : r.node[m] \in {"completed", "skipped"}

\* On record, the nodes before a completed one are completed or were skipped,
\* however many processes execute, force, skip and retry the run on copies they
\* read before the others saved: what one of them undid or overwrites, it does
\* with everything that came of it (a run no workflow owns).
RecordInOrder == InOrder(saved)

\* An execution to completion gives a run back settled, or waiting at a gate,
\* or with every node it left pending held up by a skipped one: never for want
\* of another pass.
FinishExplained ==
    [][\A p \in Processes :
          Finish(p) /\ mode[p] # "pass" =>
              \/ saved'.status \in {"completed", "failed", "waiting_for_approval"}
              \/ \A n \in Nodes : saved'.node[n] = "pending" =>
                    \E m \in Upstream[n] : saved'.node[m] = "skipped"]_vars

\* What is not over on record can still come to be: a running node is at work in
\* some process, and at or above a pending one something is ready, or runs, or
\* shows why not (it waits at a gate, was skipped or failed).  Deaths between a
\* node's start and its end, lost writes and the workflow's stale copy leave no
\* node that is neither ready nor retryable.
NeverStuck == \A n \in Nodes :
    /\ saved.node[n] = "running" => \E p \in Processes : pc[p] = "work" /\ target[p] = n
    /\ saved.node[n] = "pending" =>
          \E m \in Upstream[n] :
              m \in getReadyNodes(saved) \/ saved.node[m] \notin {"pending", "completed"}
-----------------------------------------------------------------------------
(* The inductive invariant behind GateHolds, for a run no workflow owns.   *)

\* No copy has a held-back node completed, no request is executing one, and
\* only the gates among them are ever ready.
Held(U) ==
    /\ \A n \in U : saved.node[n] # "completed"
    /\ \A p \in Processes :
          /\ \A n \in U : copy[p].node[n] # "completed"
          /\ pc[p] = "work" => target[p] \in Nodes \ U
          /\ queue[p] \cap U \subseteq Gates

AllHeld == \A U \in SUBSET Nodes : HeldBack(U) => Held(U)
=============================================================================
