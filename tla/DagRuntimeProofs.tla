--------------------------- MODULE DagRuntimeProofs ---------------------------
(***************************************************************************)
(* What TLAPS proves of DagRuntime, for every plan, any number of          *)
(* processes and any write failures: the types, that the status on record  *)
(* is always the one its nodes give, for runs no workflow owns, that       *)
(* nothing behind an approval gate is ever completed and that the record   *)
(* stays in order, and for plans without a cycle that nothing on record is *)
(* stuck and why executions stop.                                          *)
(***************************************************************************)
EXTENDS DagRuntime, FiniteSetTheorems, TLAPS

-----------------------------------------------------------------------------
(* The runtime's functions keep records records, and agree with their      *)
(* nodes after every derivation.                                           *)

Coherent(r) == r.status = deriveRunStatusFromNodes(r.node)

LEMMA DeriveTyped ==
  ASSUME NEW x
  PROVE  deriveRunStatusFromNodes(x) \in RunStatus
  BY DEF deriveRunStatusFromNodes, RunStatus

LEMMA DerivedTyped ==
  ASSUME NEW r \in Runs
  PROVE  /\ Derived(r) \in Runs /\ Coherent(Derived(r))
         /\ Derived(r).node = r.node
  BY DeriveTyped DEF Derived, Runs, Coherent

LEMMA TransitionTyped ==
  ASSUME NEW r \in Runs, NEW n \in Nodes, NEW s \in NodeStatus
  PROVE  /\ transitionNodeStatus(r, n, s) \in Runs
         /\ Coherent(transitionNodeStatus(r, n, s))
         /\ transitionNodeStatus(r, n, s).node = [r.node EXCEPT ![n] = s]
<1> DEFINE q == [r EXCEPT !.node[n] = s]
<1>1. q \in Runs /\ q.node = [r.node EXCEPT ![n] = s]
  BY DEF Runs
<1> HIDE DEF q
<1>2. Derived(q) \in Runs /\ Coherent(Derived(q)) /\ Derived(q).node = q.node
  BY <1>1, DerivedTyped
<1>3. transitionNodeStatus(r, n, s) = Derived(q)
  BY DEF transitionNodeStatus, q
<1>4. QED
  BY <1>1, <1>2, <1>3

LEMMA RetriedTyped ==
  ASSUME NEW r \in Runs, NEW n \in Nodes
  PROVE  /\ Retried(r, n) \in Runs /\ Coherent(Retried(r, n))
         /\ Retried(r, n).node = [r.node EXCEPT ![n] = "pending"]
<1> DEFINE q == [r EXCEPT !.attempts[n] = r.attempts[n] + 1]
<1>1. r.attempts \in [Nodes -> Nat] /\ r.attempts[n] + 1 \in Nat
  BY DEF Runs
<1>2. q \in Runs /\ q.node = r.node
  BY <1>1 DEF Runs
<1>3. Retried(r, n) = transitionNodeStatus(q, n, "pending")
  BY DEF Retried
<1> HIDE DEF q
<1>4. /\ transitionNodeStatus(q, n, "pending") \in Runs
      /\ Coherent(transitionNodeStatus(q, n, "pending"))
      /\ transitionNodeStatus(q, n, "pending").node = [q.node EXCEPT ![n] = "pending"]
  BY <1>2, TransitionTyped DEF NodeStatus
<1>5. QED
  BY <1>2, <1>3, <1>4

LEMMA CountedTyped ==
  ASSUME NEW r \in Runs, NEW n \in Nodes
  PROVE  Counted(r, n) \in Runs /\ Counted(r, n).node = r.node
  BY DEF Counted, Runs

LEMMA NewRunTyped == NewRun \in Runs /\ Coherent(NewRun)
  BY PlanAssumption
  DEF NewRun, Runs, NodeStatus, RunStatus, Coherent, deriveRunStatusFromNodes

LEMMA ResetTyped ==
  ASSUME NEW r \in Runs
  PROVE  /\ Reset(r) \in Runs
         /\ \A n \in Nodes : Reset(r).node[n] # "completed"
  BY DEF Reset, Runs, NodeStatus

LEMMA SkipTyped ==
  ASSUME NEW r \in Runs
  PROVE  /\ SkipBelowFailed(r) \in Runs
         /\ \A n \in Nodes : SkipBelowFailed(r).node[n] = "completed" => r.node[n] = "completed"
  BY DEF SkipBelowFailed, Runs, NodeStatus

LEMMA StageIsNode ==
  ASSUME NEW i \in 1..Len(Stages)
  PROVE  Stages[i] \in Nodes
  BY WorkflowAssumption

-----------------------------------------------------------------------------
(* Types.                                                                  *)

LEMMA AnswerTyped ==
  ASSUME TypeOK, NEW p \in Processes, Answer(p)
  PROVE  /\ pc' \in [Processes -> {"idle", "head", "pass", "work", "last", "retry", "skip"}]
         /\ mode' \in [Processes -> {"pass", "complete", "force"}]
         /\ copy' \in [Processes -> Runs]
         /\ queue' \in [Processes -> SUBSET Nodes]
         /\ iter' \in [Processes -> Nat]
         /\ target' \in [Processes -> Nodes \cup {NoNode}]
  BY NewRunTyped DEF Answer, TypeOK

LEMMA SaveTyped ==
  ASSUME TypeOK, NEW r \in Runs, Save(r)
  PROVE  saved' \in Runs /\ present' \in BOOLEAN
  BY DEF Save, TypeOK

\* What a request's step at node n is about.
Busy(p) == pc[p] \in {"work", "retry", "skip"}
TargetIsNode == \A p \in Processes : Busy(p) => target[p] \in Nodes

TypeInv == TypeOK /\ TargetIsNode

LEMMA TypeInit == Init => TypeInv
<1> SUFFICES ASSUME Init PROVE TypeInv
  OBVIOUS
<1>1. Len(Stages) \in Nat
  BY WorkflowAssumption
<1>2. copy \in [Processes -> Runs] /\ saved \in Runs /\ own \in Runs
  BY NewRunTyped DEF Init
<1>3. stage \in 0..(Len(Stages) + 2)
  BY <1>1 DEF Init
<1>4. TypeOK
  BY <1>2, <1>3 DEF Init, TypeOK
<1>5. QED
  BY <1>4 DEF Init, TypeInv, TargetIsNode, Busy

\* Every step keeps the types.
LEMMA TypeStep == TypeInv /\ [Next]_vars => TypeInv'
<1> SUFFICES ASSUME TypeInv, [Next]_vars PROVE TypeInv'
  OBVIOUS
<1> USE DEF TypeInv
<1>0. Len(Stages) \in Nat /\ TypeOK /\ TargetIsNode
  BY WorkflowAssumption
<1>1. CASE Create
  <2>1. saved' \in Runs /\ present' \in BOOLEAN
    BY <1>0, <1>1, NewRunTyped, SaveTyped DEF Create
  <2>2. QED
    BY <1>0, <1>1, <2>1, NewRunTyped
    DEF Create, TypeOK, requestVars, TargetIsNode, Busy
<1>2. CASE StageCompletes
  <2>1. stage \in 1..Len(Stages) /\ own' = transitionNodeStatus(own, Stages[stage], "completed")
    BY <1>2 DEF StageCompletes, AtStage
  <2>2. own' \in Runs
    BY <1>0, <2>1, StageIsNode, TransitionTyped DEF TypeOK, NodeStatus
  <2>3. saved' \in Runs /\ present' \in BOOLEAN
    BY <1>0, <1>2, <2>2, SaveTyped DEF StageCompletes
  <2>4. QED
    BY <1>0, <1>2, <2>1, <2>2, <2>3
    DEF StageCompletes, TypeOK, requestVars, TargetIsNode, Busy
<1>3. CASE StageFails
  <2>1. stage \in 1..Len(Stages) /\ own' = transitionNodeStatus(own, Stages[stage], "failed")
    BY <1>3 DEF StageFails, AtStage
  <2>2. own' \in Runs
    BY <1>0, <2>1, StageIsNode, TransitionTyped DEF TypeOK, NodeStatus
  <2>3. saved' \in Runs /\ present' \in BOOLEAN
    BY <1>0, <1>3, <2>2, SaveTyped DEF StageFails
  <2>4. blocked' \in BOOLEAN
    BY <1>0, <1>3 DEF StageFails, TypeOK
  <2>5. QED
    BY <1>0, <1>3, <2>1, <2>2, <2>3, <2>4
    DEF StageFails, TypeOK, requestVars, TargetIsNode, Busy
<1>4. CASE WorkflowEnds
  <2>1. saved' \in Runs /\ present' \in BOOLEAN
    BY <1>0, <1>4, SaveTyped DEF WorkflowEnds, TypeOK
  <2>2. QED
    BY <1>0, <1>4, <2>1 DEF WorkflowEnds, TypeOK, requestVars, TargetIsNode, Busy
<1>5. ASSUME NEW p \in Processes, NEW m \in {"pass", "complete", "force"},
             NEW n \in Nodes \cup {NoNode}, NEW at \in {"head", "retry", "skip"},
             Receive(p, m, n, at), n = NoNode => at = "head"
      PROVE  TypeInv'
  <2>1. (IF m = "force" THEN Reset(saved) ELSE saved) \in Runs
    BY <1>0, ResetTyped DEF TypeOK
  <2>2. QED
    BY <1>0, <1>5, <2>1, PlanAssumption
    DEF Receive, TypeOK, workflowVars, TargetIsNode, Busy
<1>6. ASSUME NEW p \in Processes, BeginPass(p) PROVE TypeInv'
  <2>1. SkipBelowFailed(copy[p]) \in Runs
    BY <1>0, SkipTyped DEF TypeOK
  <2>2. getReadyNodes(copy[p]) \subseteq Nodes
    BY DEF getReadyNodes
  <2>3. QED
    BY <1>0, <1>6, <2>1, <2>2 DEF BeginPass, TypeOK, workflowVars, TargetIsNode, Busy
<1>7. ASSUME NEW p \in Processes, HoldAtGate(p) PROVE TypeInv'
  <2>1. PICK n \in Gates :
           /\ pc[p] = "pass" /\ IsNext(p, n)
           /\ LET r == transitionNodeStatus(copy[p], n, "waiting_for_approval")
              IN  copy' = [copy EXCEPT ![p] = r] /\ Save(r)
           /\ queue' = [queue EXCEPT ![p] = @ \ {n}]
           /\ UNCHANGED <<pc, mode, iter, target, workflowVars>>
    BY <1>7 DEF HoldAtGate
  <2>2. transitionNodeStatus(copy[p], n, "waiting_for_approval") \in Runs
    BY <1>0, PlanAssumption, TransitionTyped DEF TypeOK, NodeStatus
  <2>3. saved' \in Runs /\ present' \in BOOLEAN
    BY <1>0, <2>1, <2>2, SaveTyped
  <2>4. QED
    BY <1>0, <2>1, <2>2, <2>3 DEF TypeOK, workflowVars, TargetIsNode, Busy
<1>8. ASSUME NEW p \in Processes, StartNode(p) PROVE TypeInv'
  <2>1. PICK n \in Nodes \ Gates :
           /\ pc[p] = "pass" /\ IsNext(p, n)
           /\ copy' = [copy EXCEPT ![p] =
                          transitionNodeStatus(Counted(copy[p], n), n, "running")]
           /\ pc' = [pc EXCEPT ![p] = "work"]
           /\ target' = [target EXCEPT ![p] = n]
           /\ queue' = [queue EXCEPT ![p] = @ \ {n}]
           /\ UNCHANGED <<present, saved, mode, iter, workflowVars>>
    BY <1>8 DEF StartNode
  <2>2. transitionNodeStatus(Counted(copy[p], n), n, "running") \in Runs
    BY <1>0, CountedTyped, TransitionTyped DEF TypeOK, NodeStatus
  <2>3. QED
    BY <1>0, <2>1, <2>2 DEF TypeOK, workflowVars, TargetIsNode, Busy
<1>9. ASSUME NEW p \in Processes, FinishNode(p) PROVE TypeInv'
  <2>1. transitionNodeStatus(copy[p], target[p], "completed") \in Runs
    BY <1>0, <1>9, TransitionTyped DEF FinishNode, TypeOK, NodeStatus, TargetIsNode, Busy
  <2>2. saved' \in Runs /\ present' \in BOOLEAN
    BY <1>0, <1>9, <2>1, SaveTyped DEF FinishNode
  <2>3. QED
    BY <1>0, <1>9, <2>1, <2>2 DEF FinishNode, TypeOK, workflowVars, TargetIsNode, Busy
<1>10. ASSUME NEW p \in Processes, EndPass(p) PROVE TypeInv'
  <2>1. Derived(copy[p]) \in Runs
    BY <1>0, DerivedTyped DEF TypeOK
  <2>2. saved' \in Runs /\ present' \in BOOLEAN
    BY <1>0, <1>10, <2>1, SaveTyped DEF EndPass
  <2>3. QED
    BY <1>0, <1>10, <2>1, <2>2 DEF EndPass, TypeOK, workflowVars, TargetIsNode, Busy
<1>11. ASSUME NEW p \in Processes, Answer(p), UNCHANGED workflowVars,
              saved' \in Runs, present' \in BOOLEAN
       PROVE  TypeInv'
  BY <1>0, <1>11, AnswerTyped DEF Answer, TypeOK, workflowVars, TargetIsNode, Busy
<1>12. ASSUME NEW p \in Processes, Finish(p) PROVE TypeInv'
  <2>1. saved' \in Runs /\ present' \in BOOLEAN
    BY <1>0, <1>12, DerivedTyped, SaveTyped DEF Finish, TypeOK
  <2>2. QED
    BY <1>11, <1>12, <2>1 DEF Finish
<1>13. ASSUME NEW p \in Processes, retryNode(p) PROVE TypeInv'
  <2>1. Retried(copy[p], target[p]) \in Runs
    BY <1>0, <1>13, RetriedTyped DEF retryNode, TypeOK, TargetIsNode, Busy
  <2>2. saved' \in Runs /\ present' \in BOOLEAN
    BY <1>0, <1>13, <2>1, SaveTyped DEF retryNode, TypeOK
  <2>3. QED
    BY <1>11, <1>13, <2>2 DEF retryNode
<1>14. ASSUME NEW p \in Processes, skipNode(p) PROVE TypeInv'
  <2>1. transitionNodeStatus(copy[p], target[p], "skipped") \in Runs
    BY <1>0, <1>14, TransitionTyped DEF skipNode, TypeOK, NodeStatus, TargetIsNode, Busy
  <2>2. saved' \in Runs /\ present' \in BOOLEAN
    BY <1>0, <1>14, <2>1, SaveTyped DEF skipNode
  <2>3. QED
    BY <1>11, <1>14, <2>2 DEF skipNode
<1>15. ASSUME NEW p \in Processes, Crash(p) PROVE TypeInv'
  <2>1. present' \in BOOLEAN
    BY <1>0, <1>15 DEF Crash, TypeOK
  <2>2. saved' \in Runs /\ blocked' \in BOOLEAN /\ own' \in Runs
    BY <1>0, <1>15 DEF Crash, TypeOK
  <2>3. stage' \in 0..(Len(Stages) + 2)
    <3>1. stage' = stage \/ stage' = Len(Stages) + 2
      BY <1>15 DEF Crash
    <3>2. QED
      BY <1>0, <3>1 DEF TypeOK
  <2>4. Answer(p)
    BY <1>15 DEF Crash
  <2>5. TypeOK'
    BY <1>0, <2>1, <2>2, <2>3, <2>4, AnswerTyped DEF TypeOK
  <2>6. QED
    BY <1>0, <2>4, <2>5 DEF Answer, TypeOK, TargetIsNode, Busy
<1>16. CASE UNCHANGED vars
  BY <1>0, <1>16 DEF vars, requestVars, workflowVars, TypeOK, TargetIsNode, Busy
<1>17. ASSUME NEW p \in Processes,
              ReceiveExecute(p) \/ ReceiveRetry(p) \/ ReceiveSkip(p)
       PROVE  TypeInv'
  BY <1>5, <1>17, PlanAssumption DEF ReceiveExecute, ReceiveRetry, ReceiveSkip
<1>18. QED
  BY <1>1, <1>2, <1>3, <1>4, <1>6, <1>7, <1>8, <1>9, <1>10, <1>12, <1>13, <1>14, <1>15,
     <1>16, <1>17
  DEF Next, Workflow, Request

\* Every variable keeps its type, for every plan and any number of processes.
THEOREM TypeCorrect == Spec => []TypeOK
<1>1. Spec => []TypeInv
  BY TypeInit, TypeStep, PTL DEF Spec
<1>2. TypeInv => TypeOK
  BY DEF TypeInv
<1>3. QED
  BY <1>1, <1>2, PTL

-----------------------------------------------------------------------------
(* The status on record.                                                   *)

StatusInv == TypeInv /\ Coherent(saved) /\ Coherent(own)

LEMMA SaveCoherent ==
  ASSUME Coherent(saved), NEW r, Coherent(r), Save(r)
  PROVE  Coherent(saved)'
  BY DEF Save, Coherent

\* Every save of every path stores a record that agrees with itself.
LEMMA StatusStep == StatusInv /\ [Next]_vars => StatusInv'
<1> SUFFICES ASSUME StatusInv, [Next]_vars PROVE StatusInv'
  OBVIOUS
<1>0. TypeInv /\ TypeInv' /\ TypeOK /\ TargetIsNode /\ Coherent(saved) /\ Coherent(own)
  BY TypeStep DEF StatusInv, TypeInv
<1>1. CASE Create
  <2>1. Coherent(saved)'
    BY <1>0, <1>1, NewRunTyped, SaveCoherent DEF Create
  <2>2. Coherent(own)'
    BY <1>1, NewRunTyped DEF Create, Coherent
  <2>3. QED
    BY <1>0, <2>1, <2>2 DEF StatusInv
<1>2. ASSUME NEW s \in {"completed", "failed"}, stage \in 1..Len(Stages),
             own' = transitionNodeStatus(own, Stages[stage], s), Save(own')
      PROVE  StatusInv'
  <2>1. Coherent(own')
    BY <1>0, <1>2, StageIsNode, TransitionTyped DEF TypeOK, NodeStatus
  <2>2. Coherent(saved)'
    BY <1>0, <1>2, <2>1, SaveCoherent
  <2>3. QED
    BY <1>0, <2>1, <2>2 DEF StatusInv, Coherent
<1>3. CASE WorkflowEnds
  <2>1. Coherent(saved)'
    BY <1>0, <1>3, SaveCoherent DEF WorkflowEnds
  <2>2. QED
    BY <1>0, <1>3, <2>1 DEF WorkflowEnds, StatusInv, Coherent
<1>4. ASSUME UNCHANGED own, UNCHANGED saved \/ \E r : Coherent(r) /\ Save(r)
      PROVE  StatusInv'
  <2>1. Coherent(saved)'
    BY <1>0, <1>4, SaveCoherent DEF Coherent
  <2>2. QED
    BY <1>0, <1>4, <2>1 DEF StatusInv, Coherent
<1>5. ASSUME NEW p \in Processes, Request(p) PROVE StatusInv'
  <2>1. CASE BeginPass(p)
    BY <1>4, <2>1 DEF BeginPass, workflowVars
  <2>2. CASE HoldAtGate(p)
    <3>1. PICK n \in Gates : Save(transitionNodeStatus(copy[p], n, "waiting_for_approval"))
      BY <2>2 DEF HoldAtGate
    <3>2. Coherent(transitionNodeStatus(copy[p], n, "waiting_for_approval"))
      BY <1>0, PlanAssumption, TransitionTyped DEF TypeOK, NodeStatus
    <3>3. UNCHANGED own
      BY <2>2 DEF HoldAtGate, workflowVars
    <3>4. QED
      BY <1>4, <3>1, <3>2, <3>3
  <2>3. CASE StartNode(p)
    BY <1>4, <2>3 DEF StartNode, workflowVars
  <2>4. CASE FinishNode(p)
    <3>1. Coherent(transitionNodeStatus(copy[p], target[p], "completed"))
      BY <1>0, <2>4, TransitionTyped DEF FinishNode, TypeOK, NodeStatus, TargetIsNode, Busy
    <3>2. Save(transitionNodeStatus(copy[p], target[p], "completed")) /\ UNCHANGED own
      BY <2>4 DEF FinishNode, workflowVars
    <3>3. QED
      BY <1>4, <3>1, <3>2
  <2>5. CASE EndPass(p) \/ Finish(p)
    <3>1. Coherent(Derived(copy[p]))
      BY <1>0, DerivedTyped DEF TypeOK
    <3>2. Save(Derived(copy[p])) /\ UNCHANGED own
      BY <2>5 DEF EndPass, Finish, workflowVars
    <3>3. QED
      BY <1>4, <3>1, <3>2
  <2>6. CASE retryNode(p)
    <3>1. Coherent(Retried(copy[p], target[p]))
      BY <1>0, <2>6, RetriedTyped DEF retryNode, TypeOK, TargetIsNode, Busy
    <3>2. Save(Retried(copy[p], target[p])) \/ UNCHANGED saved
      BY <2>6 DEF retryNode
    <3>3. UNCHANGED own
      BY <2>6 DEF retryNode, workflowVars
    <3>4. QED
      BY <1>4, <3>1, <3>2, <3>3
  <2>7. CASE skipNode(p)
    <3>1. Coherent(transitionNodeStatus(copy[p], target[p], "skipped"))
      BY <1>0, <2>7, TransitionTyped DEF skipNode, TypeOK, NodeStatus, TargetIsNode, Busy
    <3>2. Save(transitionNodeStatus(copy[p], target[p], "skipped")) /\ UNCHANGED own
      BY <2>7 DEF skipNode, workflowVars
    <3>3. QED
      BY <1>4, <3>1, <3>2
  <2>8. QED
    BY <1>5, <2>1, <2>2, <2>3, <2>4, <2>5, <2>6, <2>7 DEF Request
<1>6. CASE Workflow
  BY <1>2, <1>3, <1>6 DEF Workflow, StageCompletes, StageFails, AtStage
<1>7. ASSUME NEW p \in Processes,
             ReceiveExecute(p) \/ ReceiveRetry(p) \/ ReceiveSkip(p) \/ Crash(p)
      PROVE  StatusInv'
  BY <1>4, <1>7 DEF ReceiveExecute, ReceiveRetry, ReceiveSkip, Receive, Crash, workflowVars
<1>8. CASE UNCHANGED vars
  BY <1>4, <1>8 DEF vars, workflowVars
<1>9. QED
  BY <1>1, <1>5, <1>6, <1>7, <1>8 DEF Next

\* The status on record is always the one its nodes give, whatever races,
\* crashes or fails to be written.
THEOREM StatusAgrees == Spec => []StatusDerived
<1>1. Init => StatusInv
  BY TypeInit, NewRunTyped DEF StatusInv, Init
<1>2. StatusInv => StatusDerived
  BY DEF StatusInv, Coherent, StatusDerived
<1>3. QED
  BY <1>1, <1>2, StatusStep, PTL DEF Spec

-----------------------------------------------------------------------------
(* Nothing behind a gate is completed, in a run that no workflow owns.     *)

GateInv == TypeInv /\ AllHeld

\* A held-back node that is ready is a gate: its parents are held back too.
LEMMA ReadyHeldIsGate ==
  ASSUME NEW r \in Runs, NEW U \in SUBSET Nodes, HeldBack(U),
         \A n \in U : r.node[n] # "completed"
  PROVE  getReadyNodes(r) \cap U \subseteq Gates
  BY DEF getReadyNodes, HeldBack, Parents

\* A change of one node's status to anything but completed, or of a node that
\* is not held back, completes no held-back node.
LEMMA SetHolds ==
  ASSUME NEW r \in Runs, NEW q \in Runs, NEW U \in SUBSET Nodes,
         NEW n \in Nodes, NEW s \in NodeStatus,
         \A m \in U : r.node[m] # "completed",
         q.node = [r.node EXCEPT ![n] = s],
         s # "completed" \/ n \notin U
  PROVE  \A m \in U : q.node[m] # "completed"
  BY DEF Runs

LEMMA SaveHolds ==
  ASSUME NEW U \in SUBSET Nodes, \A n \in U : saved.node[n] # "completed",
         NEW r, \A n \in U : r.node[n] # "completed", Save(r)
  PROVE  \A n \in U : saved'.node[n] # "completed"
  BY DEF Save

LEMMA NewRunHolds == \A n \in Nodes : NewRun.node[n] # "completed"
  BY DEF NewRun

\* The end of a request leaves a new copy and an empty queue.
LEMMA AnswerHolds ==
  ASSUME TypeInv, NEW p \in Processes, Answer(p), NEW U \in SUBSET Nodes, Held(U),
         \A n \in U : saved'.node[n] # "completed"
  PROVE  Held(U)'
  BY NewRunHolds DEF Answer, Held, TypeInv, TypeOK

LEMMA HeldStep ==
  ASSUME TypeInv, Stages = <<>>, NEW U \in SUBSET Nodes, HeldBack(U), Held(U), Next
  PROVE  Held(U)'
<1>0. TypeOK /\ TargetIsNode
  BY DEF TypeInv
<1>1. CASE Create
  <2>1. \A n \in U : saved'.node[n] # "completed"
    BY <1>1, NewRunHolds, SaveHolds DEF Create, Held
  <2>2. QED
    BY <1>1, <2>1 DEF Create, Held, requestVars
<1>2. CASE Workflow
  <2>1. Len(Stages) = 0
    BY WorkflowAssumption
  <2>2. stage \notin 1..Len(Stages)
    BY <1>0, <2>1 DEF TypeOK
  <2>3. QED
    BY <1>2, <2>2 DEF Workflow, StageCompletes, StageFails, WorkflowEnds, AtStage
<1>3. ASSUME NEW p \in Processes, NEW m, NEW n, NEW at \in {"head", "retry", "skip"},
             Receive(p, m, n, at)
      PROVE  Held(U)'
  <2>1. \A k \in U : (IF m = "force" THEN Reset(saved) ELSE saved).node[k] # "completed"
    BY <1>0, ResetTyped DEF TypeOK, Held
  <2>2. QED
    BY <1>0, <1>3, <2>1 DEF Receive, Held, TypeOK
<1>4. ASSUME NEW p \in Processes, BeginPass(p) PROVE Held(U)'
  <2>1. \A n \in U : SkipBelowFailed(copy[p]).node[n] # "completed"
    BY <1>0, SkipTyped DEF TypeOK, Held
  <2>2. getReadyNodes(copy[p]) \cap U \subseteq Gates
    BY <1>0, ReadyHeldIsGate DEF TypeOK, Held
  <2>3. QED
    BY <1>0, <1>4, <2>1, <2>2 DEF BeginPass, Held, TypeOK
<1>5. ASSUME NEW p \in Processes, HoldAtGate(p) PROVE Held(U)'
  <2>1. PICK n \in Gates :
           LET r == transitionNodeStatus(copy[p], n, "waiting_for_approval")
           IN  /\ copy' = [copy EXCEPT ![p] = r] /\ Save(r)
               /\ queue' = [queue EXCEPT ![p] = @ \ {n}]
               /\ UNCHANGED <<pc, target>>
    BY <1>5 DEF HoldAtGate
  <2> DEFINE r == transitionNodeStatus(copy[p], n, "waiting_for_approval")
  <2>2. /\ n \in Nodes /\ "waiting_for_approval" \in NodeStatus
        /\ copy[p] \in Runs /\ r \in Runs
        /\ r.node = [copy[p].node EXCEPT ![n] = "waiting_for_approval"]
    BY <1>0, PlanAssumption, TransitionTyped DEF TypeOK, NodeStatus
  <2>3. copy' = [copy EXCEPT ![p] = r] /\ Save(r)
    BY <2>1
  <2> HIDE DEF r
  <2>4. \A k \in U : r.node[k] # "completed"
    BY <2>2, SetHolds DEF Held
  <2>5. \A k \in U : saved'.node[k] # "completed"
    BY <2>3, <2>4, SaveHolds DEF Held
  <2>6. QED
    BY <1>0, <2>1, <2>3, <2>4, <2>5 DEF Held, TypeOK
<1>6. ASSUME NEW p \in Processes, StartNode(p) PROVE Held(U)'
  <2>1. PICK n \in Nodes \ Gates :
           /\ pc[p] = "pass" /\ IsNext(p, n)
           /\ copy' = [copy EXCEPT ![p] =
                          transitionNodeStatus(Counted(copy[p], n), n, "running")]
           /\ pc' = [pc EXCEPT ![p] = "work"]
           /\ target' = [target EXCEPT ![p] = n]
           /\ queue' = [queue EXCEPT ![p] = @ \ {n}]
           /\ UNCHANGED <<present, saved, mode, iter, workflowVars>>
    BY <1>6 DEF StartNode
  <2> DEFINE r == transitionNodeStatus(Counted(copy[p], n), n, "running")
  <2>2. Counted(copy[p], n) \in Runs /\ Counted(copy[p], n).node = copy[p].node
    BY <1>0, CountedTyped DEF TypeOK
  <2>3. r \in Runs /\ r.node = [Counted(copy[p], n).node EXCEPT ![n] = "running"]
    BY <2>2, TransitionTyped DEF NodeStatus
  <2>4. copy' = [copy EXCEPT ![p] = r]
    BY <2>1
  <2> HIDE DEF r
  <2>5. "running" \in NodeStatus /\ \A k \in U : Counted(copy[p], n).node[k] # "completed"
    BY <2>2 DEF NodeStatus, Held
  <2>6. \A k \in U : r.node[k] # "completed"
    BY <2>2, <2>3, <2>5, SetHolds
  <2>7. n \notin U
    BY <2>1 DEF IsNext, Held
  <2>8. QED
    BY <1>0, <2>1, <2>4, <2>6, <2>7 DEF Held, TypeOK
<1>7. ASSUME NEW p \in Processes, FinishNode(p) PROVE Held(U)'
  <2> DEFINE r == transitionNodeStatus(copy[p], target[p], "completed")
  <2>1. /\ target[p] \in Nodes \ U /\ "completed" \in NodeStatus /\ copy[p] \in Runs
    BY <1>0, <1>7 DEF FinishNode, Held, TypeOK, NodeStatus
  <2>2. r \in Runs /\ r.node = [copy[p].node EXCEPT ![target[p]] = "completed"]
    BY <2>1, TransitionTyped
  <2>3. copy' = [copy EXCEPT ![p] = r] /\ Save(r)
    BY <1>7 DEF FinishNode
  <2> HIDE DEF r
  <2>4. \A k \in U : r.node[k] # "completed"
    BY <2>1, <2>2, SetHolds DEF Held
  <2>5. \A k \in U : saved'.node[k] # "completed"
    BY <2>3, <2>4, SaveHolds DEF Held
  <2>6. QED
    BY <1>0, <1>7, <2>3, <2>4, <2>5 DEF FinishNode, Held, TypeOK
<1>8. ASSUME NEW p \in Processes PROVE \A n \in U : Derived(copy[p]).node[n] # "completed"
  BY <1>0, <1>8, DerivedTyped DEF TypeOK, Held
<1>9. ASSUME NEW p \in Processes, EndPass(p) PROVE Held(U)'
  <2>1. copy' = [copy EXCEPT ![p] = Derived(copy[p])] /\ Save(Derived(copy[p]))
    BY <1>9 DEF EndPass
  <2>2. \A k \in U : saved'.node[k] # "completed"
    BY <1>8, <2>1, SaveHolds DEF Held
  <2>3. pc' \in [Processes -> {"idle", "head", "pass", "work", "last", "retry", "skip"}]
        /\ \A q \in Processes : pc'[q] = "work" => pc[q] = "work"
    BY <1>0, <1>9 DEF EndPass, TypeOK
  <2>4. UNCHANGED <<queue, target>>
    BY <1>9 DEF EndPass
  <2>5. QED
    BY <1>0, <1>8, <2>1, <2>2, <2>3, <2>4 DEF Held, TypeOK
<1>10. ASSUME NEW p \in Processes, Finish(p) PROVE Held(U)'
  <2>1. \A k \in U : saved'.node[k] # "completed"
    BY <1>8, <1>10, SaveHolds DEF Held, Finish
  <2>2. QED
    BY <1>10, <2>1, AnswerHolds DEF Finish
<1>11. ASSUME NEW p \in Processes, retryNode(p) PROVE Held(U)'
  <2>1. /\ target[p] \in Nodes /\ copy[p] \in Runs /\ Retried(copy[p], target[p]) \in Runs
        /\ Retried(copy[p], target[p]).node = [copy[p].node EXCEPT ![target[p]] = "pending"]
        /\ "pending" \in NodeStatus
    BY <1>0, <1>11, RetriedTyped DEF retryNode, TypeOK, TargetIsNode, Busy, NodeStatus
  <2>2. \A k \in U : Retried(copy[p], target[p]).node[k] # "completed"
    BY <2>1, SetHolds DEF Held
  <2>3. \A k \in U : saved'.node[k] # "completed"
    BY <1>11, <2>2, SaveHolds DEF Held, retryNode
  <2>4. QED
    BY <1>11, <2>3, AnswerHolds DEF retryNode
<1>12. ASSUME NEW p \in Processes, skipNode(p) PROVE Held(U)'
  <2> DEFINE r == transitionNodeStatus(copy[p], target[p], "skipped")
  <2>1. target[p] \in Nodes /\ copy[p] \in Runs /\ "skipped" \in NodeStatus
    BY <1>0, <1>12 DEF skipNode, TypeOK, TargetIsNode, Busy, NodeStatus
  <2>2. r \in Runs /\ r.node = [copy[p].node EXCEPT ![target[p]] = "skipped"]
    BY <2>1, TransitionTyped
  <2>3. Save(r) /\ Answer(p)
    BY <1>12 DEF skipNode
  <2> HIDE DEF r
  <2>4. \A k \in U : r.node[k] # "completed"
    BY <2>1, <2>2, SetHolds DEF Held
  <2>5. \A k \in U : saved'.node[k] # "completed"
    BY <2>3, <2>4, SaveHolds DEF Held
  <2>6. QED
    BY <2>3, <2>5, AnswerHolds
<1>13. ASSUME NEW p \in Processes, Crash(p) PROVE Held(U)'
  <2>1. Answer(p) /\ saved' = saved
    BY <1>13 DEF Crash
  <2>2. QED
    BY <2>1, AnswerHolds DEF Held
<1>14. ASSUME NEW p \in Processes,
              ReceiveExecute(p) \/ ReceiveRetry(p) \/ ReceiveSkip(p)
       PROVE  Held(U)'
  BY <1>3, <1>14 DEF ReceiveExecute, ReceiveRetry, ReceiveSkip
<1>15. QED
  BY <1>1, <1>2, <1>4, <1>5, <1>6, <1>7, <1>9, <1>10, <1>11, <1>12, <1>13, <1>14
  DEF Next, Request

\* Nothing behind an approval gate is ever completed, for every plan, any
\* number of processes, any requests, write failures and crashes, provided the
\* run is worked on by requests only.
THEOREM GatesHold ==
  ASSUME Stages = <<>>
  PROVE  Spec => []GateHolds
<1>1. Init => GateInv
  <2>1. ASSUME Init, NEW U \in SUBSET Nodes PROVE Held(U)
    BY <2>1, NewRunHolds DEF Init, Held
  <2>2. QED
    BY <2>1, TypeInit DEF GateInv, AllHeld
<1>2. GateInv /\ [Next]_vars => GateInv'
  <2>1. ASSUME GateInv, Next, NEW U \in SUBSET Nodes, HeldBack(U) PROVE Held(U)'
    BY <2>1, HeldStep DEF GateInv, AllHeld
  <2>2. ASSUME GateInv, UNCHANGED vars, NEW U \in SUBSET Nodes, HeldBack(U) PROVE Held(U)'
    BY <2>2 DEF GateInv, AllHeld, Held, vars, requestVars
  <2>3. ASSUME NEW U PROVE HeldBack(U)' <=> HeldBack(U)
    BY DEF HeldBack, Parents
  <2>4. QED
    BY <2>1, <2>2, <2>3, TypeStep DEF GateInv, AllHeld
<1>3. GateInv => GateHolds
  BY DEF GateInv, AllHeld, Held, GateHolds
<1>4. QED
  BY <1>1, <1>2, <1>3, PTL DEF Spec
-----------------------------------------------------------------------------
(* What a pass works on, in any run: its queue was ready when it began, and *)
(* passes to completion are as many as there are nodes no longer pending.   *)

Settled == {"completed", "failed", "waiting_for_approval"}

NotPending(r) == {n \in Nodes : r.node[n] # "pending"}

\* What is queued waits for no parent; it may have been skipped since.
Queued(r, Q) ==
    \A n \in Q : /\ r.node[n] \in {"pending", "skipped"}
                 /\ \A m \in Parents(n) : r.node[m] = "completed"

\* Where a request stands, with k its place, t its target and so on.
Passes(k, m, r, Q, i, t) ==
    /\ Queued(r, Q)
    /\ k \notin {"pass", "work"} => Q = {}
    /\ \A n \in Nodes : r.node[n] = "running" => k = "work" /\ n = t
    /\ k = "work" => r.node[t] = "running"
    /\ k = "last" /\ m # "pass" => deriveRunStatusFromNodes(r.node) \in Settled
    /\ m # "pass" => i <= Cardinality(NotPending(r) \cup Q)

PassInv ==
    /\ \A p \in Processes : Passes(pc[p], mode[p], copy[p], queue[p], iter[p], target[p])
    /\ \A n \in Nodes : saved.node[n] # "running" /\ own.node[n] # "running"

\* In a run that no workflow owns nothing fails, and a record with nothing failed skips nothing
\* of itself: what is queued is pending, and what runs has its parents behind it.
Ordered(r) == InOrder(r) /\ \A n \in Nodes : r.node[n] # "failed"

Orders(k, r, Q, t) ==
    /\ Ordered(r)
    /\ \A n \in Q : r.node[n] = "pending"
    /\ k = "work" => \A m \in Parents(t) : r.node[m] = "completed"

OrderInv ==
    /\ Ordered(saved)
    /\ \A p \in Processes : Orders(pc[p], copy[p], queue[p], target[p])

LEMMA Counting ==
  ASSUME NEW S \in SUBSET Nodes, NEW T \in SUBSET Nodes
  PROVE  /\ Cardinality(S) \in Nat
         /\ S \subseteq T => Cardinality(S) <= Cardinality(T)
         /\ \A n \in Nodes : n \notin S => Cardinality(S \cup {n}) = Cardinality(S) + 1
<1>1. IsFiniteSet(S) /\ IsFiniteSet(T) /\ Cardinality(S) \in Nat
  BY PlanAssumption, FS_Subset, FS_CardinalityType
<1>2. S \subseteq T => Cardinality(S) <= Cardinality(T)
  BY <1>1, FS_Subset
<1>3. \A n \in Nodes : n \notin S => Cardinality(S \cup {n}) = Cardinality(S) + 1
  BY <1>1, FS_AddElement
<1>4. QED
  BY <1>1, <1>2, <1>3

LEMMA BeginPasses ==
  ASSUME NEW r \in Runs, NEW m, NEW Q, NEW i \in Nat, NEW t, Passes("head", m, r, Q, i, t),
         m = "pass" \/ getReadyNodes(r) # {}
  PROVE  Passes("pass", m, SkipBelowFailed(r), getReadyNodes(r), i + 1, t)
<1> DEFINE s == SkipBelowFailed(r)
           R == getReadyNodes(r)
<1>1. s \in Runs
  BY SkipTyped
<1>2. \A n \in Nodes : s.node[n] = r.node[n] \/ (r.node[n] = "pending" /\ s.node[n] = "skipped")
  BY DEF SkipBelowFailed, Runs
<1>3. \A n \in R : n \in Nodes /\ r.node[n] = "pending" /\ \A k \in Parents(n) : r.node[k] = "completed"
  BY DEF getReadyNodes
<1>4. \A n \in R : Parents(n) \subseteq Nodes
  BY DEF Parents
<1>5. Q = {} /\ \A n \in Nodes : r.node[n] # "running"
  BY DEF Passes
<1> HIDE DEF s, R
<1>6. Queued(s, R)
  BY <1>2, <1>3, <1>4 DEF Queued
<1>7. ASSUME m # "pass" PROVE i + 1 <= Cardinality(NotPending(s) \cup R)
  <2>1. PICK n \in R : TRUE
    BY <1>7 DEF R
  <2> DEFINE S == NotPending(r)
             T == NotPending(s) \cup R
  <2>2. S \in SUBSET Nodes /\ T \in SUBSET Nodes /\ n \in Nodes /\ n \notin S /\ S \cup {n} \subseteq T
    BY <1>2, <1>3, <2>1 DEF NotPending
  <2>3. i <= Cardinality(S)
    <3>1. S \cup Q = S
      BY <1>5
    <3>2. QED
      BY <1>7, <3>1 DEF Passes
  <2> HIDE DEF S, T
  <2>4. /\ Cardinality(S) \in Nat /\ Cardinality(T) \in Nat
        /\ Cardinality(S \cup {n}) = Cardinality(S) + 1
    BY <2>2, Counting
  <2>5. Cardinality(S \cup {n}) <= Cardinality(T)
    BY <2>2, Counting
  <2>6. QED
    BY <2>3, <2>4, <2>5 DEF T
<1>8. QED
  BY <1>2, <1>5, <1>6, <1>7 DEF Passes, s, R

\* A node taken from the queue is set to something other than pending.
LEMMA TakenCounts ==
  ASSUME NEW r \in Runs, NEW q \in Runs, NEW n \in Nodes, NEW s, s # "pending",
         q.node = [r.node EXCEPT ![n] = s], NEW Q \in SUBSET Nodes, NEW i \in Nat,
         i <= Cardinality(NotPending(r) \cup Q)
  PROVE  i <= Cardinality(NotPending(q) \cup (Q \ {n}))
<1> DEFINE S == NotPending(r) \cup Q
           T == NotPending(q) \cup (Q \ {n})
<1>1. S \in SUBSET Nodes /\ T \in SUBSET Nodes
  BY DEF NotPending
<1>2. S \subseteq T
  BY DEF NotPending, Runs
<1>3. i <= Cardinality(S)
  OBVIOUS
<1> HIDE DEF S, T
<1>4. i <= Cardinality(T)
  <2>1. Cardinality(S) \in Nat /\ Cardinality(T) \in Nat /\ Cardinality(S) <= Cardinality(T)
    BY <1>1, <1>2, Counting
  <2>2. QED
    BY <1>3, <2>1
<1>5. QED
  BY <1>4 DEF T

LEMMA HoldPasses ==
  ASSUME NEW r \in Runs, NEW q \in Runs, NEW m, NEW Q \in SUBSET Nodes, NEW i \in Nat, NEW t,
         Passes("pass", m, r, Q, i, t), NEW n \in Q,
         q.node = [r.node EXCEPT ![n] = "waiting_for_approval"]
  PROVE  Passes("pass", m, q, Q \ {n}, i, t)
<1>1. Queued(q, Q \ {n})
  BY DEF Passes, Queued, Parents, Runs
<1>2. \A k \in Nodes : q.node[k] # "running"
  BY DEF Passes, Runs
<1>3. m # "pass" => i <= Cardinality(NotPending(q) \cup (Q \ {n}))
  BY TakenCounts DEF Passes
<1>4. QED
  BY <1>1, <1>2, <1>3 DEF Passes

LEMMA StartPasses ==
  ASSUME NEW r \in Runs, NEW q \in Runs, NEW m, NEW Q \in SUBSET Nodes, NEW i \in Nat, NEW t,
         Passes("pass", m, r, Q, i, t), NEW n \in Q, q.node = [r.node EXCEPT ![n] = "running"]
  PROVE  Passes("work", m, q, Q \ {n}, i, n)
<1>1. Queued(q, Q \ {n})
  BY DEF Passes, Queued, Parents, Runs
<1>2. q.node[n] = "running" /\ \A k \in Nodes : q.node[k] = "running" => k = n
  BY DEF Passes, Runs
<1>3. m # "pass" => i <= Cardinality(NotPending(q) \cup (Q \ {n}))
  BY TakenCounts DEF Passes
<1>4. QED
  BY <1>1, <1>2, <1>3 DEF Passes

LEMMA FinishPasses ==
  ASSUME NEW r \in Runs, NEW q \in Runs, NEW m, NEW Q \in SUBSET Nodes, NEW i \in Nat,
         NEW n \in Nodes, NEW t, Passes("work", m, r, Q, i, n),
         q.node = [r.node EXCEPT ![n] = "completed"]
  PROVE  Passes("pass", m, q, Q, i, t)
<1>1. n \notin Q /\ Q \ {n} = Q
  BY DEF Passes, Queued
<1>2. Queued(q, Q)
  BY <1>1 DEF Passes, Queued, Parents, Runs
<1>3. \A k \in Nodes : q.node[k] # "running"
  BY DEF Passes, Runs
<1>4. m # "pass" => i <= Cardinality(NotPending(q) \cup (Q \ {n}))
  BY TakenCounts DEF Passes
<1>5. QED
  BY <1>1, <1>2, <1>3, <1>4 DEF Passes

LEMMA EndPasses ==
  ASSUME NEW r \in Runs, NEW m, NEW i \in Nat, NEW t, NEW k \in {"head", "last"},
         Passes("pass", m, r, {}, i, t),
         m # "pass" /\ k = "last" => Derived(r).status \in Settled
  PROVE  Passes(k, m, Derived(r), {}, i, t)
<1>1. Derived(r).node = r.node /\ Derived(r).status = deriveRunStatusFromNodes(r.node)
  BY DerivedTyped DEF Coherent
<1>2. QED
  BY <1>1 DEF Passes, Queued, NotPending

\* A request that begins, on a record of which nothing is running.
LEMMA FirstPasses ==
  ASSUME NEW r \in Runs, \A n \in Nodes : r.node[n] # "running", NEW m, NEW t,
         NEW k \in {"idle", "head", "retry", "skip"}
  PROVE  Passes(k, m, r, {}, 0, t)
<1>1. NotPending(r) \cup {} \in SUBSET Nodes
  BY DEF NotPending
<1>2. Cardinality(NotPending(r) \cup {}) \in Nat
  BY <1>1, Counting
<1>3. 0 <= Cardinality(NotPending(r) \cup {})
  BY <1>2
<1>4. QED
  BY <1>3 DEF Passes, Queued

LEMMA NewRunPasses == /\ Passes("idle", "pass", NewRun, {}, 0, NoNode)
                      /\ \A n \in Nodes : NewRun.node[n] # "running"
  BY NewRunTyped, FirstPasses DEF NewRun

\* Where nothing is running, a change to something else lets nothing run.
LEMMA NoneRuns ==
  ASSUME NEW r \in Runs, NEW n \in Nodes, NEW s, s # "running",
         \A k \in Nodes : r.node[k] # "running"
  PROVE  \A k \in Nodes : [r.node EXCEPT ![n] = s][k] # "running"
  BY DEF Runs
LEMMA PassInit == Init => PassInv
  BY NewRunPasses DEF Init, PassInv

\* A step of p that leaves it in order and saves nothing running.
LEMMA PassMoves ==
  ASSUME PassInv, NEW p \in Processes,
         \A q \in Processes : q # p =>
            /\ pc'[q] = pc[q] /\ mode'[q] = mode[q] /\ copy'[q] = copy[q]
            /\ queue'[q] = queue[q] /\ iter'[q] = iter[q] /\ target'[q] = target[q],
         Passes(pc'[p], mode'[p], copy'[p], queue'[p], iter'[p], target'[p]),
         own' = own,
         saved' = saved \/ \E r : saved' = r /\ \A n \in Nodes : r.node[n] # "running"
  PROVE  PassInv'
<1>1. \A n \in Nodes : saved'.node[n] # "running" /\ own'.node[n] # "running"
  BY DEF PassInv
<1>2. ASSUME NEW q \in Processes
      PROVE  Passes(pc'[q], mode'[q], copy'[q], queue'[q], iter'[q], target'[q])
  <2>1. CASE q = p
    BY <2>1
  <2>2. CASE q # p
    BY <2>2 DEF PassInv
  <2>3. QED
    BY <2>1, <2>2
<1>3. QED
  BY <1>1, <1>2 DEF PassInv

LEMMA AnswerMoves ==
  ASSUME TypeInv, PassInv, NEW p \in Processes, Answer(p), own' = own,
         saved' = saved \/ \E r : saved' = r /\ \A n \in Nodes : r.node[n] # "running"
  PROVE  PassInv'
<1>1. /\ pc'[p] = "idle" /\ mode'[p] = "pass" /\ copy'[p] = NewRun /\ queue'[p] = {}
      /\ iter'[p] = 0 /\ target'[p] = NoNode
      /\ \A q \in Processes : q # p =>
            /\ pc'[q] = pc[q] /\ mode'[q] = mode[q] /\ copy'[q] = copy[q]
            /\ queue'[q] = queue[q] /\ iter'[q] = iter[q] /\ target'[q] = target[q]
  BY DEF Answer, TypeInv, TypeOK
<1>2. Passes(pc'[p], mode'[p], copy'[p], queue'[p], iter'[p], target'[p])
  BY <1>1, NewRunPasses
<1>3. QED
  BY <1>1, <1>2, PassMoves

LEMMA PassStep == TypeInv /\ PassInv /\ [Next]_vars => PassInv'
<1> SUFFICES ASSUME TypeInv, PassInv, [Next]_vars PROVE PassInv'
  OBVIOUS
<1>0. TypeOK /\ TargetIsNode /\ \A n \in Nodes : saved.node[n] # "running" /\ own.node[n] # "running"
  BY DEF TypeInv, PassInv
<1>p. ASSUME NEW p \in Processes
      PROVE  /\ Passes(pc[p], mode[p], copy[p], queue[p], iter[p], target[p])
             /\ copy[p] \in Runs /\ queue[p] \in SUBSET Nodes /\ iter[p] \in Nat
  BY <1>0 DEF PassInv, TypeOK
<1>1. CASE Create
  <2>1. \A n \in Nodes : saved'.node[n] # "running" /\ own'.node[n] # "running"
    BY <1>0, <1>1, NewRunPasses DEF Create, Save
  <2>2. QED
    BY <1>1, <2>1 DEF Create, requestVars, PassInv
<1>2. CASE Workflow
  <2>1. ASSUME NEW s \in {"completed", "failed"}, stage \in 1..Len(Stages),
               own' = transitionNodeStatus(own, Stages[stage], s)
        PROVE  \A n \in Nodes : own'.node[n] # "running"
    <3>1. /\ own \in Runs /\ Stages[stage] \in Nodes
          /\ own'.node = [own.node EXCEPT ![Stages[stage]] = s]
      <4>1. own \in Runs /\ Stages[stage] \in Nodes /\ s \in NodeStatus
        BY <1>0, <2>1, StageIsNode DEF TypeOK, NodeStatus
      <4>2. transitionNodeStatus(own, Stages[stage], s).node = [own.node EXCEPT ![Stages[stage]] = s]
        BY <4>1, TransitionTyped
      <4>3. QED
        BY <2>1, <4>1, <4>2
    <3>2. \A n \in Nodes : [own.node EXCEPT ![Stages[stage]] = s][n] # "running"
      BY <1>0, <2>1, <3>1, NoneRuns
    <3>3. QED
      BY <3>1, <3>2
  <2>2. \A n \in Nodes : own'.node[n] # "running"
    BY <1>0, <1>2, <2>1 DEF Workflow, StageCompletes, StageFails, WorkflowEnds, AtStage
  <2>3. saved' = saved \/ saved' = own' \/ saved' = own
    BY <1>2 DEF Workflow, StageCompletes, StageFails, WorkflowEnds, Save
  <2>4. QED
    BY <1>0, <1>2, <2>2, <2>3
    DEF Workflow, StageCompletes, StageFails, WorkflowEnds, requestVars, PassInv
<1>3. ASSUME NEW p \in Processes, NEW m, NEW n, NEW at \in {"head", "retry", "skip"},
             Receive(p, m, n, at)
      PROVE  PassInv'
  <2> DEFINE r == IF m = "force" THEN Reset(saved) ELSE saved
  <2>1. r \in Runs /\ \A k \in Nodes : r.node[k] # "running"
    BY <1>0, ResetTyped DEF TypeOK, Reset, Runs
  <2>2. /\ pc'[p] = at /\ mode'[p] = m /\ copy'[p] = r /\ queue'[p] = queue[p]
        /\ iter'[p] = 0 /\ target'[p] = n /\ saved' = saved /\ own' = own
        /\ \A q \in Processes : q # p =>
              /\ pc'[q] = pc[q] /\ mode'[q] = mode[q] /\ copy'[q] = copy[q]
              /\ queue'[q] = queue[q] /\ iter'[q] = iter[q] /\ target'[q] = target[q]
    BY <1>0, <1>3 DEF Receive, TypeOK, workflowVars
  <2> HIDE DEF r
  <2>3. queue[p] = {}
    BY <1>3, <1>p DEF Receive, Passes
  <2>4. QED
    BY <2>1, <2>2, <2>3, FirstPasses, PassMoves
<1>4. ASSUME NEW p \in Processes, BeginPass(p) PROVE PassInv'
  <2>1. /\ pc[p] = "head" /\ pc'[p] = "pass" /\ mode'[p] = mode[p] /\ target'[p] = target[p]
        /\ copy'[p] = SkipBelowFailed(copy[p]) /\ queue'[p] = getReadyNodes(copy[p])
        /\ iter'[p] = iter[p] + 1 /\ saved' = saved /\ own' = own
        /\ \A q \in Processes : q # p =>
              /\ pc'[q] = pc[q] /\ mode'[q] = mode[q] /\ copy'[q] = copy[q]
              /\ queue'[q] = queue[q] /\ iter'[q] = iter[q] /\ target'[q] = target[q]
    BY <1>0, <1>4 DEF BeginPass, TypeOK, workflowVars
  <2>2. mode[p] = "pass" \/ getReadyNodes(copy[p]) # {}
    BY <1>4 DEF BeginPass, MustStop
  <2>3. Passes("pass", mode[p], SkipBelowFailed(copy[p]), getReadyNodes(copy[p]), iter[p] + 1, target[p])
    BY <1>p, <2>1, <2>2, BeginPasses
  <2>4. QED
    BY <2>1, <2>3, PassMoves
<1>5. ASSUME NEW p \in Processes, HoldAtGate(p) PROVE PassInv'
  <2>1. PICK n \in Gates :
           /\ pc[p] = "pass" /\ IsNext(p, n)
           /\ LET r == transitionNodeStatus(copy[p], n, "waiting_for_approval")
              IN  copy' = [copy EXCEPT ![p] = r] /\ Save(r)
           /\ queue' = [queue EXCEPT ![p] = @ \ {n}]
           /\ UNCHANGED <<pc, mode, iter, target, workflowVars>>
    BY <1>5 DEF HoldAtGate
  <2> DEFINE r == transitionNodeStatus(copy[p], n, "waiting_for_approval")
  <2>2. /\ n \in queue[p] /\ r \in Runs
        /\ r.node = [copy[p].node EXCEPT ![n] = "waiting_for_approval"]
    BY <1>p, <2>1, PlanAssumption, TransitionTyped DEF NodeStatus, IsNext
  <2>3. /\ pc'[p] = pc[p] /\ mode'[p] = mode[p] /\ target'[p] = target[p] /\ iter'[p] = iter[p]
        /\ copy'[p] = r /\ queue'[p] = queue[p] \ {n} /\ own' = own
        /\ saved' = saved \/ saved' = r
        /\ \A q \in Processes : q # p =>
              /\ pc'[q] = pc[q] /\ mode'[q] = mode[q] /\ copy'[q] = copy[q]
              /\ queue'[q] = queue[q] /\ iter'[q] = iter[q] /\ target'[q] = target[q]
    BY <1>0, <2>1 DEF TypeOK, Save, workflowVars
  <2> HIDE DEF r
  <2>4. Passes("pass", mode[p], r, queue[p] \ {n}, iter[p], target[p])
    BY <1>p, <2>1, <2>2, HoldPasses
  <2>5. \A k \in Nodes : r.node[k] # "running"
    BY <2>4 DEF Passes
  <2>6. QED
    BY <2>1, <2>3, <2>4, <2>5, PassMoves
<1>6. ASSUME NEW p \in Processes, StartNode(p) PROVE PassInv'
  <2>1. PICK n \in Nodes \ Gates :
           /\ pc[p] = "pass" /\ IsNext(p, n)
           /\ copy' = [copy EXCEPT ![p] =
                          transitionNodeStatus(Counted(copy[p], n), n, "running")]
           /\ pc' = [pc EXCEPT ![p] = "work"]
           /\ target' = [target EXCEPT ![p] = n]
           /\ queue' = [queue EXCEPT ![p] = @ \ {n}]
           /\ UNCHANGED <<present, saved, mode, iter, workflowVars>>
    BY <1>6 DEF StartNode
  <2> DEFINE r == transitionNodeStatus(Counted(copy[p], n), n, "running")
  <2>2. Counted(copy[p], n) \in Runs /\ Counted(copy[p], n).node = copy[p].node
    BY <1>p, CountedTyped
  <2>3. n \in queue[p] /\ r \in Runs /\ r.node = [copy[p].node EXCEPT ![n] = "running"]
    <3>1. n \in queue[p] /\ n \in Nodes /\ "running" \in NodeStatus
      BY <2>1 DEF NodeStatus, IsNext
    <3>2. r \in Runs /\ r.node = [Counted(copy[p], n).node EXCEPT ![n] = "running"]
      BY <2>2, <3>1, TransitionTyped
    <3>3. QED
      BY <2>2, <3>1, <3>2
  <2>4. /\ pc'[p] = "work" /\ mode'[p] = mode[p] /\ target'[p] = n /\ iter'[p] = iter[p]
        /\ copy'[p] = r /\ queue'[p] = queue[p] \ {n} /\ own' = own /\ saved' = saved
        /\ \A q \in Processes : q # p =>
              /\ pc'[q] = pc[q] /\ mode'[q] = mode[q] /\ copy'[q] = copy[q]
              /\ queue'[q] = queue[q] /\ iter'[q] = iter[q] /\ target'[q] = target[q]
    BY <1>0, <2>1 DEF TypeOK, workflowVars
  <2> HIDE DEF r
  <2>5. Passes("work", mode[p], r, queue[p] \ {n}, iter[p], n)
    BY <1>p, <2>1, <2>3, StartPasses
  <2>6. QED
    BY <2>4, <2>5, PassMoves
<1>7. ASSUME NEW p \in Processes, FinishNode(p) PROVE PassInv'
  <2> DEFINE r == transitionNodeStatus(copy[p], target[p], "completed")
  <2>1. /\ pc[p] = "work" /\ target[p] \in Nodes /\ r \in Runs
        /\ r.node = [copy[p].node EXCEPT ![target[p]] = "completed"]
    BY <1>0, <1>7, <1>p, TransitionTyped DEF FinishNode, NodeStatus, TargetIsNode, Busy
  <2>2. /\ pc'[p] = "pass" /\ mode'[p] = mode[p] /\ target'[p] = NoNode /\ iter'[p] = iter[p]
        /\ copy'[p] = r /\ queue'[p] = queue[p] /\ own' = own /\ (saved' = saved \/ saved' = r)
        /\ \A q \in Processes : q # p =>
              /\ pc'[q] = pc[q] /\ mode'[q] = mode[q] /\ copy'[q] = copy[q]
              /\ queue'[q] = queue[q] /\ iter'[q] = iter[q] /\ target'[q] = target[q]
    BY <1>0, <1>7 DEF FinishNode, TypeOK, Save, workflowVars
  <2> HIDE DEF r
  <2>3. Passes("pass", mode[p], r, queue[p], iter[p], NoNode)
    <3>1. Passes("work", mode[p], copy[p], queue[p], iter[p], target[p])
      BY <1>p, <2>1
    <3>2. copy[p] \in Runs /\ queue[p] \in SUBSET Nodes /\ iter[p] \in Nat
      BY <1>p
    <3>3. QED
      BY <2>1, <3>1, <3>2, FinishPasses
  <2>4. \A k \in Nodes : r.node[k] # "running"
    BY <2>3 DEF Passes
  <2>5. QED
    BY <2>2, <2>3, <2>4, PassMoves
<1>8. ASSUME NEW p \in Processes, EndPass(p) PROVE PassInv'
  <2> DEFINE r == Derived(copy[p])
  <2>1. /\ pc[p] = "pass" /\ queue[p] = {} /\ mode'[p] = mode[p] /\ target'[p] = target[p]
        /\ iter'[p] = iter[p] /\ copy'[p] = r /\ queue'[p] = queue[p] /\ own' = own
        /\ pc'[p] \in {"head", "last"}
        /\ mode[p] # "pass" /\ pc'[p] = "last" => r.status \in Settled
        /\ saved' = saved \/ saved' = r
        /\ \A q \in Processes : q # p =>
              /\ pc'[q] = pc[q] /\ mode'[q] = mode[q] /\ copy'[q] = copy[q]
              /\ queue'[q] = queue[q] /\ iter'[q] = iter[q] /\ target'[q] = target[q]
    BY <1>0, <1>8 DEF EndPass, TypeOK, Save, Settled, workflowVars
  <2>2. Passes(pc'[p], mode[p], r, {}, iter[p], target[p])
    BY <1>p, <2>1, EndPasses
  <2> HIDE DEF r
  <2>3. \A k \in Nodes : r.node[k] # "running"
    BY <2>1, <2>2 DEF Passes
  <2>4. QED
    BY <2>1, <2>2, <2>3, PassMoves
<1>9. ASSUME NEW p \in Processes, Finish(p) PROVE PassInv'
  <2>1. Derived(copy[p]).node = copy[p].node /\ \A k \in Nodes : copy[p].node[k] # "running"
    BY <1>9, <1>p, DerivedTyped DEF Finish, Passes
  <2>2. Answer(p) /\ own' = own /\ (saved' = saved \/ saved' = Derived(copy[p]))
    BY <1>9 DEF Finish, Save, workflowVars
  <2>3. QED
    BY <2>1, <2>2, AnswerMoves
<1>10. ASSUME NEW p \in Processes, retryNode(p) \/ skipNode(p) PROVE PassInv'
  <2>1. target[p] \in Nodes /\ \A k \in Nodes : copy[p].node[k] # "running"
    BY <1>0, <1>10, <1>p DEF retryNode, skipNode, TargetIsNode, Busy, Passes
  <2>2. \A k \in Nodes : Retried(copy[p], target[p]).node[k] # "running"
    <3>1. Retried(copy[p], target[p]).node = [copy[p].node EXCEPT ![target[p]] = "pending"]
      BY <1>p, <2>1, RetriedTyped
    <3>2. \A k \in Nodes : [copy[p].node EXCEPT ![target[p]] = "pending"][k] # "running"
      BY <1>p, <2>1, NoneRuns
    <3>3. QED
      BY <3>1, <3>2
  <2>3. \A k \in Nodes : transitionNodeStatus(copy[p], target[p], "skipped").node[k] # "running"
    <3>1. transitionNodeStatus(copy[p], target[p], "skipped").node =
              [copy[p].node EXCEPT ![target[p]] = "skipped"]
      BY <1>p, <2>1, TransitionTyped DEF NodeStatus
    <3>2. \A k \in Nodes : [copy[p].node EXCEPT ![target[p]] = "skipped"][k] # "running"
      BY <1>p, <2>1, NoneRuns
    <3>3. QED
      BY <3>1, <3>2
  <2>4. /\ Answer(p) /\ own' = own
        /\ \/ saved' = saved \/ saved' = Retried(copy[p], target[p])
           \/ saved' = transitionNodeStatus(copy[p], target[p], "skipped")
    BY <1>10 DEF retryNode, skipNode, Save, workflowVars
  <2>5. QED
    BY <2>2, <2>3, <2>4, AnswerMoves
<1>11. ASSUME NEW p \in Processes, Crash(p) PROVE PassInv'
  BY <1>11, AnswerMoves DEF Crash
<1>12. CASE UNCHANGED vars
  BY <1>12 DEF vars, requestVars, workflowVars, PassInv
<1>13. ASSUME NEW p \in Processes,
              ReceiveExecute(p) \/ ReceiveRetry(p) \/ ReceiveSkip(p)
       PROVE  PassInv'
  BY <1>3, <1>13 DEF ReceiveExecute, ReceiveRetry, ReceiveSkip
<1>14. QED
  BY <1>1, <1>2, <1>4, <1>5, <1>6, <1>7, <1>8, <1>9, <1>10, <1>11, <1>12, <1>13 DEF Next, Request
-----------------------------------------------------------------------------
(* The record in order, for any number of processes.                       *)

\* A node that is no parent of a completed one may take any status but failed; one whose parents
\* are done may be completed, and any may be skipped.
LEMMA SetOrdered ==
  ASSUME NEW r \in Runs, Ordered(r), NEW q \in Runs, NEW n \in Nodes, NEW s \in NodeStatus,
         q.node = [r.node EXCEPT ![n] = s], s # "failed",
         s \in {"completed", "skipped"} \/ r.node[n] \notin {"completed", "skipped"},
         s = "completed" => \A m \in Parents(n) : r.node[m] \in {"completed", "skipped"}
  PROVE  Ordered(q)
<1>1. \A k \in Nodes : q.node[k] = IF k = n THEN s ELSE r.node[k]
  BY DEF Runs
<1>2. ASSUME NEW k \in Nodes, q.node[k] = "completed", NEW m \in Parents(k)
      PROVE  q.node[m] \in {"completed", "skipped"}
  <2>1. m \in Nodes
    BY DEF Parents
  <2>2. r.node[m] \in {"completed", "skipped"}
    BY <1>1, <1>2 DEF Ordered, InOrder
  <2>3. QED
    BY <1>1, <2>1, <2>2
<1>3. \A k \in Nodes : q.node[k] # "failed"
  BY <1>1 DEF Ordered
<1>4. QED
  BY <1>2, <1>3 DEF Ordered, InOrder

LEMMA NewRunOrders == Ordered(NewRun) /\ \A t : Orders("idle", NewRun, {}, t)
  BY DEF NewRun, Ordered, InOrder, Orders

\* Where nothing has failed, nothing is skipped for it.
LEMMA NothingToSkip ==
  ASSUME NEW r \in Runs, Ordered(r)
  PROVE  SkipBelowFailed(r).node = r.node
<1>1. ASSUME NEW n \in Nodes PROVE ~ hasFailedAncestor(r, n)
  <2>1. ASSUME NEW e \in Edges PROVE e[1] \in Nodes
    BY PlanAssumption
  <2>2. QED
    BY <2>1 DEF hasFailedAncestor, Ordered
<1>2. SkipBelowFailed(r).node = [n \in Nodes |-> r.node[n]]
  BY <1>1 DEF SkipBelowFailed, Runs
<1>3. QED
  BY <1>2 DEF Runs

\* A step of p that leaves it in order, and saves, if anything, a record in order.
LEMMA OrderMoves ==
  ASSUME OrderInv, NEW p \in Processes,
         \A q \in Processes : q # p =>
            /\ pc'[q] = pc[q] /\ copy'[q] = copy[q]
            /\ queue'[q] = queue[q] /\ target'[q] = target[q],
         Orders(pc'[p], copy'[p], queue'[p], target'[p]),
         saved' = saved \/ \E r : saved' = r /\ Ordered(r)
  PROVE  OrderInv'
<1>1. Ordered(saved')
  BY DEF OrderInv
<1>2. ASSUME NEW q \in Processes PROVE Orders(pc'[q], copy'[q], queue'[q], target'[q])
  <2>1. CASE q = p
    BY <2>1
  <2>2. CASE q # p
    BY <2>2 DEF OrderInv
  <2>3. QED
    BY <2>1, <2>2
<1>3. QED
  BY <1>1, <1>2 DEF OrderInv

LEMMA AnswerOrders ==
  ASSUME TypeInv, OrderInv, NEW p \in Processes, Answer(p),
         saved' = saved \/ \E r : saved' = r /\ Ordered(r)
  PROVE  OrderInv'
<1>1. /\ pc'[p] = "idle" /\ copy'[p] = NewRun /\ queue'[p] = {}
      /\ \A q \in Processes : q # p =>
            /\ pc'[q] = pc[q] /\ copy'[q] = copy[q]
            /\ queue'[q] = queue[q] /\ target'[q] = target[q]
  BY DEF Answer, TypeInv, TypeOK
<1>2. Orders(pc'[p], copy'[p], queue'[p], target'[p])
  BY <1>1, NewRunOrders
<1>3. QED
  BY <1>1, <1>2, OrderMoves

LEMMA OrderStep ==
  ASSUME Stages = <<>>
  PROVE  TypeInv /\ PassInv /\ OrderInv /\ [Next]_vars => OrderInv'
<1> SUFFICES ASSUME TypeInv, PassInv, OrderInv, [Next]_vars PROVE OrderInv'
  OBVIOUS
<1>0. TypeOK /\ TargetIsNode /\ Ordered(saved) /\ saved \in Runs
  BY DEF TypeInv, OrderInv, TypeOK
<1>p. ASSUME NEW p \in Processes
      PROVE  /\ copy[p] \in Runs /\ queue[p] \in SUBSET Nodes
             /\ Orders(pc[p], copy[p], queue[p], target[p])
             /\ Passes(pc[p], mode[p], copy[p], queue[p], iter[p], target[p])
  BY <1>0 DEF PassInv, OrderInv, TypeOK
<1>1. CASE Create
  <2>1. Ordered(saved')
    BY <1>0, <1>1, NewRunOrders DEF Create, Save
  <2>2. QED
    BY <1>1, <2>1 DEF Create, requestVars, OrderInv
<1>2. CASE Workflow
  <2>1. Len(Stages) = 0 /\ stage \notin 1..Len(Stages)
    BY <1>0, WorkflowAssumption DEF TypeOK
  <2>2. QED
    BY <1>0, <1>2, <2>1 DEF Workflow, StageCompletes, StageFails, WorkflowEnds, AtStage
<1>3. ASSUME NEW p \in Processes, NEW m, NEW n, NEW at \in {"head", "retry", "skip"},
             Receive(p, m, n, at)
      PROVE  OrderInv'
  <2> DEFINE r == IF m = "force" THEN Reset(saved) ELSE saved
  <2>1. \A k \in Nodes : Reset(saved).node[k] # "completed" /\ Reset(saved).node[k] # "failed"
    BY <1>0 DEF Reset, Runs, Ordered
  <2>2. Ordered(r)
    BY <1>0, <2>1 DEF Ordered, InOrder
  <2>3. /\ pc[p] = "idle" /\ pc'[p] = at /\ copy'[p] = r /\ queue'[p] = queue[p] /\ target'[p] = n
        /\ saved' = saved
        /\ \A q \in Processes : q # p =>
              /\ pc'[q] = pc[q] /\ copy'[q] = copy[q]
              /\ queue'[q] = queue[q] /\ target'[q] = target[q]
    BY <1>0, <1>3 DEF Receive, TypeOK
  <2> HIDE DEF r
  <2>4. queue[p] = {}
    BY <1>p, <2>3 DEF Passes
  <2>5. Orders(pc'[p], copy'[p], queue'[p], target'[p])
    BY <2>2, <2>3, <2>4 DEF Orders
  <2>6. QED
    BY <2>3, <2>5, OrderMoves
<1>4. ASSUME NEW p \in Processes, BeginPass(p) PROVE OrderInv'
  <2>1. /\ pc'[p] = "pass" /\ copy'[p] = SkipBelowFailed(copy[p])
        /\ queue'[p] = getReadyNodes(copy[p]) /\ saved' = saved
        /\ \A q \in Processes : q # p =>
              /\ pc'[q] = pc[q] /\ copy'[q] = copy[q]
              /\ queue'[q] = queue[q] /\ target'[q] = target[q]
    BY <1>0, <1>4 DEF BeginPass, TypeOK
  <2>2. copy'[p].node = copy[p].node
    BY <1>p, <2>1, NothingToSkip DEF Orders
  <2>3. Ordered(copy'[p])
    BY <1>p, <2>2 DEF Orders, Ordered, InOrder
  <2>4. \A n \in queue'[p] : copy'[p].node[n] = "pending"
    BY <2>1, <2>2 DEF getReadyNodes
  <2>5. Orders(pc'[p], copy'[p], queue'[p], target'[p])
    BY <2>1, <2>3, <2>4 DEF Orders
  <2>6. QED
    BY <2>1, <2>5, OrderMoves
<1>5. ASSUME NEW p \in Processes, HoldAtGate(p) PROVE OrderInv'
  <2>1. PICK n \in Gates :
           /\ pc[p] = "pass" /\ IsNext(p, n)
           /\ LET r == transitionNodeStatus(copy[p], n, "waiting_for_approval")
              IN  copy' = [copy EXCEPT ![p] = r] /\ Save(r)
           /\ queue' = [queue EXCEPT ![p] = @ \ {n}]
           /\ UNCHANGED <<pc, mode, iter, target, workflowVars>>
    BY <1>5 DEF HoldAtGate
  <2> DEFINE r == transitionNodeStatus(copy[p], n, "waiting_for_approval")
  <2>2. /\ n \in queue[p] /\ n \in Nodes /\ "waiting_for_approval" \in NodeStatus /\ r \in Runs
        /\ r.node = [copy[p].node EXCEPT ![n] = "waiting_for_approval"]
    BY <1>p, <2>1, PlanAssumption, TransitionTyped DEF NodeStatus, IsNext
  <2>3. /\ pc'[p] = "pass" /\ copy'[p] = r /\ queue'[p] = queue[p] \ {n}
        /\ saved' = saved \/ saved' = r
        /\ \A q \in Processes : q # p =>
              /\ pc'[q] = pc[q] /\ copy'[q] = copy[q]
              /\ queue'[q] = queue[q] /\ target'[q] = target[q]
    BY <1>0, <2>1 DEF TypeOK, Save
  <2> HIDE DEF r
  <2>4. copy[p].node[n] = "pending"
    BY <1>p, <2>2 DEF Orders
  <2>5. Ordered(r)
    BY <1>p, <2>2, <2>4, SetOrdered DEF Orders
  <2>6. \A k \in queue'[p] : copy'[p].node[k] = "pending"
    BY <1>p, <2>2, <2>3 DEF Orders, Runs
  <2>7. Orders(pc'[p], copy'[p], queue'[p], target'[p])
    BY <2>3, <2>5, <2>6 DEF Orders
  <2>8. QED
    BY <2>3, <2>5, <2>7, OrderMoves
<1>6. ASSUME NEW p \in Processes, StartNode(p) PROVE OrderInv'
  <2>1. PICK n \in Nodes \ Gates :
           /\ pc[p] = "pass" /\ IsNext(p, n)
           /\ copy' = [copy EXCEPT ![p] =
                          transitionNodeStatus(Counted(copy[p], n), n, "running")]
           /\ pc' = [pc EXCEPT ![p] = "work"]
           /\ target' = [target EXCEPT ![p] = n]
           /\ queue' = [queue EXCEPT ![p] = @ \ {n}]
           /\ UNCHANGED <<present, saved, mode, iter, workflowVars>>
    BY <1>6 DEF StartNode
  <2> DEFINE r == transitionNodeStatus(Counted(copy[p], n), n, "running")
  <2>2. Counted(copy[p], n) \in Runs /\ Counted(copy[p], n).node = copy[p].node
    BY <1>p, CountedTyped
  <2>3. /\ n \in queue[p] /\ n \in Nodes /\ "running" \in NodeStatus
    BY <2>1 DEF NodeStatus, IsNext
  <2>4. r \in Runs /\ r.node = [copy[p].node EXCEPT ![n] = "running"]
    <3>1. r \in Runs /\ r.node = [Counted(copy[p], n).node EXCEPT ![n] = "running"]
      BY <2>2, <2>3, TransitionTyped
    <3>2. QED
      BY <2>2, <3>1
  <2>5. /\ pc'[p] = "work" /\ target'[p] = n /\ copy'[p] = r /\ queue'[p] = queue[p] \ {n}
        /\ saved' = saved
        /\ \A q \in Processes : q # p =>
              /\ pc'[q] = pc[q] /\ copy'[q] = copy[q]
              /\ queue'[q] = queue[q] /\ target'[q] = target[q]
    BY <1>0, <2>1 DEF TypeOK
  <2> HIDE DEF r
  <2>6. copy[p].node[n] = "pending" /\ \A m \in Parents(n) : copy[p].node[m] = "completed"
    BY <1>p, <2>3 DEF Orders, Passes, Queued
  <2>7. Ordered(r)
    BY <1>p, <2>3, <2>4, <2>6, SetOrdered DEF Orders
  <2>8. \A k \in queue'[p] : copy'[p].node[k] = "pending"
    BY <1>p, <2>4, <2>5 DEF Orders, Runs
  <2>9. \A m \in Parents(n) : r.node[m] = "completed"
    BY <1>p, <2>4, <2>6 DEF Parents, Runs
  <2>10. Orders(pc'[p], copy'[p], queue'[p], target'[p])
    BY <2>5, <2>7, <2>8, <2>9 DEF Orders
  <2>11. QED
    BY <2>5, <2>10, OrderMoves
<1>7. ASSUME NEW p \in Processes, FinishNode(p) PROVE OrderInv'
  <2> DEFINE r == transitionNodeStatus(copy[p], target[p], "completed")
  <2>1. /\ pc[p] = "work" /\ target[p] \in Nodes /\ r \in Runs /\ "completed" \in NodeStatus
        /\ r.node = [copy[p].node EXCEPT ![target[p]] = "completed"]
    BY <1>0, <1>7, <1>p, TransitionTyped DEF FinishNode, NodeStatus, TargetIsNode, Busy
  <2>2. /\ pc'[p] = "pass" /\ copy'[p] = r /\ queue'[p] = queue[p]
        /\ saved' = saved \/ saved' = r
        /\ \A q \in Processes : q # p =>
              /\ pc'[q] = pc[q] /\ copy'[q] = copy[q]
              /\ queue'[q] = queue[q] /\ target'[q] = target[q]
    BY <1>0, <1>7 DEF FinishNode, TypeOK, Save
  <2> HIDE DEF r
  <2>3. \A m \in Parents(target[p]) : copy[p].node[m] = "completed"
    BY <1>p, <2>1 DEF Orders
  <2>4. Ordered(r)
    BY <1>p, <2>1, <2>3, SetOrdered DEF Orders
  <2>5. target[p] \notin queue[p]
    BY <1>p, <2>1 DEF Orders, Passes
  <2>6. \A k \in queue'[p] : copy'[p].node[k] = "pending"
    BY <1>p, <2>1, <2>2, <2>5 DEF Orders, Runs
  <2>7. Orders(pc'[p], copy'[p], queue'[p], target'[p])
    BY <2>2, <2>4, <2>6 DEF Orders
  <2>8. QED
    BY <2>2, <2>4, <2>7, OrderMoves
<1>8. ASSUME NEW p \in Processes PROVE Ordered(Derived(copy[p])) /\ Derived(copy[p]).node = copy[p].node
  BY <1>p, DerivedTyped DEF Orders, Ordered, InOrder
<1>9. ASSUME NEW p \in Processes, EndPass(p) PROVE OrderInv'
  <2>1. /\ queue[p] = {} /\ copy'[p] = Derived(copy[p]) /\ queue'[p] = queue[p]
        /\ pc'[p] \in {"head", "last"}
        /\ saved' = saved \/ saved' = Derived(copy[p])
        /\ \A q \in Processes : q # p =>
              /\ pc'[q] = pc[q] /\ copy'[q] = copy[q]
              /\ queue'[q] = queue[q] /\ target'[q] = target[q]
    BY <1>0, <1>9 DEF EndPass, TypeOK, Save
  <2>2. Orders(pc'[p], copy'[p], queue'[p], target'[p])
    BY <1>8, <2>1 DEF Orders
  <2>3. QED
    BY <1>8, <2>1, <2>2, OrderMoves
<1>10. ASSUME NEW p \in Processes, Finish(p) PROVE OrderInv'
  BY <1>8, <1>10, AnswerOrders DEF Finish, Save
<1>11. ASSUME NEW p \in Processes, retryNode(p) PROVE OrderInv'
  <2>1. target[p] \in Nodes
    BY <1>0, <1>11 DEF retryNode, TargetIsNode, Busy
  <2>2. ~ MayRetry(copy[p], target[p])
    BY <1>p, <2>1 DEF MayRetry, Orders, Ordered
  <2>3. QED
    BY <1>11, <2>2, AnswerOrders DEF retryNode
<1>12. ASSUME NEW p \in Processes, skipNode(p) PROVE OrderInv'
  <2> DEFINE r == transitionNodeStatus(copy[p], target[p], "skipped")
  <2>1. target[p] \in Nodes /\ "skipped" \in NodeStatus
    BY <1>0, <1>12 DEF skipNode, TargetIsNode, Busy, NodeStatus
  <2>2. r \in Runs /\ r.node = [copy[p].node EXCEPT ![target[p]] = "skipped"]
    BY <1>p, <2>1, TransitionTyped
  <2>3. Answer(p) /\ (saved' = saved \/ saved' = r)
    BY <1>12 DEF skipNode, Save
  <2> HIDE DEF r
  <2>4. Ordered(r)
    BY <1>p, <2>1, <2>2, SetOrdered DEF Orders
  <2>5. QED
    BY <2>3, <2>4, AnswerOrders
<1>13. ASSUME NEW p \in Processes, Crash(p) PROVE OrderInv'
  BY <1>13, AnswerOrders DEF Crash
<1>14. CASE UNCHANGED vars
  BY <1>14 DEF vars, requestVars, OrderInv
<1>15. ASSUME NEW p \in Processes,
              ReceiveExecute(p) \/ ReceiveRetry(p) \/ ReceiveSkip(p)
       PROVE  OrderInv'
  BY <1>3, <1>15 DEF ReceiveExecute, ReceiveRetry, ReceiveSkip
<1>16. QED
  BY <1>1, <1>2, <1>4, <1>5, <1>6, <1>7, <1>9, <1>10, <1>11, <1>12, <1>13, <1>14, <1>15
  DEF Next, Request

\* On record no completed node has a parent that is left to do: for every plan, any number of
\* processes that execute, force, skip and retry on stale copies, writes that fail and deaths at
\* every step, in a run that no workflow owns (dag-runtime.ts:182-189, :394-533).
THEOREM RecordStaysInOrder == ASSUME Stages = <<>> PROVE Spec => []RecordInOrder
<1>1. Init => OrderInv
  BY NewRunOrders DEF Init, OrderInv
<1>2. OrderInv => RecordInOrder
  BY DEF OrderInv, Ordered, RecordInOrder
<1>3. QED
  BY <1>1, <1>2, TypeInit, TypeStep, PassInit, PassStep, OrderStep, PTL DEF Spec
-----------------------------------------------------------------------------
(* Why an execution to completion stops.                                   *)

\* Every set of nodes has one with no parent in it: what the validator asks of a plan.
Acyclic == \A U \in SUBSET Nodes : U # {} => \E n \in U : Parents(n) \cap U = {}

LEMMA UpstreamClosed ==
  ASSUME NEW n \in Nodes
  PROVE  /\ n \in Upstream[n] /\ Upstream[n] \subseteq Nodes
         /\ \A w \in Upstream[n] : Parents(w) \subseteq Upstream[n]
<1>1. Upstream[n] = {m \in Nodes : \A U \in SUBSET Nodes :
                        n \in U /\ (\A e \in Edges : e[2] \in U => e[1] \in U) => m \in U}
  BY DEF Upstream
<1>2. ASSUME NEW w \in Upstream[n], NEW m \in Parents(w) PROVE m \in Upstream[n]
  <2>1. m \in Nodes /\ <<m, w>> \in Edges
    BY <1>2 DEF Parents
  <2>2. ASSUME NEW U \in SUBSET Nodes, n \in U, \A e \in Edges : e[2] \in U => e[1] \in U
        PROVE  m \in U
    <3>1. w \in U
      BY <1>1, <2>2
    <3>2. <<m, w>>[2] \in U => <<m, w>>[1] \in U
      BY <2>1, <2>2
    <3>3. QED
      BY <3>1, <3>2
  <2>3. QED
    BY <1>1, <2>1, <2>2
<1>3. QED
  BY <1>1, <1>2

\* Without a cycle, what is pending with nothing ready waits for what is neither pending nor
\* completed.
LEMMA WhyNothingIsReady ==
  ASSUME Acyclic, NEW r \in Runs, getReadyNodes(r) = {}, NEW n \in Nodes, r.node[n] = "pending"
  PROVE  \E m \in Upstream[n] : r.node[m] \notin {"pending", "completed"}
<1> DEFINE W == {m \in Upstream[n] : r.node[m] = "pending"}
<1>1. W \in SUBSET Nodes /\ n \in W
  BY UpstreamClosed
<1>2. PICK w \in W : Parents(w) \cap W = {}
  BY <1>1 DEF Acyclic
<1>3. w \in Nodes /\ w \in Upstream[n] /\ r.node[w] = "pending"
  BY <1>1
<1>4. PICK m \in Parents(w) : r.node[m] # "completed"
  BY <1>3 DEF getReadyNodes
<1>5. m \in Upstream[n]
  BY <1>3, <1>4, UpstreamClosed
<1>6. QED
  BY <1>2, <1>4, <1>5

\* No record has a node that runs with nobody at work on it, nor a pending one without a reason
\* a reader can see: for every plan without a cycle, any number of processes, with or without a
\* workflow, writes that fail and deaths at every step (dag-runtime.ts:394-471).
THEOREM NothingIsStuck == ASSUME Acyclic PROVE Spec => []NeverStuck
<1>1. TypeInv /\ PassInv => NeverStuck
  <2> SUFFICES ASSUME TypeInv, PassInv, NEW n \in Nodes, saved.node[n] = "pending",
                      \A m \in Upstream[n] : saved.node[m] \in {"pending", "completed"}
               PROVE  \E m \in Upstream[n] : m \in getReadyNodes(saved)
    BY DEF PassInv, NeverStuck
  <2> DEFINE W == {m \in Upstream[n] : saved.node[m] = "pending"}
  <2>1. W \in SUBSET Nodes /\ n \in W
    BY UpstreamClosed
  <2>2. PICK w \in W : Parents(w) \cap W = {}
    BY <2>1 DEF Acyclic
  <2>3. w \in Nodes /\ w \in Upstream[n] /\ saved.node[w] = "pending"
    BY <2>1
  <2>4. \A m \in Parents(w) : saved.node[m] = "completed"
    BY <2>2, <2>3, UpstreamClosed
  <2>5. QED
    BY <2>3, <2>4 DEF getReadyNodes
<1>2. QED
  BY <1>1, TypeInit, TypeStep, PassInit, PassStep, PTL DEF Spec

\* There is a pass for every node, and more: the bound on the passes is never met.
LEMMA BoundNotMet ==
  ASSUME TypeOK, PassInv, NEW p \in Processes, mode[p] # "pass"
  PROVE  ~ (iter[p] >= maxIterations)
<1> DEFINE S == NotPending(copy[p]) \cup queue[p]
<1>1. S \in SUBSET Nodes /\ Nodes \in SUBSET Nodes /\ iter[p] \in Nat
  BY DEF TypeOK, NotPending
<1>2. iter[p] <= Cardinality(S)
  BY DEF PassInv, Passes
<1> HIDE DEF S
<1>3. Cardinality(S) \in Nat /\ Cardinality(Nodes) \in Nat /\ Cardinality(S) <= Cardinality(Nodes)
  BY <1>1, Counting
<1>4. QED
  BY <1>1, <1>2, <1>3 DEF maxIterations

\* An execution to completion stops for a reason a reader of the record can see, and never for
\* want of another pass: for every plan without a cycle, any number of processes, crashes and
\* whatever else works on the run, when writes succeed (dag-runtime.ts:520-561).
THEOREM FinishIsExplained == ASSUME Acyclic, DiskMayFail = FALSE PROVE Spec => FinishExplained
<1>1. TypeInv /\ PassInv /\ [Next]_vars =>
        [\A p \in Processes :
           Finish(p) /\ mode[p] # "pass" =>
             \/ saved'.status \in {"completed", "failed", "waiting_for_approval"}
             \/ \A n \in Nodes : saved'.node[n] = "pending" =>
                   \E m \in Upstream[n] : saved'.node[m] = "skipped"]_vars
  <2> SUFFICES ASSUME TypeInv, PassInv, NEW p \in Processes, Finish(p), mode[p] # "pass",
                      saved'.status \notin Settled, NEW n \in Nodes, saved'.node[n] = "pending"
               PROVE  \E m \in Upstream[n] : saved'.node[m] = "skipped"
    BY DEF Settled
  <2>1. TypeOK /\ copy[p] \in Runs
    BY DEF TypeInv, TypeOK
  <2>2. saved'.node = copy[p].node /\ saved'.status = deriveRunStatusFromNodes(copy[p].node)
    BY <2>1, DerivedTyped DEF Finish, Save, Coherent
  <2>3. pc[p] = "head" /\ MustStop(p)
    BY <2>2 DEF Finish, PassInv, Passes
  <2>4. getReadyNodes(copy[p]) = {}
    BY <2>1, <2>3, BoundNotMet DEF MustStop
  <2>5. \A m \in Nodes : copy[p].node[m] \in {"pending", "completed", "skipped"}
    <3>1. \A m \in Nodes : copy[p].node[m] \in NodeStatus /\ copy[p].node[m] # "running"
      BY <2>1, <2>3 DEF Runs, PassInv, Passes
    <3>2. \A m \in Nodes : copy[p].node[m] \notin {"failed", "waiting_for_approval"}
      BY <2>2 DEF deriveRunStatusFromNodes, Settled
    <3>3. QED
      BY <3>1, <3>2 DEF NodeStatus
  <2>6. PICK m \in Upstream[n] : copy[p].node[m] \notin {"pending", "completed"}
    BY <2>1, <2>2, <2>4, WhyNothingIsReady
  <2>7. QED
    BY <2>2, <2>5, <2>6, UpstreamClosed
<1>2. QED
  BY <1>1, TypeInit, TypeStep, PassInit, PassStep, PTL DEF Spec, FinishExplained
=============================================================================
