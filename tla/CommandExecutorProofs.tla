------------------------ MODULE CommandExecutorProofs ------------------------
(***************************************************************************)
(* What TLAPS proves of CommandExecutor: in one process, for any number of *)
(* submissions and any commands, a key has one handler under way at a time *)
(* and its work is done once, unless the record outlives its TTL or a      *)
(* failed write or read loses it.                                          *)
(***************************************************************************)
EXTENDS CommandExecutor, TLAPS

LEMMA AbsentIsRecord == Absent \in RecordType /\ EmptyMap \in [Keys -> RecordType]
  BY DEF Absent, EmptyMap, RecordType

LEMMA KeyOfIsKey ==
  ASSUME TypeOK, NEW s \in Submissions
  PROVE  KeyOf(s) \in Keys
  BY DEF TypeOK, KeyOf, Keys

LEMMA ChangedIsRecord ==
  ASSUME TypeOK, NEW s \in Submissions
  PROVE  /\ Changed(s) \in RecordType
         /\ op[s] = "start" => Changed(s).by = s
         /\ op[s] # "start" => Changed(s).by = records[KeyOf(s)].by
<1>1. KeyOf(s) \in Keys /\ records[KeyOf(s)] \in RecordType /\ command[s] \in Commands
  BY KeyOfIsKey DEF TypeOK
<1>2. op[s] \in {"start", "success", "failure"}
  BY DEF TypeOK
<1>3. QED
  BY <1>1, <1>2 DEF Changed, RecordType

\* What the ends of a submission change, of its type.
EndTyped ==
  /\ ledger' \subseteq Submissions \X {"executed", "failed", "block", "approval_required"}
  /\ pc' \in [Submissions -> {"new", "load", "open", "put", "running", "answered", "lost"}]
  /\ op' \in [Submissions -> {"start", "success", "failure"}]
  /\ snap' \in [Submissions -> [Keys -> RecordType]]
  /\ answer' \in [Submissions -> {"none", "executed", "idempotent_hit", "blocked",
                                  "approval_required", "failed", "rejected"}]

LEMMA AnswerTyped ==
  ASSUME TypeOK, NEW s \in Submissions, NEW a \in {"failed", "rejected", "executed"},
         Answer(s, a), Forget(s), UNCHANGED ledger
  PROVE  EndTyped
  BY AbsentIsRecord DEF EndTyped, Answer, Forget, TypeOK

LEMMA CatchTyped ==
  ASSUME TypeOK, NEW s \in Submissions, Catch(s)
  PROVE  EndTyped
<1>1. CASE Answer(s, "rejected") /\ Forget(s) /\ UNCHANGED ledger
  BY <1>1, AnswerTyped
<1>2. CASE /\ appendSystemEvent(s, "failed")
           /\ op' = [op EXCEPT ![s] = "failure"]
           /\ snap' = [snap EXCEPT ![s] = EmptyMap]
           /\ Goto(s, "load")
  <2>1. ledger' \subseteq Submissions \X {"executed", "failed", "block", "approval_required"}
    BY <1>2 DEF TypeOK, appendSystemEvent
  <2>2. QED
    BY <1>2, <2>1, AbsentIsRecord DEF EndTyped, Goto, TypeOK
<1>3. QED
  BY <1>1, <1>2 DEF Catch

LEMMA ThrowTyped ==
  ASSUME TypeOK, NEW s \in Submissions, WriteThrows(s)
  PROVE  EndTyped
<1>1. op[s] \in {"start", "success", "failure"}
  BY DEF TypeOK
<1>2. QED
  BY <1>1, CatchTyped, AnswerTyped DEF WriteThrows

LEMMA RecordedTyped ==
  ASSUME NEW m \in [Keys -> RecordType]
  PROVE  Recorded(m) \subseteq Submissions
  BY DEF Recorded, RecordType

\* Every step keeps the types.
LEMMA TypeStep == TypeOK /\ [Next]_vars => TypeOK'
<1> SUFFICES ASSUME TypeOK, [Next]_vars PROVE TypeOK'
  OBVIOUS
<1> USE DEF fixed, appendSystemEvent
<1>1. ASSUME NEW s \in Submissions, Step(s) \/ HandlerReturns(s) \/ HandlerThrows(s) PROVE TypeOK'
  <2>k. KeyOf(s) \in Keys /\ records[KeyOf(s)] \in RecordType
    BY KeyOfIsKey DEF TypeOK
  <2>1. CASE Refuse(s)
    BY <2>1 DEF Refuse, Answer, TypeOK
  <2>2. CASE Deduplicate(s)
    BY <2>2, <2>k DEF Deduplicate, Answer, TypeOK
  <2>3. CASE GateRefuses(s)
    <3>1. Gate(s) \in {"block", "approval_required"}
      BY <2>3 DEF GateRefuses, Gate, evaluateActionRisk
    <3>2. ledger' \subseteq Submissions \X {"executed", "failed", "block", "approval_required"}
      BY <2>3, <3>1 DEF GateRefuses, TypeOK
    <3>3. /\ UNCHANGED <<records, op, snap, ran, fixed>>
          /\ \E a \in {"blocked", "approval_required"} : Answer(s, a)
      BY <2>3 DEF GateRefuses
    <3>4. QED
      BY <3>2, <3>3 DEF Answer, TypeOK
  <2>4. CASE Admit(s)
    BY <2>4 DEF Admit, Goto, TypeOK
  <2>5. CASE Load(s)
    BY <2>5, ChangedIsRecord DEF Load, Goto, TypeOK
  <2>21. CASE RefuseFails(s)
    BY <2>21 DEF RefuseFails, Answer, TypeOK
  <2>22. CASE AdmitBlind(s)
    <3>1. gone' \subseteq Submissions
      BY <2>22, <2>k DEF AdmitBlind, RecordType, TypeOK
    <3>2. QED
      BY <2>22, <3>1 DEF AdmitBlind, Goto, TypeOK
  <2>23. CASE LoadBlind(s)
    <3>1. gone' \subseteq Submissions
      BY <2>23, RecordedTyped DEF LoadBlind, TypeOK
    <3>2. snap' \in [Submissions -> [Keys -> RecordType]]
      BY <2>23, AbsentIsRecord, ChangedIsRecord DEF LoadBlind, TypeOK
    <3>3. QED
      BY <2>23, <3>1, <3>2 DEF LoadBlind, Goto, TypeOK
  <2>24. CASE PutFails(s)
    <3>1. gone' \subseteq Submissions
      BY <2>24, RecordedTyped DEF PutFails, TypeOK
    <3>2. QED
      BY <2>24, <3>1, ThrowTyped, AbsentIsRecord DEF PutFails, EndTyped, TypeOK
  <2>6. CASE LoadMissing(s)
    BY <2>6, CatchTyped, AnswerTyped DEF LoadMissing, EndTyped, TypeOK
  <2>7. CASE Open(s)
    BY <2>7, AbsentIsRecord DEF Open, Goto, TypeOK
  <2>8. CASE OpenFails(s)
    BY <2>8, ThrowTyped DEF OpenFails, EndTyped, TypeOK
  <2>9. CASE Put(s)
    <3>1. op[s] \in {"start", "success", "failure"} /\ snap[s] \in [Keys -> RecordType]
      BY DEF TypeOK
    <3>2. CASE op[s] = "start"
      BY <2>9, <3>1, <3>2, AbsentIsRecord DEF Put, Goto, Forget, TypeOK
    <3>3. CASE op[s] # "start"
      <4>1. EndTyped
        BY <2>9, <3>1, <3>3, AnswerTyped DEF Put
      <4>2. QED
        BY <2>9, <3>1, <4>1 DEF Put, EndTyped, TypeOK
    <3>4. QED
      BY <3>2, <3>3
  <2>10. CASE HandlerReturns(s)
    <3>1. CASE Catch(s)
      BY <2>10, <3>1, CatchTyped DEF HandlerReturns, EndTyped, TypeOK
    <3>2. CASE ~ Catch(s)
      <4>1. appendSystemEvent(s, "executed")
        BY <2>10, <3>2 DEF HandlerReturns
      <4>2. ledger' \subseteq Submissions \X {"executed", "failed", "block", "approval_required"}
        BY <4>1 DEF TypeOK
      <4>3. QED
        BY <2>10, <3>2, <4>2 DEF HandlerReturns, Goto, TypeOK
    <3>3. QED
      BY <3>1, <3>2
  <2>11. CASE HandlerThrows(s)
    BY <2>11, CatchTyped DEF HandlerThrows, EndTyped, TypeOK
  <2>12. QED
    BY <1>1, <2>1, <2>2, <2>3, <2>4, <2>5, <2>6, <2>7, <2>8, <2>9, <2>10, <2>11,
       <2>21, <2>22, <2>23, <2>24 DEF Step
<1>2. ASSUME NEW s \in Submissions, Expire(s) PROVE TypeOK'
  BY <1>2 DEF Expire, TypeOK
<1>3. CASE Purge
  BY <1>3, AbsentIsRecord DEF Purge, TypeOK
<1>7. CASE PurgeFails
  BY <1>7, AbsentIsRecord, RecordedTyped DEF PurgeFails, TypeOK
<1>4. ASSUME NEW s \in Submissions, Crash(Host[s]) PROVE TypeOK'
  <2>1. gone' \subseteq Submissions
    BY <1>4, RecordedTyped DEF Crash, TypeOK
  <2>2. QED
    BY <1>4, <2>1, AbsentIsRecord DEF Crash, TypeOK
<1>5. CASE UNCHANGED vars
  BY <1>5 DEF vars, TypeOK
<1>6. QED
  BY <1>1, <1>2, <1>3, <1>4, <1>5, <1>7 DEF Next

\* Every reachable state has the declared types, with any number of processes.
THEOREM TypeCorrect == Spec => []TypeOK
<1>1. Init => TypeOK
  BY AbsentIsRecord DEF Init, TypeOK
<1>2. QED
  BY <1>1, TypeStep, PTL DEF Spec

-----------------------------------------------------------------------------
(* One holder per key.                                                     *)

\* The part of the invariant that is not about types.
Alone == OneAtTheMap /\ HoldersOnRecord /\ SnapHolds /\ StartsAlone

\* Nobody holds the key of s.
KeyFree(s) == \A t \in Submissions : SameKey(t, s) => ~ Holds(t)

\* Two submissions of one key never hold it together.
LEMMA OneHolder ==
  ASSUME IInv, NEW s \in Submissions, NEW t \in Submissions, SameKey(s, t)
  PROVE  ~ (Holds(s) /\ Holds(t))
<1> SUFFICES ASSUME Holds(s), Holds(t) PROVE FALSE
  OBVIOUS
<1>1. CASE \E u \in Submissions : pc[u] = "put"
  <2>1. PICK u \in Submissions : pc[u] = "put"
    BY <1>1
  <2>2. snap[u][KeyOf(s)].by = s /\ snap[u][KeyOf(t)].by = t
    BY <2>1 DEF IInv, SnapHolds
  <2>3. QED
    BY <2>2 DEF SameKey
<1>2. CASE ~ \E u \in Submissions : pc[u] = "put"
  BY <1>2 DEF IInv, HoldersOnRecord, SameKey
<1>3. QED
  BY <1>1, <1>2

\* In one process, a submission that may run has the map to itself.
LEMMA MapFree ==
  ASSUME OneProcess, NEW s \in Submissions, MayRun(s)
  PROVE  \A t \in Submissions \ {s} : pc[t] \notin Sync
  BY DEF OneProcess, MayRun

LEMMA SyncAlone ==
  ASSUME IInv, NEW s \in Submissions, pc[s] \in Sync
  PROVE  \A t \in Submissions \ {s} : pc[t] \notin Sync
  BY DEF IInv, OneAtTheMap

\* Whoever holds a key while nobody writes is on record.
LEMMA HolderRecorded ==
  ASSUME IInv, \A u \in Submissions : pc[u] # "put", NEW t \in Submissions, Holds(t)
  PROVE  /\ records[KeyOf(t)].by = t
         /\ t \in Recorded(records)
         /\ Live(KeyOf(t))
<1>1. records[KeyOf(t)].by = t
  BY DEF IInv, HoldersOnRecord
<1>2. t # NoOne /\ KeyOf(t) \in Keys
  BY NoOneAssumption, KeyOfIsKey DEF IInv
<1>3. QED
  BY <1>1, <1>2 DEF Recorded, Live, Known, Absent, Holds, Excused

\* A step of s that leaves the map alone and takes s out of it, or to its door when nobody
\* else is at the map; its work may be done by then, and records may be lost.
LEMMA QuietStep ==
  ASSUME IInv, NEW s \in Submissions, UNCHANGED <<records, command, lapsed>>,
         gone \subseteq gone',
         pc[s] # "put", pc'[s] \in {"load", "answered"},
         pc'[s] = "load" => \A t \in Submissions \ {s} : pc[t] \notin Sync,
         pc'[s] = "load" =>
            op'[s] # "start" \/ \A t \in Submissions : SameKey(t, s) => ~ Holds(t)',
         \A t \in Submissions \ {s} : pc'[t] = pc[t] /\ op'[t] = op[t] /\ snap'[t] = snap[t],
         ran' = ran \/ (pc[s] = "running" /\ ran' = ran \cup {s})
  PROVE  Alone'
<1>1. \A t \in Submissions : Holds(t)' => Holds(t)
  BY DEF Holds, InFlight, Excused
<1>2. \A t, u \in Submissions : SameKey(t, u)' = SameKey(t, u)
  BY DEF SameKey, KeyOf
<1>3. OneAtTheMap'
  BY DEF IInv, OneAtTheMap, Sync
<1>4. HoldersOnRecord'
  BY <1>1 DEF IInv, HoldersOnRecord, KeyOf
<1>5. SnapHolds'
  BY <1>1 DEF IInv, SnapHolds, KeyOf
<1>6. StartsAlone'
  <2> SUFFICES ASSUME NEW t \in Submissions, pc'[t] \in Sync, op'[t] = "start",
                      NEW u \in Submissions, SameKey(u, t)
               PROVE  ~ Holds(u)'
    BY <1>2 DEF StartsAlone
  <2>1. CASE t = s
    BY <2>1 DEF Sync
  <2>2. CASE t # s
    BY <2>2, <1>1 DEF IInv, StartsAlone
  <2>3. QED
    BY <2>1, <2>2
<1>7. QED
  BY <1>3, <1>4, <1>5, <1>6 DEF Alone

\* A submission admitted on a miss finds nobody holding its key; after a read that
\* failed whoever held it is excused.
LEMMA AdmitSafe ==
  ASSUME OneProcess, IInv, NEW s \in Submissions, Admit(s) \/ AdmitBlind(s)
  PROVE  Alone'
<1>1. /\ pc[s] = "new" /\ pc'[s] = "load"
      /\ UNCHANGED <<records, command, lapsed, op, snap, ran>>
      /\ gone \subseteq gone'
      /\ \A t \in Submissions \ {s} : pc'[t] = pc[t]
  BY DEF Admit, AdmitBlind, Ready, Goto, fixed, IInv, TypeOK
<1>2. \A t \in Submissions : pc[t] \notin Sync
  BY <1>1, MapFree DEF Admit, AdmitBlind, Ready, Sync
<1>3. ASSUME NEW t \in Submissions, SameKey(t, s), Holds(t)' PROVE FALSE
  <2>1. Holds(t)
    BY <1>1, <1>3 DEF Holds, InFlight, Excused
  <2>2. records[KeyOf(s)].by = t /\ Live(KeyOf(s)) /\ t # NoOne
    BY <1>2, <1>3, <2>1, HolderRecorded, NoOneAssumption DEF SameKey, Sync
  <2>3. CASE Admit(s)
    BY <2>3, <2>2 DEF Admit, checkIdempotency, KeyOf
  <2>4. CASE AdmitBlind(s)
    BY <2>4, <2>2, <1>3 DEF AdmitBlind, Holds, Excused
  <2>5. QED
    BY <2>3, <2>4
<1>4. QED
  BY <1>1, <1>2, <1>3, QuietStep

\* What is about to be written: the map as read, or an empty one, with the record of s.
LEMMA LoadSafe ==
  ASSUME IInv, NEW s \in Submissions, Load(s) \/ LoadBlind(s)
  PROVE  Alone'
<1>1. /\ pc[s] = "load" /\ pc'[s] = "open"
      /\ UNCHANGED <<records, command, lapsed, op, ran>>
      /\ gone \subseteq gone'
      /\ \A t \in Submissions \ {s} : pc'[t] = pc[t] /\ snap'[t] = snap[t]
  BY DEF Load, LoadBlind, Goto, fixed, IInv, TypeOK
<1>2. \A t \in Submissions \ {s} : pc[t] \notin Sync
  BY <1>1, SyncAlone DEF Sync
<1>3. \A t \in Submissions : Holds(t)' => Holds(t)
  BY <1>1 DEF Holds, InFlight, Excused
<1>4. \A t \in Submissions : Holds(t) => records[KeyOf(t)].by = t /\ t \in Recorded(records)
  BY <1>1, <1>2, HolderRecorded DEF Sync
<1>5. OneAtTheMap' /\ HoldersOnRecord'
  BY <1>1, <1>2, <1>3, <1>4 DEF OneAtTheMap, HoldersOnRecord, KeyOf, Sync
<1>6. /\ \A t \in Submissions : Holds(t)' => snap'[s][KeyOf(t)].by = t
      /\ op[s] = "start" => snap'[s][KeyOf(s)].by = s
  <2>1. KeyOf(s) \in Keys /\ \A t \in Submissions : KeyOf(t) \in Keys
    BY KeyOfIsKey DEF IInv
  <2>2. /\ op[s] = "start" => Changed(s).by = s
        /\ op[s] # "start" => Changed(s).by = records[KeyOf(s)].by
    BY ChangedIsRecord DEF IInv
  <2>3. records \in [Keys -> RecordType] /\ snap \in [Submissions -> [Keys -> RecordType]]
    BY DEF IInv, TypeOK
  <2>4. CASE Load(s)
    <3>1. snap'[s] = [records EXCEPT ![KeyOf(s)] = Changed(s)]
      BY <2>4, <2>3 DEF Load
    <3>2. ASSUME NEW t \in Submissions, Holds(t) PROVE snap'[s][KeyOf(t)].by = t
      <4>1. CASE KeyOf(t) # KeyOf(s)
        BY <4>1, <3>1, <2>1, <2>3, <3>2, <1>4
      <4>2. CASE KeyOf(t) = KeyOf(s)
        <5>1. op[s] # "start" \/ t = s
          BY <4>2, <3>2, <1>1 DEF IInv, StartsAlone, SameKey, Sync
        <5>2. Changed(s).by = t
          BY <5>1, <4>2, <2>2, <3>2, <1>4
        <5>3. QED
          BY <5>2, <4>2, <3>1, <2>1, <2>3
      <4>3. QED
        BY <4>1, <4>2
    <3>3. QED
      BY <3>1, <3>2, <2>1, <2>2, <2>3, <1>3
  <2>5. CASE LoadBlind(s)
    <3>1. snap'[s] = [EmptyMap EXCEPT ![KeyOf(s)] = Changed(s)] /\ op[s] = "start"
      BY <2>5, <2>3 DEF LoadBlind
    <3>2. \A t \in Submissions : ~ Holds(t)'
      BY <2>5, <1>3, <1>4 DEF LoadBlind, Holds, Excused
    <3>3. QED
      BY <3>1, <3>2, <2>1, <2>2, AbsentIsRecord
  <2>6. QED
    BY <2>4, <2>5
<1>7. SnapHolds'
  <2>1. \A t \in Submissions : pc'[t] \in {"open", "put"} => t = s
    BY <1>1, <1>2 DEF Sync
  <2>2. \A t \in Submissions : KeyOf(t)' = KeyOf(t)
    BY <1>1 DEF KeyOf
  <2>3. QED
    BY <1>1, <1>6, <2>1, <2>2 DEF SnapHolds
<1>8. StartsAlone'
  BY <1>1, <1>3 DEF IInv, StartsAlone, SameKey, KeyOf, Sync
<1>9. QED
  BY <1>5, <1>7, <1>8 DEF Alone

LEMMA OpenSafe ==
  ASSUME IInv, NEW s \in Submissions, Open(s)
  PROVE  Alone'
<1>1. /\ pc[s] = "open" /\ pc'[s] = "put"
      /\ UNCHANGED <<command, lapsed, op, snap, ran, gone>>
      /\ \A t \in Submissions \ {s} : pc'[t] = pc[t]
  BY DEF Open, Goto, fixed, IInv, TypeOK
<1>2. \A t \in Submissions : Holds(t)' <=> Holds(t)
  BY <1>1 DEF Holds, InFlight, Excused
<1>3. OneAtTheMap' /\ HoldersOnRecord'
  BY <1>1, SyncAlone DEF OneAtTheMap, HoldersOnRecord, Sync
<1>4. SnapHolds'
  BY <1>1, <1>2 DEF IInv, SnapHolds, KeyOf
<1>5. StartsAlone'
  BY <1>1, <1>2 DEF IInv, StartsAlone, SameKey, KeyOf, Sync
<1>6. QED
  BY <1>3, <1>4, <1>5 DEF Alone

\* What is written back still holds the record of every holder.
LEMMA PutSafe ==
  ASSUME IInv, NEW s \in Submissions, Put(s)
  PROVE  Alone'
<1>1. /\ pc[s] = "put" /\ records' = snap[s]
      /\ UNCHANGED <<command, lapsed, ran, gone>>
      /\ pc'[s] = (IF op[s] = "start" THEN "running" ELSE "answered")
      /\ \A t \in Submissions \ {s} : pc'[t] = pc[t] /\ op'[t] = op[t] /\ snap'[t] = snap[t]
  BY DEF Put, Goto, Answer, Forget, fixed, IInv, TypeOK
<1>2. \A t \in Submissions : pc'[t] \notin Sync
  BY <1>1, SyncAlone DEF Sync
<1>3. \A t \in Submissions : Holds(t)' => Holds(t) \/ (t = s /\ op[s] = "start")
  BY <1>1 DEF Holds, InFlight, Excused
<1>4. OneAtTheMap' /\ SnapHolds' /\ StartsAlone'
  BY <1>2 DEF OneAtTheMap, SnapHolds, StartsAlone, Sync
<1>5. HoldersOnRecord'
  BY <1>1, <1>3 DEF IInv, SnapHolds, HoldersOnRecord, KeyOf
<1>6. QED
  BY <1>4, <1>5 DEF Alone

\* A write that throws after the truncation loses every record, and so excuses every holder.
LEMMA PutFailsSafe ==
  ASSUME IInv, NEW s \in Submissions, PutFails(s)
  PROVE  Alone'
<1>1. /\ pc[s] = "put" /\ UNCHANGED <<command, lapsed, ran>>
      /\ gone' = gone \cup Recorded(records) \cup Recorded(snap[s])
      /\ op[s] \in {"start", "success", "failure"}
  BY DEF PutFails, IInv, TypeOK
<1>2. /\ pc'[s] \in {"load", "answered"} /\ (pc'[s] = "load" => op'[s] # "start")
      /\ \A t \in Submissions \ {s} : pc'[t] = pc[t]
  <2>1. \/ Catch(s)
        \/ (\E a : Answer(s, a)) /\ Forget(s)
    BY <1>1 DEF PutFails, WriteThrows
  <2>2. QED
    BY <2>1 DEF Catch, Answer, Forget, Goto, IInv, TypeOK
<1>3. \A t \in Submissions \ {s} : pc'[t] \notin Sync
  BY <1>1, <1>2, SyncAlone DEF Sync
<1>4. ASSUME NEW t \in Submissions, Holds(t)' PROVE FALSE
  <2>1. Holds(t)
    BY <1>1, <1>2, <1>4 DEF Holds, InFlight, Excused
  <2>2. snap[s][KeyOf(t)].by = t /\ KeyOf(t) \in Keys /\ t # NoOne
    BY <1>1, <2>1, KeyOfIsKey, NoOneAssumption DEF IInv, SnapHolds
  <2>3. t \in Recorded(snap[s])
    BY <2>2 DEF Recorded
  <2>4. QED
    BY <1>1, <1>4, <2>3 DEF Holds, Excused
<1>5. QED
  BY <1>2, <1>3, <1>4 DEF Alone, OneAtTheMap, HoldersOnRecord, SnapHolds, StartsAlone, Sync

LEMMA EnvironmentSafe ==
  ASSUME OneProcess, IInv,
         Purge \/ PurgeFails \/ \E s \in Submissions : Expire(s) \/ Crash(Host[s])
  PROVE  Alone'
<1>1. CASE Purge \/ PurgeFails
  <2>1. /\ UNCHANGED <<command, pc, op, snap, lapsed, ran>> /\ gone \subseteq gone'
        /\ \A t \in Submissions : pc[t] \notin Sync
    BY <1>1 DEF Purge, PurgeFails
  <2>2. ASSUME NEW t \in Submissions, Holds(t)' PROVE records'[KeyOf(t)].by = t
    <3>1. Holds(t)
      BY <2>1, <2>2 DEF Holds, InFlight, Excused
    <3>2. records[KeyOf(t)].by = t /\ t \in Recorded(records) /\ Live(KeyOf(t)) /\ KeyOf(t) \in Keys
      BY <2>1, <3>1, HolderRecorded, KeyOfIsKey DEF Sync, IInv
    <3>3. CASE Purge
      BY <3>2, <3>3 DEF Purge
    <3>4. CASE PurgeFails
      BY <3>2, <3>4, <2>2 DEF PurgeFails, Holds, Excused
    <3>5. QED
      BY <1>1, <3>3, <3>4
  <2>3. HoldersOnRecord'
    BY <2>1, <2>2 DEF HoldersOnRecord, KeyOf
  <2>4. QED
    BY <2>1, <2>3 DEF Alone, OneAtTheMap, SnapHolds, StartsAlone, Sync
<1>2. ASSUME NEW s \in Submissions, Expire(s) PROVE Alone'
  <2>1. UNCHANGED <<records, command, pc, op, snap, ran, gone>> /\ lapsed \subseteq lapsed'
    BY <1>2 DEF Expire
  <2>2. \A t \in Submissions : Holds(t)' => Holds(t)
    BY <2>1 DEF Holds, InFlight, Excused
  <2>3. QED
    BY <2>1, <2>2 DEF IInv, Alone, OneAtTheMap, HoldersOnRecord, SnapHolds, StartsAlone,
                      SameKey, KeyOf
<1>3. ASSUME NEW s \in Submissions, Crash(Host[s]) PROVE Alone'
  <2>1. /\ \A t \in Submissions : pc'[t] \in {"new", "answered", "lost"}
        /\ UNCHANGED <<records, command, ran, lapsed>>
        /\ gone' = gone \cup UNION {Recorded(snap[u]) :
                        u \in {t \in Submissions : pc[t] = "put"}}
    BY <1>3 DEF Crash, OneProcess, IInv, TypeOK
  <2>2. ASSUME NEW t \in Submissions, Holds(t)' PROVE records[KeyOf(t)].by = t
    <3>1. Holds(t)
      BY <2>1, <2>2 DEF Holds, InFlight, Excused
    <3>2. ASSUME NEW u \in Submissions, pc[u] = "put" PROVE FALSE
      <4>1. snap[u][KeyOf(t)].by = t /\ KeyOf(t) \in Keys /\ t # NoOne
        BY <3>1, <3>2, KeyOfIsKey, NoOneAssumption DEF IInv, SnapHolds
      <4>2. t \in Recorded(snap[u])
        BY <4>1 DEF Recorded
      <4>3. QED
        BY <2>1, <2>2, <3>2, <4>2 DEF Holds, Excused
    <3>3. QED
      BY <3>1, <3>2 DEF IInv, HoldersOnRecord
  <2>3. HoldersOnRecord'
    BY <2>1, <2>2 DEF HoldersOnRecord, KeyOf
  <2>4. QED
    BY <2>1, <2>3 DEF Alone, OneAtTheMap, SnapHolds, StartsAlone, Sync
<1>4. QED
  BY <1>1, <1>2, <1>3

LEMMA InvariantStep == OneProcess /\ IInv /\ [Next]_vars => IInv'
<1> SUFFICES ASSUME OneProcess, IInv, [Next]_vars PROVE IInv'
  OBVIOUS
<1>1. TypeOK'
  BY TypeStep DEF IInv
<1>2. Alone'
  <2>1. ASSUME NEW s \in Submissions,
               Refuse(s) \/ Deduplicate(s) \/ GateRefuses(s) \/ RefuseFails(s)
        PROVE  Alone'
    <3>1. /\ pc[s] = "new" /\ pc'[s] = "answered" /\ \A t \in Submissions \ {s} : pc'[t] = pc[t]
          /\ UNCHANGED <<records, op, snap, command, lapsed, gone, ran>>
      BY <2>1 DEF Refuse, Deduplicate, GateRefuses, RefuseFails, Ready, Answer, fixed, IInv, TypeOK
    <3>2. QED
      BY <3>1, QuietStep
  <2>2. ASSUME NEW s \in Submissions, pc[s] \in {"load", "open", "running"},
               \A t \in Submissions \ {s} : pc[t] \notin Sync,
               UNCHANGED <<records, command, lapsed, gone>>,
               ran' = ran \/ (pc[s] = "running" /\ ran' = ran \cup {s}),
               \/ Catch(s)
               \/ (\E a : Answer(s, a)) /\ Forget(s)
               \/ op' = [op EXCEPT ![s] = "success"] /\ Goto(s, "load") /\ UNCHANGED snap
        PROVE  Alone'
    <3>1. /\ pc'[s] \in {"load", "answered"} /\ (pc'[s] = "load" => op'[s] # "start")
          /\ \A t \in Submissions \ {s} : pc'[t] = pc[t] /\ op'[t] = op[t] /\ snap'[t] = snap[t]
      BY <2>2 DEF Catch, Answer, Forget, Goto, IInv, TypeOK
    <3>2. QED
      BY <2>2, <3>1, QuietStep
  <2>3. ASSUME NEW s \in Submissions, LoadMissing(s) PROVE Alone'
    <3>1. pc[s] = "load" /\ \A t \in Submissions \ {s} : pc[t] \notin Sync
      BY <2>3, SyncAlone DEF LoadMissing, Sync
    <3>2. QED
      BY <2>2, <2>3, <3>1 DEF LoadMissing, fixed
  <2>4. ASSUME NEW s \in Submissions, OpenFails(s) PROVE Alone'
    <3>1. pc[s] = "open" /\ \A t \in Submissions \ {s} : pc[t] \notin Sync
      BY <2>4, SyncAlone DEF OpenFails, Sync
    <3>2. op[s] \in {"start", "success", "failure"}
      BY DEF IInv, TypeOK
    <3>3. QED
      BY <2>2, <2>4, <3>1, <3>2 DEF OpenFails, WriteThrows, fixed
  <2>5. ASSUME NEW s \in Submissions, HandlerReturns(s) \/ HandlerThrows(s) PROVE Alone'
    <3>1. pc[s] = "running" /\ \A t \in Submissions \ {s} : pc[t] \notin Sync
      BY <2>5, MapFree DEF HandlerReturns, HandlerThrows
    <3>2. QED
      BY <2>2, <2>5, <3>1 DEF HandlerReturns, HandlerThrows, fixed
  <2>6. CASE UNCHANGED vars
    BY <2>6 DEF vars, IInv, Alone, OneAtTheMap, HoldersOnRecord, SnapHolds, StartsAlone,
                Holds, InFlight, Excused, SameKey, KeyOf
  <2>7. QED
    BY <2>1, <2>3, <2>4, <2>5, <2>6, AdmitSafe, LoadSafe, OpenSafe, PutSafe, PutFailsSafe,
       EnvironmentSafe DEF Next, Step
<1>3. QED
  BY <1>1, <1>2 DEF IInv, Alone

LEMMA InvariantInit == Init => IInv
<1>1. Init => TypeOK
  BY AbsentIsRecord DEF Init, TypeOK
<1>2. Init => Alone
  BY DEF Init, Alone, OneAtTheMap, HoldersOnRecord, SnapHolds, StartsAlone,
         Holds, InFlight, Sync
<1>3. QED
  BY <1>1, <1>2 DEF IInv, Alone

\* In one process two handlers for one key are never under way together while both records
\* are within their TTL and none was lost with the map in a failed write or read: for any
\* submissions and commands, with failures, purges, writes that throw and deaths.
THEOREM OneHandlerPerKey == ASSUME OneProcess PROVE Spec => []SingleFlight
<1>1. IInv /\ [Next]_vars => IInv'
  BY InvariantStep
<1>2. IInv => SingleFlight
  BY OneHolder DEF SingleFlight, Holds
<1>3. QED
  BY InvariantInit, <1>1, <1>2, PTL DEF Spec

\* In one process the work of a key is done once, as long as its record is within its TTL
\* and was not lost with the map in a failed write or read: for any submissions and commands.
THEOREM WorkDoneOnce == ASSUME OneProcess PROVE Spec => []AtMostOnce
<1>1. IInv /\ [Next]_vars => IInv'
  BY InvariantStep
<1>2. IInv => AtMostOnce
  BY OneHolder DEF AtMostOnce, Holds
<1>3. QED
  BY InvariantInit, <1>1, <1>2, PTL DEF Spec
=============================================================================
