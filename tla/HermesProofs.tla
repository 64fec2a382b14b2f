---------------------------- MODULE HermesProofs ----------------------------
(***************************************************************************)
(* What TLAPS proves of Hermes, for any number of polls, of failed runs,   *)
(* of missions and of classes of failures; and, in the second half, of the *)
(* missions it triggers (MissionControl), for any retries and any number   *)
(* of rounds of escalation.                                                *)
(***************************************************************************)
EXTENDS Hermes, MissionControl, FiniteSetTheorems, SequenceTheorems, TLAPS

-----------------------------------------------------------------------------
(* Types.                                                                  *)

LEMMA SchedulesAreNoAlerts == Schedule \notin Alerts
  BY DEF Schedule, Alerts

LEMMA IdlePollTyped == IdlePoll \in PollRecord
  BY DEF IdlePoll, PollRecord

LEMMA NextAlertTyped ==
  ASSUME NEW todo \in SUBSET Refs
  PROVE  /\ NextAlert(todo) \in PollRecord
         /\ NextAlert(todo).at \in {"idle", "next"}
         /\ NextAlert(todo).todo = todo
         /\ NextAlert(todo).at = "idle" => todo = {}
  BY DEF NextAlert, IdlePoll, PollRecord

\* What an answer of the table brings: alerts that are new, which are marked.
LEMMA AnswerForm ==
  ASSUME NEW p \in Polls, Answer(p)
  PROVE  \E new \in SUBSET Refs, fetched \in SUBSET Refs :
            /\ poll' = [poll EXCEPT ![p] = NextAlert(new)]
            /\ seenFailures' = seenFailures \cup fetched
            /\ new \subseteq fetched \ seenFailures
<1>1. PICK fetched \in SUBSET FailedRows :
         /\ poll' = [poll EXCEPT ![p] = NextAlert(ToRepair(fetched \ seenFailures))]
         /\ seenFailures' = seenFailures \cup fetched
  BY DEF Answer
<1>2. fetched \in SUBSET Refs /\ ToRepair(fetched \ seenFailures) \subseteq fetched \ seenFailures
  BY DEF FailedRows, ToRepair
<1>3. QED
  BY <1>1, <1>2

LEMMA HookRowTyped == HookRow \in RowRecord
<1>1. IsFiniteSet({k \in 1..MaxRuns : rows[k] # NoRow})
  <2>1. MaxRuns \in Nat /\ IsFiniteSet(1..MaxRuns)
    BY BoundsAssumption, FS_Interval
  <2>2. {k \in 1..MaxRuns : rows[k] # NoRow} \subseteq 1..MaxRuns
    OBVIOUS
  <2>3. QED
    BY <2>1, <2>2, FS_Subset
<1>2. QED
  BY <1>1, FS_CardinalityType DEF HookRow, RowRecord, RowStatuses

\* What a missed attempt leaves of a poll.
LEMMA MissedTyped ==
  ASSUME TypeOK, NEW p \in Polls, poll[p].at \in {"look", "run"}
  PROVE  /\ Missed(p) \in PollRecord
         /\ Missed(p).at \in {"look", "give_up"}
         /\ Missed(p).at = "look" => Missed(p).attempt \in 1..MaxRetries[poll[p].class]
         /\ Missed(p).todo = poll[p].todo /\ Missed(p).alert = poll[p].alert
         /\ Missed(p).class = poll[p].class
<1>1. poll[p] \in PollRecord
  BY DEF TypeOK, PollsTyped
<1>2. poll[p].class \in DOMAIN MaxRetries /\ poll[p].attempt \in 1..MaxRetries[poll[p].class]
  BY DEF TypeOK, PollsTyped, Working
<1>3. MaxRetries[poll[p].class] \in Nat
  BY <1>2, RetriesAssumption
<1>4. CASE poll[p].attempt < MaxRetries[poll[p].class]
  <2>1. poll[p].attempt + 1 \in Nat /\ poll[p].attempt + 1 \in 1..MaxRetries[poll[p].class]
    BY <1>2, <1>3, <1>4
  <2>2. Missed(p) = [poll[p] EXCEPT !.at = "look", !.attempt = poll[p].attempt + 1]
    BY <1>4 DEF Missed
  <2>3. /\ Missed(p) \in PollRecord /\ Missed(p).at = "look"
        /\ Missed(p).attempt = poll[p].attempt + 1 /\ Missed(p).todo = poll[p].todo
        /\ Missed(p).alert = poll[p].alert /\ Missed(p).class = poll[p].class
    BY <1>1, <2>1, <2>2 DEF PollRecord
  <2>4. QED
    BY <2>1, <2>3
<1>5. CASE ~ (poll[p].attempt < MaxRetries[poll[p].class])
  BY <1>1, <1>5 DEF Missed, PollRecord
<1>6. QED
  BY <1>4, <1>5

\* What a triggered mission adds to the runs.
LEMMA TriggerAppends ==
  ASSUME TypeOK, NEW by \in Alerts \cup {Schedule}, Trigger(by)
  PROVE  /\ runs' \in Seq(RunRecord) /\ Len(runs') = Len(runs) + 1
         /\ DOMAIN runs' = DOMAIN runs \cup {Len(runs) + 1}
         /\ Len(runs) + 1 \notin DOMAIN runs
         /\ \A k \in DOMAIN runs : runs'[k] = runs[k]
         /\ runs'[Len(runs) + 1].by = by
         /\ runs'[Len(runs) + 1].at = "mission" /\ runs'[Len(runs) + 1].outcome = "open"
         /\ missionSeq' \in 0..Len(runs')
<1> DEFINE new == [at |-> "mission", ref |-> missionSeq', by |-> by, outcome |-> "open"]
<1>1. missionSeq' \in 1..MaxRuns /\ missionSeq' <= Len(runs) + 1
  BY LenProperties, BoundsAssumption DEF TypeOK, Trigger
<1>2. new \in RunRecord
  BY <1>1 DEF RunRecord
<1>3. runs' = Append(runs, new)
  BY DEF Trigger
<1>4. /\ new.by = by /\ new.at = "mission" /\ new.outcome = "open"
  OBVIOUS
<1> HIDE DEF new
<1>5. /\ runs' \in Seq(RunRecord) /\ Len(runs') = Len(runs) + 1
      /\ \A k \in 1..Len(runs) : runs'[k] = runs[k]
      /\ runs'[Len(runs) + 1] = new
  BY <1>2, <1>3, AppendProperties DEF TypeOK
<1>6. Len(runs) \in Nat /\ DOMAIN runs = 1..Len(runs) /\ DOMAIN runs' = 1..Len(runs')
  BY <1>5, LenProperties DEF TypeOK
<1>7. QED
  BY <1>1, <1>4, <1>5, <1>6

\* What a step of a mission changes of it.
LEMMA RunChanged ==
  ASSUME TypeOK, NEW k \in DOMAIN runs, NEW r \in RunRecord, runs' = [runs EXCEPT ![k] = r]
  PROVE  /\ runs' \in Seq(RunRecord) /\ Len(runs') = Len(runs) /\ DOMAIN runs' = DOMAIN runs
         /\ runs'[k] = r /\ \A j \in DOMAIN runs : j # k => runs'[j] = runs[j]
  BY ExceptSeq DEF TypeOK

\* The end of a repair lengthens no list and changes one entry of one.
LEMMA FinalizeRepairs ==
  ASSUME TypeOK, NEW p \in Polls, NEW result \in Results, poll[p].alert \in Alerts,
         Finalize(p, result)
  PROVE  /\ repairs' \in [Refs -> Seq(Results)]
         /\ \A f \in Refs : Len(repairs'[f]) = Len(repairs[f]) /\ DOMAIN repairs'[f] = DOMAIN repairs[f]
         /\ \A f \in Refs : \A n \in DOMAIN repairs[f] :
               repairs'[f][n] = IF [row |-> f, nth |-> n] = poll[p].alert THEN result ELSE repairs[f][n]
<1> DEFINE row == poll[p].alert.row
           nth == poll[p].alert.nth
           new == [repairs[row] EXCEPT ![nth] = result]
<1>1. /\ row \in Refs /\ repairs[row] \in Seq(Results) /\ Len(repairs[row]) \in Nat
      /\ DOMAIN repairs[row] = 1..Len(repairs[row])
      /\ poll[p].alert = [row |-> row, nth |-> nth]
  BY LenProperties DEF Alerts, TypeOK
<1>2. /\ new \in Seq(Results) /\ Len(new) = Len(repairs[row])
      /\ \A n \in DOMAIN repairs[row] : new[n] = IF n = nth THEN result ELSE repairs[row][n]
  <2>1. CASE nth \in DOMAIN repairs[row]
    BY <1>1, <2>1, ExceptSeq
  <2>2. CASE nth \notin DOMAIN repairs[row]
    <3>1. new = repairs[row]
      BY <1>1, <2>2, LenProperties
    <3>2. QED
      BY <1>1, <2>2, <3>1
  <2>3. QED
    BY <2>1, <2>2
<1>3. DOMAIN new = DOMAIN repairs[row]
  BY <1>1, <1>2, LenProperties
<1>4. repairs' = [repairs EXCEPT ![row] = new]
  BY DEF Finalize
<1> HIDE DEF new
<1>5. /\ repairs'[row] = new
      /\ \A f \in Refs : f # row => repairs'[f] = repairs[f]
      /\ repairs' \in [Refs -> Seq(Results)]
  BY <1>1, <1>2, <1>4 DEF TypeOK
<1>6. ASSUME NEW f \in Refs, NEW n \in DOMAIN repairs[f]
      PROVE  repairs'[f][n] = IF [row |-> f, nth |-> n] = poll[p].alert THEN result ELSE repairs[f][n]
  <2>1. [row |-> f, nth |-> n] = poll[p].alert <=> f = row /\ n = nth
    BY <1>1
  <2> HIDE DEF row, nth
  <2>2. CASE f = row
    BY <1>2, <1>5, <2>1, <2>2
  <2>3. CASE f # row
    BY <1>5, <2>1, <2>3
  <2>4. QED
    BY <2>2, <2>3
<1> HIDE DEF row, nth
<1>7. \A f \in Refs : Len(repairs'[f]) = Len(repairs[f]) /\ DOMAIN repairs'[f] = DOMAIN repairs[f]
  BY <1>2, <1>3, <1>5
<1>8. QED
  BY <1>5, <1>6, <1>7

\* What a poll is at once it has begun a repair.
LEMMA BeginRepairForm ==
  ASSUME TypeOK, NEW p \in Polls, BeginRepair(p)
  PROVE  \E f \in poll[p].todo, s \in PollRecord :
            /\ poll' = [poll EXCEPT ![p] = s]
            /\ s.at \in {"look", "give_up"} /\ s.alert \in Alerts /\ s.class \in DOMAIN MaxRetries
            /\ s.alert = [row |-> f, nth |-> Len(repairs[f]) + 1]
            /\ s.at = "look" => s.attempt \in 1..MaxRetries[s.class]
            /\ s.todo = poll[p].todo \ {f}
            /\ repairs' = [repairs EXCEPT ![f] = Append(@, "pending")]
<1>1. PICK f \in poll[p].todo, class \in DOMAIN MaxRetries :
         /\ poll' = [poll EXCEPT ![p] =
                [at |-> IF MaxRetries[class] = 0 THEN "give_up" ELSE "look",
                 todo |-> @.todo \ {f}, alert |-> [row |-> f, nth |-> Len(repairs[f]) + 1],
                 class |-> class, attempt |-> 1, run |-> 0]]
         /\ repairs' = [repairs EXCEPT ![f] = Append(@, "pending")]
  BY DEF BeginRepair
<1>2. f \in Refs /\ poll[p].todo \subseteq Refs
  BY DEF TypeOK, PollsTyped, PollRecord
<1>3. Len(repairs[f]) \in Nat
  BY <1>2, LenProperties DEF TypeOK
<1> DEFINE s == [at |-> IF MaxRetries[class] = 0 THEN "give_up" ELSE "look",
                 todo |-> poll[p].todo \ {f},
                 alert |-> [row |-> f, nth |-> Len(repairs[f]) + 1],
                 class |-> class, attempt |-> 1, run |-> 0]
<1>4. s \in PollRecord /\ s.alert \in Alerts /\ s.alert = [row |-> f, nth |-> Len(repairs[f]) + 1]
  BY <1>2, <1>3 DEF PollRecord, Alerts
<1>5. s.at = "look" => s.attempt \in 1..MaxRetries[s.class]
  BY RetriesAssumption
<1>6. /\ poll' = [poll EXCEPT ![p] = s] /\ s.at \in {"give_up", "look"}
      /\ s.class \in DOMAIN MaxRetries /\ s.todo = poll[p].todo \ {f}
  BY <1>1
<1> HIDE DEF s
<1>7. QED
  BY <1>1, <1>4, <1>5, <1>6

\* A step of a poll, the missions and the repairs left as they are or added to.
LEMMA PollTyped ==
  ASSUME TypeOK, NEW p \in Polls, NEW s \in PollRecord, poll' = [poll EXCEPT ![p] = s],
         s.at \in {"look", "run", "give_up"} => s.alert \in Alerts /\ s.class \in DOMAIN MaxRetries,
         s.at \in {"look", "run"} => s.attempt \in 1..MaxRetries[s.class],
         s.at = "run" => s.run \in DOMAIN runs',
         DOMAIN runs \subseteq DOMAIN runs'
  PROVE  PollsTyped'
<1>1. poll'[p] = s /\ \A q \in Polls : q # p => poll'[q] = poll[q]
  BY DEF TypeOK, PollsTyped
<1>2. poll' \in [Polls -> PollRecord]
  BY DEF TypeOK, PollsTyped
<1>3. QED
  BY <1>1, <1>2 DEF TypeOK, PollsTyped, Working

LEMMA PollsKept ==
  ASSUME TypeOK, poll' = poll, DOMAIN runs \subseteq DOMAIN runs'
  PROVE  PollsTyped'
  BY DEF TypeOK, PollsTyped, Working

\* Every step keeps the types.
LEMMA TypeStep == TypeOK /\ [Next]_vars => TypeOK'
<1> SUFFICES ASSUME TypeOK, [Next]_vars PROVE TypeOK'
  OBVIOUS
<1>1. CASE TriggerFromSchedule
  <2>1. /\ runs' \in Seq(RunRecord) /\ missionSeq' \in 0..Len(runs')
        /\ DOMAIN runs \subseteq DOMAIN runs'
    BY <1>1, TriggerAppends DEF TriggerFromSchedule
  <2>2. QED
    BY <1>1, <2>1, PollsKept DEF TriggerFromSchedule, TypeOK
<1>2. CASE StopHermes
  <2>1. clears' \in 0..MaxClears
    BY <1>2, BoundsAssumption DEF StopHermes, TypeOK
  <2>2. QED
    BY <1>2, <2>1, PollsKept DEF StopHermes, TypeOK
<1>3. CASE StartHermes
  BY <1>3, PollsKept DEF StartHermes, TypeOK
<1>4. CASE Die
  <2>1. Len(runs) \in Nat /\ DOMAIN runs = 1..Len(runs)
    BY LenProperties DEF TypeOK
  <2>2. ASSUME NEW k \in DOMAIN runs
        PROVE  [runs[k] EXCEPT !.at = "gone"] \in RunRecord
    <3>1. runs[k] \in RunRecord
      BY ElementOfSeq, <2>1 DEF TypeOK
    <3>2. QED
      BY <3>1 DEF RunRecord
  <2>3. runs' \in [1..Len(runs) -> RunRecord]
    BY <1>4, <2>1, <2>2 DEF Die
  <2>4. runs' \in Seq(RunRecord)
    BY <2>1, <2>3, SeqDef
  <2>5. Len(runs') \in Nat
    BY <2>4, LenProperties
  <2>6. PollsTyped'
    BY <1>4, IdlePollTyped DEF Die, IdlePoll, PollsTyped, Working
  <2>7. clears' \in 0..MaxClears
    BY <1>4, BoundsAssumption DEF Die, TypeOK
  <2>8. QED
    BY <1>4, <2>4, <2>5, <2>6, <2>7 DEF Die, TypeOK
<1>5. ASSUME NEW k \in DOMAIN runs, RunStep(k) PROVE TypeOK'
  <2>1. runs[k] \in RunRecord
    BY ElementOfSeq, LenProperties DEF TypeOK
  <2>2. runs[k].ref \in Refs
    BY <2>1 DEF RunRecord, Refs
  <2>3. CASE MissionEnds(k)
    <3>1. PICK outcome \in {"completed", "failed"} :
             runs' = [runs EXCEPT ![k].at = "update", ![k].outcome = outcome]
      BY <2>3 DEF MissionEnds
    <3> DEFINE r == [runs[k] EXCEPT !.at = "update", !.outcome = outcome]
    <3>2. r \in RunRecord /\ runs' = [runs EXCEPT ![k] = r]
      BY <2>1, <3>1 DEF RunRecord
    <3> HIDE DEF r
    <3>3. runs' \in Seq(RunRecord) /\ Len(runs') = Len(runs) /\ DOMAIN runs' = DOMAIN runs
      BY <3>2, RunChanged
    <3>4. rows' \in [Refs -> RowRecord]
      <4>1. rows \in [Refs -> RowRecord] /\ HookRow \in RowRecord
        BY HookRowTyped DEF TypeOK
      <4>2. rows' = rows \/ rows' = [rows EXCEPT ![runs[k].ref] = HookRow]
        BY <2>3 DEF MissionEnds
      <4>3. QED
        BY <4>1, <4>2
    <3>5. QED
      BY <2>3, <3>3, <3>4, PollsKept DEF MissionEnds, TypeOK
  <2>4. CASE UpdateMissionRunStatus(k)
    <3> DEFINE r == [runs[k] EXCEPT !.at = "back"]
    <3>1. r \in RunRecord /\ runs' = [runs EXCEPT ![k] = r]
      BY <2>1, <2>4 DEF UpdateMissionRunStatus, RunRecord
    <3> HIDE DEF r
    <3>2. runs' \in Seq(RunRecord) /\ Len(runs') = Len(runs) /\ DOMAIN runs' = DOMAIN runs
      BY <3>1, RunChanged
    <3>3. rows' \in [Refs -> RowRecord]
      <4>1. rows \in [Refs -> RowRecord]
        BY DEF TypeOK
      <4>2. CASE rows[runs[k].ref] # NoRow /\ rows' = [rows EXCEPT ![runs[k].ref].status = runs[k].outcome]
        <5>1. runs[k].outcome \in {"completed", "failed"}
          BY <2>1, <2>4 DEF UpdateMissionRunStatus, RunRecord
        <5>2. QED
          BY <2>2, <4>1, <4>2, <5>1 DEF RowRecord, RowStatuses
      <4>3. QED
        BY <2>4, <4>1, <4>2 DEF UpdateMissionRunStatus
    <3>4. QED
      BY <2>4, <3>2, <3>3, PollsKept DEF UpdateMissionRunStatus, TypeOK
  <2>5. QED
    BY <1>5, <2>3, <2>4 DEF RunStep
<1>6. ASSUME NEW p \in Polls, Ask(p) PROVE TypeOK'
  <2> DEFINE s == [poll[p] EXCEPT !.at = "asked"]
  <2>1. s \in PollRecord /\ s.at = "asked" /\ poll' = [poll EXCEPT ![p] = s]
    BY <1>6 DEF Ask, TypeOK, PollsTyped, PollRecord
  <2> HIDE DEF s
  <2>2. QED
    BY <1>6, <2>1, PollTyped DEF Ask, TypeOK
<1>7. ASSUME NEW p \in Polls, Answer(p) PROVE TypeOK'
  <2>1. PICK new \in SUBSET Refs, fetched \in SUBSET Refs :
           /\ poll' = [poll EXCEPT ![p] = NextAlert(new)]
           /\ seenFailures' = seenFailures \cup fetched
    BY <1>7, AnswerForm
  <2>2. seenFailures' \subseteq Refs
    BY <2>1 DEF TypeOK
  <2>3. QED
    BY <1>7, <2>1, <2>2, PollTyped, NextAlertTyped DEF Answer, TypeOK
<1>8. ASSUME NEW p \in Polls, NoAnswer(p) PROVE TypeOK'
  <2>1. IdlePoll.at = "idle"
    BY DEF IdlePoll
  <2>2. QED
    BY <1>8, <2>1, IdlePollTyped, PollTyped DEF NoAnswer, TypeOK
<1>9. ASSUME NEW p \in Polls, BeginRepair(p) PROVE TypeOK'
  <2>1. PICK f \in poll[p].todo, s \in PollRecord :
           /\ poll' = [poll EXCEPT ![p] = s]
           /\ s.at \in {"look", "give_up"} /\ s.alert \in Alerts /\ s.class \in DOMAIN MaxRetries
           /\ s.at = "look" => s.attempt \in 1..MaxRetries[s.class]
           /\ repairs' = [repairs EXCEPT ![f] = Append(@, "pending")]
    BY <1>9, BeginRepairForm
  <2>2. f \in Refs
    BY DEF TypeOK, PollsTyped, PollRecord
  <2>3. Append(repairs[f], "pending") \in Seq(Results)
    BY <2>2, AppendProperties DEF TypeOK, Results
  <2>4. repairs' \in [Refs -> Seq(Results)]
    BY <2>1, <2>2, <2>3 DEF TypeOK
  <2>5. QED
    BY <1>9, <2>1, <2>4, PollTyped DEF BeginRepair, TypeOK
<1>10. ASSUME NEW p \in Polls, RetryMission(p) PROVE TypeOK'
  <2>1. poll[p].alert \in Alerts /\ poll[p].class \in DOMAIN MaxRetries
    BY <1>10 DEF RetryMission, TypeOK, PollsTyped, Working
  <2>2. /\ runs' \in Seq(RunRecord) /\ missionSeq' \in 0..Len(runs')
        /\ DOMAIN runs' = DOMAIN runs \cup {Len(runs) + 1}
    BY <1>10, <2>1, TriggerAppends DEF RetryMission
  <2> DEFINE s == [poll[p] EXCEPT !.at = "run", !.run = Len(runs) + 1]
  <2>3. poll' = [poll EXCEPT ![p] = s]
    BY <1>10 DEF RetryMission, TypeOK, PollsTyped
  <2>4. Len(runs) + 1 \in Nat
    BY LenProperties DEF TypeOK
  <2>5. /\ s \in PollRecord /\ s.at = "run" /\ s.run \in DOMAIN runs' /\ s.alert = poll[p].alert
        /\ s.class = poll[p].class /\ s.attempt = poll[p].attempt
    BY <2>2, <2>4 DEF TypeOK, PollsTyped, PollRecord
  <2>6. poll[p].attempt \in 1..MaxRetries[poll[p].class]
    BY <1>10 DEF RetryMission, TypeOK, PollsTyped
  <2> HIDE DEF s
  <2>7. QED
    BY <1>10, <2>1, <2>2, <2>3, <2>5, <2>6, PollTyped DEF RetryMission, TypeOK
<1>11. ASSUME NEW p \in Polls, poll[p].at \in {"look", "run"}, poll' = [poll EXCEPT ![p] = Missed(p)],
              UNCHANGED <<runs, missionSeq, rows, watching, seenFailures, repairs, clears>>
       PROVE  TypeOK'
  <2>1. poll[p].alert \in Alerts /\ poll[p].class \in DOMAIN MaxRetries
    BY <1>11 DEF TypeOK, PollsTyped, Working
  <2>2. QED
    BY <1>11, <2>1, MissedTyped, PollTyped DEF TypeOK
<1>12. ASSUME NEW p \in Polls, NEW result \in Results, Working(p), Finalize(p, result),
              UNCHANGED <<runs, missionSeq, rows, watching, seenFailures, clears>>
       PROVE  TypeOK'
  <2>1. poll[p].alert \in Alerts /\ poll[p].todo \in SUBSET Refs
    BY <1>12 DEF TypeOK, PollsTyped, PollRecord
  <2>2. repairs' \in [Refs -> Seq(Results)]
    BY <1>12, <2>1, FinalizeRepairs
  <2>3. QED
    BY <1>12, <2>1, <2>2, NextAlertTyped, PollTyped DEF Finalize, TypeOK
<1>13. ASSUME NEW p \in Polls, RepairStep(p) PROVE TypeOK'
  <2>1. CASE NoMission(p)
    BY <2>1, <1>11 DEF NoMission
  <2>2. CASE Retried(p)
    BY <2>2, <1>11, <1>12 DEF Retried, Working, Results
  <2>3. CASE GiveUp(p)
    BY <2>3, <1>12 DEF GiveUp, Working, Results
  <2>4. QED
    BY <1>9, <1>10, <1>13, <2>1, <2>2, <2>3 DEF RepairStep
<1>14. CASE UNCHANGED vars
  BY <1>14, PollsKept DEF vars, TypeOK
<1>15. QED
  BY <1>1, <1>2, <1>3, <1>4, <1>5, <1>6, <1>7, <1>8, <1>13, <1>14 DEF Next

LEMMA TypeFirst == Init => TypeOK
<1> SUFFICES ASSUME Init PROVE TypeOK
  OBVIOUS
<1>1. <<>> \in Seq(RunRecord) /\ <<>> \in Seq(Results) /\ Len(<<>>) = 0
  BY EmptySeq
<1>2. PollsTyped
  BY IdlePollTyped DEF Init, IdlePoll, PollsTyped, Working
<1>3. rows \in [Refs -> RowRecord]
  BY DEF Init, NoRow, RowRecord, RowStatuses
<1>4. QED
  BY <1>1, <1>2, <1>3, BoundsAssumption DEF Init, TypeOK

\* Runs, rows, polls and repairs have their types, for any number of polls.
THEOREM TypeCorrect == Spec => []TypeOK
  BY TypeFirst, TypeStep, PTL DEF Spec
-----------------------------------------------------------------------------
(* One repair per failure.                                                 *)

\* What a step of one poll does to the polls that have f before them.
LEMMA HoldersChange ==
  ASSUME TypeOK, NEW p \in Polls, NEW s \in PollRecord, poll' = [poll EXCEPT ![p] = s],
         NEW f \in Refs
  PROVE  /\ Cardinality(Holders(f)) \in Nat /\ Cardinality(Holders(f)') \in Nat
         /\ f \in s.todo /\ f \in poll[p].todo => Cardinality(Holders(f)') = Cardinality(Holders(f))
         /\ f \notin s.todo /\ f \notin poll[p].todo => Cardinality(Holders(f)') = Cardinality(Holders(f))
         /\ f \in s.todo /\ f \notin poll[p].todo => Cardinality(Holders(f)') = Cardinality(Holders(f)) + 1
         /\ f \notin s.todo /\ f \in poll[p].todo => Cardinality(Holders(f)') = Cardinality(Holders(f)) - 1
<1>1. IsFiniteSet(Holders(f)) /\ IsFiniteSet(Holders(f)')
  <2>1. Holders(f) \subseteq Polls /\ Holders(f)' \subseteq Polls
    BY DEF Holders
  <2>2. QED
    BY <2>1, PollsAssumption, FS_Subset
<1>2. p \in Holders(f) <=> f \in poll[p].todo
  BY DEF Holders
<1>3. Holders(f)' = IF f \in s.todo THEN Holders(f) \cup {p} ELSE Holders(f) \ {p}
  BY DEF Holders, TypeOK, PollsTyped
<1>4. QED
  BY <1>1, <1>2, <1>3, FS_CardinalityType, FS_AddElement, FS_RemoveElement

\* A step of a poll to what is before it already, nothing taken up and nothing begun.
LEMMA TakenUpKept ==
  ASSUME TypeOK, TakenUpOnce, NEW p \in Polls, NEW s \in PollRecord,
         poll' = [poll EXCEPT ![p] = s], s.todo = poll[p].todo,
         s.at \in {"idle", "asked"} => s.todo = {},
         seenFailures' = seenFailures, clears' = clears,
         \A f \in Refs : Len(repairs'[f]) = Len(repairs[f])
  PROVE  TakenUpOnce'
<1>1. poll'[p] = s /\ \A q \in Polls : q # p => poll'[q] = poll[q]
  BY DEF TypeOK, PollsTyped
<1>2. \A f \in Refs : Cardinality(Holders(f)') = Cardinality(Holders(f))
  BY HoldersChange
<1>3. QED
  BY <1>1, <1>2 DEF TakenUpOnce

LEMMA TakenUpStep == TypeOK /\ TakenUpOnce /\ [Next]_vars => TakenUpOnce'
<1> SUFFICES ASSUME TypeOK, TakenUpOnce, [Next]_vars PROVE TakenUpOnce'
  OBVIOUS
<1>0. \A f \in Refs : /\ Len(repairs[f]) \in Nat /\ Cardinality(Holders(f)) \in Nat
                      /\ IsFiniteSet(Holders(f))
  <2>1. \A f \in Refs : Holders(f) \subseteq Polls
    BY DEF Holders
  <2>2. QED
    BY <2>1, PollsAssumption, FS_Subset, FS_CardinalityType, LenProperties DEF TypeOK
<1>c. clears \in Nat
  BY BoundsAssumption DEF TypeOK
<1>1. ASSUME UNCHANGED <<seenFailures, poll, repairs, clears>> PROVE TakenUpOnce'
  BY <1>1 DEF TakenUpOnce, Holders
<1>2. CASE StopHermes
  <2>1. \A f \in Refs : Len(repairs[f]) + Cardinality(Holders(f)) <= clears + 1
    BY <1>0, <1>c DEF TakenUpOnce
  <2>2. poll' = poll /\ repairs' = repairs /\ seenFailures' = {} /\ clears' = clears + 1
    BY <1>2 DEF StopHermes
  <2>3. QED
    BY <1>0, <1>c, <2>1, <2>2 DEF TakenUpOnce, Holders
<1>3. CASE Die
  <2>1. \A f \in Refs : Len(repairs[f]) <= clears + 1
    BY <1>0, <1>c DEF TakenUpOnce
  <2>2. poll' = [p \in Polls |-> IdlePoll] /\ repairs' = repairs /\ seenFailures' = {}
        /\ clears' = clears + 1
    BY <1>3 DEF Die
  <2>3. \A p \in Polls : poll'[p].todo = {}
    BY <2>2 DEF IdlePoll
  <2>4. \A f \in Refs : Cardinality(Holders(f)') = 0
    <3>1. \A f \in Refs : Holders(f)' = {}
      BY <2>3 DEF Holders
    <3>2. QED
      BY <3>1, FS_EmptySet
  <2>5. \A f \in Refs : Len(repairs'[f]) + Cardinality(Holders(f)') <=
                            clears' + (IF f \in seenFailures' THEN 1 ELSE 0)
    BY <1>0, <1>c, <2>1, <2>2, <2>4
  <2>6. QED
    BY <2>3, <2>5 DEF TakenUpOnce
<1>4. ASSUME NEW p \in Polls, Ask(p) PROVE TakenUpOnce'
  <2> DEFINE s == [poll[p] EXCEPT !.at = "asked"]
  <2>1. /\ s \in PollRecord /\ s.at = "asked" /\ s.todo = poll[p].todo
        /\ poll' = [poll EXCEPT ![p] = s] /\ poll[p].at = "idle"
    BY <1>4 DEF Ask, TypeOK, PollsTyped, PollRecord
  <2>2. poll[p].todo = {}
    BY <2>1 DEF TakenUpOnce
  <2> HIDE DEF s
  <2>3. QED
    BY <1>4, <2>1, <2>2, TakenUpKept DEF Ask
<1>5. ASSUME NEW p \in Polls, NoAnswer(p) PROVE TakenUpOnce'
  <2>1. poll[p].todo = {} /\ IdlePoll.todo = {}
    BY <1>5 DEF NoAnswer, TakenUpOnce, IdlePoll
  <2>2. QED
    BY <1>5, <2>1, IdlePollTyped, TakenUpKept DEF NoAnswer
<1>6. ASSUME NEW p \in Polls, Answer(p) PROVE TakenUpOnce'
  <2>0. PICK new \in SUBSET Refs, fetched \in SUBSET Refs :
           /\ poll' = [poll EXCEPT ![p] = NextAlert(new)]
           /\ seenFailures' = seenFailures \cup fetched
           /\ new \subseteq fetched \ seenFailures
    BY <1>6, AnswerForm
  <2> DEFINE s == NextAlert(new)
  <2>2. /\ s \in PollRecord /\ s.at \in {"idle", "next"} /\ s.todo = new
        /\ s.at = "idle" => s.todo = {}
    BY NextAlertTyped
  <2>3. poll' = [poll EXCEPT ![p] = s] /\ poll[p].todo = {}
    BY <1>6, <2>0 DEF Answer, TakenUpOnce
  <2> HIDE DEF s
  <2>4. repairs' = repairs /\ clears' = clears
    BY <1>6 DEF Answer
  <2>5. poll'[p] = s /\ \A q \in Polls : q # p => poll'[q] = poll[q]
    BY <2>3 DEF TypeOK, PollsTyped
  <2>6. ASSUME NEW f \in Refs
        PROVE  Len(repairs'[f]) + Cardinality(Holders(f)') <=
                  clears' + (IF f \in seenFailures' THEN 1 ELSE 0)
    <3>1. CASE f \in s.todo
      <4>1. Cardinality(Holders(f)') = Cardinality(Holders(f)) + 1
        BY <2>2, <2>3, <3>1, HoldersChange
      <4>2. f \notin seenFailures /\ f \in seenFailures'
        BY <2>0, <2>2, <3>1
      <4>3. QED
        BY <1>0, <1>c, <2>4, <4>1, <4>2 DEF TakenUpOnce
    <3>2. CASE f \notin s.todo
      <4>1. Cardinality(Holders(f)') = Cardinality(Holders(f))
        BY <2>2, <2>3, <3>2, HoldersChange
      <4>2. f \in seenFailures => f \in seenFailures'
        BY <2>0
      <4>3. QED
        BY <1>0, <1>c, <2>4, <4>1, <4>2 DEF TakenUpOnce
    <3>3. QED
      BY <3>1, <3>2
  <2>7. QED
    BY <2>2, <2>5, <2>6 DEF TakenUpOnce
<1>7. ASSUME NEW p \in Polls, BeginRepair(p) PROVE TakenUpOnce'
  <2>1. PICK f \in poll[p].todo, s \in PollRecord :
           /\ poll' = [poll EXCEPT ![p] = s]
           /\ s.todo = poll[p].todo \ {f} /\ s.at \in {"look", "give_up"}
           /\ repairs' = [repairs EXCEPT ![f] = Append(@, "pending")]
    BY <1>7, BeginRepairForm
  <2>2. f \in Refs
    BY DEF TypeOK, PollsTyped, PollRecord
  <2>3. /\ Len(repairs'[f]) = Len(repairs[f]) + 1
        /\ \A g \in Refs : g # f => repairs'[g] = repairs[g]
    BY <2>1, <2>2, AppendProperties DEF TypeOK, Results
  <2>4. Cardinality(Holders(f)') = Cardinality(Holders(f)) - 1
    BY <2>1, <2>2, HoldersChange
  <2>5. \A g \in Refs : g # f => Cardinality(Holders(g)') = Cardinality(Holders(g))
    BY <2>1, HoldersChange
  <2>6. seenFailures' = seenFailures /\ clears' = clears
    BY <1>7 DEF BeginRepair
  <2>7. poll'[p].at \in {"look", "give_up"} /\ \A q \in Polls : q # p => poll'[q] = poll[q]
    BY <2>1 DEF TypeOK, PollsTyped
  <2>8. ASSUME NEW g \in Refs
        PROVE  Len(repairs'[g]) + Cardinality(Holders(g)') <=
                  clears' + (IF g \in seenFailures' THEN 1 ELSE 0)
    <3>1. Len(repairs'[g]) + Cardinality(Holders(g)') = Len(repairs[g]) + Cardinality(Holders(g))
      <4>1. CASE g = f
        BY <1>0, <2>2, <2>3, <2>4, <4>1
      <4>2. CASE g # f
        BY <2>3, <2>5, <4>2
      <4>3. QED
        BY <4>1, <4>2
    <3>2. QED
      BY <2>6, <3>1 DEF TakenUpOnce
  <2>9. QED
    BY <2>7, <2>8 DEF TakenUpOnce
<1>8. ASSUME NEW p \in Polls, RetryMission(p) PROVE TakenUpOnce'
  <2> DEFINE s == [poll[p] EXCEPT !.at = "run", !.run = Len(runs) + 1]
  <2>0. poll[p] \in PollRecord /\ Len(runs) + 1 \in Nat
    BY LenProperties DEF TypeOK, PollsTyped
  <2>1. /\ s \in PollRecord /\ s.at = "run" /\ s.todo = poll[p].todo
        /\ poll' = [poll EXCEPT ![p] = s]
    BY <1>8, <2>0 DEF RetryMission, PollRecord
  <2> HIDE DEF s
  <2>2. QED
    BY <1>8, <2>1, TakenUpKept DEF RetryMission
<1>9. ASSUME NEW p \in Polls, poll[p].at \in {"look", "run"}, poll' = [poll EXCEPT ![p] = Missed(p)],
             UNCHANGED <<seenFailures, repairs, clears>>
      PROVE  TakenUpOnce'
  BY <1>9, MissedTyped, TakenUpKept
<1>10. ASSUME NEW p \in Polls, NEW result \in Results, Working(p), Finalize(p, result),
              UNCHANGED <<seenFailures, clears>>
       PROVE  TakenUpOnce'
  <2>1. poll[p].alert \in Alerts /\ poll[p].todo \in SUBSET Refs
    BY <1>10 DEF TypeOK, PollsTyped, PollRecord
  <2>2. poll' = [poll EXCEPT ![p] = NextAlert(poll[p].todo)]
    BY <1>10 DEF Finalize
  <2>3. \A f \in Refs : Len(repairs'[f]) = Len(repairs[f])
    BY <1>10, <2>1, FinalizeRepairs
  <2>4. QED
    BY <1>10, <2>1, <2>2, <2>3, NextAlertTyped, TakenUpKept
<1>11. ASSUME NEW p \in Polls, RepairStep(p) PROVE TakenUpOnce'
  <2>1. CASE NoMission(p)
    BY <2>1, <1>9 DEF NoMission
  <2>2. CASE Retried(p)
    BY <2>2, <1>9, <1>10 DEF Retried, Working, Results
  <2>3. CASE GiveUp(p)
    BY <2>3, <1>10 DEF GiveUp, Working, Results
  <2>4. QED
    BY <1>7, <1>8, <1>11, <2>1, <2>2, <2>3 DEF RepairStep
<1>12. QED
  BY <1>1, <1>2, <1>3, <1>4, <1>5, <1>6, <1>11
     DEF Next, TriggerFromSchedule, StartHermes, RunStep, MissionEnds, UpdateMissionRunStatus, vars

\* However many polls overlap, a failure is repaired once, and once more for every
\* stop or death that makes the watcher forget.
THEOREM RepairedOnceOnly == Spec => []RepairedOnce
<1>1. Init => TakenUpOnce
  <2> SUFFICES ASSUME Init PROVE TakenUpOnce
    OBVIOUS
  <2>1. \A p \in Polls : poll[p].todo = {}
    BY DEF Init, IdlePoll
  <2>2. \A f \in Refs : Holders(f) = {} /\ repairs[f] = <<>>
    BY <2>1 DEF Init, Holders
  <2>3. \A f \in Refs : Cardinality(Holders(f)) = 0 /\ Len(repairs[f]) = 0
    BY <2>2, FS_EmptySet, EmptySeq
  <2>4. QED
    BY <2>1, <2>3 DEF Init, TakenUpOnce
<1>2. TypeOK /\ TakenUpOnce => RepairedOnce
  <2> SUFFICES ASSUME TypeOK, TakenUpOnce, NEW f \in Refs PROVE Len(repairs[f]) <= 1 + clears
    BY DEF RepairedOnce
  <2>1. Holders(f) \subseteq Polls
    BY DEF Holders
  <2>2. Cardinality(Holders(f)) \in Nat
    BY <2>1, PollsAssumption, FS_Subset, FS_CardinalityType
  <2>3. Len(repairs[f]) \in Nat /\ clears \in Nat
    BY LenProperties, BoundsAssumption DEF TypeOK
  <2>4. QED
    BY <2>2, <2>3 DEF TakenUpOnce
<1>3. QED
  BY <1>1, <1>2, TypeCorrect, TakenUpStep, PTL DEF Spec
-----------------------------------------------------------------------------
(* What a repair is said to have come to.                                  *)

LEMMA TellsForm ==
  /\ RepairsTell  <=> \A f \in Refs : \A n \in DOMAIN repairs[f] : Tells(f, n)
  /\ RepairsTell' <=> \A f \in Refs : \A n \in DOMAIN repairs'[f] : Tells(f, n)'
  BY DEF RepairsTell

\* What RepairsApart says of one poll at work.
Apart(p) ==
  /\ poll[p].alert.nth \in DOMAIN repairs[poll[p].alert.row]
  /\ repairs[poll[p].alert.row][poll[p].alert.nth] = "pending"
  /\ \A q \in Polls : Working(q) /\ poll[q].alert = poll[p].alert => q = p
  /\ poll[p].at = "run" => runs[poll[p].run].by = poll[p].alert
  /\ \A k \in MadeFor(poll[p].alert) :
       runs[k].outcome = "failed" \/ (poll[p].at = "run" /\ k = poll[p].run)

MadeForSome ==
  \A k \in DOMAIN runs : runs[k].by # Schedule => runs[k].by.nth \in DOMAIN repairs[runs[k].by.row]

LEMMA ApartForm ==
  /\ RepairsApart  <=> MadeForSome  /\ \A p \in Polls : Working(p)  => Apart(p)
  /\ RepairsApart' <=> MadeForSome' /\ \A p \in Polls : Working(p)' => Apart(p)'
  BY DEF RepairsApart, MadeForSome, Apart

\* A repair has a number of its own, and no schedule has it.
LEMMA RepairIsAlert ==
  ASSUME TypeOK, NEW f \in Refs, NEW n \in DOMAIN repairs[f]
  PROVE  [row |-> f, nth |-> n] \in Alerts /\ [row |-> f, nth |-> n] # Schedule
<1>1. n \in Nat \ {0}
  BY LenProperties DEF TypeOK
<1>2. QED
  BY <1>1, SchedulesAreNoAlerts DEF Alerts

RunsTyped(s) == \A k \in DOMAIN s : s[k] \in RunRecord

LEMMA RunsAreTyped == TypeOK => RunsTyped(runs)
  BY ElementOfSeq, LenProperties DEF TypeOK, RunsTyped

\* The missions that are there stay whose they are, and what has ended stays as it ended;
\* polls and repairs are left alone.
LEMMA MissionsGoOn ==
  ASSUME TypeOK, RepairsApart, RepairsTell, poll' = poll, repairs' = repairs,
         DOMAIN runs' = DOMAIN runs,
         \A k \in DOMAIN runs :
            /\ runs'[k].by = runs[k].by
            /\ runs[k].outcome # "open" => runs'[k].outcome = runs[k].outcome
  PROVE  RepairsApart' /\ RepairsTell'
<1>1. \A alert : MadeFor(alert)' = MadeFor(alert)
  BY DEF MadeFor
<1>2. ASSUME NEW f \in Refs, NEW n \in DOMAIN repairs[f] PROVE Tells(f, n)'
  <2>1. Tells(f, n)
    BY TellsForm
  <2>2. MadeFor([row |-> f, nth |-> n])' = MadeFor([row |-> f, nth |-> n])
    BY <1>1
  <2>3. MadeFor([row |-> f, nth |-> n]) \subseteq DOMAIN runs
    BY DEF MadeFor
  <2>4. QED
    BY <2>1, <2>2, <2>3 DEF Tells
<1>3. MadeForSome'
  BY ApartForm DEF MadeForSome
<1>4. ASSUME NEW p \in Polls, Working(p)' PROVE Apart(p)'
  <2>1. Working(p) /\ Apart(p)
    BY <1>4, ApartForm DEF Working
  <2>2. MadeFor(poll[p].alert)' = MadeFor(poll[p].alert)
    BY <1>1 DEF MadeFor
  <2>3. MadeFor(poll[p].alert) \subseteq DOMAIN runs
    BY DEF MadeFor
  <2>4. poll[p].at = "run" => poll[p].run \in DOMAIN runs
    BY DEF TypeOK, PollsTyped
  <2>5. QED
    BY <2>1, <2>2, <2>3, <2>4 DEF Apart, Working
<1>5. QED
  BY <1>2, <1>3, <1>4, ApartForm, TellsForm

\* A poll comes to s and nothing else changes: s is no repair, or the same one with
\* no mission left to come.
LEMMA PollGoesOn ==
  ASSUME TypeOK, RepairsApart, RepairsTell, runs' = runs, repairs' = repairs,
         NEW p \in Polls, NEW s \in PollRecord, poll' = [poll EXCEPT ![p] = s],
         s.at \in {"look", "run", "give_up"} =>
            /\ Working(p) /\ s.alert = poll[p].alert /\ s.at # "run"
            /\ \A k \in MadeFor(poll[p].alert) : runs[k].outcome = "failed"
  PROVE  RepairsApart' /\ RepairsTell'
<1>1. poll'[p] = s /\ \A q \in Polls : q # p => poll'[q] = poll[q]
  BY DEF TypeOK, PollsTyped
<1>2. RepairsTell'
  BY DEF RepairsTell, Tells, MadeFor
<1>3. ASSUME NEW q \in Polls, Working(q)' PROVE Working(q) /\ poll'[q].alert = poll[q].alert
  BY <1>1, <1>3 DEF Working
<1>4. ASSUME NEW q \in Polls, Working(q)' PROVE Apart(q)'
  <2>1. Working(q) /\ Apart(q) /\ poll'[q].alert = poll[q].alert
    BY <1>3, <1>4, ApartForm
  <2>2. CASE q = p
    BY <1>1, <1>3, <1>4, <2>1, <2>2 DEF Apart, Working, MadeFor
  <2>3. CASE q # p
    BY <1>1, <1>3, <2>1, <2>3 DEF Apart, MadeFor
  <2>4. QED
    BY <2>2, <2>3
<1>5. QED
  BY <1>2, <1>4, ApartForm DEF MadeForSome

\* A mission is triggered, by a schedule or by the poll that looks for the one of its row.
LEMMA MissionAdded ==
  ASSUME TypeOK, RepairsApart, RepairsTell, repairs' = repairs,
         NEW by \in Alerts \cup {Schedule}, Trigger(by),
         \/ by = Schedule /\ poll' = poll
         \/ \E p \in Polls : /\ poll[p].at = "look" /\ by = poll[p].alert
                             /\ poll' = [poll EXCEPT ![p].at = "run", ![p].run = Len(runs) + 1]
  PROVE  RepairsApart' /\ RepairsTell'
<1> DEFINE new == Len(runs) + 1
<1>1. /\ DOMAIN runs' = DOMAIN runs \cup {new} /\ new \notin DOMAIN runs
      /\ \A k \in DOMAIN runs : runs'[k] = runs[k]
      /\ runs'[new].by = by
  BY TriggerAppends
<1> HIDE DEF new
<1>2. \A alert : MadeFor(alert)' = MadeFor(alert) \cup (IF alert = by THEN {new} ELSE {})
  BY <1>1 DEF MadeFor
<1>p. CASE \E p \in Polls : /\ poll[p].at = "look" /\ by = poll[p].alert
                            /\ poll' = [poll EXCEPT ![p].at = "run", ![p].run = new]
  <2>1. PICK p \in Polls : /\ poll[p].at = "look" /\ by = poll[p].alert
                           /\ poll' = [poll EXCEPT ![p].at = "run", ![p].run = new]
    BY <1>p
  <2>2. /\ poll'[p].at = "run" /\ poll'[p].run = new /\ poll'[p].alert = by
        /\ \A q \in Polls : q # p => poll'[q] = poll[q]
    BY <2>1 DEF TypeOK, PollsTyped, PollRecord
  <2>3. Working(p) /\ Apart(p) /\ by \in Alerts
    BY <2>1, ApartForm DEF Working, TypeOK, PollsTyped
  <2>4. ASSUME NEW f \in Refs, NEW n \in DOMAIN repairs[f] PROVE Tells(f, n)'
    <3> DEFINE alert == [row |-> f, nth |-> n]
    <3>1. Tells(f, n)
      BY TellsForm
    <3>2. CASE alert = by
      <4>1. by.row = f /\ by.nth = n
        BY <3>2
      <4>2. repairs[f][n] = "pending"
        BY <2>1, <2>3, <4>1 DEF Apart
      <4>3. QED
        BY <4>2 DEF Tells
    <3>3. CASE alert # by
      <4>1. MadeFor(alert)' = MadeFor(alert) /\ MadeFor(alert) \subseteq DOMAIN runs
        BY <1>2, <3>3 DEF MadeFor
      <4>2. QED
        BY <1>1, <3>1, <4>1 DEF Tells
    <3>4. QED
      BY <3>2, <3>3
  <2>5. MadeForSome'
    BY <1>1, <2>1, <2>3, ApartForm DEF MadeForSome, Apart
  <2>6. ASSUME NEW q \in Polls, Working(q)' PROVE Apart(q)'
    <3>1. Working(q) /\ poll'[q].alert = poll[q].alert /\ Apart(q)
      BY <2>1, <2>2, <2>3, <2>6, ApartForm DEF Working
    <3>2. \A r \in Polls : Working(r)' => Working(r) /\ poll'[r].alert = poll[r].alert
      BY <2>1, <2>2, <2>3 DEF Working
    <3>3. CASE q = p
      <4>1. MadeFor(by)' = MadeFor(by) \cup {new} /\ MadeFor(by) \subseteq DOMAIN runs
        BY <1>2 DEF MadeFor
      <4>2. \A k \in MadeFor(by)' : runs'[k].outcome = "failed" \/ k = new
        BY <1>1, <2>1, <2>3, <4>1 DEF Apart
      <4>3. \A k \in DOMAIN runs' : runs'[k].by = by => runs'[k].outcome = "failed" \/ k = new
        BY <4>2 DEF MadeFor
      <4>4. \A r \in Polls : Working(r)' /\ poll'[r].alert = by => r = p
        BY <2>1, <2>3, <3>2 DEF Apart
      <4>5. by.nth \in DOMAIN repairs[by.row] /\ repairs[by.row][by.nth] = "pending"
        BY <2>1, <2>3 DEF Apart
      <4>6. poll'[p].alert = by /\ poll'[p].at = "run" /\ poll'[p].run = new /\ runs'[new].by = by
        BY <1>1, <2>2
      <4>7. Apart(p)'
        BY <4>3, <4>4, <4>5, <4>6 DEF Apart, MadeFor
      <4>8. QED
        BY <3>3, <4>7
    <3>4. CASE q # p
      <4>1. poll[q].alert # by
        BY <2>1, <2>3, <3>1, <3>4 DEF Apart
      <4>2. MadeFor(poll[q].alert)' = MadeFor(poll[q].alert) /\ MadeFor(poll[q].alert) \subseteq DOMAIN runs
        <5>1. poll'[q] = poll[q]
          BY <2>2, <3>4
        <5>2. QED
          BY <1>1, <4>1, <5>1 DEF MadeFor
      <4>3. poll[q].at = "run" => poll[q].run \in DOMAIN runs
        BY DEF TypeOK, PollsTyped
      <4>4. QED
        BY <1>1, <2>2, <3>1, <3>2, <3>4, <4>2, <4>3 DEF Apart
    <3>5. QED
      BY <3>3, <3>4
  <2>7. QED
    BY <2>4, <2>5, <2>6, ApartForm, TellsForm
<1>s. CASE by = Schedule /\ poll' = poll
  <2>1. ASSUME NEW f \in Refs, NEW n \in DOMAIN repairs[f] PROVE Tells(f, n)'
    <3>1. Tells(f, n) /\ [row |-> f, nth |-> n] # by
      BY <1>s, TellsForm, RepairIsAlert
    <3>2. /\ MadeFor([row |-> f, nth |-> n])' = MadeFor([row |-> f, nth |-> n])
          /\ MadeFor([row |-> f, nth |-> n]) \subseteq DOMAIN runs
      <4> DEFINE alert == [row |-> f, nth |-> n]
      <4>1. alert # by
        BY <3>1
      <4> HIDE DEF alert
      <4>2. MadeFor(alert)' = MadeFor(alert) /\ MadeFor(alert) \subseteq DOMAIN runs
        BY <1>1, <4>1 DEF MadeFor
      <4>3. QED
        BY <4>2 DEF alert
    <3>3. QED
      BY <1>1, <3>1, <3>2 DEF Tells
  <2>2. MadeForSome'
    BY <1>1, <1>s, ApartForm DEF MadeForSome
  <2>3. ASSUME NEW q \in Polls, Working(q)' PROVE Apart(q)'
    <3>1. Working(q) /\ Apart(q)
      BY <1>s, <2>3, ApartForm DEF Working
    <3>2. poll[q].alert # by
      BY <1>s, <3>1, SchedulesAreNoAlerts DEF TypeOK, PollsTyped
    <3>3. MadeFor(poll[q].alert)' = MadeFor(poll[q].alert) /\ MadeFor(poll[q].alert) \subseteq DOMAIN runs
      BY <1>1, <1>s, <3>2 DEF MadeFor
    <3>4. poll[q].at = "run" => poll[q].run \in DOMAIN runs
      BY DEF TypeOK, PollsTyped
    <3>5. QED
      BY <1>1, <1>s, <3>1, <3>3, <3>4 DEF Apart, Working
  <2>4. QED
    BY <2>1, <2>2, <2>3, ApartForm, TellsForm
<1>3. QED
  BY <1>p, <1>s DEF new

\* A repair begins: its number is new, and no mission has run for it.
LEMMA RepairAdded ==
  ASSUME TypeOK, RepairsApart, RepairsTell, NEW p \in Polls, BeginRepair(p)
  PROVE  RepairsApart' /\ RepairsTell'
<1>1. PICK f \in poll[p].todo, s \in PollRecord :
         /\ poll' = [poll EXCEPT ![p] = s]
         /\ s.at \in {"look", "give_up"}
         /\ s.alert = [row |-> f, nth |-> Len(repairs[f]) + 1]
         /\ repairs' = [repairs EXCEPT ![f] = Append(@, "pending")]
  BY BeginRepairForm
<1>2. f \in Refs /\ runs' = runs /\ poll[p].at = "next"
  BY DEF TypeOK, PollsTyped, PollRecord, BeginRepair
<1> DEFINE nth == Len(repairs[f]) + 1
<1>3. /\ DOMAIN repairs'[f] = DOMAIN repairs[f] \cup {nth} /\ nth \notin DOMAIN repairs[f]
      /\ \A n \in DOMAIN repairs[f] : repairs'[f][n] = repairs[f][n]
      /\ repairs'[f][nth] = "pending"
      /\ \A g \in Refs : g # f => repairs'[g] = repairs[g]
  <2>1. repairs[f] \in Seq(Results) /\ "pending" \in Results
    BY <1>2 DEF TypeOK, Results
  <2>2. repairs'[f] = Append(repairs[f], "pending") /\ \A g \in Refs : g # f => repairs'[g] = repairs[g]
    BY <1>1, <1>2 DEF TypeOK
  <2>3. /\ Len(repairs[f]) \in Nat /\ DOMAIN repairs[f] = 1..Len(repairs[f])
        /\ Append(repairs[f], "pending") \in Seq(Results)
        /\ Len(Append(repairs[f], "pending")) = nth
        /\ \A n \in 1..Len(repairs[f]) : Append(repairs[f], "pending")[n] = repairs[f][n]
        /\ Append(repairs[f], "pending")[nth] = "pending"
    BY <2>1, AppendProperties, LenProperties
  <2>4. DOMAIN Append(repairs[f], "pending") = 1..nth
    BY <2>3, LenProperties
  <2> HIDE DEF nth
  <2>5. 1..nth = (1..Len(repairs[f])) \cup {nth} /\ nth \notin 1..Len(repairs[f])
    BY <2>3 DEF nth
  <2>6. QED
    BY <2>2, <2>3, <2>4, <2>5
<1>4. s.alert = [row |-> f, nth |-> nth]
  BY <1>1
<1> HIDE DEF nth
<1>5. poll'[p] = s /\ \A q \in Polls : q # p => poll'[q] = poll[q]
  BY <1>1 DEF TypeOK, PollsTyped
<1>6. MadeFor(s.alert) = {}
  <2> SUFFICES ASSUME NEW k \in DOMAIN runs, runs[k].by = s.alert PROVE FALSE
    BY DEF MadeFor
  <2>1. runs[k].by # Schedule
    <3>1. nth # 0
      BY <1>2, LenProperties DEF nth, TypeOK
    <3>2. QED
      BY <1>4, <3>1 DEF Schedule
  <2>2. runs[k].by.nth \in DOMAIN repairs[runs[k].by.row]
    BY <2>1 DEF RepairsApart
  <2>3. QED
    BY <1>3, <1>4, <2>2
<1>7. ASSUME NEW g \in Refs, NEW n \in DOMAIN repairs'[g] PROVE Tells(g, n)'
  <2>1. CASE g = f /\ n = nth
    BY <1>3, <2>1 DEF Tells
  <2>2. CASE ~ (g = f /\ n = nth)
    <3>1. n \in DOMAIN repairs[g] /\ repairs'[g][n] = repairs[g][n]
      BY <1>3, <2>2
    <3>2. Tells(g, n)
      BY <3>1, TellsForm
    <3>3. QED
      BY <1>2, <3>1, <3>2 DEF Tells, MadeFor
  <2>3. QED
    BY <2>1, <2>2
<1>8. MadeForSome'
  <2> SUFFICES ASSUME NEW k \in DOMAIN runs, runs[k].by # Schedule
               PROVE  runs[k].by.nth \in DOMAIN repairs'[runs[k].by.row]
    BY <1>2 DEF MadeForSome
  <2>1. runs[k].by.nth \in DOMAIN repairs[runs[k].by.row]
    BY DEF RepairsApart
  <2>2. runs[k].by.row \in Refs
    BY RunsAreTyped DEF RunsTyped, RunRecord, Alerts
  <2>3. QED
    BY <1>3, <2>1, <2>2
<1>9. ASSUME NEW q \in Polls, q # p, Working(q)
      PROVE  /\ Apart(q) /\ poll[q].alert # s.alert /\ poll[q].alert.row \in Refs
             /\ poll[q].alert.nth \in DOMAIN repairs[poll[q].alert.row]
  <2>1. Apart(q) /\ poll[q].alert \in Alerts
    BY <1>9, ApartForm DEF TypeOK, PollsTyped
  <2>2. QED
    BY <1>3, <1>4, <2>1 DEF Apart, Alerts
<1>10. ASSUME NEW q \in Polls, Working(q)' PROVE Apart(q)'
  <2>1. \A r \in Polls : r # p /\ Working(r)' => Working(r)
    BY <1>5 DEF Working
  <2>2. CASE q = p
    <3>1. \A r \in Polls : Working(r)' /\ poll'[r].alert = s.alert => r = p
      BY <1>5, <1>9, <2>1
    <3>2. MadeFor(s.alert)' = {}
      BY <1>2, <1>6 DEF MadeFor
    <3>3. poll'[q].alert.row = f /\ poll'[q].alert.nth = nth /\ poll'[q] = s /\ s.at # "run"
      BY <1>1, <1>4, <1>5, <2>2
    <3>4. MadeFor(poll[q].alert)' = {}
      BY <1>2, <1>6, <3>3 DEF MadeFor
    <3>5. QED
      BY <1>3, <2>2, <3>1, <3>3, <3>4 DEF Apart
  <2>3. CASE q # p
    <3>1. Working(q) /\ Apart(q) /\ poll'[q] = poll[q]
      BY <1>5, <1>9, <1>10, <2>1, <2>3
    <3>2. repairs'[poll[q].alert.row][poll[q].alert.nth] = repairs[poll[q].alert.row][poll[q].alert.nth]
          /\ poll[q].alert.nth \in DOMAIN repairs'[poll[q].alert.row]
      BY <1>3, <1>9, <2>3, <3>1
    <3>3. \A r \in Polls : Working(r)' /\ poll'[r].alert = poll[q].alert => r = q
      <4> SUFFICES ASSUME NEW r \in Polls, Working(r)', poll'[r].alert = poll[q].alert PROVE r = q
        OBVIOUS
      <4>1. r # p
        BY <1>5, <1>9, <2>3, <3>1
      <4>2. QED
        BY <1>5, <2>1, <3>1, <4>1 DEF Apart
    <3>4. QED
      BY <1>2, <3>1, <3>2, <3>3 DEF Apart, MadeFor
  <2>4. QED
    BY <2>2, <2>3
<1>11. QED
  BY <1>7, <1>8, <1>10, ApartForm, TellsForm

\* A repair ends with what its missions came to.
LEMMA RepairOver ==
  ASSUME TypeOK, RepairsApart, RepairsTell, NEW p \in Polls, Working(p), runs' = runs,
         NEW result \in {"success", "escalated"}, Finalize(p, result),
         result = "success" => \E k \in MadeFor(poll[p].alert) : runs[k].outcome = "completed",
         result = "escalated" => \A k \in MadeFor(poll[p].alert) : runs[k].outcome = "failed"
  PROVE  RepairsApart' /\ RepairsTell'
<1>1. poll[p].alert \in Alerts /\ poll[p].todo \in SUBSET Refs /\ result \in Results
  BY DEF TypeOK, PollsTyped, PollRecord, Results
<1>2. /\ \A f \in Refs : DOMAIN repairs'[f] = DOMAIN repairs[f]
      /\ \A f \in Refs : \A n \in DOMAIN repairs[f] :
            repairs'[f][n] = IF [row |-> f, nth |-> n] = poll[p].alert THEN result ELSE repairs[f][n]
  BY <1>1, FinalizeRepairs
<1>3. /\ poll'[p].at \in {"idle", "next"}
      /\ \A q \in Polls : q # p => poll'[q] = poll[q]
  BY <1>1, NextAlertTyped DEF Finalize, TypeOK, PollsTyped
<1>4. ASSUME NEW f \in Refs, NEW n \in DOMAIN repairs'[f] PROVE Tells(f, n)'
  <2>1. n \in DOMAIN repairs[f]
    BY <1>2
  <2>2. Tells(f, n) /\ MadeFor([row |-> f, nth |-> n])' = MadeFor([row |-> f, nth |-> n])
    BY <2>1, TellsForm DEF MadeFor
  <2>3. CASE [row |-> f, nth |-> n] = poll[p].alert
    <3>1. repairs'[f][n] = result
      BY <1>2, <2>1, <2>3
    <3>2. QED
      BY <2>2, <2>3, <3>1 DEF Tells
  <2>4. CASE [row |-> f, nth |-> n] # poll[p].alert
    <3>1. repairs'[f][n] = repairs[f][n]
      BY <1>2, <2>1, <2>4
    <3>2. QED
      BY <2>2, <3>1 DEF Tells
  <2>5. QED
    BY <2>3, <2>4
<1>5. MadeForSome'
  <2>1. ASSUME NEW k \in DOMAIN runs, runs[k].by # Schedule PROVE runs[k].by.row \in Refs
    BY <2>1, RunsAreTyped DEF RunsTyped, RunRecord, Alerts
  <2>2. QED
    BY <1>2, <2>1, ApartForm DEF MadeForSome
<1>6. ASSUME NEW q \in Polls, Working(q)' PROVE Apart(q)'
  <2>1. q # p /\ Working(q) /\ Apart(q) /\ poll'[q] = poll[q]
    BY <1>3, <1>6, ApartForm DEF Working
  <2>2. poll[q].alert \in Alerts /\ poll[q].alert # poll[p].alert
    BY <2>1 DEF Apart, TypeOK, PollsTyped
  <2>3. /\ poll[q].alert.row \in Refs
        /\ poll[q].alert = [row |-> poll[q].alert.row, nth |-> poll[q].alert.nth]
    BY <2>2 DEF Alerts
  <2>4. /\ poll[q].alert.nth \in DOMAIN repairs'[poll[q].alert.row]
        /\ repairs'[poll[q].alert.row][poll[q].alert.nth] = "pending"
    BY <1>2, <2>1, <2>2, <2>3 DEF Apart
  <2>5. \A r \in Polls : Working(r)' => Working(r) /\ poll'[r].alert = poll[r].alert
    BY <1>3 DEF Working
  <2>6. QED
    BY <2>1, <2>4, <2>5 DEF Apart, MadeFor
<1>7. QED
  BY <1>4, <1>5, <1>6, ApartForm, TellsForm

LEMMA TellStep == TypeOK /\ RepairsApart /\ RepairsTell /\ [Next]_vars => RepairsApart' /\ RepairsTell'
<1> SUFFICES ASSUME TypeOK, RepairsApart, RepairsTell, [Next]_vars PROVE RepairsApart' /\ RepairsTell'
  OBVIOUS
<1>1. CASE TriggerFromSchedule
  BY <1>1, MissionAdded DEF TriggerFromSchedule
<1>2. CASE StopHermes \/ StartHermes \/ UNCHANGED vars
  BY <1>2, MissionsGoOn DEF StopHermes, StartHermes, vars
<1>3. CASE Die
  <2>1. \A p \in Polls : poll'[p].at = "idle"
    BY <1>3 DEF Die, IdlePoll
  <2>2. /\ DOMAIN runs' = DOMAIN runs /\ repairs' = repairs
        /\ \A k \in DOMAIN runs : runs'[k].by = runs[k].by /\ runs'[k].outcome = runs[k].outcome
    <3>1. \A k \in DOMAIN runs : runs[k] \in RunRecord
      BY RunsAreTyped DEF RunsTyped
    <3>2. QED
      BY <1>3, <3>1 DEF Die, RunRecord
  <2>3. \A alert : MadeFor(alert)' = MadeFor(alert)
    BY <2>2 DEF MadeFor
  <2>4. ASSUME NEW f \in Refs, NEW n \in DOMAIN repairs[f] PROVE Tells(f, n)'
    <3>1. Tells(f, n)
      BY TellsForm
    <3>2. /\ MadeFor([row |-> f, nth |-> n])' = MadeFor([row |-> f, nth |-> n])
          /\ MadeFor([row |-> f, nth |-> n]) \subseteq DOMAIN runs
      BY <2>3 DEF MadeFor
    <3>3. QED
      BY <2>2, <3>1, <3>2 DEF Tells
  <2>5. MadeForSome'
    BY <2>2, ApartForm DEF MadeForSome
  <2>6. QED
    BY <2>1, <2>2, <2>4, <2>5, ApartForm, TellsForm DEF Working
<1>4. ASSUME NEW k \in DOMAIN runs, RunStep(k) PROVE RepairsApart' /\ RepairsTell'
  <2>1. runs[k] \in RunRecord
    BY RunsAreTyped DEF RunsTyped
  <2>2. CASE MissionEnds(k)
    <3>1. /\ DOMAIN runs' = DOMAIN runs /\ poll' = poll /\ repairs' = repairs
          /\ \A j \in DOMAIN runs : runs'[j].by = runs[j].by
          /\ \A j \in DOMAIN runs : j # k => runs'[j].outcome = runs[j].outcome
          /\ runs[k].outcome = "open"
      BY <2>1, <2>2 DEF MissionEnds, RunRecord
    <3>2. QED
      BY <3>1, MissionsGoOn
  <2>3. CASE UpdateMissionRunStatus(k)
    <3>1. /\ DOMAIN runs' = DOMAIN runs /\ poll' = poll /\ repairs' = repairs
          /\ \A j \in DOMAIN runs : runs'[j].by = runs[j].by /\ runs'[j].outcome = runs[j].outcome
      BY <2>1, <2>3 DEF UpdateMissionRunStatus, RunRecord
    <3>2. QED
      BY <3>1, MissionsGoOn
  <2>4. QED
    BY <1>4, <2>2, <2>3 DEF RunStep
<1>5. ASSUME NEW p \in Polls, Ask(p) PROVE RepairsApart' /\ RepairsTell'
  <2> DEFINE s == [poll[p] EXCEPT !.at = "asked"]
  <2>1. s \in PollRecord /\ s.at = "asked" /\ poll' = [poll EXCEPT ![p] = s]
    BY <1>5 DEF Ask, TypeOK, PollsTyped, PollRecord
  <2> HIDE DEF s
  <2>2. QED
    BY <1>5, <2>1, PollGoesOn DEF Ask
<1>6. ASSUME NEW p \in Polls, Answer(p) PROVE RepairsApart' /\ RepairsTell'
  <2>1. PICK new \in SUBSET Refs : poll' = [poll EXCEPT ![p] = NextAlert(new)]
    BY <1>6, AnswerForm
  <2>2. QED
    BY <1>6, <2>1, NextAlertTyped, PollGoesOn DEF Answer
<1>7. ASSUME NEW p \in Polls, NoAnswer(p) PROVE RepairsApart' /\ RepairsTell'
  <2>1. IdlePoll.at = "idle"
    BY DEF IdlePoll
  <2>2. QED
    BY <1>7, <2>1, IdlePollTyped, PollGoesOn DEF NoAnswer
<1>8. ASSUME NEW p \in Polls, RetryMission(p) PROVE RepairsApart' /\ RepairsTell'
  <2>1. poll[p].alert \in Alerts
    BY <1>8 DEF RetryMission, TypeOK, PollsTyped, Working
  <2>2. QED
    BY <1>8, <2>1, MissionAdded DEF RetryMission
<1>9. ASSUME NEW p \in Polls, NoMission(p) PROVE RepairsApart' /\ RepairsTell'
  <2>1. Working(p) /\ Apart(p) /\ poll[p].at = "look"
    BY <1>9, ApartForm DEF NoMission, Working
  <2>2. \A k \in MadeFor(poll[p].alert) : runs[k].outcome = "failed"
    BY <2>1 DEF Apart
  <2>3. QED
    BY <1>9, <2>1, <2>2, MissedTyped, PollGoesOn DEF NoMission
<1>10. ASSUME NEW p \in Polls, Retried(p) PROVE RepairsApart' /\ RepairsTell'
  <2>1. Working(p) /\ Apart(p) /\ poll[p].at = "run" /\ poll[p].run \in DOMAIN runs
    BY <1>10, ApartForm DEF Retried, Working, TypeOK, PollsTyped
  <2>2. poll[p].run \in MadeFor(poll[p].alert)
    BY <2>1 DEF Apart, MadeFor
  <2>3. CASE runs[poll[p].run].outcome = "completed" /\ Finalize(p, "success")
    BY <1>10, <2>1, <2>2, <2>3, RepairOver DEF Retried
  <2>4. CASE runs[poll[p].run].outcome = "failed" /\ poll' = [poll EXCEPT ![p] = Missed(p)] /\ repairs' = repairs
    <3>1. \A k \in MadeFor(poll[p].alert) : runs[k].outcome = "failed"
      BY <2>1, <2>4 DEF Apart
    <3>2. QED
      BY <1>10, <2>1, <2>4, <3>1, MissedTyped, PollGoesOn DEF Retried
  <2>5. QED
    BY <1>10, <2>3, <2>4 DEF Retried
<1>11. ASSUME NEW p \in Polls, GiveUp(p) PROVE RepairsApart' /\ RepairsTell'
  <2>1. Working(p) /\ Apart(p) /\ poll[p].at = "give_up"
    BY <1>11, ApartForm DEF GiveUp, Working
  <2>2. \A k \in MadeFor(poll[p].alert) : runs[k].outcome = "failed"
    BY <2>1 DEF Apart
  <2>3. QED
    BY <1>11, <2>1, <2>2, RepairOver DEF GiveUp
<1>12. QED
  BY <1>1, <1>2, <1>3, <1>4, <1>5, <1>6, <1>7, <1>8, <1>9, <1>10, <1>11, RepairAdded
     DEF Next, RepairStep

\* The end a repair is said to have had is that of the missions run for it, for any
\* number of polls, of failures and of missions.
THEOREM RepairsTellTheTruth == Spec => []RepairsTell
<1>1. Init => RepairsApart /\ RepairsTell
  <2> SUFFICES ASSUME Init PROVE RepairsApart /\ RepairsTell
    OBVIOUS
  <2>1. (\A p \in Polls : ~Working(p)) /\ DOMAIN runs = {} /\ \A f \in Refs : DOMAIN repairs[f] = {}
    BY EmptySeq DEF Init, IdlePoll, Working
  <2>2. QED
    BY <2>1, ApartForm, TellsForm DEF MadeForSome
<1>2. QED
  BY <1>1, TypeCorrect, TellStep, PTL DEF Spec

-----------------------------------------------------------------------------
(* The missions: stages of a template, and where their executors are.      *)

LEMMA LastOf ==
  ASSUME NEW n \in Nat, NEW S \in SUBSET (1..n), S # {}
  PROVE  \E x \in S : \A y \in S : y <= x
<1> DEFINE T == {n - x : x \in S}
           Less == {a \in Nat \X Nat : a[1] < a[2]}
<1>0. \A x \in S : x \in 1..n
  OBVIOUS
<1>1. T \in SUBSET Nat /\ T # {}
  <2>1. \A x \in S : n - x \in Nat
    BY <1>0
  <2>2. QED
    BY <2>1
<1>2. IsWellFoundedOn(Less, Nat)
  BY NatLessThanWellFounded, Zenon DEF OpToRel
<1>3. PICK z \in T : \A y \in T : ~ (<<y, z>> \in Less)
  BY <1>1, <1>2, WFMin
<1>4. PICK x \in S : z = n - x
  OBVIOUS
<1>5. ASSUME NEW y \in S PROVE y <= x
  <2>1. n - y \in T /\ n - y \in Nat /\ n - x \in Nat
    BY <1>0
  <2>2. ~ (n - y < n - x)
    BY <1>3, <1>4, <2>1
  <2>3. QED
    BY <1>0, <2>1, <2>2
<1>6. QED
  BY <1>5

StagesOf(m, part) == CASE part = "primary"    -> m.stages
                       [] part = "escalation" -> <<"planner", "executor", "validator">>
                       [] part = "monitor"    -> <<"monitor">>
                       [] OTHER               -> <<>>

\* An executor comes once, right before the validator, and only monitors after that.
LEMMA ListShape ==
  ASSUME NEW S \in StageLists
  PROVE  /\ S \in Seq(Kinds) /\ Len(S) \in 1..4 /\ DOMAIN S = 1..Len(S)
         /\ S[1] # "validator"
         /\ \A i \in 1..Len(S) : S[i] \in Kinds
         /\ \A i \in 1..Len(S) : S[i] = "validator" => i - 1 \in 1..Len(S) /\ S[i - 1] = "executor"
         /\ \A i \in 1..Len(S) : S[i] = "executor" => i + 1 \in 1..Len(S) /\ S[i + 1] = "validator"
         /\ \A i, j \in 1..Len(S) : S[i] = "executor" /\ S[j] = "executor" => i = j
         /\ \A i, j \in 1..Len(S) : S[i] = "validator" /\ i < j => S[j] = "monitor"
<1>1. \/ S = <<"planner", "executor", "validator", "monitor">>
      \/ S = <<"planner", "executor", "validator">>
      \/ S = <<"executor", "validator">>
      \/ S = <<"monitor", "planner", "executor", "validator">>
      \/ S = <<"monitor">>
  BY DEF StageLists, Full, Review, ExecValidate, Repair, Monitor, Template
<1>2. CASE S = <<"planner", "executor", "validator", "monitor">>
  BY <1>2 DEF Kinds
<1>3. CASE S = <<"planner", "executor", "validator">>
  BY <1>3 DEF Kinds
<1>4. CASE S = <<"executor", "validator">>
  BY <1>4 DEF Kinds
<1>5. CASE S = <<"monitor", "planner", "executor", "validator">>
  BY <1>5 DEF Kinds
<1>6. CASE S = <<"monitor">>
  BY <1>6 DEF Kinds
<1>7. QED
  BY <1>1, <1>2, <1>3, <1>4, <1>5, <1>6

LEMMA StagesListed ==
  ASSUME NEW m \in Missions, NEW part \in Parts \ {"none"}
  PROVE  StagesOf(m, part) \in StageLists
<1>1. m.stages \in StageLists
  BY MissionsAssumption
<1>2. /\ <<"planner", "executor", "validator">> \in StageLists /\ <<"monitor">> \in StageLists
  BY DEF StageLists, Full, Review, ExecValidate, Repair, Monitor, Template
<1>3. QED
  BY <1>1, <1>2 DEF StagesOf, Parts

LEMMA RoundsAllowed ==
  ASSUME NEW m \in Missions
  PROVE  MaxEscalations(m) \in Nat \ {0}
  BY MissionsAssumption DEF MaxEscalations

\* findPrecedingExecutor of any list and place.
LastOr0(before)   == IF before = {} THEN 0 ELSE CHOOSE j \in before : \A k \in before : k <= j
Before(S, n)      == {j \in 1..(n - 1) : S[j] = "executor"}
PrecedingIn(S, n) == LastOr0(Before(S, n))

LEMMA PrecedingFound ==
  ASSUME NEW S \in StageLists, NEW n \in 1..Len(S)
  PROVE  /\ PrecedingIn(S, n) \in 0..(n - 1)
         /\ PrecedingIn(S, n) # 0 => S[PrecedingIn(S, n)] = "executor"
         /\ PrecedingIn(S, n) = 0 => \A j \in 1..(n - 1) : S[j] # "executor"
<1> DEFINE before == {j \in 1..(n - 1) : S[j] = "executor"}
<1>0. Len(S) \in 1..4 /\ n \in 1..4
  BY ListShape
<1>1. CASE before = {}
  <2>1. PrecedingIn(S, n) = 0
    BY <1>1 DEF PrecedingIn, Before, LastOr0
  <2>2. QED
    BY <1>0, <1>1, <2>1
<1>2. CASE before # {}
  <2>1. \E j \in before : \A k \in before : k <= j
    BY <1>0, <1>2, LastOf
  <2>2. PrecedingIn(S, n) \in before
    BY <1>2, <2>1 DEF PrecedingIn, Before, LastOr0
  <2>3. QED
    BY <1>0, <2>2
<1>3. QED
  BY <1>1, <1>2

\* Before its executor none precedes, at its validator the stage before does.
LEMMA PrecedingPlaced ==
  ASSUME NEW S \in StageLists, NEW n \in 1..Len(S)
  PROVE  /\ S[n] = "executor" => PrecedingIn(S, n) = 0
         /\ S[n] = "validator" => PrecedingIn(S, n) = n - 1 /\ n > 1
         /\ n = 1 => PrecedingIn(S, n) = 0
         /\ n < Len(S) /\ S[n] # "executor" => PrecedingIn(S, n + 1) = PrecedingIn(S, n)
         /\ PrecedingIn(S, n) # 0 => S[n] \in {"validator", "monitor"}
<1> DEFINE p == PrecedingIn(S, n)
<1>0. /\ Len(S) \in 1..4
      /\ \A i \in 1..Len(S) : S[i] = "validator" => i - 1 \in 1..Len(S) /\ S[i - 1] = "executor"
      /\ \A i \in 1..Len(S) : S[i] = "executor" => i + 1 \in 1..Len(S) /\ S[i + 1] = "validator"
      /\ \A i, j \in 1..Len(S) : S[i] = "executor" /\ S[j] = "executor" => i = j
      /\ \A i, j \in 1..Len(S) : S[i] = "validator" /\ i < j => S[j] = "monitor"
  BY ListShape
<1>1. /\ p \in 0..(n - 1)
      /\ p # 0 => S[p] = "executor"
      /\ p = 0 => \A j \in 1..(n - 1) : S[j] # "executor"
  BY PrecedingFound
<1> HIDE DEF p
<1>2. S[n] = "executor" => p = 0
  BY <1>0, <1>1
<1>3. S[n] = "validator" => p = n - 1 /\ n > 1
  <2>1. SUFFICES ASSUME S[n] = "validator" PROVE p = n - 1 /\ n > 1
    OBVIOUS
  <2>2. n - 1 \in 1..Len(S) /\ S[n - 1] = "executor" /\ n - 1 \in 1..(n - 1)
    BY <1>0, <2>1
  <2>3. p # 0
    BY <1>1, <2>2
  <2>4. p \in 1..Len(S)
    BY <1>0, <1>1, <2>3
  <2>5. QED
    BY <1>0, <1>1, <2>2, <2>3, <2>4
<1>4. n = 1 => p = 0
  BY <1>1
<1>5. n < Len(S) /\ S[n] # "executor" => PrecedingIn(S, n + 1) = p
  <2>1. SUFFICES ASSUME n < Len(S), S[n] # "executor" PROVE PrecedingIn(S, n + 1) = p
    OBVIOUS
  <2>2. Before(S, n + 1) = Before(S, n)
    BY <1>0, <2>1 DEF Before
  <2>3. QED
    BY <2>2 DEF PrecedingIn, p
<1>6. p # 0 => S[n] \in {"validator", "monitor"}
  <2>1. SUFFICES ASSUME p # 0 PROVE S[n] \in {"validator", "monitor"}
    OBVIOUS
  <2>2. p \in 1..Len(S) /\ p + 1 \in 1..Len(S) /\ S[p + 1] = "validator" /\ p + 1 <= n
    BY <1>0, <1>1, <2>1
  <2>3. QED
    BY <1>0, <2>2
<1>7. QED
  BY <1>2, <1>3, <1>4, <1>5, <1>6 DEF p

ResultRecord == [role : Kinds, ok : BOOLEAN, out : Nat]

\* applyPipelineToState finds a result of a role if there is one.
LEMMA LatestFound ==
  ASSUME NEW results \in Seq(ResultRecord), NEW kind \in Kinds, NEW old
  PROVE  \/ Latest(results, kind, old) = old /\ \A i \in DOMAIN results : results[i].role # kind
         \/ \E i \in DOMAIN results : results[i].role = kind /\ Latest(results, kind, old) = results[i].out
<1> DEFINE of == {i \in DOMAIN results : results[i].role = kind}
<1>0. Len(results) \in Nat /\ DOMAIN results = 1..Len(results)
  OBVIOUS
<1>1. CASE of = {}
  BY <1>1 DEF Latest
<1>2. CASE of # {}
  <2>1. \E i \in of : \A j \in of : j <= i
    BY <1>0, <1>2, LastOf
  <2>2. (CHOOSE i \in of : \A j \in of : j <= i) \in of
    BY <2>1
  <2>3. Latest(results, kind, old) = results[CHOOSE i \in of : \A j \in of : j <= i].out
    BY <1>2 DEF Latest
  <2>4. QED
    BY <2>2, <2>3
<1>3. QED
  BY <1>1, <1>2

\* One more result: what it says of its own role, and nothing of the others.
LEMMA LatestAppended ==
  ASSUME NEW results \in Seq(ResultRecord), NEW r \in ResultRecord,
         NEW kind \in Kinds, NEW old
  PROVE  Latest(Append(results, r), kind, old) =
           IF r.role = kind THEN r.out ELSE Latest(results, kind, old)
<1> DEFINE more == Append(results, r)
           n    == Len(results)
           of   == {i \in DOMAIN results : results[i].role = kind}
           ofM  == {i \in DOMAIN more : more[i].role = kind}
<1>0. n \in Nat /\ DOMAIN results = 1..n
  OBVIOUS
<1>1. /\ DOMAIN more = 1..(n + 1)
      /\ \A i \in 1..n : more[i] = results[i]
      /\ more[n + 1] = r
  OBVIOUS
<1> HIDE DEF more, n
<1>2. CASE r.role = kind
  <2>1. n + 1 \in ofM /\ \A j \in ofM : j <= n + 1
    BY <1>0, <1>1, <1>2
  <2>2. \A i \in ofM : (\A j \in ofM : j <= i) => i = n + 1
    BY <1>0, <1>1, <2>1
  <2>3. (CHOOSE i \in ofM : \A j \in ofM : j <= i) = n + 1
    BY <2>1, <2>2
  <2>4. ofM # {}
    BY <2>1
  <2>5. Latest(more, kind, old) = more[CHOOSE i \in ofM : \A j \in ofM : j <= i].out
    BY <2>4, Zenon DEF Latest
  <2>6. QED
    BY <1>1, <1>2, <2>3, <2>5 DEF more
<1>3. CASE r.role # kind
  <2>1. ofM = of
    BY <1>0, <1>1, <1>3
  <2>2. CASE of = {}
    BY <1>3, <2>1, <2>2 DEF Latest, more
  <2>3. CASE of # {}
    <3>1. \E i \in of : \A j \in of : j <= i
      BY <1>0, <2>3, LastOf
    <3> DEFINE c == CHOOSE i \in of : \A j \in of : j <= i
    <3>2. c \in of
      BY <3>1
    <3>3. Latest(results, kind, old) = results[c].out
      BY <2>3 DEF Latest
    <3>4. Latest(more, kind, old) = more[c].out
      BY <2>1, <2>3 DEF Latest
    <3>5. more[c] = results[c]
      BY <1>0, <1>1, <3>2
    <3>6. QED
      BY <1>3, <3>3, <3>4, <3>5 DEF more
  <2>4. QED
    BY <2>2, <2>3
<1>4. QED
  BY <1>2, <1>3

LEMMA LatestBounded ==
  ASSUME NEW results \in Seq(ResultRecord), NEW kind \in Kinds, NEW n \in Nat, NEW old \in 0..n,
         \A i \in DOMAIN results : results[i].out \in 0..n
  PROVE  Latest(results, kind, old) \in 0..n
  BY LatestFound

\* A result that is there is found whatever there was before.
LEMMA LatestOverrides ==
  ASSUME NEW results \in Seq(ResultRecord), NEW kind \in Kinds, NEW old, NEW other,
         Latest(results, kind, other) # other
  PROVE  Latest(results, kind, old) = Latest(results, kind, other)
<1> DEFINE of == {i \in DOMAIN results : results[i].role = kind}
<1>1. of # {}
  BY LatestFound
<1>2. QED
  BY <1>1 DEF Latest

-----------------------------------------------------------------------------
(* Types, and the steps.                                                   *)

PipeRecord == [part : Parts, round : Nat, stage : Nat \ {0}, rerun : BOOLEAN, attempt : Nat,
               rejections : Nat, prev : Nat, results : Seq(ResultRecord)]

ShownRecord == [status : Statuses, plan : Nat, executionOutput : Nat,
                validationResult : Nat, escalations : Nat]

LEMMA PipeFields ==
  ASSUME NEW p \in PipeRecord
  PROVE  /\ p.part \in Parts /\ p.round \in Nat /\ p.stage \in Nat \ {0} /\ p.rerun \in BOOLEAN
         /\ p.attempt \in Nat /\ p.rejections \in Nat /\ p.prev \in Nat
         /\ p.results \in Seq(ResultRecord) /\ Len(p.results) \in Nat
<1>1. p.results \in Seq(ResultRecord)
  BY DEF PipeRecord
<1>2. QED
  BY <1>1 DEF PipeRecord

\* Where a pipeline is: each stage passed has a result, and a round of escalation is
\* one that the mission may have.
Placed ==
    /\ Len(pipe.results) >= pipe.stage - 1
    /\ pipe.part \in {"none", "primary", "monitor"} => pipe.round = 0
    /\ pipe.part = "escalation" => Escalates(mission) /\ pipe.round \in 1..MaxEscalations(mission)
    /\ pipe.rejections <= Retries["executor"]

MissionTyped ==
    /\ pipe \in PipeRecord /\ state \in ShownRecord /\ outputs \in Nat
    /\ Placed /\ MissionTypeOK

\* What the list and the place of the stage under way are like.
LEMMA PlaceOf ==
  MissionTyped /\ UnderWay =>
      /\ Stages = StagesOf(mission, pipe.part) /\ Stages \in StageLists
      /\ pipe.stage \in 1..Len(Stages) /\ Stages[pipe.stage] \in Kinds
      /\ PrecedingExecutor = PrecedingIn(Stages, pipe.stage)
      /\ Worker \in Kinds /\ Retries[Worker] \in Nat /\ Retries["executor"] \in Nat
<1> SUFFICES ASSUME MissionTyped, UnderWay
             PROVE  /\ Stages = StagesOf(mission, pipe.part) /\ Stages \in StageLists
                    /\ pipe.stage \in 1..Len(Stages) /\ Stages[pipe.stage] \in Kinds
                    /\ PrecedingExecutor = PrecedingIn(Stages, pipe.stage)
                    /\ Worker \in Kinds /\ Retries[Worker] \in Nat /\ Retries["executor"] \in Nat
  OBVIOUS
<1>1. Stages = StagesOf(mission, pipe.part)
  BY DEF Stages, StagesOf
<1>2. mission \in Missions /\ pipe.part \in Parts \ {"none"}
  BY DEF MissionTyped, MissionTypeOK, UnderWay
<1>3. Stages \in StageLists
  BY <1>1, <1>2, StagesListed
<1>4. pipe.stage \in 1..Len(Stages) /\ Stages[pipe.stage] \in Kinds
  BY <1>3, ListShape DEF MissionTyped, MissionTypeOK
<1>5. PrecedingExecutor = PrecedingIn(Stages, pipe.stage)
  BY Zenon DEF PrecedingExecutor, PrecedingIn, Before, LastOr0
<1>6. Worker \in Kinds /\ "executor" \in Kinds
  BY <1>4 DEF Worker, Kinds
<1>7. QED
  BY <1>1, <1>3, <1>4, <1>5, <1>6, RoleRetriesAssumption

\* What a handler is given is an output there has been.
LEMMA InputMade ==
  ASSUME MissionTyped, UnderWay
  PROVE  Input \in 0..outputs
<1>1. pipe.prev \in 0..outputs /\ outputs \in Nat
  BY DEF MissionTyped, MissionTypeOK
<1>2. PrecedingExecutor \in 0..(pipe.stage - 1) /\ pipe.stage \in Nat
  BY PlaceOf, PrecedingFound, ListShape DEF MissionTyped, PipeRecord
<1>3. DOMAIN pipe.results = 1..Len(pipe.results) /\ Len(pipe.results) \in Nat
  BY DEF MissionTyped, PipeRecord
<1>4. PrecedingExecutor > 1 => PrecedingExecutor - 1 \in DOMAIN pipe.results
  BY <1>2, <1>3 DEF MissionTyped, Placed
<1>5. executorPrev \in 0..outputs
  BY <1>1, <1>4 DEF executorPrev, Nothing, MissionTyped, MissionTypeOK
<1>6. QED
  BY <1>1, <1>5 DEF Input

\* What a wait has come to, however it ended.
Product(ok) == IF ok THEN outputs + 1 ELSE Nothing
ResultsThen(ok) == Append(pipe.results, [role |-> Worker, ok |-> ok, out |-> Product(ok)])

Heard(ok) ==
    /\ UnderWay /\ mission' = mission
    /\ outputs' = IF ok THEN outputs + 1 ELSE outputs
    /\ strays' = strays \/ (~ok /\ Worker = "executor" /\ strays' = strays + 1)
    /\ accepted' = IF ok /\ Worker = "validator" THEN Input ELSE accepted
    /\ rejected' = IF ~ok /\ Worker = "validator" THEN rejected \cup {Input} ELSE rejected

TryAgain == /\ Heard(FALSE) /\ CanRetry
            /\ pipe' = [pipe EXCEPT !.attempt = @ + 1] /\ state' = state

GoOn     == /\ Heard(TRUE) /\ ~pipe.rerun /\ pipe.stage < Len(Stages)
            /\ pipe' = [pipe EXCEPT !.stage = @ + 1, !.attempt = 0, !.prev = outputs + 1,
                                    !.results = ResultsThen(TRUE)]
            /\ state' = state

SendBack == /\ Heard(FALSE) /\ ~pipe.rerun /\ Worker = "validator"
            /\ PrecedingExecutor # 0 /\ pipe.rejections < Retries["executor"]
            /\ pipe' = [pipe EXCEPT !.rerun = TRUE, !.attempt = 0, !.rejections = @ + 1,
                                    !.results = ResultsThen(FALSE)]
            /\ state' = state

Deliver  == /\ Heard(TRUE) /\ pipe.rerun
            /\ pipe' = [pipe EXCEPT !.rerun = FALSE, !.attempt = 0, !.prev = outputs + 1,
                                    !.results = ResultsThen(TRUE)]
            /\ state' = state

Over(ok) == /\ Heard(ok) /\ EndPipeline(ok, ResultsThen(ok))
            /\ ok => ~pipe.rerun /\ pipe.stage = Len(Stages)
            /\ ok \/ ~CanRetry

LEMMA VerdictHeard ==
  ASSUME NEW ok \in BOOLEAN, Verdict(ok)
  PROVE  /\ accepted' = IF ok /\ Worker = "validator" THEN Input ELSE accepted
         /\ rejected' = IF ~ok /\ Worker = "validator" THEN rejected \cup {Input} ELSE rejected
  BY DEF Verdict

LEMMA ConcludeCases ==
  ASSUME MissionTyped, NEW ok \in BOOLEAN, Heard(ok), Conclude(ok, Product(ok)), ok \/ ~CanRetry
  PROVE  GoOn \/ SendBack \/ Deliver \/ Over(ok)
<1>1. CASE ok /\ pipe.rerun
  BY <1>1 DEF Conclude, Redelivered, Go, Deliver, ResultsThen, Product
<1>2. CASE ok /\ ~pipe.rerun
  <2>1. pipe.stage \in 1..Len(Stages) /\ Len(Stages) \in Nat
    BY PlaceOf, ListShape DEF Heard
  <2>2. CASE pipe.stage < Len(Stages)
    BY <1>2, <2>2 DEF Conclude, Advance, Go, GoOn, ResultsThen, Product
  <2>3. CASE ~ (pipe.stage < Len(Stages))
    <3>1. EndPipeline(ok, ResultsThen(ok))
      BY <1>2, <2>3 DEF Conclude, Advance, ResultsThen, Product
    <3>2. pipe.stage = Len(Stages)
      BY <2>1, <2>3
    <3>3. QED
      BY <1>2, <3>1, <3>2 DEF Over
  <2>4. QED
    BY <2>2, <2>3
<1>3. CASE ~ok /\ pipe.rerun
  BY <1>3 DEF Conclude, Over, ResultsThen, Product
<1>4. CASE ~ok /\ ~pipe.rerun
  <2>1. IF Worker = "validator" /\ ValidatorCanReject THEN Reject(ResultsThen(ok))
                                                       ELSE EndPipeline(FALSE, ResultsThen(ok))
    BY <1>4 DEF Conclude, ResultsThen, Product
  <2>2. CASE Worker = "validator" /\ ValidatorCanReject
    BY <1>4, <2>1, <2>2 DEF Reject, Go, SendBack, Over
  <2>3. CASE ~ (Worker = "validator" /\ ValidatorCanReject)
    BY <1>4, <2>1, <2>3 DEF Over
  <2>4. QED
    BY <2>2, <2>3
<1>5. QED
  BY <1>1, <1>2, <1>3, <1>4

LEMMA StepCases ==
  ASSUME MissionTyped, MissionNext
  PROVE  \/ TryAgain \/ GoOn \/ SendBack \/ Deliver \/ Over(TRUE) \/ Over(FALSE)
         \/ Throws \/ StrayEnds
<1>0. outputs \in Nat /\ strays \in Nat
  BY DEF MissionTyped, MissionTypeOK
<1>1. CASE Done
  <2>1. Heard(TRUE)
    BY <1>1, VerdictHeard DEF Done, Heard
  <2>2. Conclude(TRUE, Product(TRUE))
    BY <1>1 DEF Done, Product
  <2>3. QED
    BY <2>1, <2>2, ConcludeCases
<1>2. ASSUME UnderWay, Failed, UNCHANGED <<mission, outputs>>,
             strays' = strays \/ (Worker = "executor" /\ strays' = strays + 1)
      PROVE  TryAgain \/ GoOn \/ SendBack \/ Deliver \/ Over(FALSE)
  <2>1. Heard(FALSE)
    BY <1>2, VerdictHeard DEF Failed, Heard
  <2>2. CASE CanRetry
    BY <1>2, <2>1, <2>2 DEF Failed, Retry, Go, TryAgain
  <2>3. CASE ~CanRetry
    BY <1>2, <2>1, <2>3, ConcludeCases DEF Failed, Product
  <2>4. QED
    BY <2>2, <2>3
<1>3. CASE Fails
  BY <1>2, <1>3 DEF Fails
<1>4. CASE TimesOut
  BY <1>2, <1>4 DEF TimesOut
<1>5. QED
  BY <1>1, <1>3, <1>4 DEF MissionNext

LEMMA ResultsTyped ==
  ASSUME MissionTyped, NEW ok \in BOOLEAN, Heard(ok)
  PROVE  /\ ResultsThen(ok) \in Seq(ResultRecord) /\ Len(ResultsThen(ok)) = Len(pipe.results) + 1
         /\ [role |-> Worker, ok |-> ok, out |-> Product(ok)] \in ResultRecord
         /\ outputs' \in Nat /\ outputs <= outputs' /\ Product(ok) \in 0..outputs'
         /\ \A i \in DOMAIN ResultsThen(ok) : ResultsThen(ok)[i].out \in 0..outputs'
<1>0. /\ outputs \in Nat /\ pipe.results \in Seq(ResultRecord)
      /\ \A i \in DOMAIN pipe.results : pipe.results[i].out \in 0..outputs
  BY DEF MissionTyped, MissionTypeOK, PipeRecord
<1>1. outputs' \in Nat /\ outputs <= outputs' /\ Product(ok) \in 0..outputs'
  BY <1>0 DEF Heard, Product, Nothing
<1> DEFINE r == [role |-> Worker, ok |-> ok, out |-> Product(ok)]
<1>2. r \in ResultRecord /\ r.out = Product(ok)
  BY <1>1, PlaceOf DEF Heard, ResultRecord
<1> HIDE DEF r
<1>3. Append(pipe.results, r) \in Seq(ResultRecord)
      /\ Len(Append(pipe.results, r)) = Len(pipe.results) + 1
  BY <1>0, <1>2
<1>4. ASSUME NEW i \in DOMAIN Append(pipe.results, r)
      PROVE  Append(pipe.results, r)[i].out \in 0..outputs'
  <2>1. CASE i \in DOMAIN pipe.results
    <3>1. Append(pipe.results, r)[i] = pipe.results[i]
      BY <1>0, <1>2, <2>1
    <3>2. QED
      BY <1>0, <1>1, <2>1, <3>1
  <2>2. CASE i \notin DOMAIN pipe.results
    <3>1. Append(pipe.results, r)[i] = r
      BY <1>0, <1>2, <2>2
    <3>2. QED
      BY <1>1, <1>2, <3>1
  <2>3. QED
    BY <2>1, <2>2
<1>5. QED
  BY <1>1, <1>2, <1>3, <1>4 DEF ResultsThen, r

StateWithin(st, n) == st \in ShownRecord
                      /\ {st.plan, st.executionOutput, st.validationResult} \subseteq 0..n

LEMMA AppliedTyped ==
  ASSUME NEW n \in Nat, StateWithin(state, n), NEW results \in Seq(ResultRecord),
         \A i \in DOMAIN results : results[i].out \in 0..n
  PROVE  /\ StateWithin(applyPipelineToState(results), n)
         /\ applyPipelineToState(results).executionOutput =
                Latest(results, "executor", state.executionOutput)
<1>0. /\ state \in ShownRecord /\ state.plan \in 0..n
      /\ state.executionOutput \in 0..n /\ state.validationResult \in 0..n
      /\ {"planner", "executor", "validator"} \subseteq Kinds
  BY DEF StateWithin, Kinds
<1>1. /\ Latest(results, "planner", state.plan) \in 0..n
      /\ Latest(results, "executor", state.executionOutput) \in 0..n
      /\ Latest(results, "validator", state.validationResult) \in 0..n
  BY <1>0, LatestBounded
<1> DEFINE a == Latest(results, "planner", state.plan)
           b == Latest(results, "executor", state.executionOutput)
           c == Latest(results, "validator", state.validationResult)
<1>2. applyPipelineToState(results) =
        [state EXCEPT !.plan = a, !.executionOutput = b, !.validationResult = c]
  BY DEF applyPipelineToState
<1> HIDE DEF a, b, c
<1>3. a \in 0..n /\ b \in 0..n /\ c \in 0..n /\ 0..n \subseteq Nat
  BY <1>1 DEF a, b, c
<1>4. /\ applyPipelineToState(results) \in ShownRecord
      /\ applyPipelineToState(results).plan = a
      /\ applyPipelineToState(results).executionOutput = b
      /\ applyPipelineToState(results).validationResult = c
  BY <1>0, <1>2, <1>3 DEF ShownRecord
<1>5. QED
  BY <1>3, <1>4 DEF StateWithin, b

\* What there is when a pipeline has ended.
Sentinel(ok) == /\ ok /\ pipe.part = "primary"
                /\ pipe' = Pipeline("monitor", 0) /\ state'.status = "monitoring"
                /\ state'.executionOutput = Latest(ResultsThen(ok), "executor", state.executionOutput)

Escalated(ok) == /\ ~ok /\ pipe.part \in {"primary", "escalation"} /\ Escalates(mission)
                 /\ pipe.round < MaxEscalations(mission)
                 /\ pipe' = Pipeline("escalation", pipe.round + 1)
                 /\ state'.status = "escalating"

Completed(ok) == /\ pipe' = NoPipeline /\ state'.status = "completed"
                 /\ \/ /\ ok /\ pipe.part \in {"primary", "escalation"}
                       /\ state'.executionOutput =
                              Latest(ResultsThen(ok), "executor", state.executionOutput)
                    \/ pipe.part = "monitor" /\ state'.executionOutput = state.executionOutput

FailedMission == pipe' = NoPipeline /\ state'.status = "failed"

LEMMA Ends ==
  ASSUME MissionTyped, NEW ok \in BOOLEAN, Over(ok)
  PROVE  /\ Sentinel(ok) \/ Escalated(ok) \/ Completed(ok) \/ FailedMission
         /\ StateWithin(state', outputs')
<1> DEFINE applied == applyPipelineToState(ResultsThen(ok))
<1>1. /\ ResultsThen(ok) \in Seq(ResultRecord) /\ outputs' \in Nat
      /\ \A i \in DOMAIN ResultsThen(ok) : ResultsThen(ok)[i].out \in 0..outputs'
      /\ StateWithin(state, outputs')
  <2>1. Heard(ok)
    BY DEF Over
  <2>2. outputs <= outputs' /\ outputs' \in Nat /\ outputs \in Nat
    BY <2>1, ResultsTyped DEF MissionTyped
  <2>3. StateWithin(state, outputs')
    BY <2>2 DEF MissionTyped, MissionTypeOK, StateWithin
  <2>4. QED
    BY <2>1, <2>3, ResultsTyped
<1>2. /\ StateWithin(applied, outputs')
      /\ applied.executionOutput = Latest(ResultsThen(ok), "executor", state.executionOutput)
  BY <1>1, AppliedTyped
<1> HIDE DEF applied
<1>3. mission \in Missions /\ MaxEscalations(mission) \in Nat \ {0} /\ pipe.round \in Nat
      /\ (pipe.part = "primary" => pipe.round = 0)
      /\ (pipe.part = "escalation" => Escalates(mission))
  BY RoundsAllowed DEF MissionTyped, MissionTypeOK, PipeRecord, Placed
<1>4. \A st, s : StateWithin(st, outputs') /\ s \in Statuses =>
           /\ StateWithin([st EXCEPT !.status = s], outputs')
           /\ [st EXCEPT !.status = s].status = s
           /\ [st EXCEPT !.status = s].executionOutput = st.executionOutput
  BY DEF StateWithin, ShownRecord
<1>5. {"completed", "failed", "monitoring", "escalating"} \subseteq Statuses
  BY DEF Statuses
<1>6. EndPipeline(ok, ResultsThen(ok))
  BY DEF Over
<1>7. CASE pipe.part = "primary" /\ ok /\ PrimaryDone(ResultsThen(ok))
  <2>1. \/ pipe' = Pipeline("monitor", 0) /\ state' = [applied EXCEPT !.status = "monitoring"]
        \/ pipe' = NoPipeline /\ state' = [applied EXCEPT !.status = "completed"]
    BY <1>7 DEF PrimaryDone, Begin, Finish, applied
  <2>2. CASE pipe' = Pipeline("monitor", 0) /\ state' = [applied EXCEPT !.status = "monitoring"]
    <3>1. /\ state'.status = "monitoring" /\ StateWithin(state', outputs')
          /\ state'.executionOutput = applied.executionOutput
      BY <1>2, <1>4, <1>5, <2>2
    <3>2. Sentinel(ok)
      BY <1>2, <1>7, <2>2, <3>1 DEF Sentinel
    <3>3. QED
      BY <3>1, <3>2
  <2>3. CASE pipe' = NoPipeline /\ state' = [applied EXCEPT !.status = "completed"]
    <3>1. /\ state'.status = "completed" /\ StateWithin(state', outputs')
          /\ state'.executionOutput = applied.executionOutput
      BY <1>2, <1>4, <1>5, <2>3
    <3>2. Completed(ok)
      BY <1>2, <1>7, <2>3, <3>1 DEF Completed
    <3>3. QED
      BY <3>1, <3>2
  <2>4. QED
    BY <2>1, <2>2, <2>3
<1>8. CASE pipe.part = "primary" /\ ~ok /\ PrimaryFailed(ResultsThen(ok))
  <2>1. \/ /\ Escalates(mission) /\ pipe' = Pipeline("escalation", 1)
           /\ state' = [applied EXCEPT !.status = "escalating"]
        \/ pipe' = NoPipeline /\ state' = [applied EXCEPT !.status = "failed"]
    BY <1>8 DEF PrimaryFailed, Begin, Finish, applied
  <2>2. pipe.round < MaxEscalations(mission) /\ pipe.round + 1 = 1
    BY <1>3, <1>8
  <2>3. QED
    BY <1>2, <1>4, <1>5, <1>8, <2>1, <2>2 DEF Escalated, FailedMission
<1>9. CASE pipe.part = "escalation" /\ Round(ok, ResultsThen(ok))
  <2> DEFINE st == [IF ok THEN applied ELSE state EXCEPT !.escalations = @ + 1]
  <2>1. StateWithin(st, outputs') /\ (ok => st.executionOutput = applied.executionOutput)
    BY <1>1, <1>2 DEF StateWithin, ShownRecord
  <2>2. \/ ok /\ pipe' = NoPipeline /\ state' = [st EXCEPT !.status = "completed"]
        \/ /\ ~ok /\ pipe.round < MaxEscalations(mission)
           /\ pipe' = Pipeline("escalation", pipe.round + 1)
           /\ state' = [st EXCEPT !.status = "escalating"]
        \/ pipe' = NoPipeline /\ state' = [st EXCEPT !.status = "failed"]
    BY <1>9 DEF Round, Begin, Finish, applied
  <2> HIDE DEF st
  <2>3. CASE ok /\ pipe' = NoPipeline /\ state' = [st EXCEPT !.status = "completed"]
    <3>1. /\ state'.status = "completed" /\ StateWithin(state', outputs')
          /\ state'.executionOutput = applied.executionOutput
      BY <1>4, <1>5, <2>1, <2>3
    <3>2. Completed(ok)
      BY <1>2, <1>9, <2>3, <3>1 DEF Completed
    <3>3. QED
      BY <3>1, <3>2
  <2>4. CASE /\ ~ok /\ pipe.round < MaxEscalations(mission)
             /\ pipe' = Pipeline("escalation", pipe.round + 1)
             /\ state' = [st EXCEPT !.status = "escalating"]
    <3>1. state'.status = "escalating" /\ StateWithin(state', outputs')
      BY <1>4, <1>5, <2>1, <2>4
    <3>2. Escalated(ok)
      BY <1>3, <1>9, <2>4, <3>1 DEF Escalated
    <3>3. QED
      BY <3>1, <3>2
  <2>5. CASE pipe' = NoPipeline /\ state' = [st EXCEPT !.status = "failed"]
    BY <1>4, <1>5, <2>1, <2>5 DEF FailedMission
  <2>6. QED
    BY <2>2, <2>3, <2>4, <2>5
<1>10. CASE pipe.part = "monitor" /\ Finish(state, "completed")
  BY <1>1, <1>4, <1>5, <1>10 DEF Finish, Completed
<1>11. QED
  BY <1>6, <1>7, <1>8, <1>9, <1>10 DEF EndPipeline

\* Types in two parts: what a mission has to show, and its pipeline.
AccountsTyped ==
    /\ mission \in Missions /\ outputs \in Nat /\ strays \in Nat
    /\ rejected \subseteq 0..outputs /\ accepted \in 0..outputs
    /\ StateWithin(state, outputs)

PipeTyped ==
    /\ pipe \in PipeRecord /\ Placed /\ pipe.prev \in 0..outputs
    /\ \A i \in DOMAIN pipe.results : pipe.results[i].out \in 0..outputs
    /\ UnderWay => /\ pipe.stage \in DOMAIN Stages
                   /\ pipe.attempt \in 0..Retries[Worker]
                   /\ pipe.rerun => Stages[pipe.stage] = "validator"

LEMMA TypedInParts ==
  MissionTyped <=> AccountsTyped /\ PipeTyped /\ (UnderWay <=> ~Ended)
<1>1. ASSUME MissionTyped PROVE AccountsTyped /\ PipeTyped /\ (UnderWay <=> ~Ended)
  <2>1. AccountsTyped
    BY <1>1 DEF MissionTyped, MissionTypeOK, AccountsTyped, StateWithin
  <2>2. PipeTyped
    BY <1>1 DEF MissionTyped, MissionTypeOK, PipeTyped
  <2>3. UnderWay <=> ~Ended
    BY <1>1 DEF MissionTyped, MissionTypeOK
  <2>4. QED
    BY <2>1, <2>2, <2>3
<1>2. ASSUME AccountsTyped, PipeTyped, UnderWay <=> ~Ended PROVE MissionTyped
  <2>1. DOMAIN pipe = DOMAIN NoPipeline
    BY <1>2 DEF PipeTyped, PipeRecord, NoPipeline, Pipeline
  <2>2. pipe.round \in 0..MaxEscalations(mission)
    <3>1. MaxEscalations(mission) \in Nat \ {0} /\ pipe.part \in Parts
      BY <1>2, RoundsAllowed DEF AccountsTyped, PipeTyped, PipeRecord
    <3>2. QED
      BY <1>2, <3>1 DEF PipeTyped, Placed, Parts
  <2>3. pipe.part \in Parts /\ pipe.rerun \in BOOLEAN
    BY <1>2 DEF PipeTyped, PipeRecord
  <2>4. state.status \in Statuses
    BY <1>2 DEF AccountsTyped, StateWithin, ShownRecord
  <2>5. MissionTypeOK
    BY <1>2, <2>1, <2>2, <2>3, <2>4 DEF MissionTypeOK, AccountsTyped, PipeTyped, StateWithin
  <2>6. QED
    BY <1>2, <2>5 DEF MissionTyped, PipeTyped, AccountsTyped, StateWithin
<1>3. QED
  BY <1>1, <1>2

LEMMA HeardTyped ==
  ASSUME MissionTyped, NEW ok \in BOOLEAN, Heard(ok), StateWithin(state', outputs')
  PROVE  AccountsTyped'
<1>0. AccountsTyped
  BY TypedInParts
<1>1. Input \in 0..outputs
  BY InputMade DEF Heard
<1>2. outputs' \in Nat /\ outputs <= outputs'
  BY ResultsTyped
<1>3. 0..outputs \subseteq 0..outputs'
  BY <1>0, <1>2 DEF AccountsTyped
<1>4. strays' \in Nat
  BY <1>0 DEF AccountsTyped, Heard
<1>5. QED
  BY <1>0, <1>1, <1>2, <1>3, <1>4 DEF AccountsTyped, Heard, StateWithin

LEMMA StateKept ==
  ASSUME MissionTyped, NEW ok \in BOOLEAN, Heard(ok), state' = state
  PROVE  StateWithin(state', outputs')
<1>1. outputs' \in Nat /\ outputs <= outputs' /\ outputs \in Nat
  BY ResultsTyped DEF MissionTyped
<1>2. StateWithin(state, outputs)
  BY TypedInParts DEF AccountsTyped
<1>3. QED
  BY <1>1, <1>2 DEF StateWithin

\* The same pipeline, at another place.
LEMMA SamePipeline ==
  ASSUME mission' = mission, pipe'.part = pipe.part
  PROVE  Stages' = Stages /\ (UnderWay' <=> UnderWay)
  BY DEF Stages, UnderWay

LEMMA MovedTyped ==
  ASSUME MissionTyped, NEW ok \in BOOLEAN, Heard(ok), state' = state,
         pipe' \in PipeRecord, pipe'.part = pipe.part, pipe'.round = pipe.round,
         pipe'.stage \in 1..Len(Stages), Len(pipe'.results) >= pipe'.stage - 1,
         pipe'.rejections <= Retries["executor"],
         pipe'.prev \in 0..outputs',
         \A i \in DOMAIN pipe'.results : pipe'.results[i].out \in 0..outputs',
         pipe'.attempt \in 0..Retries[IF pipe'.rerun THEN "executor" ELSE Stages[pipe'.stage]],
         pipe'.rerun => Stages[pipe'.stage] = "validator"
  PROVE  MissionTyped'
<1>0. mission' = mission /\ UnderWay
  BY DEF Heard
<1>1. Stages' = Stages /\ (UnderWay' <=> UnderWay) /\ (Ended' <=> Ended)
  BY <1>0, SamePipeline DEF Ended
<1>2. Worker' = IF pipe'.rerun THEN "executor" ELSE Stages[pipe'.stage]
  BY <1>1 DEF Worker
<1>3. DOMAIN Stages = 1..Len(Stages)
  BY <1>0, PlaceOf, ListShape
<1>4. Placed'
  <2>1. Placed
    BY DEF MissionTyped
  <2>2. QED
    BY <1>0, <2>1 DEF Placed, Escalates, MaxEscalations, Has
<1>5. PipeTyped'
  BY <1>1, <1>2, <1>3, <1>4 DEF PipeTyped
<1>6. AccountsTyped'
  BY HeardTyped, StateKept
<1>7. (UnderWay <=> ~Ended)'
  BY <1>1, TypedInParts
<1>8. QED
  BY <1>5, <1>6, <1>7, TypedInParts, PTL

LEMMA TryAgainTyped == ASSUME MissionTyped, TryAgain PROVE MissionTyped'
<1>0. Heard(FALSE) /\ UnderWay /\ outputs' = outputs /\ pipe \in PipeRecord /\ PipeTyped
  BY TypedInParts DEF TryAgain, Heard, MissionTyped
<1>1. pipe.attempt + 1 \in 0..Retries[Worker] /\ pipe.attempt + 1 \in Nat
  <2>1. Retries[Worker] \in Nat
    BY <1>0, PlaceOf
  <2>2. QED
    BY <1>0, <2>1 DEF TryAgain, CanRetry, PipeTyped
<1>2. /\ pipe' \in PipeRecord /\ pipe'.part = pipe.part /\ pipe'.round = pipe.round
      /\ pipe'.stage = pipe.stage /\ pipe'.results = pipe.results
      /\ pipe'.rejections = pipe.rejections /\ pipe'.prev = pipe.prev
      /\ pipe'.rerun = pipe.rerun /\ pipe'.attempt = pipe.attempt + 1
  BY <1>0, <1>1 DEF TryAgain, PipeRecord
<1>3. pipe.stage \in 1..Len(Stages)
  BY <1>0, PlaceOf
<1>4. pipe'.attempt \in 0..Retries[IF pipe'.rerun THEN "executor" ELSE Stages[pipe'.stage]]
  BY <1>1, <1>2 DEF Worker
<1>5. QED
  BY <1>0, <1>2, <1>3, <1>4, MovedTyped DEF PipeTyped, Placed, TryAgain

LEMMA GoOnTyped == ASSUME MissionTyped, GoOn PROVE MissionTyped'
<1> DEFINE rs == ResultsThen(TRUE)
<1>1. Heard(TRUE) /\ UnderWay /\ outputs' = outputs + 1 /\ pipe \in PipeRecord
  BY DEF GoOn, Heard, MissionTyped
<1>2. /\ rs \in Seq(ResultRecord) /\ Len(rs) = Len(pipe.results) + 1 /\ outputs' \in Nat
      /\ \A i \in DOMAIN rs : rs[i].out \in 0..outputs'
  BY <1>1, ResultsTyped
<1>3. pipe' = [pipe EXCEPT !.stage = @ + 1, !.attempt = 0, !.prev = outputs + 1, !.results = rs]
  BY DEF GoOn
<1> HIDE DEF rs
<1>4. /\ outputs \in Nat /\ pipe.stage \in Nat /\ Len(pipe.results) \in Nat
      /\ Len(pipe.results) >= pipe.stage - 1 /\ pipe.rejections <= Retries["executor"]
  BY <1>1, PipeFields DEF MissionTyped, Placed
<1>5. pipe' \in PipeRecord
  <2>1. pipe.stage + 1 \in Nat \ {0} /\ outputs + 1 \in Nat
    BY <1>4
  <2>2. QED
    BY <1>1, <1>2, <1>3, <2>1 DEF PipeRecord
<1>6. /\ pipe'.part = pipe.part /\ pipe'.round = pipe.round /\ pipe'.stage = pipe.stage + 1
      /\ pipe'.results = rs /\ pipe'.rejections = pipe.rejections /\ pipe'.prev = outputs + 1
      /\ pipe'.rerun = pipe.rerun /\ pipe'.attempt = 0
  BY <1>1, <1>3 DEF PipeRecord
<1>7. pipe.stage + 1 \in 1..Len(Stages) /\ Stages \in StageLists
  BY <1>1, PlaceOf, ListShape DEF GoOn
<1>8. pipe'.attempt \in 0..Retries[IF pipe'.rerun THEN "executor" ELSE Stages[pipe'.stage]]
  <2>1. Stages[pipe.stage + 1] \in Kinds
    BY <1>7, ListShape
  <2>2. QED
    BY <1>6, <2>1, RoleRetriesAssumption DEF GoOn
<1>9. Len(pipe'.results) >= pipe'.stage - 1
  <2>1. Len(pipe'.results) = Len(pipe.results) + 1
    BY <1>2, <1>6
  <2>2. QED
    BY <1>4, <1>6, <2>1
<1>10. pipe'.prev \in 0..outputs' /\ ~pipe'.rerun /\ pipe'.rejections <= Retries["executor"]
  BY <1>1, <1>2, <1>4, <1>6 DEF GoOn
<1>11. QED
  BY <1>1, <1>2, <1>5, <1>6, <1>7, <1>8, <1>9, <1>10, MovedTyped DEF GoOn

LEMMA SendBackTyped == ASSUME MissionTyped, SendBack PROVE MissionTyped'
<1> DEFINE rs == ResultsThen(FALSE)
<1>1. Heard(FALSE) /\ UnderWay /\ outputs' = outputs /\ pipe \in PipeRecord
      /\ pipe.prev \in 0..outputs
  BY DEF SendBack, Heard, MissionTyped, MissionTypeOK
<1>2. /\ rs \in Seq(ResultRecord) /\ Len(rs) = Len(pipe.results) + 1
      /\ \A i \in DOMAIN rs : rs[i].out \in 0..outputs'
  BY <1>1, ResultsTyped
<1>3. pipe' = [pipe EXCEPT !.rerun = TRUE, !.attempt = 0, !.rejections = @ + 1, !.results = rs]
  BY DEF SendBack
<1> HIDE DEF rs
<1>4. /\ pipe.rejections \in Nat /\ Len(pipe.results) \in Nat /\ pipe.stage \in Nat
      /\ Len(pipe.results) >= pipe.stage - 1
  BY <1>1, PipeFields DEF MissionTyped, Placed
<1>5. pipe' \in PipeRecord
  <2>1. pipe.rejections + 1 \in Nat
    BY <1>4
  <2>2. QED
    BY <1>1, <1>2, <1>3, <2>1 DEF PipeRecord
<1>6. /\ pipe'.part = pipe.part /\ pipe'.round = pipe.round /\ pipe'.stage = pipe.stage
      /\ pipe'.results = rs /\ pipe'.rejections = pipe.rejections + 1 /\ pipe'.prev = pipe.prev
      /\ pipe'.rerun = TRUE /\ pipe'.attempt = 0
  BY <1>1, <1>3 DEF PipeRecord
<1>7. pipe.stage \in 1..Len(Stages) /\ Retries["executor"] \in Nat
  BY <1>1, PlaceOf
<1>8. Stages[pipe.stage] = "validator"
  BY DEF SendBack, Worker
<1>9. pipe'.rejections <= Retries["executor"]
  BY <1>4, <1>6, <1>7 DEF SendBack
<1>10. Len(pipe'.results) >= pipe'.stage - 1
  <2>1. Len(pipe'.results) = Len(pipe.results) + 1
    BY <1>2, <1>6
  <2>2. QED
    BY <1>4, <1>6, <2>1
<1>11. pipe'.attempt \in 0..Retries[IF pipe'.rerun THEN "executor" ELSE Stages[pipe'.stage]]
  BY <1>6, <1>7
<1>12. QED
  BY <1>1, <1>2, <1>5, <1>6, <1>7, <1>8, <1>9, <1>10, <1>11, MovedTyped DEF SendBack

LEMMA DeliverTyped == ASSUME MissionTyped, Deliver PROVE MissionTyped'
<1> DEFINE rs == ResultsThen(TRUE)
<1>1. Heard(TRUE) /\ UnderWay /\ outputs' = outputs + 1 /\ pipe \in PipeRecord
  BY DEF Deliver, Heard, MissionTyped
<1>2. /\ rs \in Seq(ResultRecord) /\ Len(rs) = Len(pipe.results) + 1 /\ outputs' \in Nat
      /\ \A i \in DOMAIN rs : rs[i].out \in 0..outputs'
  BY <1>1, ResultsTyped
<1>3. pipe' = [pipe EXCEPT !.rerun = FALSE, !.attempt = 0, !.prev = outputs + 1, !.results = rs]
  BY DEF Deliver
<1> HIDE DEF rs
<1>4. /\ outputs \in Nat /\ pipe.stage \in Nat /\ Len(pipe.results) \in Nat
      /\ Len(pipe.results) >= pipe.stage - 1 /\ pipe.rejections <= Retries["executor"]
  BY <1>1, PipeFields DEF MissionTyped, Placed
<1>5. pipe' \in PipeRecord
  BY <1>1, <1>2, <1>3, <1>4 DEF PipeRecord
<1>6. /\ pipe'.part = pipe.part /\ pipe'.round = pipe.round /\ pipe'.stage = pipe.stage
      /\ pipe'.results = rs /\ pipe'.rejections = pipe.rejections /\ pipe'.prev = outputs + 1
      /\ pipe'.rerun = FALSE /\ pipe'.attempt = 0
  BY <1>1, <1>3 DEF PipeRecord
<1>7. pipe.stage \in 1..Len(Stages) /\ Stages[pipe.stage] \in Kinds
  BY <1>1, PlaceOf
<1>8. pipe'.attempt \in 0..Retries[IF pipe'.rerun THEN "executor" ELSE Stages[pipe'.stage]]
  BY <1>6, <1>7, RoleRetriesAssumption
<1>9. Len(pipe'.results) >= pipe'.stage - 1
  <2>1. Len(pipe'.results) = Len(pipe.results) + 1
    BY <1>2, <1>6
  <2>2. QED
    BY <1>4, <1>6, <2>1
<1>10. pipe'.prev \in 0..outputs' /\ pipe'.rejections <= Retries["executor"]
  BY <1>1, <1>2, <1>4, <1>6
<1>11. QED
  BY <1>1, <1>2, <1>5, <1>6, <1>7, <1>8, <1>9, <1>10, MovedTyped DEF Deliver

\* A pipeline that begins, or none.
Fresh ==
    \E part \in Parts, round \in Nat :
        /\ pipe = Pipeline(part, round)
        /\ part # "escalation" => round = 0
        /\ part = "escalation" => Escalates(mission) /\ round \in 1..MaxEscalations(mission)
        /\ part = "none" <=> state.status \in {"completed", "failed"}

LEMMA FreshTyped == AccountsTyped /\ Fresh => MissionTyped
<1> SUFFICES ASSUME AccountsTyped, Fresh PROVE MissionTyped
  OBVIOUS
<1>1. PICK part \in Parts, round \in Nat :
        /\ pipe = Pipeline(part, round)
        /\ part # "escalation" => round = 0
        /\ part = "escalation" => Escalates(mission) /\ round \in 1..MaxEscalations(mission)
        /\ part = "none" <=> state.status \in {"completed", "failed"}
  BY DEF Fresh
<1>2. /\ pipe.part = part /\ pipe.round = round /\ pipe.stage = 1 /\ pipe.rerun = FALSE
      /\ pipe.attempt = 0 /\ pipe.rejections = 0 /\ pipe.prev = 0 /\ pipe.results = <<>>
      /\ pipe \in PipeRecord
  BY <1>1 DEF Pipeline, PipeRecord, Nothing
<1>3. Placed
  BY <1>1, <1>2, RoleRetriesAssumption DEF Placed, Kinds
<1>4. ASSUME part # "none"
      PROVE  pipe.stage \in DOMAIN Stages /\ pipe.attempt \in 0..Retries[Worker]
  <2>1. Stages = StagesOf(mission, part)
    BY <1>2 DEF Stages, StagesOf
  <2>2. Stages \in StageLists
    BY <1>4, <2>1, StagesListed DEF AccountsTyped
  <2>3. 1 \in DOMAIN Stages /\ Stages[1] \in Kinds
    BY <2>2, ListShape
  <2>4. Worker = Stages[1]
    BY <1>2 DEF Worker
  <2>5. QED
    BY <1>2, <2>3, <2>4, RoleRetriesAssumption
<1>5. UnderWay <=> part # "none"
  BY <1>2 DEF UnderWay
<1>6. PipeTyped
  BY <1>2, <1>3, <1>4, <1>5 DEF PipeTyped, AccountsTyped
<1>7. UnderWay <=> ~Ended
  BY <1>1, <1>5 DEF Ended
<1>8. QED
  BY <1>6, <1>7, TypedInParts

LEMMA OverFresh == ASSUME MissionTyped, NEW ok \in BOOLEAN, Over(ok) PROVE AccountsTyped' /\ Fresh'
<1>1. Heard(ok) /\ mission' = mission /\ StateWithin(state', outputs')
      /\ (Sentinel(ok) \/ Escalated(ok) \/ Completed(ok) \/ FailedMission)
  BY Ends DEF Over, Heard
<1>2. AccountsTyped'
  BY <1>1, HeardTyped
<1>3. "monitor" \in Parts /\ "escalation" \in Parts /\ "none" \in Parts
  BY DEF Parts
<1>4. Fresh'
  <2>1. CASE Sentinel(ok)
    BY <1>1, <1>3, <2>1 DEF Sentinel, Fresh
  <2>2. CASE Escalated(ok)
    <3>1. pipe.round + 1 \in 1..MaxEscalations(mission) /\ pipe.round + 1 \in Nat
      BY <2>2, RoundsAllowed DEF Escalated, MissionTyped, MissionTypeOK, PipeRecord
    <3>2. QED
      BY <1>1, <1>3, <2>2, <3>1 DEF Escalated, Fresh, Escalates, MaxEscalations, Has
  <2>3. CASE Completed(ok)
    BY <1>1, <1>3, <2>3 DEF Completed, NoPipeline, Fresh
  <2>4. CASE FailedMission
    BY <1>1, <1>3, <2>4 DEF FailedMission, NoPipeline, Fresh
  <2>5. QED
    BY <1>1, <2>1, <2>2, <2>3, <2>4
<1>5. QED
  BY <1>2, <1>4

LEMMA ThrowsFresh == ASSUME MissionTyped, Throws PROVE AccountsTyped' /\ Fresh'
<1>0. AccountsTyped
  BY TypedInParts
<1>1. AccountsTyped'
  BY <1>0 DEF Throws, Finish, AccountsTyped, StateWithin, ShownRecord, Statuses
<1>2. Fresh'
  BY <1>0 DEF Throws, Finish, NoPipeline, Fresh, Parts, AccountsTyped, StateWithin, ShownRecord
<1>3. QED
  BY <1>1, <1>2

\* A pipeline that ends leaves a new one or none.
PipelineEnds == Throws \/ Over(TRUE) \/ Over(FALSE)

LEMMA EndTyped == ASSUME MissionTyped, PipelineEnds PROVE Fresh' /\ MissionTyped'
<1>1. AccountsTyped' /\ Fresh'
  BY OverFresh, ThrowsFresh DEF PipelineEnds
<1>2. QED
  BY <1>1, FreshTyped, PTL

LEMMA InitFresh == MissionInit => Fresh /\ AccountsTyped /\ ~Ended
<1> SUFFICES ASSUME MissionInit PROVE Fresh /\ AccountsTyped /\ ~Ended
  OBVIOUS
<1>1. state = [InitialState EXCEPT !.status = FirstStatus(mission)] /\ mission \in Missions
  BY DEF MissionInit
<1>2. FirstStatus(mission) \in Statuses \ {"completed", "failed"}
  BY DEF FirstStatus, Statuses
<1>3. AccountsTyped /\ state.status = FirstStatus(mission)
  BY <1>1, <1>2 DEF MissionInit, AccountsTyped, StateWithin, InitialState, ShownRecord, Nothing
<1>4. Fresh
  BY <1>2, <1>3 DEF MissionInit, Fresh, Parts
<1>5. QED
  BY <1>2, <1>3, <1>4 DEF Ended

LEMMA MissionInitTyped == MissionInit => MissionTyped
  BY InitFresh, FreshTyped

LEMMA QuietTyped ==
  ASSUME MissionTyped, UNCHANGED <<mission, pipe, state, outputs, rejected, accepted>>, strays' \in Nat
  PROVE  MissionTyped'
<1>1. UNCHANGED <<Stages, Worker, UnderWay, Ended, Placed>>
  BY DEF Stages, Worker, UnderWay, Ended, Placed
<1>2. AccountsTyped' /\ PipeTyped' /\ (UnderWay <=> ~Ended)'
  BY <1>1, TypedInParts DEF AccountsTyped, PipeTyped
<1>3. QED
  BY <1>2, TypedInParts, PTL

LEMMA MissionTypeStep == ASSUME MissionTyped, [MissionNext]_missionVars PROVE MissionTyped'
<1>0. strays \in Nat
  BY DEF MissionTyped, MissionTypeOK
<1>1. CASE MissionNext
  <2>1. CASE StrayEnds
    BY <1>0, <2>1, QuietTyped DEF StrayEnds
  <2>2. QED
    BY <1>1, <2>1, StepCases, TryAgainTyped, GoOnTyped, SendBackTyped, DeliverTyped, EndTyped
       DEF PipelineEnds
<1>2. CASE UNCHANGED missionVars
  BY <1>0, <1>2, QuietTyped DEF missionVars
<1>3. QED
  BY <1>1, <1>2

\* The locals of runMission and runAgentPipeline and the mission's state keep their types.
THEOREM MissionTypeCorrect == MissionSpec => []MissionTypeOK
<1>1. MissionTyped => MissionTypeOK
  BY DEF MissionTyped
<1>2. MissionTyped /\ [MissionNext]_missionVars => MissionTyped'
  BY MissionTypeStep
<1>3. QED
  BY <1>1, <1>2, MissionInitTyped, PTL DEF MissionSpec

\* The safety of the refinement of MissionOutcome: a mission comes to one end at most, and
\* what triggerMission sees of it never changes again.
THEOREM MissionEndsOnce == MissionSpec => Outcome!OneEnd
<1>1. MissionInit => Outcome!Init
  BY DEF MissionInit, Outcome!Init, Shown, Ended, InitialState, FirstStatus
<1>2. ASSUME MissionTyped, [MissionNext]_missionVars PROVE [Outcome!End]_Shown
  <2>1. CASE state' = state
    BY <2>1 DEF Shown, Ended
  <2>2. CASE state' # state
    <3>1. UnderWay
      BY <1>2, <2>2 DEF MissionNext, Done, Fails, TimesOut, Throws, StrayEnds, missionVars
    <3>2. ~Ended
      BY <1>2, <3>1, TypedInParts
    <3>3. QED
      BY <3>2 DEF Outcome!End, Shown, Ended
  <2>3. QED
    BY <2>1, <2>2
<1>3. MissionTyped /\ [MissionNext]_missionVars => MissionTyped'
  BY MissionTypeStep
<1>4. QED
  BY <1>1, <1>2, <1>3, MissionInitTyped, PTL DEF MissionSpec, Outcome!OneEnd

-----------------------------------------------------------------------------
(* Verdicts.                                                               *)

\* The last output an executor has delivered to the pipeline.
Made == Latest(pipe.results, "executor", Nothing)

\* While a pipeline is under way, what its executor has delivered last goes to the
\* validator, and past the validator only if that has accepted it.
Carried ==
    UnderWay /\ pipe.part # "monitor" /\ PrecedingExecutor # 0 /\ ~pipe.rerun =>
        /\ Made # Nothing
        /\ Stages[pipe.stage] = "validator" => pipe.prev = Made
        /\ Stages[pipe.stage] # "validator" => accepted = Made

\* A sentinel's pass and a result begin with what was accepted last.
Vouched ==
    (pipe.part = "monitor" \/ state.status = "completed") /\ Audited =>
        accepted # Nothing /\ state.executionOutput = accepted

\* The validator is about to be given an output that was not judged yet.
Unjudged ==
    UnderWay /\ ~pipe.rerun /\ Stages[pipe.stage] = "validator" => pipe.prev \notin rejected

Settled ==
    accepted # Nothing /\ mission.stages # Full.stages => pipe.part \in {"none", "monitor"}

\* A pipeline that has just begun, or that is none.
LEMMA NewBegins ==
  MissionTyped /\ Fresh /\ UnderWay =>
      /\ PrecedingExecutor = 0 /\ pipe.stage = 1 /\ Stages[1] # "validator"
      /\ ~pipe.rerun /\ pipe.attempt = 0 /\ pipe.rejections = 0
<1> SUFFICES ASSUME MissionTyped, Fresh, UnderWay
             PROVE  /\ PrecedingExecutor = 0 /\ pipe.stage = 1 /\ Stages[1] # "validator"
                    /\ ~pipe.rerun /\ pipe.attempt = 0 /\ pipe.rejections = 0
  OBVIOUS
<1>1. pipe.stage = 1 /\ ~pipe.rerun /\ pipe.attempt = 0 /\ pipe.rejections = 0
  BY DEF Fresh, Pipeline
<1>2. Stages \in StageLists /\ 1 \in 1..Len(Stages) /\ PrecedingExecutor = PrecedingIn(Stages, 1)
  BY <1>1, PlaceOf
<1>3. QED
  BY <1>1, <1>2, ListShape, PrecedingPlaced

LEMMA AuditorWorks ==
  ASSUME MissionTyped, UnderWay, Worker = "validator"
  PROVE  /\ ~pipe.rerun /\ Stages[pipe.stage] = "validator" /\ Input = pipe.prev
         /\ PrecedingExecutor = pipe.stage - 1 /\ PrecedingExecutor # 0
         /\ pipe.part # "monitor"
<1>1. ~pipe.rerun /\ Stages[pipe.stage] = "validator" /\ Input = pipe.prev
  BY DEF Worker, Input
<1>2. PrecedingExecutor = pipe.stage - 1 /\ pipe.stage > 1 /\ pipe.stage \in Nat
  BY <1>1, PlaceOf, PrecedingPlaced, PipeFields DEF MissionTyped
<1>3. pipe.part # "monitor"
  BY <1>1, PlaceOf DEF StagesOf
<1>4. QED
  BY <1>1, <1>2, <1>3

\* The same pipeline at its next place, in terms of the list of its stages.
LEMMA MovedPlace ==
  ASSUME MissionTyped, MissionTyped', UnderWay, mission' = mission, pipe'.part = pipe.part
  PROVE  /\ UnderWay' /\ Stages' = Stages /\ Stages \in StageLists
         /\ PrecedingExecutor = PrecedingIn(Stages, pipe.stage)
         /\ PrecedingExecutor' = PrecedingIn(Stages, pipe'.stage)
         /\ pipe.stage \in 1..Len(Stages) /\ pipe'.stage \in 1..Len(Stages)
         /\ Worker' = IF pipe'.rerun THEN "executor" ELSE Stages[pipe'.stage]
         /\ Worker = IF pipe.rerun THEN "executor" ELSE Stages[pipe.stage]
         /\ pipe.rerun => Stages[pipe.stage] = "validator"
<1>1. UnderWay' /\ Stages' = Stages
  BY SamePipeline
<1>2. (MissionTyped /\ UnderWay)' => (/\ PrecedingExecutor = PrecedingIn(Stages, pipe.stage)
                                     /\ pipe.stage \in 1..Len(Stages))'
  BY PlaceOf, PTL
<1>3. PrecedingExecutor' = PrecedingIn(Stages', pipe'.stage) /\ pipe'.stage \in 1..Len(Stages')
  BY <1>1, <1>2
<1>4. QED
  BY <1>1, <1>3, PlaceOf DEF Worker, MissionTyped, MissionTypeOK

LEMMA TryAgainMoves ==
  ASSUME MissionTyped, TryAgain
  PROVE  /\ Heard(FALSE) /\ MissionTyped' /\ UNCHANGED <<mission, state, outputs>>
         /\ pipe'.part = pipe.part /\ pipe'.stage = pipe.stage /\ pipe'.rerun = pipe.rerun
         /\ pipe'.round = pipe.round /\ pipe'.rejections = pipe.rejections
         /\ pipe'.attempt = pipe.attempt + 1 /\ pipe'.prev = pipe.prev /\ Made' = Made
         /\ Worker # "validator"
<1>1. pipe \in PipeRecord /\ pipe' = [pipe EXCEPT !.attempt = pipe.attempt + 1]
  BY DEF MissionTyped, TryAgain
<1>2. /\ pipe'.part = pipe.part /\ pipe'.stage = pipe.stage /\ pipe'.rerun = pipe.rerun
      /\ pipe'.round = pipe.round /\ pipe'.rejections = pipe.rejections
      /\ pipe'.attempt = pipe.attempt + 1 /\ pipe'.prev = pipe.prev
      /\ pipe'.results = pipe.results
  BY <1>1 DEF PipeRecord
<1>3. Made' = Made
  BY <1>2 DEF Made
<1>4. QED
  BY <1>2, <1>3, TryAgainTyped DEF TryAgain, Heard, CanRetry

LEMMA ResultLatest ==
  ASSUME MissionTyped, NEW ok \in BOOLEAN, Heard(ok), NEW old
  PROVE  Latest(ResultsThen(ok), "executor", old) =
           IF Worker = "executor" THEN Product(ok) ELSE Latest(pipe.results, "executor", old)
<1> DEFINE r == [role |-> Worker, ok |-> ok, out |-> Product(ok)]
<1>1. r \in ResultRecord /\ pipe.results \in Seq(ResultRecord) /\ "executor" \in Kinds
  BY ResultsTyped, PipeFields DEF MissionTyped, Kinds
<1>2. r.role = Worker /\ r.out = Product(ok)
  OBVIOUS
<1> HIDE DEF r
<1>3. Latest(Append(pipe.results, r), "executor", old) =
        IF r.role = "executor" THEN r.out ELSE Latest(pipe.results, "executor", old)
  BY <1>1, LatestAppended
<1>4. ResultsThen(ok) = Append(pipe.results, r)
  BY DEF ResultsThen, r
<1>5. QED
  BY <1>2, <1>3, <1>4

LEMMA GoOnMoves ==
  ASSUME MissionTyped, GoOn
  PROVE  /\ Heard(TRUE) /\ MissionTyped' /\ UNCHANGED <<mission, state>>
         /\ pipe'.part = pipe.part /\ pipe'.stage = pipe.stage + 1 /\ ~pipe.rerun /\ ~pipe'.rerun
         /\ pipe'.round = pipe.round /\ pipe'.rejections = pipe.rejections
         /\ pipe'.attempt = 0 /\ pipe'.prev = outputs + 1
         /\ Made' = IF Worker = "executor" THEN outputs + 1 ELSE Made
<1> DEFINE rs == ResultsThen(TRUE)
<1>1. pipe \in PipeRecord /\ Heard(TRUE)
      /\ pipe' = [pipe EXCEPT !.stage = @ + 1, !.attempt = 0, !.prev = outputs + 1, !.results = rs]
  BY DEF MissionTyped, GoOn
<1> HIDE DEF rs
<1>2. /\ pipe'.part = pipe.part /\ pipe'.stage = pipe.stage + 1 /\ pipe'.rerun = pipe.rerun
      /\ pipe'.round = pipe.round /\ pipe'.rejections = pipe.rejections
      /\ pipe'.attempt = 0 /\ pipe'.prev = outputs + 1 /\ pipe'.results = rs
  BY <1>1 DEF PipeRecord
<1>3. Latest(rs, "executor", Nothing) = IF Worker = "executor" THEN outputs + 1 ELSE Made
  BY <1>1, ResultLatest DEF rs, Made, Product
<1>4. Made' = Latest(rs, "executor", Nothing)
  BY <1>2 DEF Made, Latest
<1>5. QED
  BY <1>1, <1>2, <1>3, <1>4, GoOnTyped DEF GoOn, Heard

LEMMA SendBackMoves ==
  ASSUME MissionTyped, SendBack
  PROVE  /\ Heard(FALSE) /\ MissionTyped' /\ UNCHANGED <<mission, state>>
         /\ pipe'.part = pipe.part /\ pipe'.stage = pipe.stage /\ pipe'.rerun
         /\ pipe'.round = pipe.round /\ pipe'.rejections = pipe.rejections + 1
         /\ pipe'.attempt = 0 /\ Worker = "validator"
<1> DEFINE rs == ResultsThen(FALSE)
<1>1. pipe \in PipeRecord
      /\ pipe' = [pipe EXCEPT !.rerun = TRUE, !.attempt = 0, !.rejections = @ + 1, !.results = rs]
  BY DEF MissionTyped, SendBack
<1> HIDE DEF rs
<1>2. /\ pipe'.part = pipe.part /\ pipe'.stage = pipe.stage /\ pipe'.rerun = TRUE
      /\ pipe'.round = pipe.round /\ pipe'.rejections = pipe.rejections + 1 /\ pipe'.attempt = 0
  BY <1>1 DEF PipeRecord
<1>3. QED
  BY <1>2, SendBackTyped DEF SendBack, Heard

LEMMA DeliverMoves ==
  ASSUME MissionTyped, Deliver
  PROVE  /\ Heard(TRUE) /\ MissionTyped' /\ UNCHANGED <<mission, state>>
         /\ pipe'.part = pipe.part /\ pipe'.stage = pipe.stage /\ pipe.rerun /\ ~pipe'.rerun
         /\ pipe'.round = pipe.round /\ pipe'.rejections = pipe.rejections
         /\ pipe'.attempt = 0 /\ pipe'.prev = outputs + 1 /\ Made' = outputs + 1
<1> DEFINE rs == ResultsThen(TRUE)
<1>1. pipe \in PipeRecord /\ Heard(TRUE) /\ Worker = "executor"
      /\ pipe' = [pipe EXCEPT !.rerun = FALSE, !.attempt = 0, !.prev = outputs + 1, !.results = rs]
  BY DEF MissionTyped, Deliver, Worker
<1> HIDE DEF rs
<1>2. /\ pipe'.part = pipe.part /\ pipe'.stage = pipe.stage /\ pipe'.rerun = FALSE
      /\ pipe'.round = pipe.round /\ pipe'.rejections = pipe.rejections
      /\ pipe'.attempt = 0 /\ pipe'.prev = outputs + 1 /\ pipe'.results = rs
  BY <1>1 DEF PipeRecord
<1>3. Latest(rs, "executor", Nothing) = outputs + 1
  BY <1>1, ResultLatest DEF rs, Product
<1>4. Made' = Latest(rs, "executor", Nothing)
  BY <1>2 DEF Made, Latest
<1>5. QED
  BY <1>1, <1>2, <1>3, <1>4, DeliverTyped DEF Deliver, Heard

\* Outputs are numbered afresh, so what an executor delivers was never judged.
LEMMA UnjudgedStep ==
  ASSUME MissionTyped, Unjudged, [MissionNext]_missionVars
  PROVE  Unjudged'
<1>0. rejected \subseteq 0..outputs /\ outputs \in Nat
  BY DEF MissionTyped, MissionTypeOK
<1>1. CASE TryAgain
  BY <1>1, TryAgainMoves, MovedPlace DEF Unjudged, Heard
<1>2. CASE GoOn
  BY <1>0, <1>2, GoOnMoves DEF Unjudged, Heard
<1>3. CASE SendBack
  BY <1>3, SendBackMoves DEF Unjudged
<1>4. CASE Deliver
  BY <1>0, <1>4, DeliverMoves DEF Unjudged, Heard
<1>5. CASE PipelineEnds
  <2>1. (MissionTyped /\ Fresh)' => (UnderWay => pipe.stage = 1 /\ Stages[1] # "validator")'
    BY NewBegins, PTL
  <2>2. QED
    BY <1>5, <2>1, EndTyped DEF Unjudged
<1>6. CASE UNCHANGED <<mission, pipe, rejected>>
  <2>1. UNCHANGED <<Stages, UnderWay>>
    BY <1>6 DEF Stages, UnderWay
  <2>2. QED
    BY <1>6, <2>1 DEF Unjudged
<1>7. CASE MissionNext
  BY <1>1, <1>2, <1>3, <1>4, <1>5, <1>6, <1>7, StepCases DEF PipelineEnds, StrayEnds
<1>8. QED
  BY <1>6, <1>7 DEF missionVars

\* In a pipeline with an executor, what gets through is the last output it delivered, and
\* that is what the validator has accepted.
LEMMA ThroughIsAccepted ==
  ASSUME MissionTyped, Carried, Over(TRUE), pipe.part # "monitor",
         NEW e \in DOMAIN Stages, Stages[e] = "executor"
  PROVE  /\ Latest(ResultsThen(TRUE), "executor", state.executionOutput) = accepted'
         /\ accepted' # Nothing
<1>1. Heard(TRUE) /\ UnderWay /\ ~pipe.rerun /\ pipe.stage = Len(Stages)
  BY DEF Over, Heard
<1>2. /\ Stages \in StageLists /\ pipe.stage \in 1..Len(Stages) /\ Len(Stages) \in 1..4
      /\ e \in 1..Len(Stages)
      /\ PrecedingExecutor = PrecedingIn(Stages, pipe.stage) /\ Worker = Stages[pipe.stage]
  BY <1>1, PlaceOf, ListShape DEF Worker
<1>3. PrecedingExecutor # 0
  <2>1. e + 1 \in 1..Len(Stages)
    BY <1>2, ListShape
  <2>2. e \in 1..(pipe.stage - 1)
    BY <1>1, <1>2, <2>1
  <2>3. QED
    BY <1>2, <2>2, PrecedingFound
<1>4. Worker \in {"validator", "monitor"}
  BY <1>2, <1>3, PrecedingPlaced
<1>5. Made # Nothing
  BY <1>1, <1>3 DEF Carried
<1>6. accepted' = Made
  <2>1. CASE Worker = "validator"
    <3>1. accepted' = Input /\ Input = pipe.prev
      BY <1>1, <2>1, AuditorWorks DEF Heard
    <3>2. QED
      BY <1>1, <1>2, <1>3, <2>1, <3>1 DEF Carried
  <2>2. CASE Worker = "monitor"
    BY <1>1, <1>2, <1>3, <2>2 DEF Carried, Heard
  <2>3. QED
    BY <1>4, <2>1, <2>2
<1>7. Latest(ResultsThen(TRUE), "executor", state.executionOutput) =
        Latest(pipe.results, "executor", state.executionOutput)
  BY <1>1, <1>4, ResultLatest
<1>8. Latest(pipe.results, "executor", state.executionOutput) = Made
  <2>1. pipe.results \in Seq(ResultRecord) /\ "executor" \in Kinds
    BY PipeFields DEF MissionTyped, Kinds
  <2>2. QED
    BY <1>5, <2>1, LatestOverrides DEF Made
<1>9. QED
  BY <1>5, <1>6, <1>7, <1>8

LEMMA CarriedStep ==
  ASSUME MissionTyped, Carried, [MissionNext]_missionVars
  PROVE  Carried'
<1>0. outputs \in Nat
  BY DEF MissionTyped
<1>1. CASE TryAgain
  BY <1>1, TryAgainMoves, MovedPlace DEF Carried, Heard
<1>2. CASE GoOn
  <2>1. /\ Heard(TRUE) /\ MissionTyped' /\ UnderWay /\ mission' = mission
        /\ pipe'.part = pipe.part /\ pipe'.stage = pipe.stage + 1 /\ ~pipe.rerun /\ ~pipe'.rerun
        /\ pipe'.prev = outputs + 1
        /\ Made' = IF Worker = "executor" THEN outputs + 1 ELSE Made
    BY <1>2, GoOnMoves DEF Heard
  <2>2. /\ UnderWay' /\ Stages' = Stages /\ Stages \in StageLists
        /\ PrecedingExecutor = PrecedingIn(Stages, pipe.stage)
        /\ PrecedingExecutor' = PrecedingIn(Stages, pipe.stage + 1)
        /\ pipe.stage \in 1..Len(Stages) /\ pipe.stage + 1 \in 1..Len(Stages)
        /\ Worker = Stages[pipe.stage] /\ Len(Stages) \in 1..4
    BY <2>1, MovedPlace, ListShape
  <2>3. /\ \A i \in 1..Len(Stages) : Stages[i] = "validator" => Stages[i - 1] = "executor"
        /\ \A i \in 1..Len(Stages) : Stages[i] = "executor" => Stages[i + 1] = "validator"
    BY <2>2, ListShape
  <2>4. CASE Worker = "executor"
    <3>1. Stages[pipe.stage + 1] = "validator"
      BY <2>2, <2>3, <2>4
    <3>2. QED
      BY <1>0, <2>1, <2>2, <2>4, <3>1 DEF Carried, Nothing
  <2>5. CASE Worker = "validator"
    <3>1. /\ PrecedingExecutor # 0 /\ pipe.part # "monitor" /\ Input = pipe.prev
          /\ Stages[pipe.stage] = "validator"
      BY <2>1, <2>5, AuditorWorks
    <3>2. accepted' = Made /\ Made # Nothing
      BY <2>1, <2>5, <3>1 DEF Carried, Heard
    <3>3. Stages[pipe.stage + 1] # "validator"
      <4>1. pipe.stage + 1 - 1 = pipe.stage
        BY <2>2
      <4>2. QED
        BY <2>2, <2>3, <3>1, <4>1
    <3>4. QED
      BY <2>1, <2>2, <2>5, <3>2, <3>3 DEF Carried
  <2>6. CASE Worker \notin {"executor", "validator"}
    <3>1. PrecedingExecutor' = PrecedingExecutor
      BY <2>2, <2>6, PrecedingPlaced
    <3>2. Stages[pipe.stage + 1] # "validator"
      <4>1. pipe.stage + 1 - 1 = pipe.stage
        BY <2>2
      <4>2. QED
        BY <2>2, <2>3, <2>6, <4>1
    <3>3. accepted' = accepted
      BY <2>1, <2>6 DEF Heard
    <3>4. QED
      BY <2>1, <2>2, <2>6, <3>1, <3>2, <3>3 DEF Carried
  <2>7. QED
    BY <2>4, <2>5, <2>6
<1>3. CASE SendBack
  BY <1>3, SendBackMoves DEF Carried
<1>4. CASE Deliver
  <2>1. Deliver => /\ Heard(TRUE) /\ MissionTyped' /\ UnderWay /\ mission' = mission
                   /\ pipe'.part = pipe.part /\ pipe'.stage = pipe.stage /\ pipe.rerun
                   /\ ~pipe'.rerun /\ pipe'.prev = outputs + 1 /\ Made' = outputs + 1
    BY DeliverMoves DEF Heard
  <2>2. Stages'[pipe'.stage] = "validator"
    BY <1>4, <2>1, MovedPlace
  <2>3. QED
    BY <1>0, <1>4, <2>1, <2>2 DEF Carried, Nothing
<1>5. CASE PipelineEnds
  <2>1. (MissionTyped /\ Fresh)' => (UnderWay => PrecedingExecutor = 0)'
    BY NewBegins, PTL
  <2>2. QED
    BY <1>5, <2>1, EndTyped DEF Carried
<1>6. CASE UNCHANGED <<mission, pipe, accepted>>
  <2>1. UNCHANGED <<Stages, UnderWay, PrecedingExecutor, Made>>
    BY <1>6 DEF Stages, UnderWay, PrecedingExecutor, Made, Latest
  <2>2. QED
    BY <1>6, <2>1 DEF Carried
<1>7. CASE MissionNext
  BY <1>1, <1>2, <1>3, <1>4, <1>5, <1>6, <1>7, StepCases DEF PipelineEnds, StrayEnds
<1>8. QED
  BY <1>6, <1>7 DEF missionVars

LEMMA VouchedStep ==
  ASSUME MissionTyped, Carried, Vouched, [MissionNext]_missionVars
  PROVE  Vouched'
<1>0. UnderWay <=> ~Ended
  BY TypedInParts
<1>1. CASE TryAgain \/ GoOn \/ SendBack \/ Deliver
  <2>1. /\ mission' = mission /\ state' = state /\ pipe'.part = pipe.part /\ UnderWay
        /\ \E ok \in BOOLEAN : Heard(ok)
    BY <1>1, TryAgainMoves, GoOnMoves, SendBackMoves, DeliverMoves DEF Heard
  <2>2. state.status # "completed"
    BY <1>0, <2>1 DEF Ended
  <2>3. CASE pipe.part = "monitor"
    <3>1. Worker # "validator"
      BY <2>1, <2>3, AuditorWorks
    <3>2. accepted' = accepted
      BY <2>1, <3>1 DEF Heard
    <3>3. QED
      BY <2>1, <2>2, <3>2 DEF Vouched, Audited
  <2>4. QED
    BY <2>1, <2>2, <2>3 DEF Vouched
<1>2. CASE Over(TRUE) \/ Over(FALSE)
  <2>1. PICK ok \in BOOLEAN : Over(ok)
    BY <1>2
  <2>2. Heard(ok) /\ mission' = mission /\ UnderWay
        /\ (Sentinel(ok) \/ Escalated(ok) \/ Completed(ok) \/ FailedMission)
    BY <2>1, Ends DEF Over, Heard
  <2>3. ASSUME ok, pipe.part \in {"primary", "escalation"}, Audited,
               state'.executionOutput = Latest(ResultsThen(ok), "executor", state.executionOutput)
        PROVE  accepted' # Nothing /\ state'.executionOutput = accepted'
    <3>1. \E e \in DOMAIN Stages : Stages[e] = "executor"
      <4>1. CASE pipe.part = "primary"
        BY <2>3, <4>1 DEF Stages, Audited, Has
      <4>2. CASE pipe.part = "escalation"
        <5>1. Stages = <<"planner", "executor", "validator">>
          BY <4>2 DEF Stages
        <5>2. 2 \in DOMAIN Stages /\ Stages[2] = "executor"
          BY <5>1
        <5>3. QED
          BY <5>2
      <4>3. QED
        BY <2>3, <4>1, <4>2
    <3>2. ok = TRUE
      BY <2>3
    <3>3. Over(TRUE) /\ state'.executionOutput = Latest(ResultsThen(TRUE), "executor", state.executionOutput)
      BY <2>1, <2>3, <3>2
    <3>4. QED
      BY <2>3, <3>1, <3>3, ThroughIsAccepted
  <2>4. Audited' <=> Audited
    BY <2>2 DEF Audited
  <2>5. CASE Sentinel(ok)
    BY <2>3, <2>4, <2>5 DEF Sentinel, Vouched
  <2>6. CASE Escalated(ok)
    BY <2>6 DEF Escalated, Vouched, Pipeline
  <2>7. CASE Completed(ok)
    <3>1. CASE pipe.part = "monitor" /\ state'.executionOutput = state.executionOutput
      <4>1. Worker # "validator"
        BY <2>2, <3>1, AuditorWorks
      <4>2. accepted' = accepted
        BY <2>2, <4>1 DEF Heard
      <4>3. QED
        BY <2>4, <3>1, <4>2 DEF Vouched
    <3>2. QED
      BY <2>3, <2>4, <2>7, <3>1 DEF Completed, Vouched
  <2>8. CASE FailedMission
    BY <2>8 DEF FailedMission, Vouched, NoPipeline, Pipeline
  <2>9. QED
    BY <2>2, <2>5, <2>6, <2>7, <2>8
<1>3. CASE Throws
  <2>1. state \in ShownRecord
    BY DEF MissionTyped
  <2>2. state'.status = "failed" /\ pipe'.part = "none"
    BY <1>3, <2>1 DEF Throws, Finish, ShownRecord, NoPipeline, Pipeline
  <2>3. QED
    BY <2>2 DEF Vouched
<1>4. CASE UNCHANGED <<mission, pipe, state, accepted>>
  BY <1>4 DEF Vouched, Audited
<1>5. CASE MissionNext
  BY <1>1, <1>2, <1>3, <1>4, <1>5, StepCases DEF StrayEnds
<1>6. QED
  BY <1>4, <1>5 DEF missionVars

\* Unless a monitor follows, the validator is the last of its list.
LEMMA ValidatorLast ==
  ASSUME NEW m \in Missions, m.stages # Full.stages, NEW part \in Parts \ {"none"},
         NEW i \in 1..Len(StagesOf(m, part)), StagesOf(m, part)[i] = "validator"
  PROVE  i = Len(StagesOf(m, part))
<1> DEFINE S == StagesOf(m, part)
<1>1. S \in {<<"planner", "executor", "validator">>, <<"executor", "validator">>,
              <<"monitor", "planner", "executor", "validator">>, <<"monitor">>}
  <2>1. m.stages \in StageLists
    BY MissionsAssumption
  <2>2. QED
    BY <2>1 DEF StagesOf, Parts, StageLists, Full, Review, ExecValidate, Repair, Monitor, Template
<1>2. S[i] = "validator" /\ i \in 1..Len(S)
  OBVIOUS
<1> HIDE DEF S
<1>3. i = Len(S)
  <2>1. CASE S = <<"planner", "executor", "validator">>
    BY <1>2, <2>1
  <2>2. CASE S = <<"executor", "validator">>
    BY <1>2, <2>2
  <2>3. CASE S = <<"monitor", "planner", "executor", "validator">>
    BY <1>2, <2>3
  <2>4. CASE S = <<"monitor">>
    BY <1>2, <2>4
  <2>5. QED
    BY <1>1, <2>1, <2>2, <2>3, <2>4
<1>4. QED
  BY <1>3 DEF S

LEMMA SettledStep ==
  ASSUME MissionTyped, Settled, [MissionNext]_missionVars
  PROVE  Settled'
<1>1. CASE TryAgain \/ GoOn \/ SendBack \/ Deliver
  <2>1. /\ mission' = mission /\ pipe'.part = pipe.part /\ UnderWay
    BY <1>1, TryAgainMoves, GoOnMoves, SendBackMoves, DeliverMoves DEF Heard
  <2>2. CASE accepted' = accepted
    BY <2>1, <2>2 DEF Settled
  <2>3. CASE accepted' # accepted
    <3>1. Worker = "validator" /\ ~ TryAgain /\ ~ SendBack
      BY <1>1, <2>3, TryAgainMoves, SendBackMoves, GoOnMoves, DeliverMoves DEF Heard
    <3>2. GoOn
      BY <1>1, <2>1, <3>1, AuditorWorks DEF Deliver
    <3>3. CASE mission.stages # Full.stages
      <4>1. /\ mission \in Missions /\ pipe.part \in Parts \ {"none"}
            /\ Stages = StagesOf(mission, pipe.part) /\ pipe.stage \in 1..Len(Stages)
            /\ Stages[pipe.stage] = "validator"
        BY <2>1, <3>1, PlaceOf, AuditorWorks DEF MissionTyped, MissionTypeOK, UnderWay
      <4>2. pipe.stage = Len(Stages)
        BY <3>3, <4>1, ValidatorLast
      <4>3. pipe.stage < Len(Stages) /\ Len(Stages) \in Nat
        BY <3>2, <2>1, PlaceOf, ListShape DEF GoOn
      <4>4. QED
        BY <4>2, <4>3
    <3>4. QED
      BY <2>1, <3>3 DEF Settled
  <2>4. QED
    BY <2>2, <2>3
<1>2. CASE Over(TRUE) \/ Over(FALSE)
  <2>1. PICK ok \in BOOLEAN : Over(ok)
    BY <1>2
  <2>2. Heard(ok) /\ mission' = mission /\ UnderWay
        /\ (Sentinel(ok) \/ Escalated(ok) \/ Completed(ok) \/ FailedMission)
    BY <2>1, Ends DEF Over, Heard
  <2>3. CASE Escalated(ok)
    <3>1. accepted' = accepted /\ pipe.part \in {"primary", "escalation"}
      BY <2>2, <2>3 DEF Escalated, Heard
    <3>2. QED
      BY <2>2, <3>1 DEF Settled
  <2>4. QED
    BY <2>2, <2>3 DEF Settled, Sentinel, Completed, FailedMission, NoPipeline, Pipeline
<1>3. CASE Throws
  BY <1>3 DEF Throws, Finish, Settled, NoPipeline, Pipeline
<1>4. CASE UNCHANGED <<mission, pipe, accepted>>
  BY <1>4 DEF Settled
<1>5. CASE MissionNext
  BY <1>1, <1>2, <1>3, <1>4, <1>5, StepCases DEF StrayEnds
<1>6. QED
  BY <1>4, <1>5 DEF missionVars

MissionInv == MissionTyped /\ Carried /\ Vouched /\ Unjudged /\ Settled

LEMMA MissionInvariance == MissionSpec => []MissionInv
<1>1. MissionInit => MissionInv
  <2> SUFFICES ASSUME MissionInit PROVE MissionInv
    OBVIOUS
  <2>1. MissionTyped
    BY MissionInitTyped
  <2>2. Fresh /\ pipe.part = "primary" /\ state.status # "completed" /\ accepted = Nothing
    BY InitFresh DEF MissionInit, Pipeline, Ended
  <2>3. UnderWay => PrecedingExecutor = 0 /\ pipe.stage = 1 /\ Stages[1] # "validator"
    BY <2>1, <2>2, NewBegins
  <2>4. QED
    BY <2>1, <2>2, <2>3 DEF MissionInv, Carried, Vouched, Unjudged, Settled
<1>2. MissionInv /\ [MissionNext]_missionVars => MissionInv'
  BY MissionTypeStep, CarriedStep, VouchedStep, UnjudgedStep, SettledStep DEF MissionInv
<1>3. QED
  BY <1>1, <1>2, PTL DEF MissionSpec

\* What a completed mission shows is the very output the auditor accepted last, through
\* any number of retries, rejections and rounds of escalation.
THEOREM WhatIsDeliveredWasAccepted == MissionSpec => []DeliveredWasAccepted
<1>1. MissionInv => DeliveredWasAccepted
  BY DEF MissionInv, Vouched, DeliveredWasAccepted
<1>2. QED
  BY <1>1, MissionInvariance, PTL

\* The auditor is never asked again about an output it has rejected, and accepted work is
\* not redone unless a sentinel comes after it.
THEOREM VerdictsAreKept == MissionSpec => []VerdictsHold
<1>1. ASSUME MissionInv PROVE JudgedOnce
  <2>1. UnderWay /\ Worker = "validator" =>
            ~pipe.rerun /\ Stages[pipe.stage] = "validator" /\ Input = pipe.prev
    BY <1>1, AuditorWorks DEF MissionInv
  <2>2. QED
    BY <1>1, <2>1 DEF MissionInv, Unjudged, JudgedOnce
<1>2. ASSUME MissionInv PROVE AcceptedNotRedone
  <2>1. SUFFICES ASSUME UnderWay, accepted # Nothing, mission.stages # Full.stages,
                        NEW i \in pipe.stage..Len(Stages)
                 PROVE  Stages[i] = "monitor"
    BY DEF AcceptedNotRedone
  <2>2. pipe.part = "monitor"
    BY <1>2, <2>1 DEF MissionInv, Settled, UnderWay
  <2>3. Stages = <<"monitor">> /\ pipe.stage \in 1..Len(Stages)
    BY <1>2, <2>1, <2>2, PlaceOf DEF MissionInv, Stages
  <2>4. i = 1
    BY <2>3
  <2>5. QED
    BY <2>3, <2>4
<1>3. MissionInv => VerdictsHold
  BY <1>1, <1>2 DEF VerdictsHold
<1>4. QED
  BY <1>3, MissionInvariance, PTL

-----------------------------------------------------------------------------
(* Work.  A pipeline lets an executor go as often as its stage may be      *)
(* attempted, once for each time it begins; what is left over is carried   *)
(* from one pipeline to the next.                                          *)

LEMMA Times ==
  ASSUME NEW p \in Nat, NEW k \in Nat
  PROVE  p * k \in Nat /\ p * (k + 1) = p * k + p /\ (k + 1) * p = k * p + p /\ k * p \in Nat
  OBVIOUS

LEMMA TimesMonotone ==
  ASSUME NEW p \in Nat, NEW k \in Nat, NEW n \in Nat, k <= n
  PROVE  p * k <= p * n
<1>1. PICK d \in Nat : n = k + d
  <2>1. n - k \in Nat /\ n = k + (n - k)
    OBVIOUS
  <2>2. QED
    BY <2>1
<1>2. p * n = p * k + p * d /\ p * d \in Nat /\ p * k \in Nat
  BY <1>1
<1>3. QED
  BY <1>2

PerStage == Retries["executor"] + 1
Square   == PerStage * PerStage

\* How often the executor has come to an end of its attempts.
Turns == pipe.rejections + IF PrecedingExecutor # 0 /\ ~pipe.rerun THEN 1 ELSE 0

\* The executors this pipeline can have left at work.
Spent == PerStage * Turns + IF Worker = "executor" THEN pipe.attempt ELSE 0

Rounds == IF Escalates(mission) THEN MaxEscalations(mission) ELSE 0

Spending ==
    /\ pipe.part \in {"primary", "escalation"} => strays <= Square * pipe.round + Spent
    /\ strays <= Square * (1 + Rounds)

LEMMA SquareNat == PerStage \in Nat /\ Square \in Nat
<1>1. PerStage \in Nat
  BY RoleRetriesAssumption DEF PerStage, Kinds
<1>2. QED
  BY <1>1, Times DEF Square

LEMMA SpentBounded ==
  MissionTyped /\ UnderWay =>
      /\ Turns \in Nat /\ pipe.attempt \in Nat /\ Spent \in Nat /\ Spent <= Square
      /\ Worker = "executor" => Spent + 1 <= Square
<1> SUFFICES ASSUME MissionTyped, UnderWay
             PROVE  /\ Turns \in Nat /\ pipe.attempt \in Nat /\ Spent \in Nat /\ Spent <= Square
                    /\ Worker = "executor" => Spent + 1 <= Square
  OBVIOUS
<1> DEFINE R == Retries["executor"]
<1>1. /\ R \in Nat /\ PerStage \in Nat /\ PerStage = R + 1 /\ Square = PerStage * PerStage
      /\ Square \in Nat
  BY SquareNat, RoleRetriesAssumption DEF PerStage, Square, Kinds
<1>2. pipe.rejections \in Nat /\ pipe.rejections <= R /\ pipe.attempt \in Nat
  BY PipeFields DEF MissionTyped, Placed
<1>3. Turns \in Nat /\ Turns <= R + 1
  BY <1>1, <1>2 DEF Turns
<1>4. CASE Worker = "executor"
  <2>1. ~pipe.rerun => PrecedingExecutor = 0
    BY <1>4, PlaceOf, PrecedingPlaced DEF Worker
  <2>2. Turns = pipe.rejections
    BY <1>2, <2>1 DEF Turns
  <2>3. pipe.attempt <= R
    BY <1>1, <1>4 DEF MissionTyped, MissionTypeOK
  <2>4. Spent = PerStage * Turns + pipe.attempt
    BY <1>4 DEF Spent
  <2>5. PerStage * Turns \in Nat /\ PerStage * (Turns + 1) = PerStage * Turns + PerStage
    BY <1>1, <1>3, Times
  <2>6. PerStage * (Turns + 1) <= PerStage * PerStage
    <3>1. Turns + 1 \in Nat /\ Turns + 1 <= PerStage
      BY <1>1, <1>2, <2>2
    <3>2. QED
      BY <1>1, <3>1, TimesMonotone
  <2> HIDE DEF R
  <2>7. QED
    BY <1>1, <1>2, <1>3, <2>3, <2>4, <2>5, <2>6
<1>5. CASE Worker # "executor"
  <2>1. PerStage * Turns \in Nat /\ PerStage * Turns <= PerStage * PerStage
    BY <1>1, <1>3, Times, TimesMonotone
  <2>2. Spent = PerStage * Turns
    BY <1>5, <2>1 DEF Spent
  <2>3. QED
    BY <1>1, <1>2, <1>3, <1>5, <2>1, <2>2
<1>6. QED
  BY <1>4, <1>5

LEMMA RoundsKept ==
  MissionTyped /\ pipe.part \in {"primary", "escalation"} =>
      /\ UnderWay /\ pipe.round \in Nat /\ Rounds \in Nat /\ pipe.round <= Rounds
      /\ Square * (pipe.round + 1) <= Square * (1 + Rounds)
      /\ Square * (pipe.round + 1) = Square * pipe.round + Square
      /\ Square * pipe.round \in Nat /\ strays \in Nat
<1> SUFFICES ASSUME MissionTyped, pipe.part \in {"primary", "escalation"}
             PROVE  /\ UnderWay /\ pipe.round \in Nat /\ Rounds \in Nat /\ pipe.round <= Rounds
                    /\ Square * (pipe.round + 1) <= Square * (1 + Rounds)
                    /\ Square * (pipe.round + 1) = Square * pipe.round + Square
                    /\ Square * pipe.round \in Nat /\ strays \in Nat
  OBVIOUS
<1>1. UnderWay /\ pipe.round \in Nat /\ strays \in Nat
  BY PipeFields DEF MissionTyped, MissionTypeOK, UnderWay
<1>2. MaxEscalations(mission) \in Nat \ {0}
  BY RoundsAllowed DEF MissionTyped, MissionTypeOK
<1>3. Rounds \in Nat /\ pipe.round <= Rounds
  BY <1>1, <1>2 DEF MissionTyped, Placed, Rounds
<1>4. pipe.round + 1 <= 1 + Rounds /\ pipe.round + 1 \in Nat /\ 1 + Rounds \in Nat
  BY <1>1, <1>3
<1>5. QED
  BY <1>1, <1>3, <1>4, SquareNat, Times, TimesMonotone

\* The second half of Spending follows from the first while an executor may work.
LEMMA SpendingWhole ==
  /\ MissionTyped /\ pipe.part \in {"primary", "escalation"}
  /\ strays <= Square * pipe.round + Spent
  => Spending
<1> SUFFICES ASSUME MissionTyped, pipe.part \in {"primary", "escalation"},
                    strays <= Square * pipe.round + Spent
             PROVE  Spending
  OBVIOUS
<1>1. Spent \in Nat /\ Spent <= Square
  BY RoundsKept, SpentBounded
<1>2. strays <= Square * (pipe.round + 1)
  BY <1>1, RoundsKept, SquareNat
<1>3. strays <= Square * (1 + Rounds)
  <2>1. Square * (1 + Rounds) \in Nat /\ Square * (pipe.round + 1) \in Nat
    <3>1. 1 + Rounds \in Nat /\ pipe.round + 1 \in Nat
      BY RoundsKept
    <3>2. QED
      BY <3>1, SquareNat, Times
  <2>2. QED
    BY <1>2, <2>1, RoundsKept
<1>4. QED
  BY <1>3 DEF Spending

\* A move within a pipeline: what it leaves at work, it has spent.
LEMMA MovesSpend ==
  ASSUME MissionTyped, Spending, TryAgain \/ GoOn \/ SendBack \/ Deliver
  PROVE  Spending'
<1>1. /\ mission' = mission /\ pipe'.part = pipe.part /\ pipe'.round = pipe.round /\ UnderWay
      /\ MissionTyped' /\ UnderWay'
  BY TryAgainMoves, GoOnMoves, SendBackMoves, DeliverMoves, MovedPlace DEF Heard
<1>2. /\ Turns \in Nat /\ pipe.attempt \in Nat /\ strays \in Nat /\ PerStage \in Nat
      /\ pipe.rejections \in Nat
  BY <1>1, SpentBounded, SquareNat, PipeFields DEF MissionTyped, MissionTypeOK
<1>3. /\ PerStage * Turns \in Nat /\ PerStage * (Turns + 1) = PerStage * Turns + PerStage
  BY <1>2, Times
<1>4. strays' \in Nat /\ PerStage' = PerStage /\ Square' = Square /\ Rounds' = Rounds
  BY <1>1 DEF MissionTyped, MissionTypeOK, PerStage, Square, Rounds, Escalates, MaxEscalations, Has
<1>5. strays' + Spent <= strays + Spent' /\ Spent \in Nat /\ Spent' \in Nat
  <2>0. Spent \in Nat /\ Spent' \in Nat
    <3>1. (MissionTyped /\ UnderWay)' => (Spent \in Nat)'
      BY SpentBounded, PTL
    <3>2. QED
      BY <1>1, <3>1, SpentBounded
  <2>1. CASE TryAgain
    <3>1. /\ PrecedingExecutor' = PrecedingExecutor /\ Worker' = Worker
          /\ pipe'.rerun = pipe.rerun /\ pipe'.rejections = pipe.rejections
          /\ pipe'.attempt = pipe.attempt + 1
          /\ strays' = strays \/ (Worker = "executor" /\ strays' = strays + 1)
      BY <1>1, <2>1, TryAgainMoves, MovedPlace DEF Heard
    <3>2. Turns' = Turns
      BY <3>1 DEF Turns
    <3>3. QED
      BY <1>2, <1>3, <1>4, <2>0, <3>1, <3>2 DEF Spent
  <2>2. CASE GoOn
    <3>1. /\ ~pipe.rerun /\ ~pipe'.rerun /\ pipe'.rejections = pipe.rejections
          /\ pipe'.attempt = 0 /\ strays' = strays /\ pipe'.stage = pipe.stage + 1
      BY <2>2, GoOnMoves DEF Heard
    <3>2. /\ Stages \in StageLists /\ pipe.stage \in 1..Len(Stages)
          /\ PrecedingExecutor = PrecedingIn(Stages, pipe.stage)
          /\ PrecedingExecutor' = PrecedingIn(Stages, pipe.stage + 1)
          /\ pipe.stage + 1 \in 1..Len(Stages) /\ Len(Stages) \in 1..4
          /\ Worker = Stages[pipe.stage]
      BY <1>1, <3>1, MovedPlace, ListShape
    <3>3. CASE Worker = "executor"
      <4>1. PrecedingExecutor = 0
        BY <3>2, <3>3, PrecedingPlaced
      <4>2. PrecedingExecutor' # 0
        <5>1. pipe.stage \in 1..(pipe.stage + 1 - 1)
          BY <3>2
        <5>2. PrecedingIn(Stages, pipe.stage + 1) = 0 =>
                \A j \in 1..(pipe.stage + 1 - 1) : Stages[j] # "executor"
          BY <3>2, PrecedingFound
        <5>3. QED
          BY <3>2, <3>3, <5>1, <5>2
      <4>3. Turns' = Turns + 1
        BY <1>2, <3>1, <4>1, <4>2 DEF Turns
      <4>4. Spent = PerStage * Turns + pipe.attempt
        BY <3>3 DEF Spent
      <4>5. Spent' = PerStage * (Turns + 1) + 0
        BY <1>2, <1>4, <3>1, <4>3 DEF Spent
      <4>6. pipe.attempt <= PerStage
        BY <1>1, <3>3, RoleRetriesAssumption DEF MissionTyped, MissionTypeOK, PerStage, Kinds
      <4>7. QED
        BY <1>2, <1>3, <2>0, <3>1, <4>4, <4>5, <4>6
    <3>4. CASE Worker # "executor"
      <4>1. PrecedingExecutor' = PrecedingExecutor
        BY <3>2, <3>4, PrecedingPlaced
      <4>2. Turns' = Turns
        BY <3>1, <4>1 DEF Turns
      <4>3. QED
        BY <1>2, <1>3, <1>4, <2>0, <3>1, <3>4, <4>2 DEF Spent
    <3>5. QED
      BY <3>3, <3>4
  <2>3. CASE SendBack
    <3>1. /\ Worker = "validator" /\ ~pipe.rerun /\ PrecedingExecutor # 0 /\ strays' = strays
          /\ pipe'.rerun /\ pipe'.rejections = pipe.rejections + 1 /\ pipe'.attempt = 0
      BY <1>1, <2>3, SendBackMoves, AuditorWorks DEF Heard
    <3>2. Turns' = Turns
      BY <1>2, <3>1 DEF Turns
    <3>3. QED
      BY <1>2, <1>3, <1>4, <2>0, <3>1, <3>2 DEF Spent
  <2>4. CASE Deliver
    <3>1. /\ pipe.rerun /\ ~pipe'.rerun /\ pipe'.rejections = pipe.rejections
          /\ pipe'.attempt = 0 /\ strays' = strays /\ pipe'.stage = pipe.stage
      BY <2>4, DeliverMoves DEF Heard
    <3>2. PrecedingExecutor' # 0 /\ Worker = "executor" /\ Worker' = "validator"
      <4>1. /\ Stages \in StageLists /\ pipe.stage \in 1..Len(Stages)
            /\ Stages[pipe.stage] = "validator"
            /\ PrecedingExecutor' = PrecedingIn(Stages, pipe.stage)
            /\ Worker' = Stages[pipe.stage] /\ Worker = "executor"
        BY <1>1, <3>1, MovedPlace
      <4>2. PrecedingIn(Stages, pipe.stage) = pipe.stage - 1 /\ pipe.stage > 1 /\ Len(Stages) \in 1..4
        BY <4>1, PrecedingPlaced, ListShape
      <4>3. QED
        BY <4>1, <4>2
    <3>3. Turns' = Turns + 1
      BY <1>2, <3>1, <3>2 DEF Turns
    <3>4. Spent = PerStage * Turns + pipe.attempt
      BY <3>2 DEF Spent
    <3>5. Spent' = PerStage * (Turns + 1) + 0
      BY <1>2, <1>4, <3>1, <3>2, <3>3 DEF Spent
    <3>6. pipe.attempt <= PerStage
      BY <1>1, <3>2, RoleRetriesAssumption DEF MissionTyped, MissionTypeOK, PerStage, Kinds
    <3>7. QED
      BY <1>2, <1>3, <2>0, <3>1, <3>4, <3>5, <3>6
  <2>5. QED
    BY <2>1, <2>2, <2>3, <2>4
<1>6. CASE pipe.part \in {"primary", "escalation"}
  <2>1. strays <= Square * pipe.round + Spent /\ Square * pipe.round \in Nat
    BY <1>6, RoundsKept DEF Spending
  <2>2. strays' <= Square * pipe.round + Spent'
    <3>1. \A past, a, b, c, d \in Nat : a <= past + b /\ c + b <= a + d => c <= past + d
      OBVIOUS
    <3>2. QED
      BY <1>2, <1>4, <1>5, <2>1, <3>1, Zenon
  <2>3. (MissionTyped /\ pipe.part \in {"primary", "escalation"}
           /\ strays <= Square * pipe.round + Spent)'
    BY <1>1, <1>4, <1>6, <2>2
  <2>4. QED
    BY <2>3, SpendingWhole, PTL
<1>7. CASE pipe.part \notin {"primary", "escalation"}
  <2>1. pipe.part = "monitor"
    BY <1>1, <1>7 DEF MissionTyped, MissionTypeOK, UnderWay, Parts
  <2>2. Worker # "executor"
    <3>1. Stages = <<"monitor">> /\ pipe.stage \in 1..Len(Stages)
      BY <1>1, <2>1, PlaceOf DEF Stages
    <3>2. Stages[pipe.stage] = "monitor" /\ ~pipe.rerun
      BY <1>1, <3>1, MovedPlace
    <3>3. QED
      BY <3>2 DEF Worker
  <2>3. strays' = strays
    BY <2>2, TryAgainMoves, GoOnMoves, SendBackMoves, DeliverMoves DEF Heard
  <2>4. QED
    BY <1>1, <1>4, <1>7, <2>3 DEF Spending
<1>8. QED
  BY <1>6, <1>7

\* What a pipeline leaves at work when it ends, a pipeline can have left at most.
LEMMA EndSpends ==
  ASSUME MissionTyped, Spending, NEW ok \in BOOLEAN, Over(ok)
  PROVE  Spending'
<1>1. /\ Heard(ok) /\ mission' = mission /\ UnderWay /\ MissionTyped' /\ Fresh'
      /\ (Sentinel(ok) \/ Escalated(ok) \/ Completed(ok) \/ FailedMission)
  <2>1. PipelineEnds
    <3>1. ok = TRUE \/ ok = FALSE
      OBVIOUS
    <3>2. QED
      BY <3>1 DEF PipelineEnds
  <2>2. QED
    BY <2>1, Ends, EndTyped DEF Over, Heard
<1>2. strays \in Nat /\ strays' \in Nat /\ Square' = Square /\ Rounds' = Rounds
  BY <1>1 DEF MissionTyped, MissionTypeOK, PerStage, Square, Rounds, Escalates, MaxEscalations, Has
<1>3. CASE pipe.part \in {"primary", "escalation"}
  <2>1. strays <= Square * pipe.round + Spent
    BY <1>3 DEF Spending
  <2>2. Spent \in Nat /\ Spent <= Square /\ (Worker = "executor" => Spent + 1 <= Square)
    BY <1>1, SpentBounded
  <2>3. strays' = strays \/ (Worker = "executor" /\ strays' = strays + 1)
    BY <1>1 DEF Heard
  <2>4. strays' <= Square * (pipe.round + 1)
    BY <1>2, <1>3, <2>1, <2>2, <2>3, RoundsKept, SquareNat
  <2>5. strays' <= Square * (1 + Rounds)
    <3>1. 1 + Rounds \in Nat /\ pipe.round + 1 \in Nat
      BY <1>3, RoundsKept
    <3>2. Square * (1 + Rounds) \in Nat /\ Square * (pipe.round + 1) \in Nat
      BY <3>1, SquareNat, Times
    <3>3. QED
      BY <1>2, <1>3, <2>4, <3>2, RoundsKept
  <2>6. CASE Escalated(ok)
    <3>1. pipe'.part = "escalation" /\ pipe'.round = pipe.round + 1
      BY <2>6 DEF Escalated, Pipeline
    <3>2. (MissionTyped /\ UnderWay)' => (Spent \in Nat)'
      BY SpentBounded, PTL
    <3>3. UnderWay'
      BY <3>1 DEF UnderWay
    <3>4. Spent' \in Nat /\ pipe.round + 1 \in Nat
      BY <1>1, <1>3, <3>2, <3>3, RoundsKept
    <3>5. Square * (pipe.round + 1) \in Nat
      BY <3>4, SquareNat, Times
    <3>6. strays' <= Square' * pipe'.round + Spent'
      BY <1>2, <2>4, <3>1, <3>4, <3>5
    <3>7. QED
      BY <1>2, <2>5, <3>6 DEF Spending
  <2>7. CASE ~Escalated(ok)
    <3>1. pipe'.part \in {"monitor", "none"}
      BY <1>1, <2>7 DEF Sentinel, Completed, FailedMission, NoPipeline, Pipeline
    <3>2. QED
      BY <1>2, <2>5, <3>1 DEF Spending
  <2>8. QED
    BY <2>6, <2>7
<1>4. CASE pipe.part \notin {"primary", "escalation"}
  <2>1. pipe.part = "monitor"
    BY <1>1, <1>4 DEF MissionTyped, MissionTypeOK, UnderWay, Parts
  <2>2. Worker # "executor"
    <3>1. Stages = <<"monitor">> /\ pipe.stage \in 1..Len(Stages)
      BY <1>1, <2>1, PlaceOf DEF Stages
    <3>2. pipe.rerun => Stages[pipe.stage] = "validator"
      BY <1>1 DEF MissionTyped, MissionTypeOK
    <3>3. QED
      BY <3>1, <3>2 DEF Worker
  <2>3. strays' = strays /\ pipe'.part \in {"monitor", "none"}
    BY <1>1, <2>1, <2>2 DEF Heard, Sentinel, Escalated, Completed, FailedMission, NoPipeline, Pipeline
  <2>4. QED
    BY <1>2, <2>3 DEF Spending
<1>5. QED
  BY <1>3, <1>4

LEMMA SpendingStep ==
  ASSUME MissionTyped, Spending, [MissionNext]_missionVars
  PROVE  Spending'
<1>1. CASE UNCHANGED <<mission, pipe>> /\ strays' \in Nat /\ strays' <= strays
  <2>1. UNCHANGED <<Spent, Rounds, Square>>
    BY <1>1 DEF Spent, Turns, PerStage, Square, Rounds, Worker, Stages, PrecedingExecutor, Escalates,
       MaxEscalations, Has
  <2>2. strays \in Nat /\ Square \in Nat
    BY SquareNat DEF MissionTyped, MissionTypeOK
  <2>3. strays' <= Square * (1 + Rounds)
    <3>1. Rounds \in Nat
      BY RoundsAllowed DEF MissionTyped, MissionTypeOK, Rounds
    <3>2. 1 + Rounds \in Nat
      BY <3>1
    <3>3. Square * (1 + Rounds) \in Nat
      BY <2>2, <3>2, Times
    <3>4. QED
      BY <1>1, <2>2, <3>3 DEF Spending
  <2>4. pipe.part \in {"primary", "escalation"} => strays' <= Square * pipe.round + Spent
    <3>1. SUFFICES ASSUME pipe.part \in {"primary", "escalation"}
                   PROVE  strays' <= Square * pipe.round + Spent
      OBVIOUS
    <3>2. Square * pipe.round \in Nat /\ Spent \in Nat
      BY <3>1, RoundsKept, SpentBounded
    <3>3. QED
      BY <1>1, <2>2, <3>1, <3>2 DEF Spending
  <2>5. QED
    BY <1>1, <2>1, <2>3, <2>4 DEF Spending
<1>2. CASE Throws
  <2>1. strays' = strays /\ Rounds' = Rounds /\ Square' = Square /\ pipe'.part = "none"
    BY <1>2 DEF Throws, Finish, NoPipeline, Pipeline, Rounds, Square, PerStage, Escalates,
       MaxEscalations, Has
  <2>2. QED
    BY <2>1 DEF Spending
<1>3. CASE StrayEnds
  BY <1>1, <1>3 DEF StrayEnds, MissionTyped, MissionTypeOK
<1>4. CASE UNCHANGED missionVars
  BY <1>1, <1>4 DEF missionVars, MissionTyped, MissionTypeOK
<1>5. CASE MissionNext
  BY <1>2, <1>3, <1>5, StepCases, MovesSpend, EndSpends
<1>6. QED
  BY <1>4, <1>5

\* However slow they are, the executors of one mission at work at one time are bounded by
\* the attempts of a stage, times the rejections, times the pipelines: the bound of the code,
\* which does not read the maxOperatorRetries of a mission.
THEOREM WorkIsBounded == MissionSpec => []WorkBounded
<1>1. MissionInit => Spending
  <2> SUFFICES ASSUME MissionInit PROVE Spending
    OBVIOUS
  <2>1. strays = 0 /\ MissionTyped /\ pipe.part = "primary" /\ pipe.round = 0
    BY MissionInitTyped DEF MissionInit, Pipeline
  <2>2. Spent \in Nat /\ Square * pipe.round \in Nat
    BY <2>1, RoundsKept, SpentBounded
  <2>3. strays <= Square * pipe.round + Spent
    BY <2>1, <2>2
  <2>4. QED
    BY <2>1, <2>3, SpendingWhole
<1>2. MissionTyped /\ Spending /\ [MissionNext]_missionVars => Spending'
  BY SpendingStep
<1>3. Spending => WorkBounded
  BY DEF Spending, WorkBounded, Square, PerStage, Rounds
<1>4. MissionTyped /\ [MissionNext]_missionVars => MissionTyped'
  BY MissionTypeStep
<1>5. QED
  BY <1>1, <1>2, <1>3, <1>4, MissionInitTyped, PTL DEF MissionSpec

-----------------------------------------------------------------------------
(* What Hermes sees of a mission is what MissionControl implements.        *)

\* The outcome of the kth mission, as Hermes and its repairs see it.
Seen(k) == IF k \in DOMAIN runs THEN runs[k].outcome ELSE "open"

Told(k) == INSTANCE MissionOutcome WITH outcome <- Seen(k)

LEMMA SeenKept ==
  ASSUME NEW k \in Nat, \/ runs' = runs
                        \/ /\ DOMAIN runs' = DOMAIN runs
                           /\ k \in DOMAIN runs => runs'[k].outcome = runs[k].outcome
  PROVE  Seen(k)' = Seen(k)
  BY DEF Seen

\* A mission that begins is open, as it was before it began.
LEMMA SeenFirst ==
  ASSUME TypeOK, NEW k \in Nat, NEW by \in Alerts \cup {Schedule}, Trigger(by)
  PROVE  Seen(k)' = Seen(k)
<1>1. CASE k \in DOMAIN runs
  BY <1>1, TriggerAppends DEF Seen
<1>2. CASE k = Len(runs) + 1
  BY <1>2, TriggerAppends DEF Seen
<1>3. CASE k \notin DOMAIN runs /\ k # Len(runs) + 1
  BY <1>3, TriggerAppends DEF Seen
<1>4. QED
  BY <1>1, <1>2, <1>3

\* A step of a mission ends it, if it was open, or leaves its outcome.
LEMMA SeenEnds ==
  ASSUME TypeOK, NEW k \in Nat, NEW j \in DOMAIN runs, RunStep(j)
  PROVE  Told(k)!End \/ Seen(k)' = Seen(k)
<1>1. runs[j] \in RunRecord
  BY ElementOfSeq, LenProperties DEF TypeOK
<1>2. CASE MissionEnds(j)
  <2>1. PICK o \in {"completed", "failed"} :
           runs' = [runs EXCEPT ![j].at = "update", ![j].outcome = o]
    BY <1>2 DEF MissionEnds
  <2> DEFINE r == [runs[j] EXCEPT !.at = "update", !.outcome = o]
  <2>2. r \in RunRecord /\ r.outcome = o /\ runs' = [runs EXCEPT ![j] = r]
    BY <1>1, <2>1 DEF RunRecord
  <2>3. runs[j].outcome = "open"
    BY <1>1, <1>2 DEF MissionEnds, RunRecord
  <2> HIDE DEF r
  <2>4. DOMAIN runs' = DOMAIN runs /\ runs'[j] = r /\ \A i \in DOMAIN runs : i # j => runs'[i] = runs[i]
    BY <2>2, RunChanged
  <2>5. CASE k = j
    BY <2>2, <2>3, <2>4, <2>5 DEF Seen, Told!End
  <2>6. CASE k # j
    BY <2>4, <2>6 DEF Seen
  <2>7. QED
    BY <2>5, <2>6
<1>3. CASE UpdateMissionRunStatus(j)
  <2> DEFINE r == [runs[j] EXCEPT !.at = "back"]
  <2>1. r \in RunRecord /\ r.outcome = runs[j].outcome /\ runs' = [runs EXCEPT ![j] = r]
    BY <1>1, <1>3 DEF UpdateMissionRunStatus, RunRecord
  <2> HIDE DEF r
  <2>2. DOMAIN runs' = DOMAIN runs /\ runs'[j] = r /\ \A i \in DOMAIN runs : i # j => runs'[i] = runs[i]
    BY <2>1, RunChanged
  <2>3. QED
    BY <2>1, <2>2, SeenKept
<1>4. QED
  BY <1>2, <1>3 DEF RunStep

LEMMA SeenStep ==
  ASSUME TypeOK, NEW k \in Nat, [Next]_vars
  PROVE  Told(k)!End \/ Seen(k)' = Seen(k)
<1>1. CASE TriggerFromSchedule
  BY <1>1, SeenFirst DEF TriggerFromSchedule
<1>2. CASE Die
  <2>1. \A i \in DOMAIN runs : runs[i] \in RunRecord
    BY ElementOfSeq, LenProperties DEF TypeOK
  <2>2. DOMAIN runs' = DOMAIN runs /\ \A i \in DOMAIN runs : runs'[i].outcome = runs[i].outcome
    BY <1>2, <2>1 DEF Die, RunRecord
  <2>3. QED
    BY <2>2, SeenKept
<1>3. CASE StopHermes \/ StartHermes \/ UNCHANGED vars
  BY <1>3, SeenKept DEF StopHermes, StartHermes, vars
<1>4. CASE \E j \in DOMAIN runs : RunStep(j)
  BY <1>4, SeenEnds
<1>5. ASSUME NEW p \in Polls, RetryMission(p) PROVE Seen(k)' = Seen(k)
  <2>1. poll[p].alert \in Alerts
    BY <1>5 DEF RetryMission, TypeOK, PollsTyped, Working
  <2>2. QED
    BY <1>5, <2>1, SeenFirst DEF RetryMission
<1>6. ASSUME NEW p \in Polls,
             Ask(p) \/ Answer(p) \/ NoAnswer(p) \/ BeginRepair(p) \/ NoMission(p) \/ Retried(p) \/ GiveUp(p)
      PROVE  Seen(k)' = Seen(k)
  BY <1>6, SeenKept DEF Ask, Answer, NoAnswer, BeginRepair, NoMission, Retried, GiveUp
<1>7. QED
  BY <1>1, <1>2, <1>3, <1>4, <1>5, <1>6 DEF Next, RepairStep

\* Hermes sees of each mission what MissionOutcome promises: one end, which stays
\* whatever happens around it (mission-db-hooks.ts, hermes-repair-engine.ts:177-221).
THEOREM HermesSeesOneEnd == ASSUME NEW k \in Nat PROVE Spec => Told(k)!OneEnd
<1>1. Init => Told(k)!Init
  BY DEF Init, Seen, Told!Init
<1>2. TypeOK /\ [Next]_vars => [Told(k)!End]_(Seen(k))
  BY SeenStep
<1>3. QED
  BY <1>1, <1>2, TypeCorrect, PTL DEF Spec, Told!OneEnd
=============================================================================
