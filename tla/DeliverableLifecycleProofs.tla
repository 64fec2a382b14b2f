---------------------- MODULE DeliverableLifecycleProofs ----------------------
(***************************************************************************)
(* What TLAPS proves of DeliverableLifecycle: for any number of operators  *)
(* and deliverables, saves that fail and processes that die included, the  *)
(* rename admits one mover, the output file stays at its record or one     *)
(* root ahead, no stale save lands on a later one, and nothing lies in the *)
(* published root unapproved.                                              *)
(***************************************************************************)
EXTENDS DeliverableLifecycle, TLAPS

LEMMA ContentsDiffer ==
  /\ Missing \notin Records /\ Empty \notin Records /\ Torn \notin Records
  /\ Missing # Empty /\ Missing # Torn /\ Empty # Torn
<1>1. /\ Missing.status \notin Statuses /\ Empty.status \notin Statuses /\ Torn.status \notin Statuses
      /\ Missing.status # Empty.status /\ Missing.status # Torn.status
      /\ Empty.status # Torn.status
  BY DEF Missing, Empty, Torn, Statuses, Roots
<1>2. \A record \in Records : record.status \in Statuses
  BY DEF Records
<1>3. QED
  BY <1>1, <1>2

LEMMA NoCallIsNone == NoCall \notin Calls /\ NoCall.on = "none" /\ NoCall.act = "none"
<1>1. NoCall.on = "none" /\ NoCall.act = "none"
  BY DEF NoCall
<1>2. \A c \in Calls : c.act # "none"
  BY DEF Calls
<1>3. QED
  BY <1>1, <1>2

LEMMA Built ==
  /\ \A d \in Deliverables, status \in {"draft", "failed"} : Draft(d, status) \in Records
  /\ \A record \in Records : Published(record) \in Records
  /\ \A record \in Records, act \in DOMAIN nextStatus : Transitioned(record, act) \in Records
<1>1. DOMAIN nextStatus = {"submit", "approve", "publish"}
      /\ \A act \in DOMAIN nextStatus : nextStatus[act] \in Roots
  BY DEF nextStatus, Roots
<1>2. \A d \in Deliverables, status \in {"draft", "failed"} : Draft(d, status) \in Records
  BY DEF Draft, Records, Statuses, Roots
<1>3. \A record \in Records : Published(record) \in Records
  BY DEF Published, Records, Statuses, Roots
<1>4. \A record \in Records, act \in DOMAIN nextStatus : Transitioned(record, act) \in Records
  BY <1>1 DEF Transitioned, Records, Statuses
<1>5. QED
  BY <1>2, <1>3, <1>4

\* What a step of one call keeps of the types.
CallTyped ==
  /\ call' \in [Requests -> Calls \cup {NoCall}]
  /\ pc' \in [Requests -> Places]
  /\ held' \in [Requests -> Records \cup {Missing}]
  /\ \A r \in Requests : call'[r] = NoCall <=> pc'[r] = "idle"

\* Which calls stand where, and on what: a publishing of a run is of a run's
\* deliverable.
Routes ==
  \A r \in Requests :
    /\ pc[r] \in {"read", "move", "reread"} => call[r].act \in DOMAIN nextStatus
    /\ pc[r] = "look" => call[r].act = "publish"
    /\ pc[r] \in {"load", "mark", "execute", "find", "update"} => On(r) \in OfRun
    /\ call[r].act = "publish_run" => On(r) \in OfRun
    /\ pc[r] = "move" => held[r] \in Records
    /\ pc[r] \in {"save", "write"} => held[r] \in Records

TypeInv == TypeOK /\ Routes

\* A call may stand at l.
Fits(r, l) ==
  /\ l \in {"read", "move", "reread"} => call[r].act \in DOMAIN nextStatus
  /\ l = "look" => call[r].act = "publish"
  /\ l \in {"load", "mark", "execute", "find", "update"} => On(r) \in OfRun

LEMMA PassKeeps ==
  ASSUME TypeInv, NEW r \in Requests, pc[r] # "idle",
         NEW l \in Places \ {"idle"}, Pass(r, l), Fits(r, l),
         l \in {"move", "save", "write"} => held[r] \in Records
  PROVE  CallTyped /\ Routes'
<1>1. CallTyped
  BY DEF TypeInv, TypeOK, Pass, Goto, CallTyped
<1>2. Routes'
  BY DEF TypeInv, TypeOK, Pass, Goto, Routes, Fits, On
<1>3. QED
  BY <1>1, <1>2

LEMMA EndKeeps ==
  ASSUME TypeInv, NEW r \in Requests, End(r)
  PROVE  CallTyped /\ Routes'
<1>1. CallTyped
  BY DEF TypeInv, TypeOK, End, Goto, CallTyped, Places
<1>2. Routes'
  BY NoCallIsNone DEF TypeInv, TypeOK, End, Goto, Routes, On
<1>3. QED
  BY <1>1, <1>2

LEMMA HoldKeeps ==
  ASSUME TypeInv, NEW r \in Requests, pc[r] # "idle",
         NEW l \in Places \ {"idle"}, Goto(r, l), UNCHANGED call, Fits(r, l),
         NEW record \in Records, held' = [held EXCEPT ![r] = record]
  PROVE  CallTyped /\ Routes'
<1>1. CallTyped
  BY DEF TypeInv, TypeOK, Goto, CallTyped
<1>2. Routes'
  BY DEF TypeInv, TypeOK, Goto, Routes, Fits, On
<1>3. QED
  BY <1>1, <1>2

LEMMA TypeStep ==
  ASSUME TypeInv, [Next]_vars
  PROVE  TypeInv'
<1>0. TypeOK /\ Routes
  BY DEF TypeInv
<1>n. DOMAIN nextStatus = {"submit", "approve", "publish"}
      /\ \A act \in DOMAIN nextStatus : nextStatus[act] \in Roots
  BY DEF nextStatus, Roots
<1>o. \A r \in Requests : pc[r] # "idle" => call[r] \in Calls /\ On(r) \in Deliverables
  BY <1>0 DEF TypeOK, Calls, On
<1>r. \A r \in Requests : RegistryReadable /\ Readable(On(r)) => registry[On(r)] \in Records
  BY DEF Readable
<1>k. /\ registry' \in [Deliverables -> Records \cup {Missing, Empty, Torn}]
      /\ artifact' \in [Deliverables -> Roots \cup {"none"}]
      /\ run' \in [Deliverables -> {"none", "pending_approval", "approved", "executed", "failed"}]
      /\ UNCHANGED <<calls, deaths, cut>>
      /\ CallTyped /\ Routes'
      => TypeInv'
  BY <1>0 DEF TypeInv, TypeOK, CallTyped
<1>u. /\ registry \in [Deliverables -> Records \cup {Missing, Empty, Torn}]
      /\ artifact \in [Deliverables -> Roots \cup {"none"}]
      /\ run \in [Deliverables -> {"none", "pending_approval", "approved", "executed", "failed"}]
  BY <1>0 DEF TypeOK
<1>1. ASSUME NEW r \in Requests, NEW d \in Deliverables,
             NEW act \in {"submit", "approve", "publish", "publish_run"}, Begin(r, d, act)
      PROVE  TypeInv'
  <2>1. [act |-> act, on |-> d] \in Calls /\ [act |-> act, on |-> d] # NoCall
    BY NoCallIsNone DEF Calls
  <2>2. TypeOK'
    BY <1>0, <1>1, <2>1 DEF Begin, Goto, TypeOK, Places
  <2>3. Routes'
    BY <1>0, <1>1, <1>n DEF Begin, Goto, TypeOK, Routes, On
  <2>4. QED
    BY <2>2, <2>3 DEF TypeInv
<1>2. ASSUME NEW r \in Requests, NEW d \in Deliverables, NEW submits \in BOOLEAN,
             recordAssistantResult(r, d, submits)
      PROVE  TypeInv'
  <2> DEFINE c == [act |-> IF submits THEN "record_submit" ELSE "record", on |-> d]
             s == IF run[d] = "failed" THEN "failed" ELSE "draft"
  <2>1. c \in Calls /\ c # NoCall /\ c.on = d /\ c.act \in {"record", "record_submit"}
    BY NoCallIsNone DEF Calls
  <2>2. Draft(d, s) \in Records
    BY Built
  <2> HIDE DEF c, s
  <2>3. /\ call' = [call EXCEPT ![r] = c] /\ held' = [held EXCEPT ![r] = Draft(d, s)]
        /\ pc' = [pc EXCEPT ![r] = "save"]
        /\ UNCHANGED <<registry, run, deaths, cut>> /\ calls' = calls + 1
        /\ artifact' \in [Deliverables -> Roots \cup {"none"}]
    BY <1>2, <1>0 DEF recordAssistantResult, Goto, c, s, TypeOK, Roots
  <2>4. TypeOK'
    BY <1>0, <2>1, <2>2, <2>3 DEF TypeOK, Places
  <2>5. Routes'
    BY <1>0, <2>1, <2>2, <2>3 DEF TypeOK, Routes, On
  <2>6. QED
    BY <2>4, <2>5 DEF TypeInv
<1>3. ASSUME NEW r \in Requests, publishDeliverable(r)
      PROVE  TypeInv'
  <2>1. CASE Pass(r, "load") /\ On(r) \in OfRun
    BY <1>3, <2>1, PassKeeps, <1>k, <1>u DEF publishDeliverable, Places, Fits
  <2>2. CASE Pass(r, "read")
    BY <1>0, <1>3, <1>n, <2>2, PassKeeps, <1>k, <1>u DEF publishDeliverable, Places, Fits, Routes
  <2>3. CASE End(r)
    BY <1>3, <2>3, EndKeeps, <1>k, <1>u DEF publishDeliverable
  <2>4. QED
    BY <1>3, <2>1, <2>2, <2>3 DEF publishDeliverable
<1>4. ASSUME NEW r \in Requests, ReadRecord(r)
      PROVE  TypeInv'
  <2>1. CASE MayTransition(r)
    BY <1>0, <1>3, <1>4, <2>1, HoldKeeps, <1>k, <1>u, <1>r
       DEF ReadRecord, MayTransition, Places, Fits, Routes
  <2>2. CASE End(r)
    BY <1>4, <2>2, EndKeeps, <1>k, <1>u DEF ReadRecord
  <2>3. QED
    BY <1>4, <2>1, <2>2 DEF ReadRecord
<1>5. ASSUME NEW r \in Requests, moveOutputArtifacts(r)
      PROVE  TypeInv'
  <2>1. artifact' \in [Deliverables -> Roots \cup {"none"}]
    BY <1>0, <1>n, <1>5 DEF moveOutputArtifacts, TypeOK, Routes
  <2>2. CASE Pass(r, "reread")
    BY <1>0, <1>5, <2>1, <2>2, PassKeeps, <1>k, <1>u DEF moveOutputArtifacts, Places, Fits, Routes
  <2>3. CASE End(r)
    BY <1>5, <2>1, <2>3, EndKeeps, <1>k, <1>u DEF moveOutputArtifacts
  <2>4. QED
    BY <1>5, <2>2, <2>3 DEF moveOutputArtifacts
<1>6. ASSUME NEW r \in Requests, storeTransition(r)
      PROVE  TypeInv'
  <2>1. CASE MayTransition(r)
    <3>1. Transitioned(registry[On(r)], call[r].act) \in Records
      BY <1>0, <1>6, <1>r, <2>1, Built DEF storeTransition, MayTransition, Routes
    <3>2. QED
      BY <1>6, <2>1, <3>1, HoldKeeps, <1>k, <1>u DEF storeTransition, Places, Fits
  <2>2. CASE End(r)
    BY <1>6, <2>2, EndKeeps, <1>k, <1>u DEF storeTransition
  <2>3. QED
    BY <1>6, <2>1, <2>2 DEF storeTransition
<1>7. ASSUME NEW r \in Requests, OpenForWrite(r)
      PROVE  TypeInv'
  <2>1. registry' \in [Deliverables -> Records \cup {Missing, Empty, Torn}]
    BY <1>0, <1>7, <1>o DEF OpenForWrite, TypeOK
  <2>2. QED
    BY <1>0, <1>7, <2>1, PassKeeps, <1>k, <1>u DEF OpenForWrite, Places, Fits, Routes
<1>8. ASSUME NEW r \in Requests, SaveFails(r)
      PROVE  TypeInv'
  BY <1>8, EndKeeps, <1>k, <1>u DEF SaveFails
<1>f. ASSUME NEW r \in Requests, WriteFails(r)
      PROVE  TypeInv'
  <2>1. /\ registry' \in [Deliverables -> Records \cup {Missing, Empty, Torn}]
        /\ On(r) \in Deliverables /\ CallTyped /\ Routes'
    BY <1>0, <1>f, <1>o, EndKeeps DEF WriteFails, TypeOK
  <2>2. QED
    BY <1>0, <1>f, <2>1 DEF WriteFails, TypeInv, TypeOK, CallTyped
<1>9. ASSUME NEW r \in Requests, WriteRecord(r)
      PROVE  TypeInv'
  <2>1. registry' \in [Deliverables -> Records \cup {Missing, Empty, Torn}]
    BY <1>0, <1>9 DEF WriteRecord, TypeOK, Routes
  <2>2. CASE End(r)
    BY <1>9, <2>1, <2>2, EndKeeps, <1>k, <1>u DEF WriteRecord
  <2>3. CASE /\ Goto(r, "read")
             /\ call' = [call EXCEPT ![r].act = "submit"]
             /\ held' = [held EXCEPT ![r] = Missing]
    <3>1. call[r] \in Calls /\ [call[r] EXCEPT !.act = "submit"] \in Calls
          /\ [call[r] EXCEPT !.act = "submit"] # NoCall
          /\ [call[r] EXCEPT !.act = "submit"].act = "submit"
      BY <1>9, <1>o, NoCallIsNone DEF WriteRecord, Calls
    <3> DEFINE c == [call[r] EXCEPT !.act = "submit"]
    <3>2. call' = [call EXCEPT ![r] = c]
      BY <1>0, <2>3 DEF TypeOK
    <3> HIDE DEF c
    <3>3. CallTyped
      BY <1>0, <1>9, <2>3, <3>1, <3>2 DEF c, CallTyped, TypeOK, Goto, Places, WriteRecord
    <3>4. Routes'
      BY <1>0, <1>9, <1>n, <2>3, <3>1, <3>2 DEF c, Routes, TypeOK, Goto, On, WriteRecord
    <3>5. QED
      BY <1>9, <2>1, <3>3, <3>4, <1>k, <1>u DEF WriteRecord
  <2>4. QED
    BY <1>9, <2>2, <2>3 DEF WriteRecord
<1>10. ASSUME NEW r \in Requests, LoadRun(r)
       PROVE  TypeInv'
  BY <1>0, <1>10, PassKeeps, EndKeeps, <1>k, <1>u DEF LoadRun, Places, Fits, Routes
<1>11. ASSUME NEW r \in Requests, WriteOutputs(r)
       PROVE  TypeInv'
  <2>1. artifact' \in [Deliverables -> Roots \cup {"none"}]
    BY <1>0, <1>11 DEF WriteOutputs, TypeOK, Roots
  <2>2. QED
    BY <1>0, <1>11, <2>1, PassKeeps, EndKeeps, <1>k, <1>u DEF WriteOutputs, Places, Fits, Routes
<1>12. ASSUME NEW r \in Requests, MarkExecuted(r)
       PROVE  TypeInv'
  <2>1. run' \in [Deliverables -> {"none", "pending_approval", "approved", "executed", "failed"}]
    BY <1>0, <1>12 DEF MarkExecuted, TypeOK
  <2>2. QED
    BY <1>0, <1>12, <2>1, PassKeeps, <1>k, <1>u DEF MarkExecuted, Places, Fits, Routes
<1>13. ASSUME NEW r \in Requests, FindByRun(r)
       PROVE  TypeInv'
  BY <1>0, <1>13, PassKeeps, EndKeeps, <1>k, <1>u DEF FindByRun, Places, Fits, Routes
<1>14. ASSUME NEW r \in Requests, recordPublishedRun(r)
       PROVE  TypeInv'
  <2>1. CASE End(r)
    BY <1>14, <2>1, EndKeeps, <1>k, <1>u DEF recordPublishedRun
  <2>2. CASE RegistryReadable /\ Readable(On(r))
    <3>1. Published(registry[On(r)]) \in Records
      BY <2>2, <1>r, Built
    <3>2. QED
      BY <1>14, <2>2, <3>1, HoldKeeps, <1>k, <1>u DEF recordPublishedRun, Places, Fits
  <2>3. QED
    BY <1>14, <2>1, <2>2 DEF recordPublishedRun
<1>15. ASSUME NEW d \in Deliverables, RunApproved(d)
       PROVE  TypeInv'
  BY <1>0, <1>15 DEF RunApproved, TypeInv, TypeOK, Routes, On
<1>16. ASSUME NEW r \in Requests, Dies(r)
       PROVE  TypeInv'
  BY <1>0, <1>16, <1>o, EndKeeps DEF Dies, TypeInv, TypeOK, CallTyped
<1>17. CASE UNCHANGED vars
  BY <1>0, <1>17 DEF vars, TypeInv, TypeOK, Routes, On
<1>18. QED
  BY <1>1, <1>2, <1>3, <1>4, <1>5, <1>6, <1>7, <1>8, <1>9, <1>10, <1>11, <1>12, <1>13,
     <1>14, <1>15, <1>16, <1>17, <1>f DEF Next, Step

LEMMA TypeInit == Init => TypeInv
<1> SUFFICES ASSUME Init PROVE TypeInv
  OBVIOUS
<1>1. TypeOK
  BY NoCallIsNone DEF Init, TypeOK, Places, Roots
<1>2. Routes
  BY NoCallIsNone DEF Init, Routes, Places
<1>3. QED
  BY <1>1, <1>2 DEF TypeInv

\* The variables hold what they should in every reachable state.
THEOREM TypeCorrect == Spec => []TypeOK
<1>1. TypeInv => TypeOK
  BY DEF TypeInv
<1>2. QED
  BY <1>1, TypeInit, TypeStep, PTL DEF Spec

-----------------------------------------------------------------------------
(* The inductive invariant of an advisory deliverable.                     *)

Rank == [draft |-> 0, pending_approval |-> 1, approved |-> 2, published |-> 3]

\* A record of an advisory deliverable as the lifecycle leaves it.
Sound(record) ==
  /\ record \in Records
  /\ record.at = record.status
  /\ record.status \in Roots
  /\ record.status \in {"approved", "published"} => record.approved

Recorder(r, d) ==
  On(r) = d /\ pc[r] \in {"save", "write"} /\ call[r].act \in {"record", "record_submit"}
Mover(r, d) ==
  On(r) = d /\ pc[r] \in {"reread", "save", "write"} /\ call[r].act \in DOMAIN nextStatus
Reader(r, d) == On(r) = d /\ pc[r] = "move"

\* The output is at its record, or one root ahead of it.
Near(d) ==
  Readable(d) =>
    /\ Sound(registry[d])
    /\ artifact[d] \in Roots
    /\ \/ artifact[d] = registry[d].at
       \/ <<registry[d].at, artifact[d]>> \in VALID_TRANSITIONS

RecorderInv(d) ==
  \A r \in Requests : Recorder(r, d) =>
    /\ Sound(held[r]) /\ held[r].at = "draft" /\ artifact[d] = "draft"
    /\ registry[d] = IF pc[r] = "save" THEN Missing ELSE Empty

\* A mover has moved the output, and the record is where it was when it was read.
MoverInv(d) ==
  \A r \in Requests : Mover(r, d) =>
    /\ artifact[d] = nextStatus[call[r].act]
    /\ pc[r] \in {"reread", "save"} =>
          Readable(d) /\ canTransition(registry[d].status, call[r].act)
    /\ pc[r] \in {"save", "write"} => Sound(held[r]) /\ held[r].at = artifact[d]
    /\ pc[r] = "write" => registry[d] = Empty

\* What a reader holds is not ahead of the output, and when it names the root the
\* output is in, the record says so too and no one is moving.
ReaderInv(d) ==
  \A r \in Requests : Reader(r, d) =>
    /\ Sound(held[r])
    /\ canTransition(held[r].status, call[r].act)
    /\ artifact[d] \in Roots
    /\ Rank[held[r].at] <= Rank[artifact[d]]
    /\ held[r].at = artifact[d] =>
          /\ Readable(d) /\ registry[d].status = held[r].at
          /\ \A s \in Requests : ~Owner(s, d)

Alone(d) == \A r, s \in Requests : Owner(r, d) /\ Owner(s, d) => r = s

Written(d) ==
  registry[d] \in {Empty, Torn} =>
     d \in cut \/ \E r \in Requests : On(r) = d /\ pc[r] = "write"

DInv(d) == Near(d) /\ RecorderInv(d) /\ MoverInv(d) /\ ReaderInv(d) /\ Alone(d) /\ Written(d)

NoRun == \A d \in Advisory : run[d] = "none"

IInv == TypeInv /\ NoRun /\ \A d \in Advisory : DInv(d)

LEMMA Acts == DOMAIN nextStatus = {"submit", "approve", "publish"}
              /\ nextStatus["submit"] = "pending_approval"
              /\ nextStatus["approve"] = "approved"
              /\ nextStatus["publish"] = "published"
  BY DEF nextStatus

LEMMA OwnerIs ==
  ASSUME NEW r, NEW d
  PROVE  Owner(r, d) <=> Recorder(r, d) \/ Mover(r, d)
  BY DEF Owner, Recorder, Mover

\* One step of the table is one root, and its transition keeps a record sound.
LEMMA TableStep ==
  ASSUME NEW act \in DOMAIN nextStatus, NEW record, Sound(record),
         canTransition(record.status, act)
  PROVE  /\ Rank[nextStatus[act]] = Rank[record.status] + 1
         /\ Rank[record.status] \in Nat
         /\ nextStatus[act] \in Roots
         /\ record.at # nextStatus[act]
         /\ record.at # "none"
         /\ <<record.at, nextStatus[act]>> \in VALID_TRANSITIONS
         /\ Sound(Transitioned(record, act))
         /\ Transitioned(record, act).at = nextStatus[act]
<1>1. act \in {"submit", "approve", "publish"}
  BY Acts
<1>2. <<record.status, nextStatus[act]>> \in VALID_TRANSITIONS
  BY DEF canTransition
<1>3. \/ act = "submit" /\ record.status = "draft"
      \/ act = "approve" /\ record.status = "pending_approval"
      \/ act = "publish" /\ record.status = "approved"
  BY <1>1, <1>2, Acts DEF VALID_TRANSITIONS
<1>4. record.at = record.status /\ record \in Records
  BY DEF Sound
<1>5. Transitioned(record, act) \in Records
  BY <1>4, Built
<1>6. /\ Rank[nextStatus[act]] = Rank[record.status] + 1
      /\ Rank[record.status] \in Nat
      /\ nextStatus[act] \in Roots
      /\ record.at # nextStatus[act]
      /\ record.at # "none"
  BY <1>3, <1>4, Acts DEF Rank, Roots
<1>7. /\ Transitioned(record, act).at = nextStatus[act]
      /\ Transitioned(record, act).status = nextStatus[act]
      /\ Transitioned(record, act).approved = (record.approved \/ act = "approve")
  BY <1>6 DEF Transitioned
<1>8. nextStatus[act] \in {"approved", "published"} =>
        record.approved \/ act = "approve"
  BY <1>3, Acts DEF Sound
<1>9. QED
  BY <1>2, <1>4, <1>5, <1>6, <1>7, <1>8 DEF Sound

\* The other calls on d stay as they are and r, whatever it does, neither owns d
\* nor is about to move its output.
LEMMA Quiet ==
  ASSUME TypeInv, TypeInv', NEW d \in Advisory, DInv(d), NEW r \in Requests,
         registry'[d] = registry[d], artifact'[d] = artifact[d],
         \A s \in Requests \ {r} :
            call'[s] = call[s] /\ pc'[s] = pc[s] /\ held'[s] = held[s],
         ~Owner(r, d)', ~Reader(r, d)',
         cut \subseteq cut',
         On(r) = d /\ pc[r] = "write" => d \in cut'
  PROVE  DInv(d)'
<1>1. \A s \in Requests : Owner(s, d)' => Owner(s, d) /\ s # r
  BY DEF Owner, On
<1>2. Near(d)' /\ Alone(d)'
  BY <1>1 DEF DInv, Near, Alone, Readable
<1>3. RecorderInv(d)'
  BY <1>1, OwnerIs DEF DInv, RecorderInv, Recorder, Owner, On
<1>4. MoverInv(d)'
  BY <1>1, OwnerIs DEF DInv, MoverInv, Mover, Owner, On, Readable
<1>5. ReaderInv(d)'
  BY <1>1 DEF DInv, ReaderInv, Reader, On, Readable
<1>6. Written(d)'
  BY DEF DInv, Written, On, TypeInv, TypeOK
<1>7. QED
  BY <1>2, <1>3, <1>4, <1>5, <1>6 DEF DInv

\* A step of call r on d: the other calls stay as they are.
Others(r) ==
  \A s \in Requests \ {r} : call'[s] = call[s] /\ pc'[s] = pc[s] /\ held'[s] = held[s]

LEMMA PassOthers ==
  ASSUME TypeOK, NEW r \in Requests, NEW l, Pass(r, l)
  PROVE  Others(r) /\ pc'[r] = l /\ call'[r] = call[r] /\ held'[r] = held[r]
  BY DEF TypeOK, Pass, Goto, Others

LEMMA HoldOthers ==
  ASSUME TypeOK, NEW r \in Requests, NEW l, Goto(r, l), UNCHANGED call,
         NEW record, held' = [held EXCEPT ![r] = record]
  PROVE  Others(r) /\ pc'[r] = l /\ call'[r] = call[r] /\ held'[r] = record
  BY DEF TypeOK, Goto, Others

LEMMA EndOthers ==
  ASSUME TypeOK, NEW r \in Requests, End(r)
  PROVE  Others(r) /\ pc'[r] = "idle"
  BY DEF TypeOK, End, Goto, Others

\* A call that ends, or stands where it neither owns nor is about to move, leaves the
\* deliverables' invariants alone when the files stay as they are.
LEMMA QuietFor ==
  ASSUME IInv, TypeInv', NEW r \in Requests, UNCHANGED <<registry, artifact>>,
         Others(r), cut \subseteq cut',
         pc[r] = "write" => On(r) \in cut',
         pc'[r] \notin {"move", "reread", "save", "write"}
  PROVE  \A d \in Advisory : DInv(d)'
<1> SUFFICES ASSUME NEW d \in Advisory PROVE DInv(d)'
  OBVIOUS
<1>1. ~Owner(r, d)' /\ ~Reader(r, d)'
  BY DEF Owner, Reader, On
<1>2. QED
  BY <1>1, Quiet DEF IInv, Others

\* A call does nothing to the deliverables it is not on.
LEMMA Elsewhere ==
  ASSUME IInv, TypeInv', NEW r \in Requests, NEW d \in Advisory,
         registry'[d] = registry[d], artifact'[d] = artifact[d],
         Others(r), cut' = cut, On(r) # d \/ pc[r] = "idle", On(r)' # d
  PROVE  DInv(d)'
<1>1. ~Owner(r, d)' /\ ~Reader(r, d)'
  BY DEF Owner, Reader, On
<1>2. cut \subseteq cut'
  OBVIOUS
<1>3. QED
  BY <1>1, <1>2, Quiet DEF IInv, Others

\* A call on d in "write" owns it.
LEMMA WriterOwns ==
  ASSUME TypeInv, NEW d \in Advisory, NEW r \in Requests, On(r) = d,
         pc[r] \in {"save", "write"}
  PROVE  Recorder(r, d) \/ Mover(r, d)
<1>1. call[r] \in Calls /\ call[r].act # "publish_run"
  BY DEF TypeInv, TypeOK, Routes, Advisory
<1>2. call[r].act \in {"record", "record_submit", "submit", "approve", "publish"}
  BY <1>1 DEF Calls
<1>3. QED
  BY <1>2, Acts DEF Recorder, Mover

LEMMA RecordedStep ==
  ASSUME IInv, TypeInv', NEW r \in Requests, NEW e \in Deliverables, NEW submits \in BOOLEAN,
         recordAssistantResult(r, e, submits), NEW d \in Advisory
  PROVE  DInv(d)'
<1> DEFINE c == [act |-> IF submits THEN "record_submit" ELSE "record", on |-> e]
           st == IF run[e] = "failed" THEN "failed" ELSE "draft"
<1>1. c.on = e /\ c.act \in {"record", "record_submit"}
  OBVIOUS
<1> HIDE DEF c
<1>2. /\ call'[r] = c /\ pc'[r] = "save" /\ held'[r] = Draft(e, st)
      /\ Others(r) /\ UNCHANGED <<registry, cut>>
  BY DEF recordAssistantResult, Goto, IInv, TypeInv, TypeOK, Others, c
<1>3. artifact'[d] = IF d = e THEN "draft" ELSE artifact[d]
  BY DEF recordAssistantResult, IInv, TypeInv, TypeOK, Advisory
<1>4. On(r)' = e
  BY <1>1, <1>2 DEF On
<1>5. CASE d # e
  BY <1>2, <1>3, <1>4, <1>5, Elsewhere DEF recordAssistantResult
<1>6. CASE d = e
  <2>1. registry[d] = Missing /\ \A s \in Requests : On(s) # d
    BY <1>6 DEF recordAssistantResult, Fresh
  <2>2. \A s \in Requests : Owner(s, d)' \/ Reader(s, d)' => s = r
    BY <1>2, <2>1 DEF Owner, Reader, Others, On
  <2>3. ~Reader(r, d)' /\ Recorder(r, d)' /\ ~Mover(r, d)'
    BY <1>1, <1>2, <1>4, <1>6, Acts DEF Reader, Recorder, Mover
  <2>4. held'[r] = Draft(d, "draft")
    BY <1>2, <1>6 DEF IInv, NoRun
  <2>5. Sound(held'[r]) /\ held'[r].at = "draft"
    <3>1. Draft(d, "draft") \in Records
      BY Built DEF Advisory
    <3>2. /\ Draft(d, "draft").at = "draft" /\ Draft(d, "draft").status = "draft"
      BY DEF Draft, Advisory
    <3>3. QED
      BY <2>4, <3>1, <3>2 DEF Sound, Roots
  <2>6. registry'[d] = Missing /\ artifact'[d] = "draft"
    BY <1>2, <1>3, <1>6, <2>1
  <2>7. Near(d)' /\ Alone(d)' /\ Written(d)'
    BY <2>2, <2>6, ContentsDiffer DEF Near, Alone, Written, Readable
  <2>8. RecorderInv(d)' /\ MoverInv(d)' /\ ReaderInv(d)'
    BY <1>2, <2>2, <2>3, <2>5, <2>6, OwnerIs
       DEF RecorderInv, MoverInv, ReaderInv, Owner, Recorder, Mover, Reader, On
  <2>9. QED
    BY <2>7, <2>8 DEF DInv
<1>7. QED
  BY <1>5, <1>6

LEMMA ReadStep ==
  ASSUME IInv, TypeInv', NEW r \in Requests, ReadRecord(r), NEW d \in Advisory
  PROVE  DInv(d)'
<1>0. TypeOK /\ DInv(d)
  BY DEF IInv, TypeInv, TypeOK
<1>1. CASE End(r)
  BY <1>0, <1>1, EndOthers, QuietFor DEF ReadRecord
<1>2. CASE MayTransition(r)
  <2>1. /\ Others(r) /\ pc'[r] = "move" /\ call'[r] = call[r]
        /\ held'[r] = registry[On(r)] /\ UNCHANGED <<registry, artifact, cut>>
    BY <1>0, <1>2, HoldOthers DEF ReadRecord
  <2>2. On(r)' = On(r)
    BY <2>1 DEF On
  <2>3. CASE On(r) # d
    BY <2>1, <2>2, <2>3, Elsewhere
  <2>4. CASE On(r) = d
    <3>1. Readable(d) /\ canTransition(registry[d].status, call[r].act)
          /\ call[r].act \in DOMAIN nextStatus /\ Sound(registry[d]) /\ artifact[d] \in Roots
      BY <1>0, <1>2, <2>4 DEF MayTransition, ReadRecord, DInv, Near, IInv, TypeInv, Routes
    <3>2. \A s \in Requests : Owner(s, d)' => Owner(s, d) /\ s # r
      BY <2>1 DEF Owner, Others, On
    <3>3. Near(d)' /\ Alone(d)' /\ Written(d)'
      BY <1>0, <2>1, <3>2 DEF DInv, Near, Alone, Written, Readable, ReadRecord, Others, On
    <3>4. RecorderInv(d)' /\ MoverInv(d)'
      BY <1>0, <2>1, <3>2, OwnerIs
         DEF DInv, RecorderInv, MoverInv, Owner, Recorder, Mover, Others, On, Readable
    <3>5. Rank[registry[d].at] <= Rank[artifact[d]]
          /\ registry[d].at = registry[d].status
      BY <1>0, <3>1, TableStep DEF DInv, Near, Sound, VALID_TRANSITIONS, Rank, Roots
    <3>6. ASSUME registry[d].at = artifact[d], NEW s \in Requests
          PROVE  ~Owner(s, d)
      <4>1. ~Recorder(s, d)
        BY <1>0, <3>1, ContentsDiffer DEF DInv, RecorderInv, Readable
      <4>2. ASSUME Mover(s, d) PROVE FALSE
        <5>1. pc[s] # "write"
          BY <1>0, <3>1, <4>2, ContentsDiffer DEF DInv, MoverInv, Readable
        <5>2. /\ canTransition(registry[d].status, call[s].act)
              /\ artifact[d] = nextStatus[call[s].act] /\ call[s].act \in DOMAIN nextStatus
          BY <1>0, <4>2, <5>1 DEF DInv, MoverInv, Mover
        <5>3. registry[d].at # nextStatus[call[s].act]
          BY <3>1, <5>2, TableStep
        <5>4. QED
          BY <3>6, <5>2, <5>3
      <4>3. QED
        BY <4>1, <4>2, OwnerIs
    <3>7. ReaderInv(d)'
      <4> SUFFICES ASSUME NEW s \in Requests, Reader(s, d)'
                   PROVE  /\ Sound(held'[s])
                          /\ canTransition(held'[s].status, call'[s].act)
                          /\ artifact'[d] \in Roots
                          /\ Rank[held'[s].at] <= Rank[artifact'[d]]
                          /\ held'[s].at = artifact'[d] =>
                                /\ Readable(d)' /\ registry'[d].status = held'[s].at
                                /\ \A t \in Requests : ~Owner(t, d)'
        BY DEF ReaderInv
      <4>1. CASE s = r
        BY <2>1, <2>4, <3>1, <3>2, <3>5, <3>6, <4>1 DEF Readable
      <4>2. CASE s # r
        BY <1>0, <2>1, <3>2, <4>2 DEF DInv, ReaderInv, Reader, Others, On, Readable
      <4>3. QED
        BY <4>1, <4>2
    <3>8. QED
      BY <3>3, <3>4, <3>7 DEF DInv
  <2>5. QED
    BY <2>3, <2>4
<1>3. QED
  BY <1>1, <1>2 DEF ReadRecord

LEMMA MoveStep ==
  ASSUME IInv, TypeInv', NEW r \in Requests, moveOutputArtifacts(r), NEW d \in Advisory
  PROVE  DInv(d)'
<1>0. TypeOK /\ DInv(d) /\ pc[r] = "move"
      /\ UNCHANGED <<registry, cut>>
  BY DEF IInv, TypeInv, TypeOK, moveOutputArtifacts
<1>1. CASE End(r) /\ UNCHANGED artifact
  BY <1>0, <1>1, EndOthers, QuietFor
<1>2. CASE /\ Pass(r, "reread")
           /\ \/ held[r].at = "none" /\ UNCHANGED artifact
              \/ /\ artifact[On(r)] = held[r].at
                 /\ artifact' = [artifact EXCEPT ![On(r)] = nextStatus[call[r].act]]
  <2>1. Others(r) /\ pc'[r] = "reread" /\ call'[r] = call[r] /\ held'[r] = held[r]
    BY <1>0, <1>2, PassOthers
  <2>2. On(r)' = On(r)
    BY <2>1 DEF On
  <2>3. CASE On(r) # d
    <3>1. artifact'[d] = artifact[d]
      BY <1>0, <1>2, <2>3 DEF TypeOK, Advisory
    <3>2. QED
      BY <1>0, <2>1, <2>2, <2>3, <3>1, Elsewhere
  <2>4. CASE On(r) = d
    <3> DEFINE act == call[r].act
               next == nextStatus[act]
    <3>1. act \in DOMAIN nextStatus /\ Sound(held[r]) /\ canTransition(held[r].status, act)
      BY <1>0, <2>4 DEF IInv, TypeInv, Routes, DInv, ReaderInv, Reader
    <3>2. /\ held[r].at # "none" /\ next \in Roots /\ held[r].at = held[r].status
          /\ Rank[next] = Rank[held[r].at] + 1 /\ Rank[held[r].at] \in Nat
          /\ <<held[r].at, next>> \in VALID_TRANSITIONS
      BY <3>1, TableStep DEF Sound
    <3>3. /\ artifact[d] = held[r].at /\ artifact'[d] = next
      BY <1>0, <1>2, <2>4, <3>2 DEF TypeOK, Advisory
    <3>4. /\ Readable(d) /\ registry[d].status = held[r].at
          /\ \A s \in Requests : ~Owner(s, d)
      BY <1>0, <2>4, <3>3 DEF DInv, ReaderInv, Reader
    <3>5. \A s \in Requests : Owner(s, d)' => s = r
      BY <2>1, <3>4 DEF Owner, Others, On
    <3>6. Sound(registry[d]) /\ registry[d].at = held[r].at
      BY <1>0, <3>4 DEF DInv, Near, Sound
    <3>7. Near(d)' /\ Alone(d)' /\ Written(d)'
      BY <1>0, <2>1, <3>2, <3>3, <3>5, <3>6
         DEF DInv, Near, Alone, Written, Readable, Others, On
    <3>8. RecorderInv(d)'
      BY <2>1, <3>1, <3>5, Acts, OwnerIs DEF RecorderInv, Recorder, Owner
    <3>9. MoverInv(d)'
      BY <1>0, <2>1, <3>1, <3>2, <3>3, <3>4, <3>5, OwnerIs
         DEF MoverInv, Mover, Owner, Readable
    <3>10. ASSUME NEW s \in Requests, Reader(s, d)'
           PROVE  /\ Sound(held[s]) /\ held'[s] = held[s] /\ call'[s] = call[s]
                  /\ canTransition(held[s].status, call[s].act)
                  /\ Rank[held[s].at] <= Rank[held[r].at]
                  /\ Rank[held[s].at] \in Nat
      BY <1>0, <2>1, <3>3, <3>10, TableStep DEF DInv, ReaderInv, Reader, Others, On, Sound, Roots, Rank
    <3>11. ReaderInv(d)'
      BY <3>2, <3>3, <3>10 DEF ReaderInv
    <3>12. QED
      BY <3>7, <3>8, <3>9, <3>11 DEF DInv
  <2>5. QED
    BY <2>3, <2>4
<1>3. QED
  BY <1>1, <1>2 DEF moveOutputArtifacts

LEMMA TransitionStep ==
  ASSUME IInv, TypeInv', NEW r \in Requests, storeTransition(r), NEW d \in Advisory
  PROVE  DInv(d)'
<1>0. TypeOK /\ DInv(d) /\ pc[r] = "reread"
      /\ UNCHANGED <<registry, artifact, cut>>
  BY DEF IInv, TypeInv, TypeOK, storeTransition
<1>1. CASE End(r)
  BY <1>0, <1>1, EndOthers, QuietFor
<1>2. CASE MayTransition(r)
  <2> DEFINE act == call[r].act
             new == Transitioned(registry[On(r)], act)
  <2>1. /\ Others(r) /\ pc'[r] = "save" /\ call'[r] = call[r] /\ held'[r] = new
    BY <1>0, <1>2, HoldOthers DEF storeTransition
  <2>2. On(r)' = On(r)
    BY <2>1 DEF On
  <2>3. CASE On(r) # d
    BY <1>0, <2>1, <2>2, <2>3, Elsewhere
  <2>4. CASE On(r) = d
    <3>1. /\ Readable(d) /\ canTransition(registry[d].status, act)
          /\ act \in DOMAIN nextStatus /\ Sound(registry[d])
      BY <1>0, <1>2, <2>4 DEF MayTransition, DInv, Near, IInv, TypeInv, Routes
    <3>2. Mover(r, d) /\ artifact[d] = nextStatus[act]
      BY <1>0, <2>4, <3>1 DEF Mover, DInv, MoverInv
    <3>3. Sound(new) /\ new.at = artifact[d]
      BY <2>4, <3>1, <3>2, TableStep
    <3> HIDE DEF new
    <3>4. /\ \A s \in Requests : Owner(s, d)' <=> Owner(s, d)
          /\ \A s \in Requests : Mover(s, d)' <=> Mover(s, d)
          /\ \A s \in Requests : Recorder(s, d)' => Recorder(s, d) /\ s # r
      BY <1>0, <2>1, <3>1, <3>2, Acts, OwnerIs DEF Owner, Mover, Recorder, Others, On
    <3>5. Near(d)' /\ Alone(d)' /\ Written(d)'
      BY <1>0, <2>1, <3>4 DEF DInv, Near, Alone, Written, Readable, Others, On
    <3>6. RecorderInv(d)'
      BY <1>0, <2>1, <3>4 DEF DInv, RecorderInv, Others
    <3>7. MoverInv(d)'
      BY <1>0, <2>1, <3>1, <3>2, <3>3, <3>4 DEF DInv, MoverInv, Others, Readable
    <3>8. ReaderInv(d)'
      BY <1>0, <2>1, <3>4 DEF DInv, ReaderInv, Reader, Others, On, Readable
    <3>9. QED
      BY <3>5, <3>6, <3>7, <3>8 DEF DInv
  <2>5. QED
    BY <2>3, <2>4
<1>3. QED
  BY <1>1, <1>2 DEF storeTransition

LEMMA OpenStep ==
  ASSUME IInv, TypeInv', NEW r \in Requests, OpenForWrite(r), NEW d \in Advisory
  PROVE  DInv(d)'
<1>0. TypeOK /\ DInv(d) /\ pc[r] = "save"
      /\ UNCHANGED <<artifact, cut>>
      /\ registry' = [registry EXCEPT ![On(r)] = Empty]
  BY DEF IInv, TypeInv, TypeOK, OpenForWrite
<1>1. Others(r) /\ pc'[r] = "write" /\ call'[r] = call[r] /\ held'[r] = held[r]
  BY <1>0, PassOthers DEF OpenForWrite
<1>2. On(r)' = On(r)
  BY <1>1 DEF On
<1>3. CASE On(r) # d
  <2>1. registry'[d] = registry[d]
    BY <1>0, <1>3 DEF TypeOK, Advisory
  <2>2. QED
    BY <1>0, <1>1, <1>2, <1>3, <2>1, Elsewhere
<1>4. CASE On(r) = d
  <2>1. Owner(r, d)
    BY <1>0, <1>4, WriterOwns, OwnerIs DEF IInv
  <2>2. registry'[d] = Empty
    BY <1>0, <1>4 DEF TypeOK, Advisory
  <2>3. \A s \in Requests : Owner(s, d)' => s = r
    BY <1>0, <1>1, <2>1 DEF DInv, Alone, Owner, Others, On
  <2>4. Near(d)' /\ Alone(d)' /\ Written(d)'
    BY <1>1, <1>2, <1>4, <2>2, <2>3, ContentsDiffer DEF Near, Alone, Written, Readable
  <2>5. RecorderInv(d)'
    BY <1>0, <1>1, <2>2, <2>3, OwnerIs DEF DInv, RecorderInv, Recorder, Owner, Mover, On
  <2>6. MoverInv(d)'
    BY <1>0, <1>1, <2>2, <2>3, OwnerIs DEF DInv, MoverInv, Mover, Recorder, Owner, On
  <2>7. ASSUME NEW s \in Requests, Reader(s, d)'
        PROVE  /\ Reader(s, d) /\ s # r /\ held'[s] = held[s] /\ call'[s] = call[s]
               /\ held[s].at # artifact[d]
    BY <1>0, <1>1, <2>1, <2>7 DEF DInv, ReaderInv, Reader, Others, On
  <2>8. ReaderInv(d)'
    BY <1>0, <2>7 DEF DInv, ReaderInv
  <2>9. QED
    BY <2>4, <2>5, <2>6, <2>8 DEF DInv
<1>5. QED
  BY <1>3, <1>4

LEMMA WriteStep ==
  ASSUME IInv, TypeInv', NEW r \in Requests, WriteRecord(r), NEW d \in Advisory
  PROVE  DInv(d)'
<1>0. TypeOK /\ DInv(d) /\ pc[r] = "write"
      /\ UNCHANGED <<artifact, cut>>
  BY DEF IInv, TypeInv, TypeOK, WriteRecord
<1>1. Others(r) /\ pc'[r] \in {"idle", "read"}
  BY <1>0, EndOthers DEF WriteRecord, Goto, TypeOK, Others
<1>2. ~Owner(r, d)' /\ ~Reader(r, d)'
  BY <1>1 DEF Owner, Reader
<1>3. CASE On(r) # d
  <2>1. registry'[d] = registry[d]
    BY <1>0, <1>3 DEF TypeOK, Advisory, WriteRecord
  <2>2. QED
    BY <1>0, <1>1, <1>2, <1>3, <2>1, Quiet DEF IInv, Others
<1>4. CASE On(r) = d
  <2>1. Owner(r, d) /\ (Recorder(r, d) \/ Mover(r, d))
    BY <1>0, <1>4, WriterOwns, OwnerIs DEF IInv
  <2>2. registry[d] = Empty /\ Sound(held[r]) /\ held[r].at = artifact[d]
        /\ artifact[d] \in Roots
    BY <1>0, <2>1 DEF DInv, RecorderInv, MoverInv, Sound
  <2>3. registry'[d] = held[r]
    BY <1>0, <1>4, <2>2 DEF WriteRecord, TypeOK, Advisory
  <2>4. \A s \in Requests : ~Owner(s, d)'
    BY <1>0, <1>1, <1>2, <2>1 DEF DInv, Alone, Owner, Others, On
  <2>5. Near(d)' /\ Alone(d)' /\ Written(d)'
    BY <1>0, <2>2, <2>3, <2>4, ContentsDiffer DEF Near, Alone, Written, Readable, Sound
  <2>6. RecorderInv(d)' /\ MoverInv(d)'
    BY <2>4, OwnerIs DEF RecorderInv, MoverInv, Recorder, Mover, Owner
  <2>7. ASSUME NEW s \in Requests, Reader(s, d)'
        PROVE  /\ Reader(s, d) /\ held'[s] = held[s] /\ call'[s] = call[s]
               /\ held[s].at # artifact[d]
    BY <1>0, <1>1, <1>2, <2>1, <2>7 DEF DInv, ReaderInv, Reader, Others, On
  <2>8. ReaderInv(d)'
    BY <1>0, <2>7 DEF DInv, ReaderInv
  <2>9. QED
    BY <2>5, <2>6, <2>8 DEF DInv
<1>5. QED
  BY <1>3, <1>4

LEMMA WriteFailsStep ==
  ASSUME IInv, TypeInv', NEW r \in Requests, WriteFails(r), NEW d \in Advisory
  PROVE  DInv(d)'
<1>0. TypeOK /\ DInv(d) /\ pc[r] = "write" /\ artifact' = artifact /\ cut' = cut \cup {On(r)}
  BY DEF IInv, TypeInv, WriteFails
<1>1. Others(r) /\ pc'[r] = "idle"
  BY <1>0, EndOthers DEF WriteFails
<1>2. ~Owner(r, d)' /\ ~Reader(r, d)'
  BY <1>1 DEF Owner, Reader
<1>3. CASE On(r) # d
  <2>1. registry'[d] = registry[d]
    BY <1>0, <1>3 DEF TypeOK, Advisory, WriteFails
  <2>2. QED
    BY <1>0, <1>1, <1>2, <1>3, <2>1, Quiet DEF IInv, Others
<1>4. CASE On(r) = d
  <2>1. Owner(r, d) /\ (Recorder(r, d) \/ Mover(r, d))
    BY <1>0, <1>4, WriterOwns, OwnerIs DEF IInv
  <2>2. registry[d] = Empty
    BY <1>0, <2>1 DEF DInv, RecorderInv, MoverInv
  <2>3. registry'[d] \in {Empty, Torn}
    BY <1>0, <1>4, <2>2 DEF WriteFails, TypeOK, Advisory
  <2>4. \A s \in Requests : ~Owner(s, d)'
    BY <1>0, <1>1, <1>2, <2>1 DEF DInv, Alone, Owner, Others, On
  <2>5. Near(d)' /\ Alone(d)' /\ Written(d)'
    BY <1>0, <1>4, <2>3, <2>4, ContentsDiffer DEF Near, Alone, Written, Readable
  <2>6. RecorderInv(d)' /\ MoverInv(d)'
    BY <2>4, OwnerIs DEF RecorderInv, MoverInv, Recorder, Mover, Owner
  <2>7. ASSUME NEW s \in Requests, Reader(s, d)'
        PROVE  /\ Reader(s, d) /\ held'[s] = held[s] /\ call'[s] = call[s]
               /\ held[s].at # artifact[d]
    BY <1>0, <1>1, <1>2, <2>1, <2>7 DEF DInv, ReaderInv, Reader, Others, On
  <2>8. ReaderInv(d)'
    BY <1>0, <2>7 DEF DInv, ReaderInv
  <2>9. QED
    BY <2>5, <2>6, <2>8 DEF DInv
<1>5. QED
  BY <1>3, <1>4

LEMMA NoRunStep ==
  ASSUME IInv, [Next]_vars
  PROVE  NoRun'
<1>0. TypeOK /\ Routes /\ NoRun
  BY DEF IInv, TypeInv
<1>1. ASSUME NEW r \in Requests, MarkExecuted(r) PROVE NoRun'
  BY <1>0, <1>1 DEF MarkExecuted, NoRun, TypeOK, Routes, Advisory
<1>2. ASSUME NEW d \in Deliverables, RunApproved(d) PROVE NoRun'
  BY <1>0, <1>2 DEF RunApproved, NoRun, TypeOK, Advisory
<1>3. CASE UNCHANGED run
  BY <1>0, <1>3 DEF NoRun
<1>4. QED
  BY <1>1, <1>2, <1>3 DEF Next, Step, vars, Begin, recordAssistantResult, publishDeliverable,
     ReadRecord, moveOutputArtifacts, storeTransition, OpenForWrite, SaveFails, WriteFails, WriteRecord,
     LoadRun, WriteOutputs, FindByRun, recordPublishedRun, Dies

\* Every step keeps the invariant of every advisory deliverable.
LEMMA IInvStep ==
  ASSUME IInv, [Next]_vars
  PROVE  IInv'
<1>0. TypeInv /\ TypeOK /\ Routes
  BY DEF IInv, TypeInv, TypeOK
<1>t. TypeInv' /\ NoRun'
  BY <1>0, TypeStep, NoRunStep
<1>s. SUFFICES \A d \in Advisory : DInv(d)'
  BY <1>t DEF IInv
<1>q. ASSUME NEW r \in Requests, NEW l \in Places \ {"move", "reread", "save", "write"},
             UNCHANGED <<registry, artifact, cut>>, pc[r] # "write",
             Pass(r, l) \/ End(r)
      PROVE  \A d \in Advisory : DInv(d)'
  BY <1>0, <1>t, <1>q, PassOthers, EndOthers, QuietFor
<1>1. ASSUME NEW r \in Requests, NEW d \in Deliverables,
             NEW act \in {"submit", "approve", "publish", "publish_run"}, Begin(r, d, act)
      PROVE  \A e \in Advisory : DInv(e)'
  <2>1. Others(r) /\ pc'[r] \in {"load", "look", "read"} /\ pc[r] = "idle"
        /\ UNCHANGED <<registry, artifact, cut>>
    BY <1>0, <1>1 DEF Begin, Goto, TypeOK, Others
  <2>2. QED
    BY <1>0, <1>t, <2>1, QuietFor
<1>2. ASSUME NEW r \in Requests, publishDeliverable(r)
      PROVE  \A d \in Advisory : DInv(d)'
  BY <1>2, <1>q DEF publishDeliverable, Places
<1>3. ASSUME NEW r \in Requests, SaveFails(r)
      PROVE  \A d \in Advisory : DInv(d)'
  BY <1>3, <1>q DEF SaveFails, Places
<1>4. ASSUME NEW r \in Requests, LoadRun(r)
      PROVE  \A d \in Advisory : DInv(d)'
  BY <1>4, <1>q DEF LoadRun, Places
<1>5. ASSUME NEW r \in Requests, WriteOutputs(r), NEW d \in Advisory
      PROVE  DInv(d)'
  <2>1. Others(r) /\ pc'[r] \in {"execute", "idle"} /\ UNCHANGED <<registry, cut>>
    BY <1>0, <1>5, PassOthers, EndOthers DEF WriteOutputs
  <2>2. artifact'[d] = artifact[d] /\ pc[r] = "mark"
    BY <1>0, <1>5 DEF WriteOutputs, TypeOK, Routes, Advisory
  <2>3. ~Owner(r, d)' /\ ~Reader(r, d)'
    BY <2>1 DEF Owner, Reader
  <2>4. QED
    BY <1>0, <1>t, <2>1, <2>2, <2>3, Quiet DEF IInv, Others
<1>6. ASSUME NEW r \in Requests, MarkExecuted(r)
      PROVE  \A d \in Advisory : DInv(d)'
  BY <1>6, <1>q DEF MarkExecuted, Places
<1>7. ASSUME NEW r \in Requests, FindByRun(r)
      PROVE  \A d \in Advisory : DInv(d)'
  BY <1>7, <1>q DEF FindByRun, Places
<1>8. ASSUME NEW r \in Requests, recordPublishedRun(r)
      PROVE  \A d \in Advisory : DInv(d)'
  <2>1. CASE End(r)
    BY <1>8, <2>1, <1>q DEF recordPublishedRun, Places
  <2>2. CASE RegistryReadable /\ Readable(On(r))
    <3>1. Others(r) /\ On(r)' = On(r) /\ On(r) \in OfRun
          /\ UNCHANGED <<registry, artifact, cut>>
      BY <1>0, <1>8, <2>2, HoldOthers DEF recordPublishedRun, Routes, On
    <3>2. QED
      BY <1>t, <3>1, Elsewhere DEF Advisory
  <2>3. QED
    BY <1>8, <2>1, <2>2 DEF recordPublishedRun
<1>9. ASSUME NEW d \in Deliverables, RunApproved(d)
      PROVE  \A e \in Advisory : DInv(e)'
  BY <1>9 DEF RunApproved, IInv, DInv, Near, RecorderInv, MoverInv, ReaderInv, Alone, Written,
     Readable, Recorder, Mover, Reader, Owner, On
<1>10. ASSUME NEW r \in Requests, Dies(r)
       PROVE  \A d \in Advisory : DInv(d)'
  <2>1. Others(r) /\ pc'[r] = "idle" /\ UNCHANGED <<registry, artifact>>
        /\ cut \subseteq cut' /\ (pc[r] = "write" => On(r) \in cut')
    BY <1>0, <1>10, EndOthers DEF Dies
  <2>2. QED
    BY <1>0, <1>t, <2>1, QuietFor
<1>11. CASE UNCHANGED vars
  BY <1>11 DEF vars, IInv, DInv, Near, RecorderInv, MoverInv, ReaderInv, Alone, Written,
     Readable, Recorder, Mover, Reader, Owner, On
<1>12. QED
  BY <1>t, <1>1, <1>2, <1>3, <1>4, <1>5, <1>6, <1>7, <1>8, <1>9, <1>10, <1>11,
     RecordedStep, ReadStep, MoveStep, TransitionStep, OpenStep, WriteStep, WriteFailsStep DEF Next, Step

LEMMA IInvInit == Init => IInv
<1> SUFFICES ASSUME Init PROVE IInv
  OBVIOUS
<1>1. TypeInv /\ NoRun
  BY TypeInit DEF Init, NoRun, Advisory
<1>2. ASSUME NEW d \in Advisory PROVE DInv(d)
  BY <1>2, ContentsDiffer DEF Init, DInv, Near, RecorderInv, MoverInv, ReaderInv, Alone, Written,
     Readable, Recorder, Mover, Reader, Owner, Advisory
<1>3. QED
  BY <1>1, <1>2 DEF IInv

LEMMA Invariance == Spec => []IInv
  BY IInvInit, IInvStep, PTL DEF Spec

\* However many operators ask for the same transition, one moves the output and saves
\* the record; the rename of moveOutputArtifacts decides.
THEOREM RenameDecides == Spec => []OneMover
<1>1. IInv => OneMover
  BY DEF IInv, DInv, Alone, OneMover
<1>2. QED
  BY <1>1, Invariance, PTL

\* The output is never two roots from its record, whatever fails or dies.
THEOREM OneRootApart == Spec => []ArtifactNearRecord
<1>1. IInv => ArtifactNearRecord
  BY DEF IInv, DInv, Near, Sound, ArtifactNearRecord
<1>2. QED
  BY <1>1, Invariance, PTL

\* Nothing lies in the published root under a record without an approval.
THEOREM NothingPublishedUnapproved == Spec => []PublishedRootApproved
<1>1. ASSUME IInv, NEW d \in Advisory, artifact[d] = "published", Readable(d)
      PROVE  registry[d].approved
  <2>1. /\ Sound(registry[d])
        /\ registry[d].at = "published" \/ <<registry[d].at, "published">> \in VALID_TRANSITIONS
    BY <1>1 DEF IInv, DInv, Near
  <2>2. registry[d].at \in {"approved", "published"}
    BY <2>1 DEF VALID_TRANSITIONS
  <2>3. QED
    BY <2>1, <2>2 DEF Sound
<1>2. IInv => PublishedRootApproved
  BY <1>1 DEF PublishedRootApproved
<1>3. QED
  BY <1>2, Invariance, PTL

\* A record of an advisory deliverable that does not parse is being written, or its own save was
\* cut short after the truncation, by a throw or a death: never by a race
\* (deliverable-store.ts:49-53).
THEOREM UnreadableOnlyThen == Spec => []UnreadableWhileWritten
<1>1. IInv => UnreadableWhileWritten
  BY DEF IInv, DInv, Written, UnreadableWhileWritten
<1>2. QED
  BY <1>1, Invariance, PTL

\* What a step may do to the record and the output of an advisory deliverable.
CatchesUp(d) ==
  /\ Readable(d)' /\ registry'[d] # registry[d] => registry'[d].at = artifact'[d]
  /\ artifact'[d] \notin {artifact[d], "draft"} => artifact[d] = Prior[artifact'[d]]

\* A write of the record of an advisory deliverable carries the root its output is in.
LEMMA WriteCatchesUp ==
  ASSUME IInv, NEW r \in Requests, WriteRecord(r), NEW d \in Advisory
  PROVE  CatchesUp(d)
<1>0. TypeOK /\ DInv(d) /\ pc[r] = "write" /\ UNCHANGED artifact
  BY DEF IInv, TypeInv, TypeOK, WriteRecord
<1>1. CASE On(r) # d
  <2>1. registry'[d] = registry[d]
    BY <1>0, <1>1 DEF TypeOK, Advisory, WriteRecord
  <2>2. QED
    BY <1>0, <2>1 DEF CatchesUp
<1>2. CASE On(r) = d
  <2>1. Recorder(r, d) \/ Mover(r, d)
    BY <1>0, <1>2, WriterOwns DEF IInv
  <2>2. registry[d] = Empty /\ held[r].at = artifact[d]
    BY <1>0, <2>1 DEF DInv, RecorderInv, MoverInv
  <2>3. registry'[d] = held[r]
    BY <1>0, <1>2, <2>2 DEF WriteRecord, TypeOK, Advisory
  <2>4. QED
    BY <1>0, <2>2, <2>3 DEF CatchesUp
<1>3. QED
  BY <1>1, <1>2

\* A rename takes the output of an advisory deliverable on by one root.
LEMMA MoveCatchesUp ==
  ASSUME IInv, NEW r \in Requests, moveOutputArtifacts(r), NEW d \in Advisory
  PROVE  CatchesUp(d)
<1>0. TypeOK /\ DInv(d) /\ pc[r] = "move" /\ UNCHANGED registry
  BY DEF IInv, TypeInv, moveOutputArtifacts
<1>1. CASE artifact'[d] = artifact[d]
  BY <1>0, <1>1 DEF CatchesUp
<1>2. CASE artifact'[d] # artifact[d]
  <2>1. /\ On(r) = d /\ held[r].at # "none" /\ artifact[d] = held[r].at
        /\ artifact'[d] = nextStatus[call[r].act]
    BY <1>0, <1>2 DEF moveOutputArtifacts, TypeOK, Advisory
  <2>2. /\ call[r].act \in DOMAIN nextStatus /\ Sound(held[r])
        /\ canTransition(held[r].status, call[r].act)
    BY <1>0, <2>1 DEF IInv, TypeInv, Routes, DInv, ReaderInv, Reader
  <2>3. <<artifact[d], artifact'[d]>> \in VALID_TRANSITIONS
    BY <2>1, <2>2, TableStep
  <2>4. artifact[d] = Prior[artifact'[d]]
    BY <2>3 DEF VALID_TRANSITIONS, Prior
  <2>5. QED
    BY <1>0, <2>4 DEF CatchesUp
<1>3. QED
  BY <1>1, <1>2

\* A write that throws leaves nothing to read.
LEMMA FailureCatchesUp ==
  ASSUME IInv, NEW r \in Requests, WriteFails(r), NEW d \in Advisory
  PROVE  CatchesUp(d)
<1>1. artifact' = artifact /\ registry'[d] \in {registry[d], Torn}
  BY DEF IInv, TypeInv, TypeOK, WriteFails, Advisory
<1>2. QED
  BY <1>1, ContentsDiffer DEF CatchesUp, Readable

LEMMA StepCatchesUp ==
  ASSUME IInv, [Next]_vars, NEW d \in Advisory
  PROVE  CatchesUp(d)
<1>0. TypeOK /\ Routes /\ d \in Deliverables /\ d \notin OfRun
  BY DEF IInv, TypeInv, Advisory
<1>1. CASE UNCHANGED <<registry, artifact>>
  BY <1>1 DEF CatchesUp
<1>2. ASSUME NEW r \in Requests, NEW e \in Deliverables, NEW submits \in BOOLEAN,
             recordAssistantResult(r, e, submits)
      PROVE  CatchesUp(d)
  <2>1. registry' = registry /\ artifact'[d] \in {artifact[d], "draft"}
    BY <1>0, <1>2 DEF recordAssistantResult, TypeOK
  <2>2. QED
    BY <2>1 DEF CatchesUp
<1>3. ASSUME NEW r \in Requests, OpenForWrite(r) PROVE CatchesUp(d)
  <2>1. artifact' = artifact /\ registry'[d] \in {registry[d], Empty}
    BY <1>0, <1>3 DEF OpenForWrite, TypeOK
  <2>2. QED
    BY <2>1, ContentsDiffer DEF CatchesUp, Readable
<1>4. ASSUME NEW r \in Requests, WriteOutputs(r) PROVE CatchesUp(d)
  <2>1. registry' = registry /\ artifact'[d] = artifact[d]
    BY <1>0, <1>4 DEF WriteOutputs, TypeOK, Routes
  <2>2. QED
    BY <2>1 DEF CatchesUp
<1>5. QED
  BY <1>1, <1>2, <1>3, <1>4, MoveCatchesUp, WriteCatchesUp, FailureCatchesUp
     DEF Next, Step, vars, Begin, publishDeliverable, ReadRecord, storeTransition, SaveFails,
     LoadRun, MarkExecuted, FindByRun, recordPublishedRun, RunApproved, Dies

\* A save that ends names the root the output lies in at that moment, and the output
\* goes on by one root at a time: no stale save lands on a later one
\* (deliverable-store.ts:97, :118).
THEOREM NoStaleSaveLands == Spec => RecordCatchesUp
<1>1. IInv /\ [Next]_vars =>
        [\A d \in Advisory :
           /\ Readable(d)' /\ registry'[d] # registry[d] => registry'[d].at = artifact'[d]
           /\ artifact'[d] \notin {artifact[d], "draft"} => artifact[d] = Prior[artifact'[d]]]_vars
  BY StepCatchesUp DEF CatchesUp
<1>2. QED
  BY <1>1, Invariance, PTL DEF Spec, RecordCatchesUp
=============================================================================
