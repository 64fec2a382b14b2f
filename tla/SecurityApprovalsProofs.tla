----------------------- MODULE SecurityApprovalsProofs -----------------------
(***************************************************************************)
(* What TLAPS proves of SecurityApprovals, for any number of requests,     *)
(* calls and processes, and for any number of restarts and of reads and    *)
(* saves that fail: first however the calls share their lines, then for    *)
(* processes that take one command at a time.                              *)
(***************************************************************************)
EXTENDS SecurityApprovals, TLAPS

-----------------------------------------------------------------------------
(* Maps.                                                                   *)

LEMMA Words ==
  /\ DOMAIN Verdict = {"approve", "deny"}
  /\ Verdict["approve"] = "approved" /\ Verdict["deny"] = "denied"
  BY DEF Verdict

LEMMA MapsAreMaps ==
  /\ NoRequests \in Maps
  /\ NoMap \notin Maps
<1>1. NoRequests \in Maps
  BY DEF Maps, NoRequests
<1>2. \A m \in Maps : DOMAIN m = Creates
  BY DEF Maps
<1>3. DOMAIN NoMap = {}
  BY DEF NoMap
<1>4. QED
  BY <1>1, <1>2, <1>3, CallsAssumption

LEMMA RecordsTyped ==
  /\ NewRequest \in Records
  /\ \A c \in Calls, d \in Decided : [status |-> d, by |-> c] \in Records
  /\ Absent.status = "absent" /\ NewRequest.status = "pending"
  BY DEF NewRequest, Records, Statuses, Decided, Absent

\* What expiry makes of an entry is an expired one.
LEMMA ExpiredTyped ==
  ASSUME NEW x \in Records \cup {Absent}, x.status = "pending"
  PROVE  Expired(x) \in Records /\ Expired(x).status = "expired"
  BY RecordsTyped DEF Expired, Records, Statuses

LEMMA EntryPut ==
  ASSUME NEW m \in Maps, NEW r \in Creates, NEW x \in Records
  PROVE  /\ [m EXCEPT ![r] = x] \in Maps
         /\ [m EXCEPT ![r] = x][r] = x
         /\ \A q \in Creates : q # r => [m EXCEPT ![r] = x][q] = m[q]
  BY DEF Maps

LEMMA SweptTyped ==
  ASSUME NEW m \in Maps
  PROVE  /\ Swept(m) \in Maps
         /\ \A r \in Creates : Swept(m)[r] = m[r] \/ Swept(m)[r].status = "expired"
<1>1. \A r \in Creates : m[r] \in Records \cup {Absent}
  BY DEF Maps
<1>2. \A r \in Creates : Overdue(m, r) => /\ Expired(m[r]) \in Records
                                          /\ Expired(m[r]).status = "expired"
  BY <1>1, ExpiredTyped DEF Overdue
<1>3. QED
  BY <1>1, <1>2 DEF Swept, Maps

-----------------------------------------------------------------------------
(* Calls.                                                                  *)

LEMMA IdleTyped ==
  /\ Idle \in CallRecord /\ Over \in CallRecord
  /\ Idle.pc = "idle" /\ Idle.held = NoMap /\ Over.pc = "end" /\ Over.held = NoMap
  BY DEF Idle, Over, CallRecord, Places, Answers

\* What a call looks like that keeps its place's rules.
WellPlaced(c, k) ==
    /\ k \in CallRecord
    /\ k.pc \in {"read", "save"} <=> k.held # NoMap
    /\ k.pc \notin {"idle", "end"} => /\ k.op = "create" => c \in Creates
                                      /\ k.op \in DOMAIN Verdict => k.req \in Creates

CallsTyped == call \in [Calls -> CallRecord] /\ \A c \in Calls : WellPlaced(c, call[c])

LEMMA TypeSplit ==
  /\ TypeOK <=> /\ file \in Maps /\ map \in [Procs -> Maps \cup {NoMap}]
                /\ CallsTyped
                /\ due \subseteq Creates /\ late \subseteq Calls /\ fresh \subseteq Calls
                /\ restarts \in 0..MaxRestarts /\ failures \in 0..MaxFailures
  /\ TypeOK' <=> /\ file' \in Maps /\ map' \in [Procs -> Maps \cup {NoMap}]
                 /\ CallsTyped'
                 /\ due' \subseteq Creates /\ late' \subseteq Calls /\ fresh' \subseteq Calls
                 /\ restarts' \in 0..MaxRestarts /\ failures' \in 0..MaxFailures
<1>1. ASSUME call \in [Calls -> CallRecord]
      PROVE  \A c \in Calls : WellPlaced(c, call[c]) <=>
                /\ call[c].pc \in {"read", "save"} <=> call[c].held # NoMap
                /\ InFlight(c) => /\ call[c].op = "create" => c \in Creates
                                  /\ call[c].op \in DOMAIN Verdict => call[c].req \in Creates
  BY <1>1 DEF WellPlaced, InFlight
<1>2. ASSUME call' \in [Calls -> CallRecord]
      PROVE  \A c \in Calls : WellPlaced(c, call'[c]) <=>
                /\ call'[c].pc \in {"read", "save"} <=> call'[c].held # NoMap
                /\ InFlight(c)' => /\ call'[c].op = "create" => c \in Creates
                                   /\ call'[c].op \in DOMAIN Verdict => call'[c].req \in Creates
  BY <1>2 DEF WellPlaced, InFlight
<1>3. QED
  BY <1>1, <1>2 DEF TypeOK, CallsTyped

\* One call moves.
LEMMA OneCallMoves ==
  ASSUME CallsTyped, NEW c \in Calls, NEW k, WellPlaced(c, k), call' = [call EXCEPT ![c] = k]
  PROVE  CallsTyped'
  BY DEF CallsTyped, WellPlaced

\* The end of a call.
LEMMA EndTyped ==
  ASSUME CallsTyped, NEW c \in Calls, NEW answer \in Answers, End(c, answer)
  PROVE  CallsTyped'
<1> DEFINE k == IF answer = "refused" \/ call[c].op = "list" THEN [Over EXCEPT !.answer = answer]
                ELSE [call[c] EXCEPT !.pc = "end", !.held = NoMap, !.answer = answer]
<1>1. call' = [call EXCEPT ![c] = k]
  BY DEF End
<1>2. call[c] \in CallRecord
  BY DEF CallsTyped
<1>3. k \in CallRecord /\ k.pc = "end" /\ k.held = NoMap
  BY <1>2, IdleTyped DEF CallRecord, Places
<1> HIDE DEF k
<1>4. QED
  BY <1>1, <1>3, OneCallMoves DEF WellPlaced

\* A save that begins.
LEMMA SaveTyped ==
  ASSUME CallsTyped, NEW c \in Calls, call[c].pc \in {"open", "read"}, NEW m2 \in Maps,
         NEW answer \in Answers, map \in [Procs -> Maps \cup {NoMap}], NEW m, Save(c, m, m2, answer)
  PROVE  CallsTyped' /\ map' \in [Procs -> Maps \cup {NoMap}]
<1> DEFINE k == [call[c] EXCEPT !.pc = "save", !.held = m2, !.answer = answer]
<1>1. call' = [call EXCEPT ![c] = k] /\ map' = [map EXCEPT ![Home[c]] = m2]
  BY DEF Save
<1>2. WellPlaced(c, call[c])
  BY DEF CallsTyped
<1>3. k \in CallRecord /\ k.pc = "save" /\ k.held = m2 /\ k.op = call[c].op /\ k.req = call[c].req
  BY <1>2 DEF WellPlaced, CallRecord, Places
<1> HIDE DEF k
<1>4. WellPlaced(c, k)
  BY <1>2, <1>3, MapsAreMaps DEF WellPlaced
<1>5. QED
  BY <1>1, <1>4, OneCallMoves, CallsAssumption
-----------------------------------------------------------------------------
(* Types.                                                                  *)

\* The map a call works on is one.
AtWork(c, m) ==
    /\ call[c].pc \in {"open", "read"} /\ m \in Maps

LEMMA WhatIsWorkedOn ==
  ASSUME TypeOK, NEW c \in Calls
  PROVE  /\ Warm(c) => AtWork(c, map[Home[c]]) /\ Work(c, map[Home[c]])
         /\ Install(c) => AtWork(c, call[c].held) /\ Work(c, call[c].held)
<1>1. map[Home[c]] \in Maps \cup {NoMap} /\ call[c] \in CallRecord
  BY CallsAssumption DEF TypeOK
<1>2. call[c].held \in Maps \cup {NoMap} /\ (call[c].pc = "read" => call[c].held # NoMap)
  BY <1>1 DEF TypeOK, CallRecord
<1>3. QED
  BY <1>1, <1>2 DEF Warm, Install, AtWork

\* What an answer that is let through writes.
Entry(c) == [status |-> Verdict[call[c].op], by |-> c]

LEMMA EntryTyped ==
  ASSUME NEW c \in Calls, call[c].op \in {"approve", "deny"}
  PROVE  Entry(c) \in Records /\ Entry(c).by = c /\ Entry(c).status = Verdict[call[c].op]
         /\ Entry(c).status \in Decided
  BY RecordsTyped, Words DEF Entry, Decided

\* The ways a call works on m.
LEMMA WorkForms ==
  ASSUME TypeOK, NEW c \in Calls, NEW m \in Maps, AtWork(c, m), Work(c, m)
  PROVE  /\ UNCHANGED <<file, due, fresh, restarts, failures>>
         /\ late = {} => late' = {}
         /\ late' \in SUBSET Calls
         /\ \/ c \in Creates /\ Save(c, m, [m EXCEPT ![c] = NewRequest], "ok")
            \/ /\ call[c].op \in {"approve", "deny"} /\ call[c].req \in Creates
               /\ Save(c, m, [m EXCEPT ![call[c].req] = Entry(c)], "ok")
            \/ \E m2 \in Maps, answer \in {"ok", "refused"} :
                  /\ Save(c, m, m2, answer)
                  /\ \A r \in Creates : m2[r] = m[r] \/ m2[r].status = "expired"
            \/ \E answer \in {"ok", "refused"} : Return(c, m, answer) /\ (answer = "refused" \/ call[c].op = "list")
<1>0. InFlight(c)
  BY DEF AtWork, InFlight
<1>1. CASE Create(c, m)
  BY <1>0, <1>1 DEF Create, Work, TypeOK
<1>2. CASE Answer(c, m)
  <2> DEFINE r == call[c].req
  <2>0. call[c].op \in {"approve", "deny"} /\ r \in Creates
    BY <1>0, <1>2, Words DEF Answer, TypeOK
  <2>1. CASE Answerable(m, r) /\ Save(c, m, [m EXCEPT ![r] = Entry(c)], "ok")
             /\ late' = IF r \in due THEN late \cup {c} ELSE late
    BY <1>2, <2>0, <2>1 DEF Answerable, Work, TypeOK
  <2>2. CASE /\ ~Answerable(m, r)
             /\ IF Overdue(m, r) THEN Save(c, m, [m EXCEPT ![r] = Expired(m[r])], "refused")
                                 ELSE Return(c, m, "refused")
             /\ late' = late
    <3>1. CASE Overdue(m, r)
      <4>1. m[r] \in Records \cup {Absent} /\ m[r].status = "pending"
        BY <2>0, <3>1 DEF Overdue, Maps
      <4>2. Expired(m[r]) \in Records /\ Expired(m[r]).status = "expired"
        BY <4>1, ExpiredTyped
      <4> DEFINE m2 == [m EXCEPT ![r] = Expired(m[r])]
      <4>3. m2 \in Maps /\ \A q \in Creates : m2[q] = m[q] \/ m2[q].status = "expired"
        BY <2>0, <4>2, EntryPut
      <4>4. Save(c, m, m2, "refused")
        BY <2>2, <3>1
      <4> HIDE DEF m2
      <4>5. QED
        BY <2>2, <4>3, <4>4 DEF Work, TypeOK
    <3>2. CASE ~Overdue(m, r)
      BY <2>2, <3>2 DEF Work, TypeOK
    <3>3. QED
      BY <3>1, <3>2
  <2>3. QED
    BY <1>2, <2>1, <2>2 DEF Answer, Entry
<1>3. CASE List(c, m)
  <2>1. CASE Swept(m) = m
    BY <1>3, <2>1 DEF List, Work, TypeOK
  <2>2. CASE Swept(m) # m
    BY <1>3, <2>2, SweptTyped DEF List, Work, TypeOK
  <2>3. QED
    BY <2>1, <2>2
<1>4. QED
  BY <1>1, <1>2, <1>3 DEF Work

LEMMA WorkTyped ==
  ASSUME TypeOK, NEW c \in Calls, NEW m \in Maps, AtWork(c, m), Work(c, m)
  PROVE  TypeOK'
<1>0. CallsTyped /\ map \in [Procs -> Maps \cup {NoMap}]
  BY TypeSplit
<1>1. CallsTyped' /\ map' \in [Procs -> Maps \cup {NoMap}]
  <2>1. ASSUME NEW m2 \in Maps, NEW answer \in {"ok", "refused"}, Save(c, m, m2, answer)
        PROVE  CallsTyped' /\ map' \in [Procs -> Maps \cup {NoMap}]
    BY <1>0, <2>1, SaveTyped DEF AtWork, Answers
  <2>2. ASSUME NEW answer \in {"ok", "refused"}, Return(c, m, answer)
        PROVE  CallsTyped' /\ map' \in [Procs -> Maps \cup {NoMap}]
    <3>1. CallsTyped'
      BY <1>0, <2>2, EndTyped DEF Return, Answers
    <3>2. QED
      BY <1>0, <2>2, <3>1, CallsAssumption DEF Return
  <2>3. c \in Creates => [m EXCEPT ![c] = NewRequest] \in Maps
    BY EntryPut, RecordsTyped
  <2>4. call[c].op \in {"approve", "deny"} /\ call[c].req \in Creates =>
            [m EXCEPT ![call[c].req] = Entry(c)] \in Maps
    BY EntryPut, EntryTyped
  <2>5. QED
    BY <2>1, <2>2, <2>3, <2>4, WorkForms
<1>2. QED
  BY <1>1, WorkForms, TypeSplit

LEMMA StartTyped ==
  ASSUME TypeOK, NEW c \in Calls, NEW op \in Ops, NEW r \in Creates \cup {NoCall},
         Start(c, op, r), op = "create" => c \in Creates, op \in {"approve", "deny"} => r \in Creates
  PROVE  TypeOK'
<1> DEFINE k == [Idle EXCEPT !.pc = "open", !.op = op, !.req = r]
<1>1. call' = [call EXCEPT ![c] = k]
      /\ UNCHANGED <<file, map, due, late, fresh, restarts, failures>>
  BY DEF Start
<1>2. k \in CallRecord /\ k.pc = "open" /\ k.held = NoMap /\ k.op = op /\ k.req = r
  BY IdleTyped DEF CallRecord, Places, Ops, Idle
<1> HIDE DEF k
<1>3. WellPlaced(c, k)
  BY <1>2, Words DEF WellPlaced
<1>4. CallsTyped'
  BY <1>1, <1>3, OneCallMoves, TypeSplit
<1>5. QED
  BY <1>1, <1>4, TypeSplit

LEMMA TypeStep == TypeOK /\ [Next]_vars => TypeOK'
<1> SUFFICES ASSUME TypeOK, [Next]_vars PROVE TypeOK'
  OBVIOUS
<1>0. CallsTyped /\ map \in [Procs -> Maps \cup {NoMap}] /\ file \in Maps
  BY TypeSplit
<1>1. ASSUME NEW c \in Calls, Ask(c) PROVE TypeOK'
  BY <1>1, StartTyped DEF Ask, Ops
<1>2. ASSUME NEW c \in Calls, NEW op \in Ops, NEW r \in Creates \cup {NoCall}, Order(c, op, r)
      PROVE  TypeOK'
  <2>1. Start(c, op, r) /\ op # "create" /\ (op \in {"approve", "deny"} => r \in Creates)
    BY <1>2 DEF Order, Created
  <2>2. QED
    BY <2>1, StartTyped
<1>3. ASSUME NEW c \in Calls, Warm(c) PROVE TypeOK'
  BY <1>3, WhatIsWorkedOn, WorkTyped DEF AtWork
<1>4. ASSUME NEW c \in Calls, Install(c) PROVE TypeOK'
  BY <1>4, WhatIsWorkedOn, WorkTyped DEF AtWork
<1>5. ASSUME NEW c \in Calls, Read(c) \/ ReadInVain(c) PROVE TypeOK'
  <2>0. PICK m \in {file, NoRequests} : call' = [call EXCEPT ![c] = [@ EXCEPT !.pc = "read", !.held = m]]
    BY <1>5 DEF Read, ReadInVain
  <2>m. m \in Maps
    BY <1>0, <2>0, MapsAreMaps
  <2> DEFINE k == [call[c] EXCEPT !.pc = "read", !.held = m]
  <2>1. /\ call' = [call EXCEPT ![c] = k] /\ UNCHANGED <<file, map, due, late, restarts>>
        /\ fresh' \subseteq fresh /\ failures' \in 0..MaxFailures
    BY <1>5, <2>0, BoundsAssumption DEF Read, ReadInVain, TypeOK
  <2>2. WellPlaced(c, call[c]) /\ call[c].pc = "open"
    BY <1>0, <1>5 DEF CallsTyped, Read, ReadInVain
  <2>3. k \in CallRecord /\ k.pc = "read" /\ k.held = m /\ k.op = call[c].op /\ k.req = call[c].req
    BY <2>2, <2>m DEF WellPlaced, CallRecord, Places
  <2> HIDE DEF k
  <2>4. WellPlaced(c, k)
    BY <2>2, <2>3, <2>m, MapsAreMaps DEF WellPlaced
  <2>5. CallsTyped'
    BY <1>0, <2>1, <2>4, OneCallMoves
  <2>6. QED
    BY <2>1, <2>5, TypeSplit
<1>6. ASSUME NEW c \in Calls, Rename(c) PROVE TypeOK'
  <2>1. call[c] \in CallRecord /\ call[c].pc = "save"
    BY <1>6 DEF TypeOK, Rename
  <2>2. call[c].held \in Maps /\ call[c].answer \in Answers
    BY <2>1 DEF TypeOK, CallRecord
  <2>3. CallsTyped'
    BY <1>0, <1>6, <2>2, EndTyped DEF Rename
  <2>4. fresh' \subseteq Calls /\ file' \in Maps
    BY <1>6, <2>2 DEF Rename, TypeOK
  <2>5. QED
    BY <1>6, <2>3, <2>4, TypeSplit DEF Rename
<1>7. ASSUME NEW c \in Calls, Throw(c) PROVE TypeOK'
  <2>1. CallsTyped'
    BY <1>0, <1>7, EndTyped DEF Throw, Answers
  <2>2. failures' \in 0..MaxFailures
    BY <1>7, BoundsAssumption DEF Throw, TypeOK
  <2>3. QED
    BY <1>7, <2>1, <2>2, TypeSplit DEF Throw
<1>8. ASSUME NEW r \in Creates, Expire(r) PROVE TypeOK'
  BY <1>8 DEF Expire, TypeOK, InFlight
<1>9. ASSUME NEW p \in Procs, Restart(p) PROVE TypeOK'
  <2>1. \A c \in Calls : call'[c] = call[c] \/
             call'[c] = [call[c] EXCEPT !.pc = "end", !.held = NoMap, !.answer = "cut"]
    BY <1>9 DEF Restart
  <2>2. ASSUME NEW c \in Calls PROVE WellPlaced(c, call'[c])
    <3>1. WellPlaced(c, call[c])
      BY <1>0 DEF CallsTyped
    <3> DEFINE k == [call[c] EXCEPT !.pc = "end", !.held = NoMap, !.answer = "cut"]
    <3>2. k \in CallRecord /\ k.pc = "end" /\ k.held = NoMap
      BY <3>1 DEF WellPlaced, CallRecord, Places, Answers
    <3> HIDE DEF k
    <3>3. WellPlaced(c, k)
      BY <3>2 DEF WellPlaced
    <3>4. QED
      BY <2>1, <3>1, <3>3 DEF k
  <2>3. CallsTyped'
    <3>1. call' = [c \in Calls |-> call'[c]]
      BY <1>9 DEF Restart
    <3>2. QED
      BY <2>2, <3>1 DEF CallsTyped, WellPlaced
  <2>4. restarts' \in 0..MaxRestarts /\ map' \in [Procs -> Maps \cup {NoMap}]
    <3>1. restarts \in 0..MaxRestarts /\ restarts < MaxRestarts /\ restarts' = restarts + 1
      BY <1>9 DEF Restart, TypeOK
    <3>2. restarts' \in 0..MaxRestarts
      BY <3>1, BoundsAssumption
    <3>3. map' = [map EXCEPT ![p] = NoMap]
      BY <1>9 DEF Restart
    <3>4. QED
      BY <1>0, <3>2, <3>3
  <2>5. QED
    BY <1>9, <2>3, <2>4, TypeSplit DEF Restart
<1>10. CASE UNCHANGED vars
  BY <1>10 DEF vars, TypeOK, InFlight
<1>11. QED
  BY <1>1, <1>2, <1>3, <1>4, <1>5, <1>6, <1>7, <1>8, <1>9, <1>10 DEF Next, Progress

\* Maps, calls and counters have their types in every reachable state; a map is held by the
\* calls that read or save, and by no others (persistent-approval-store.ts:30-68).
THEOREM TypeCorrect == Spec => []TypeOK
<1>1. Init => TypeOK
  <2> SUFFICES ASSUME Init PROVE TypeOK
    OBVIOUS
  <2>1. file \in Maps /\ map \in [Procs -> Maps \cup {NoMap}]
    BY MapsAreMaps DEF Init
  <2>2. call = [c \in Calls |-> Idle]
    BY DEF Init
  <2>3. CallsTyped
    BY <2>2, IdleTyped DEF CallsTyped, WellPlaced
  <2>4. restarts \in 0..MaxRestarts /\ failures \in 0..MaxFailures
    BY BoundsAssumption DEF Init
  <2>5. QED
    BY <2>1, <2>3, <2>4, TypeSplit DEF Init
<1>2. QED
  BY <1>1, TypeStep, PTL DEF Spec
-----------------------------------------------------------------------------
(* Decisions.                                                              *)

\* Who has answered may end, and otherwise stays as he is.
Kept(k, k2) ==
    \A c \in Calls :
        /\ k[c].op \in DOMAIN Verdict /\ k[c].pc \in {"save", "end"}
        /\ k[c].answer \in {"ok", "failed", "cut"}
        => /\ k2[c].op = k[c].op /\ k2[c].req = k[c].req
           /\ k2[c].pc \in {"save", "end"} /\ k2[c].answer \in {"ok", "failed", "cut"}

LEMMA KeptGiven ==
  ASSUME NEW m, NEW k, NEW k2, Given(m, k), Kept(k, k2)
  PROVE  Given(m, k2)
  BY DEF Given, HasAnswered, Kept

\* What expires takes no decision from anybody.
LEMMA ExpiredGiven ==
  ASSUME NEW m, NEW m2, NEW k, Given(m, k),
         \A r \in Creates : m2[r] = m[r] \/ m2[r].status = "expired"
  PROVE  Given(m2, k)
  BY DEF Given, Decided

LEMMA EndKeeps ==
  ASSUME TypeOK, NEW c \in Calls, NEW answer \in Answers, End(c, answer),
         \/ call[c].pc \in {"open", "read"}
         \/ call[c].pc = "save" /\ answer \in {"failed", call[c].answer}
  PROVE  Kept(call, call')
<1>1. ASSUME NEW d \in Calls, d # c PROVE call'[d] = call[d]
  BY <1>1 DEF End, TypeOK
<1>2. ASSUME call[c].op \in DOMAIN Verdict, call[c].pc \in {"save", "end"},
             call[c].answer \in {"ok", "failed", "cut"}
      PROVE  /\ call'[c].op = call[c].op /\ call'[c].req = call[c].req
             /\ call'[c].pc = "end" /\ call'[c].answer \in {"ok", "failed", "cut"}
  <2>1. answer \in {"ok", "failed", "cut"} /\ call[c].op # "list"
    BY <1>2, Words
  <2>2. call'[c] = [call[c] EXCEPT !.pc = "end", !.held = NoMap, !.answer = answer]
    BY <2>1 DEF End, TypeOK
  <2>3. call[c] \in CallRecord
    BY DEF TypeOK
  <2>4. QED
    BY <2>1, <2>2, <2>3 DEF CallRecord
<1>3. QED
  BY <1>1, <1>2 DEF Kept

\* One call moves that has not answered yet.
LEMMA OthersKept ==
  ASSUME TypeOK, NEW c \in Calls, NEW k, call' = [call EXCEPT ![c] = k],
         call[c].pc \notin {"save", "end"}
  PROVE  Kept(call, call')
  BY DEF Kept, TypeOK

LEMMA CopiesStayGiven ==
  ASSUME TypeOK, CopiesGiven, Kept(call, call'), late' = {}, NEW m2, Given(m2, call'),
         file' = file \/ \E c \in Calls : file' = call[c].held /\ call[c].held # NoMap,
         \A p \in Procs : map'[p] \in {map[p], m2, NoMap},
         \A c \in Calls : call'[c].held \in {call[c].held, file, m2, NoMap}
  PROVE  CopiesGiven'
<1>1. Given(file, call') /\ Given(file', call')
  BY KeptGiven DEF CopiesGiven
<1>2. ASSUME NEW p \in Procs, map'[p] # NoMap PROVE Given(map'[p], call')
  <2>1. map[p] # NoMap => Given(map[p], call')
    BY KeptGiven DEF CopiesGiven
  <2>2. QED
    BY <1>2, <2>1
<1>3. ASSUME NEW c \in Calls, call'[c].held # NoMap PROVE Given(call'[c].held, call')
  <2>1. call[c].held # NoMap => Given(call[c].held, call')
    BY KeptGiven DEF CopiesGiven
  <2>2. QED
    BY <1>1, <1>3, <2>1
<1>4. QED
  BY <1>1, <1>2, <1>3 DEF CopiesGiven

\* A save of what is given, with the caller counted as having answered.
LEMMA SaveGiven ==
  ASSUME TypeOK, CopiesGiven, NEW c \in Calls, call[c].pc \in {"open", "read"},
         NEW m, NEW m2, NEW answer \in Answers, Save(c, m, m2, answer),
         file' = file, late' = {}, Kept(call, call') => Given(m2, call')
  PROVE  CopiesGiven'
<1>1. /\ call' = [call EXCEPT ![c] = [@ EXCEPT !.pc = "save", !.held = m2, !.answer = answer]]
      /\ map' = [map EXCEPT ![Home[c]] = m2]
  BY DEF Save
<1>2. Kept(call, call')
  BY <1>1, OthersKept
<1>3. call'[c].held = m2
  BY <1>1 DEF TypeOK, CallRecord
<1>4. \A d \in Calls : call'[d].held \in {call[d].held, file, m2, NoMap}
  BY <1>1, <1>3 DEF TypeOK
<1>5. \A p \in Procs : map'[p] \in {map[p], m2, NoMap}
  BY <1>1 DEF TypeOK
<1>6. QED
  BY <1>2, <1>4, <1>5, CopiesStayGiven

LEMMA WorkGiven ==
  ASSUME TypeOK, CopiesGiven, NEW c \in Calls, NEW m \in Maps, AtWork(c, m), Work(c, m),
         Given(m, call)
  PROVE  CopiesGiven'
<1>0. file' = file /\ late' = {}
  BY WorkForms DEF CopiesGiven
<1>1. ASSUME c \in Creates, Save(c, m, [m EXCEPT ![c] = NewRequest], "ok") PROVE CopiesGiven'
  <2> DEFINE m2 == [m EXCEPT ![c] = NewRequest]
  <2>1. m2[c] = NewRequest /\ \A r \in Creates : r # c => m2[r] = m[r]
    BY <1>1, EntryPut, RecordsTyped
  <2>2. Save(c, m, m2, "ok")
    BY <1>1
  <2> HIDE DEF m2
  <2>3. ASSUME Kept(call, call') PROVE Given(m2, call')
    <3>1. Given(m, call')
      BY <2>3, KeptGiven
    <3>2. QED
      BY <2>1, <3>1, RecordsTyped DEF Given, Decided
  <2>4. QED
    BY <1>0, <2>2, <2>3, SaveGiven DEF AtWork, Answers
<1>2. ASSUME call[c].op \in {"approve", "deny"}, call[c].req \in Creates,
             Save(c, m, [m EXCEPT ![call[c].req] = Entry(c)], "ok")
      PROVE  CopiesGiven'
  <2> DEFINE r == call[c].req
             m2 == [m EXCEPT ![r] = Entry(c)]
  <2>1. m2[r] = Entry(c) /\ \A q \in Creates : q # r => m2[q] = m[q]
    BY <1>2, EntryPut, EntryTyped
  <2>2. Save(c, m, m2, "ok")
    BY <1>2
  <2> HIDE DEF m2
  <2>3. call'[c] = [call[c] EXCEPT !.pc = "save", !.held = m2, !.answer = "ok"]
    BY <2>2 DEF Save, TypeOK
  <2>4. /\ call'[c].op = call[c].op /\ call'[c].req = r
        /\ call'[c].pc = "save" /\ call'[c].answer = "ok"
    BY <2>3 DEF TypeOK, CallRecord
  <2>5. HasAnswered(call', c, r, Entry(c).status) /\ Entry(c).by = c
    BY <1>2, <2>4, EntryTyped, Words DEF HasAnswered
  <2>6. ASSUME Kept(call, call') PROVE Given(m2, call')
    <3>1. Given(m, call')
      BY <2>6, KeptGiven
    <3>2. QED
      BY <2>1, <2>5, <3>1 DEF Given
  <2>7. QED
    BY <1>0, <2>2, <2>6, SaveGiven DEF AtWork, Answers
<1>3. ASSUME NEW m2 \in Maps, NEW answer \in {"ok", "refused"}, Save(c, m, m2, answer),
             \A r \in Creates : m2[r] = m[r] \/ m2[r].status = "expired"
      PROVE  CopiesGiven'
  <2>1. ASSUME Kept(call, call') PROVE Given(m2, call')
    <3>1. Given(m, call')
      BY <2>1, KeptGiven
    <3>2. QED
      BY <1>3, <3>1, ExpiredGiven
  <2>2. QED
    BY <1>0, <1>3, <2>1, SaveGiven DEF AtWork, Answers
<1>4. ASSUME NEW answer \in {"ok", "refused"}, Return(c, m, answer) PROVE CopiesGiven'
  <2>1. Kept(call, call')
    BY <1>4, EndKeeps DEF Return, AtWork, Answers
  <2>2. Given(m, call')
    BY <2>1, KeptGiven
  <2>3. \A d \in Calls : call'[d].held \in {call[d].held, NoMap}
    BY <1>4, IdleTyped DEF Return, End, TypeOK, CallRecord, Over, Idle
  <2>4. \A p \in Procs : map'[p] \in {map[p], m}
    BY <1>4 DEF Return, TypeOK
  <2>5. QED
    BY <1>0, <2>1, <2>2, <2>3, <2>4, CopiesStayGiven
<1>5. QED
  BY <1>1, <1>2, <1>3, <1>4, WorkForms

LEMMA GivenStep == TypeOK /\ CopiesGiven /\ [Next]_vars => CopiesGiven'
<1> SUFFICES ASSUME TypeOK, CopiesGiven, [Next]_vars PROVE CopiesGiven'
  OBVIOUS
<1>0. Given(file, call) /\ late = {}
  BY DEF CopiesGiven
<1>1. ASSUME NEW c \in Calls, NEW op, NEW r, Start(c, op, r) PROVE CopiesGiven'
  <2> DEFINE k == [Idle EXCEPT !.pc = "open", !.op = op, !.req = r]
  <2>1. call' = [call EXCEPT ![c] = k] /\ file' = file /\ map' = map /\ late' = late
    BY <1>1 DEF Start
  <2>2. Kept(call, call')
    BY <1>1, <2>1, OthersKept DEF Start
  <2>3. \A d \in Calls : call'[d].held \in {call[d].held, NoMap}
    BY <2>1 DEF TypeOK, Idle
  <2>4. Given(file, call')
    BY <1>0, <2>2, KeptGiven
  <2>5. QED
    BY <1>0, <2>1, <2>2, <2>3, <2>4, CopiesStayGiven
<1>2. ASSUME NEW c \in Calls, Warm(c) PROVE CopiesGiven'
  <2>1. Given(map[Home[c]], call)
    BY <1>2, CallsAssumption DEF Warm, CopiesGiven
  <2>2. QED
    BY <1>2, <2>1, WhatIsWorkedOn, WorkGiven DEF AtWork
<1>3. ASSUME NEW c \in Calls, Install(c) PROVE CopiesGiven'
  <2>1. Given(call[c].held, call)
    BY <1>3 DEF Install, CopiesGiven, TypeOK
  <2>2. QED
    BY <1>3, <2>1, WhatIsWorkedOn, WorkGiven DEF AtWork
<1>4. ASSUME NEW c \in Calls, Read(c) \/ ReadInVain(c) PROVE CopiesGiven'
  <2>0. PICK m \in {file, NoRequests} : call' = [call EXCEPT ![c] = [@ EXCEPT !.pc = "read", !.held = m]]
    BY <1>4 DEF Read, ReadInVain
  <2> DEFINE k == [call[c] EXCEPT !.pc = "read", !.held = m]
  <2>1. call' = [call EXCEPT ![c] = k] /\ file' = file /\ map' = map /\ late' = late
    BY <1>4, <2>0 DEF Read, ReadInVain
  <2>2. Kept(call, call')
    BY <1>4, <2>1, OthersKept DEF Read, ReadInVain
  <2>3. \A d \in Calls : call'[d].held \in {call[d].held, m}
    BY <2>1 DEF TypeOK, CallRecord
  <2>v. Given(NoRequests, call')
    BY RecordsTyped DEF Given, NoRequests, Decided
  <2>4. Given(m, call') /\ Given(file, call')
    BY <1>0, <2>2, <2>v, KeptGiven
  <2>5. QED
    BY <1>0, <2>1, <2>2, <2>3, <2>4, CopiesStayGiven
<1>5. ASSUME NEW c \in Calls, NEW answer \in Answers, End(c, answer), call[c].pc = "save",
             answer \in {"failed", call[c].answer}, map' = map, late' = late,
             file' \in {file, call[c].held}
      PROVE  CopiesGiven'
  <2>1. Kept(call, call')
    BY <1>5, EndKeeps
  <2>2. \A d \in Calls : call'[d].held \in {call[d].held, NoMap}
    BY <1>5, IdleTyped DEF End, TypeOK, CallRecord, Over, Idle
  <2>3. Given(file, call')
    BY <1>0, <2>1, KeptGiven
  <2>4. call[c].held # NoMap
    BY <1>5 DEF TypeOK
  <2>5. QED
    BY <1>0, <1>5, <2>1, <2>2, <2>3, <2>4, CopiesStayGiven
<1>6. ASSUME NEW c \in Calls, Rename(c) \/ Throw(c) PROVE CopiesGiven'
  <2>1. call[c].answer \in Answers
    BY DEF TypeOK, CallRecord
  <2>2. QED
    BY <1>5, <1>6, <2>1 DEF Rename, Throw, Answers
<1>7. ASSUME NEW r \in Creates, Expire(r) PROVE CopiesGiven'
  BY <1>7 DEF Expire, CopiesGiven
<1>8. ASSUME NEW p \in Procs, Restart(p) PROVE CopiesGiven'
  <2>1. file' = file /\ late' = late /\ \A q \in Procs : map'[q] \in {map[q], NoMap}
    BY <1>8 DEF Restart, TypeOK
  <2>2. \A c \in Calls : call'[c] = call[c] \/
             call'[c] = [call[c] EXCEPT !.pc = "end", !.held = NoMap, !.answer = "cut"]
    BY <1>8 DEF Restart
  <2>3. \A c \in Calls : \/ call'[c] = call[c]
                         \/ /\ call'[c].op = call[c].op /\ call'[c].req = call[c].req
                            /\ call'[c].pc = "end" /\ call'[c].held = NoMap
                            /\ call'[c].answer = "cut"
    BY <2>2 DEF TypeOK, CallRecord
  <2>4. Kept(call, call')
    BY <2>3 DEF Kept
  <2>5. Given(file, call')
    BY <1>0, <2>4, KeptGiven
  <2>6. QED
    BY <1>0, <2>1, <2>3, <2>4, <2>5, CopiesStayGiven
<1>9. CASE UNCHANGED vars
  BY <1>9 DEF vars, CopiesGiven
<1>10. QED
  BY <1>1, <1>2, <1>3, <1>4, <1>6, <1>7, <1>8, <1>9 DEF Next, Progress, Ask, Order

\* Wherever a request stands as approved or denied, an operator gave that very answer to it, in
\* time: no restart, failing save or racing process makes a decision up, moves it to another
\* request or lets one through that came too late (approval-service.ts:63-109).
THEOREM DecisionsWereGiven == Spec => []DecisionsAreGiven
<1>1. Init => CopiesGiven
  BY RecordsTyped, IdleTyped, CallsAssumption DEF Init, CopiesGiven, Given, Decided, NoRequests
<1>2. TypeOK /\ CopiesGiven => DecisionsAreGiven
  <2> SUFFICES ASSUME TypeOK, CopiesGiven, NEW m \in Copies \ {NoMap}, NEW r \in Creates,
                      m[r].status \in Decided
               PROVE  /\ m[r].by \in Calls \ late
                      /\ call[m[r].by].req = r
                      /\ Verdict[call[m[r].by].op] = m[r].status
    BY DEF DecisionsAreGiven
  <2>1. Given(m, call)
    BY DEF Copies, CopiesGiven
  <2>2. QED
    BY <2>1 DEF Given, HasAnswered, CopiesGiven
<1>3. QED
  BY <1>1, <1>2, TypeCorrect, GivenStep, PTL DEF Spec
-----------------------------------------------------------------------------
(* Confirmed answers, where processes take one command at a time.          *)

Single(p) == \A c, d \in Calls : Home[c] = p /\ Home[d] = p => Line[c] = Line[d]

\* Who answers requests takes one command at a time: the bot's poll loop, a command line.
OneCommand == \A c \in Calls \ Creates : Single(Home[c])

OneByOne ==
    \A c, d \in Calls : InFlight(c) /\ InFlight(d) /\ Line[c] = Line[d] => c = d

\* A request is answered after its creation has come to an end.
AskedBefore ==
    \A c \in Calls : call[c].op \in DOMAIN Verdict =>
        c \notin Creates /\ call[c].req \in Creates /\ call[call[c].req].pc = "end"

\* Only a process without a map reads the file, and what it saves is its map.
InHand ==
    \A c \in Calls : Single(Home[c]) =>
        /\ call[c].pc = "read" => map[Home[c]] = NoMap
        /\ call[c].pc = "save" => map[Home[c]] = call[c].held

Signed ==
    \A c \in Calls : call[c].pc = "save" /\ Grants(c) => call[c].held[call[c].req] = Entry(c)

\* A fresh answer is on file and wherever the next save of its process comes from.
FreshKept ==
    \A d \in fresh :
        /\ Confirmed(d)
        /\ file[call[d].req] = Entry(d)
        /\ map[Home[d]] # NoMap => map[Home[d]][call[d].req] = Entry(d)
        /\ \A c \in Calls : Home[c] = Home[d] /\ call[c].pc = "read" =>
                             call[c].held[call[d].req] = Entry(d)

InTurn == OneByOne /\ AskedBefore /\ InHand /\ Signed

\* What work on m leaves: the map m2, in which no decision of m has changed, and c saving it or
\* at its end.
Worked(c, m, m2) ==
    /\ UNCHANGED <<file, fresh>>
    /\ map' = [map EXCEPT ![Home[c]] = m2]
    /\ \A r \in Creates : r # c /\ m[r].status \in Decided => m2[r] = m[r]
    /\ \A d \in Calls : d # c => call'[d] = call[d]
    /\ call'[c].pc \in {"save", "end"}
    /\ call'[c].op \in DOMAIN Verdict => call'[c].op = call[c].op /\ call'[c].req = call[c].req
    /\ call'[c].pc = "save" =>
          /\ call'[c].held = m2 /\ m2 # NoMap
          /\ call'[c].op \in DOMAIN Verdict /\ call'[c].answer = "ok" =>
                m2[call'[c].req] = [status |-> Verdict[call'[c].op], by |-> c]

LEMMA SaveWorked ==
  ASSUME TypeOK, NEW c \in Calls, NEW m, NEW m2 \in Maps, NEW answer \in {"ok", "refused"},
         Save(c, m, m2, answer), UNCHANGED <<file, fresh>>,
         \A r \in Creates : r # c /\ m[r].status \in Decided => m2[r] = m[r],
         call[c].op \in DOMAIN Verdict /\ answer = "ok" => m2[call[c].req] = Entry(c)
  PROVE  Worked(c, m, m2)
<1> DEFINE k == [call[c] EXCEPT !.pc = "save", !.held = m2, !.answer = answer]
<1>1. call' = [call EXCEPT ![c] = k] /\ map' = [map EXCEPT ![Home[c]] = m2]
  BY DEF Save
<1>2. call[c] \in CallRecord /\ call'[c] = k /\ \A d \in Calls : d # c => call'[d] = call[d]
  BY <1>1 DEF TypeOK
<1>3. k.pc = "save" /\ k.held = m2 /\ k.answer = answer /\ k.op = call[c].op /\ k.req = call[c].req
  BY <1>2 DEF CallRecord
<1> HIDE DEF k
<1>4. QED
  BY <1>1, <1>2, <1>3, MapsAreMaps DEF Worked, Entry

LEMMA WorkShape ==
  ASSUME TypeOK, NEW c \in Calls, NEW m \in Maps, AtWork(c, m), Work(c, m)
  PROVE  \E m2 \in Maps : Worked(c, m, m2)
<1>0. InFlight(c) /\ UNCHANGED <<file, fresh>>
  BY DEF AtWork, InFlight, Work
<1>1. ASSUME NEW answer \in {"ok", "refused"}, Return(c, m, answer),
             answer = "refused" \/ call[c].op = "list"
      PROVE  Worked(c, m, m)
  <2>1. call' = [call EXCEPT ![c] = [Over EXCEPT !.answer = answer]]
    BY <1>1 DEF Return, End
  <2>2. call'[c].pc = "end" /\ call'[c].op = "none" /\ \A d \in Calls : d # c => call'[d] = call[d]
    BY <2>1 DEF TypeOK, Over, Idle
  <2>3. QED
    BY <1>0, <1>1, <2>2, Words DEF Worked, Return
<1>2. CASE Create(c, m)
  <2> DEFINE m2 == [m EXCEPT ![c] = NewRequest]
  <2>1. c \in Creates /\ call[c].op = "create" /\ Save(c, m, m2, "ok")
    BY <1>0, <1>2 DEF Create, TypeOK
  <2>2. m2 \in Maps /\ \A r \in Creates : r # c => m2[r] = m[r]
    BY <2>1, EntryPut, RecordsTyped
  <2> HIDE DEF m2
  <2>3. QED
    BY <1>0, <2>1, <2>2, Words, SaveWorked
<1>3. CASE Answer(c, m)
  <2> DEFINE r == call[c].req
  <2>0. call[c].op \in {"approve", "deny"} /\ r \in Creates
    BY <1>0, <1>3, Words DEF Answer, TypeOK
  <2>1. CASE Answerable(m, r) /\ Save(c, m, [m EXCEPT ![r] = Entry(c)], "ok")
    <3> DEFINE m2 == [m EXCEPT ![r] = Entry(c)]
    <3>1. m2 \in Maps /\ m2[r] = Entry(c) /\ \A q \in Creates : q # r => m2[q] = m[q]
      BY <2>0, EntryPut, EntryTyped
    <3>2. m[r].status \notin Decided
      BY <2>1 DEF Answerable, Decided
    <3>3. Save(c, m, m2, "ok")
      BY <2>1
    <3> HIDE DEF m2
    <3>4. QED
      BY <1>0, <3>1, <3>2, <3>3, SaveWorked
  <2>2. CASE Overdue(m, r) /\ Save(c, m, [m EXCEPT ![r] = Expired(m[r])], "refused")
    <3> DEFINE m2 == [m EXCEPT ![r] = Expired(m[r])]
    <3>1. m[r] \in Records \cup {Absent} /\ m[r].status = "pending"
      BY <2>0, <2>2 DEF Overdue, Maps
    <3>2. Expired(m[r]) \in Records /\ m[r].status \notin Decided
      BY <3>1, ExpiredTyped DEF Decided
    <3>3. m2 \in Maps /\ \A q \in Creates : q # r => m2[q] = m[q]
      BY <2>0, <3>2, EntryPut
    <3>4. Save(c, m, m2, "refused")
      BY <2>2
    <3> HIDE DEF m2
    <3>5. QED
      BY <1>0, <3>2, <3>3, <3>4, SaveWorked
  <2>3. CASE Return(c, m, "refused")
    BY <1>1, <2>3
  <2>4. QED
    BY <1>3, <2>1, <2>2, <2>3 DEF Answer, Entry
<1>4. CASE List(c, m)
  <2>1. CASE Swept(m) = m
    BY <1>1, <1>4, <2>1 DEF List
  <2>2. CASE Swept(m) # m
    <3>1. \A r \in Creates : m[r].status \in Decided => Swept(m)[r] = m[r]
      BY DEF Swept, Overdue, Decided
    <3>2. Save(c, m, Swept(m), "ok") /\ call[c].op = "list"
      BY <1>4, <2>2 DEF List
    <3>3. QED
      BY <1>0, <3>1, <3>2, SweptTyped, Words, SaveWorked
  <2>3. QED
    BY <2>1, <2>2
<1>5. QED
  BY <1>2, <1>3, <1>4 DEF Work

LEMMA WorkSteps ==
  ASSUME TypeOK, NEW c \in Calls, Warm(c) \/ Install(c)
  PROVE  \E m, m2 \in Maps :
            /\ Worked(c, m, m2)
            /\ \/ call[c].pc = "open" /\ map[Home[c]] # NoMap /\ m = map[Home[c]]
               \/ call[c].pc = "read" /\ m = call[c].held
<1>1. CASE Warm(c)
  <2>1. AtWork(c, map[Home[c]]) /\ Work(c, map[Home[c]]) /\ call[c].pc = "open" /\ map[Home[c]] # NoMap
    BY <1>1, WhatIsWorkedOn DEF Warm
  <2>2. QED
    BY <2>1, WorkShape DEF AtWork
<1>2. CASE Install(c)
  <2>1. AtWork(c, call[c].held) /\ Work(c, call[c].held) /\ call[c].pc = "read"
    BY <1>2, WhatIsWorkedOn DEF Install
  <2>2. QED
    BY <2>1, WorkShape DEF AtWork
<1>3. QED
  BY <1>1, <1>2

LEMMA ReadShape ==
  ASSUME TypeOK, NEW c \in Calls, Read(c) \/ ReadInVain(c)
  PROVE  /\ UNCHANGED <<file, map>> /\ call[c].pc = "open" /\ map[Home[c]] = NoMap
         /\ \A d \in Calls : d # c => call'[d] = call[d]
         /\ call'[c].pc = "read" /\ call'[c].op = call[c].op /\ call'[c].req = call[c].req
         /\ fresh' \subseteq fresh
         /\ call'[c].held = file \/ \A d \in fresh' : Home[d] # Home[c]
<1> DEFINE k(m) == [call[c] EXCEPT !.pc = "read", !.held = m]
<1>0. call[c] \in CallRecord
  BY DEF TypeOK
<1>1. PICK m \in {file, NoRequests} : call' = [call EXCEPT ![c] = k(m)] /\ (m = file \/ ReadInVain(c))
  BY DEF Read, ReadInVain
<1>2. k(m).pc = "read" /\ k(m).held = m /\ k(m).op = call[c].op /\ k(m).req = call[c].req
  BY <1>0 DEF CallRecord
<1> HIDE DEF k
<1>3. call'[c] = k(m) /\ \A d \in Calls : d # c => call'[d] = call[d]
  BY <1>1 DEF TypeOK
<1>4. /\ UNCHANGED <<file, map>> /\ call[c].pc = "open" /\ map[Home[c]] = NoMap /\ fresh' \subseteq fresh
      /\ ReadInVain(c) => \A d \in fresh' : Home[d] # Home[c]
  BY DEF Read, ReadInVain
<1>5. QED
  BY <1>1, <1>2, <1>3, <1>4

\* The end of a save: what has been answered remains.
LEMMA EndShape ==
  ASSUME TypeOK, NEW c \in Calls, Rename(c) \/ Throw(c)
  PROVE  /\ map' = map /\ call[c].pc = "save" /\ call'[c].pc = "end"
         /\ \A d \in Calls : d # c => call'[d] = call[d]
         /\ call'[c].op \in DOMAIN Verdict => call'[c].op = call[c].op /\ call'[c].req = call[c].req
         /\ Grants(c) /\ Rename(c) => call'[c].op = call[c].op /\ call'[c].req = call[c].req
                                      /\ call'[c].answer = "ok"
<1>1. PICK answer \in Answers : End(c, answer) /\ (Rename(c) => answer = call[c].answer)
  BY DEF Rename, Throw, TypeOK, CallRecord, Answers
<1> DEFINE k == IF answer = "refused" \/ call[c].op = "list" THEN [Over EXCEPT !.answer = answer]
                ELSE [call[c] EXCEPT !.pc = "end", !.held = NoMap, !.answer = answer]
<1>2. call' = [call EXCEPT ![c] = k] /\ call[c] \in CallRecord /\ map' = map /\ call[c].pc = "save"
  BY <1>1 DEF End, Rename, Throw, TypeOK
<1>3. k.pc = "end" /\ (k.op \in DOMAIN Verdict => k.op = call[c].op /\ k.req = call[c].req)
  BY <1>2, IdleTyped, Words DEF CallRecord, Over, Idle
<1>4. Grants(c) /\ Rename(c) => k.op = call[c].op /\ k.req = call[c].req /\ k.answer = "ok"
  BY <1>1, <1>2 DEF Grants, CallRecord
<1> HIDE DEF k
<1>5. QED
  BY <1>2, <1>3, <1>4 DEF TypeOK

LEMMA RestartShape ==
  ASSUME TypeOK, NEW p \in Procs, Restart(p)
  PROVE  /\ UNCHANGED <<file, fresh>>
         /\ \A q \in Procs : map'[q] = IF q = p THEN NoMap ELSE map[q]
         /\ \A c \in Calls : \/ call'[c] = call[c] /\ ~(Home[c] = p /\ InFlight(c))
                             \/ /\ Home[c] = p /\ InFlight(c) /\ call'[c].pc = "end"
                                /\ call'[c].op = call[c].op /\ call'[c].req = call[c].req
<1>1. UNCHANGED <<file, fresh>> /\ \A q \in Procs : map'[q] = IF q = p THEN NoMap ELSE map[q]
  BY DEF Restart, TypeOK
<1>2. ASSUME NEW c \in Calls, Home[c] = p, InFlight(c)
      PROVE  call'[c].pc = "end" /\ call'[c].op = call[c].op /\ call'[c].req = call[c].req
  <2>1. call[c] \in CallRecord
            /\ call'[c] = [call[c] EXCEPT !.pc = "end", !.held = NoMap, !.answer = "cut"]
    BY <1>2 DEF Restart, TypeOK
  <2>2. QED
    BY <2>1 DEF CallRecord
<1>3. ASSUME NEW c \in Calls, ~(Home[c] = p /\ InFlight(c)) PROVE call'[c] = call[c]
  BY <1>3 DEF Restart
<1>4. QED
  BY <1>1, <1>2, <1>3

LEMMA StartShape ==
  ASSUME TypeOK, NEW c \in Calls, NEW op, NEW r, Start(c, op, r)
  PROVE  /\ UNCHANGED <<file, map, fresh>> /\ call[c].pc = "idle" /\ Free(c)
         /\ \A d \in Calls : d # c => call'[d] = call[d]
         /\ call'[c].pc = "open" /\ call'[c].op = op /\ call'[c].req = r
<1> DEFINE k == [Idle EXCEPT !.pc = "open", !.op = op, !.req = r]
<1>1. call' = [call EXCEPT ![c] = k]
  BY DEF Start
<1>2. k.pc = "open" /\ k.op = op /\ k.req = r
  BY DEF Idle
<1> HIDE DEF k
<1>3. QED
  BY <1>1, <1>2 DEF TypeOK, Start

\* A call that goes on, comes to its end or stays, with its order.
Flows(c) ==
    /\ call'[c].pc \notin {"idle", "end"} => InFlight(c)
    /\ call[c].pc = "end" => call'[c].pc = "end"
    /\ call'[c].op \in DOMAIN Verdict => call'[c].op = call[c].op /\ call'[c].req = call[c].req

LEMMA FlowKeeps ==
  ASSUME OneByOne, AskedBefore, \A c \in Calls : Flows(c)
  PROVE  OneByOne' /\ AskedBefore'
<1>1. OneByOne'
  BY DEF OneByOne, Flows, InFlight
<1>2. AskedBefore'
  BY CallsAssumption DEF AskedBefore, Flows
<1>3. QED
  BY <1>1, <1>2

LEMMA TurnStep == TypeOK /\ InTurn /\ [Next]_vars => InTurn'
<1> SUFFICES ASSUME TypeOK, InTurn, [Next]_vars PROVE InTurn'
  OBVIOUS
<1>0. OneByOne /\ AskedBefore /\ InHand /\ Signed
  BY DEF InTurn
<1>1. ASSUME NEW c \in Calls, NEW op, NEW r, Start(c, op, r),
             op \in DOMAIN Verdict => c \notin Creates /\ r \in Created
      PROVE  InTurn'
  <2>1. /\ UNCHANGED <<file, map, fresh>> /\ call[c].pc = "idle" /\ Free(c)
        /\ \A d \in Calls : d # c => call'[d] = call[d]
        /\ call'[c].pc = "open" /\ call'[c].op = op /\ call'[c].req = r
    BY <1>1, StartShape
  <2>2. OneByOne'
    BY <1>0, <2>1 DEF OneByOne, Free, InFlight
  <2>3. AskedBefore'
    BY <1>0, <1>1, <2>1, CallsAssumption DEF AskedBefore, Created
  <2>4. InHand' /\ Signed'
    BY <1>0, <2>1 DEF InHand, Signed, Grants, Entry
  <2>5. QED
    BY <2>2, <2>3, <2>4 DEF InTurn
<1>2. ASSUME NEW c \in Calls, Warm(c) \/ Install(c) PROVE InTurn'
  <2>1. PICK m, m2 \in Maps : Worked(c, m, m2) /\ call[c].pc \in {"open", "read"}
    BY <1>2, WorkSteps
  <2>2. \A d \in Calls : Flows(d)
    BY <2>1 DEF Worked, Flows, InFlight
  <2>3. InHand'
    <3> SUFFICES ASSUME NEW d \in Calls, Single(Home[d])
                 PROVE  /\ call'[d].pc = "read" => map'[Home[d]] = NoMap
                        /\ call'[d].pc = "save" => map'[Home[d]] = call'[d].held
      BY DEF InHand
    <3>1. CASE d = c
      BY <2>1, <3>1, CallsAssumption DEF Worked, TypeOK
    <3>2. CASE d # c /\ Home[d] # Home[c]
      BY <1>0, <2>1, <3>2, CallsAssumption DEF Worked, TypeOK, InHand
    <3>3. CASE d # c /\ Home[d] = Home[c]
      <4>1. ~InFlight(d)
        BY <1>0, <2>1, <3>3 DEF OneByOne, Single, InFlight
      <4>2. QED
        BY <2>1, <3>3, <4>1 DEF Worked, InFlight
    <3>4. QED
      BY <3>1, <3>2, <3>3
  <2>4. Signed'
    BY <1>0, <2>1, Words DEF Worked, Signed, Grants, Entry
  <2>5. QED
    BY <1>0, <2>2, <2>3, <2>4, FlowKeeps DEF InTurn
<1>3. ASSUME NEW c \in Calls, Read(c) \/ ReadInVain(c) PROVE InTurn'
  <2>1. \A d \in Calls : Flows(d)
    BY <1>3, ReadShape DEF Flows, InFlight
  <2>2. InHand' /\ Signed'
    BY <1>0, <1>3, ReadShape DEF InHand, Signed, Grants, Entry
  <2>3. QED
    BY <1>0, <2>1, <2>2, FlowKeeps DEF InTurn
<1>4. ASSUME NEW c \in Calls, Rename(c) \/ Throw(c) PROVE InTurn'
  <2>1. \A d \in Calls : Flows(d)
    BY <1>4, EndShape DEF Flows, InFlight
  <2>2. InHand' /\ Signed'
    BY <1>0, <1>4, EndShape DEF InHand, Signed, Grants, Entry
  <2>3. QED
    BY <1>0, <2>1, <2>2, FlowKeeps DEF InTurn
<1>5. ASSUME NEW p \in Procs, Restart(p) PROVE InTurn'
  <2>1. \A d \in Calls : Flows(d)
    BY <1>5, RestartShape DEF Flows, InFlight
  <2>2. InHand' /\ Signed'
    BY <1>0, <1>5, RestartShape, CallsAssumption DEF InHand, Signed, Grants, Entry, InFlight
  <2>3. QED
    BY <1>0, <2>1, <2>2, FlowKeeps DEF InTurn
<1>6. CASE call' = call /\ map' = map
  BY <1>0, <1>6 DEF InTurn, OneByOne, AskedBefore, InHand, Signed, InFlight, Grants, Entry
<1>7. ASSUME NEW c \in Calls, Ask(c) PROVE InTurn'
  BY <1>1, <1>7, Words DEF Ask
<1>8. ASSUME NEW c \in Calls, NEW op \in Ops, NEW r \in Creates \cup {NoCall}, Order(c, op, r)
      PROVE  InTurn'
  <2>1. Start(c, op, r) /\ c \notin Creates /\ (op \in DOMAIN Verdict => r \in Created)
    BY <1>8, Words DEF Order
  <2>2. QED
    BY <1>1, <2>1
<1>9. CASE UNCHANGED vars
  BY <1>6, <1>9 DEF vars
<1>10. ASSUME NEW r \in Creates, Expire(r) PROVE InTurn'
  BY <1>6, <1>10 DEF Expire
<1>11. QED
  BY <1>2, <1>3, <1>4, <1>5, <1>7, <1>8, <1>9, <1>10 DEF Next, Progress

\* A call under way neither answers nor creates what was confirmed.
LEMMA FreshFree ==
  ASSUME AskedBefore, FreshKept, fresh \subseteq Calls, NEW d \in fresh
  PROVE  /\ d \in Calls \ Creates /\ call[d].pc = "end" /\ call[d].req \in Creates
         /\ call[call[d].req].pc = "end" /\ Entry(d).status \in Decided
  BY EntryTyped, Words DEF FreshKept, Confirmed, Grants, AskedBefore

LEMMA FreshStep ==
  ASSUME OneCommand PROVE TypeOK /\ InTurn /\ FreshKept /\ [Next]_vars => FreshKept'
<1> SUFFICES ASSUME TypeOK, InTurn, FreshKept, [Next]_vars PROVE FreshKept'
  OBVIOUS
<1>0. /\ OneByOne /\ AskedBefore /\ InHand /\ Signed /\ fresh \subseteq Calls
      /\ \A d \in fresh : Home[d] \in Procs
  BY CallsAssumption DEF InTurn, TypeOK
<1> DEFINE Holds(d) == /\ file'[call[d].req] = Entry(d)
                       /\ map'[Home[d]] # NoMap => map'[Home[d]][call[d].req] = Entry(d)
                       /\ \A c \in Calls : Home[c] = Home[d] /\ call'[c].pc = "read" =>
                                            call'[c].held[call[d].req] = Entry(d)
<1>1. ASSUME NEW d \in fresh, call'[d] = call[d], Holds(d)
      PROVE  /\ Confirmed(d)' /\ file'[call'[d].req] = Entry(d)'
             /\ map'[Home[d]] # NoMap => map'[Home[d]][call'[d].req] = Entry(d)'
             /\ \A c \in Calls : Home[c] = Home[d] /\ call'[c].pc = "read" =>
                                  call'[c].held[call'[d].req] = Entry(d)'
  BY <1>1 DEF FreshKept, Confirmed, Grants, Entry
<1>2. ASSUME fresh' \subseteq fresh, \A d \in fresh' : call'[d] = call[d] /\ Holds(d)
      PROVE  FreshKept'
  BY <1>1, <1>2 DEF FreshKept
<1> HIDE DEF Holds
<1>3. ASSUME NEW c \in Calls, NEW op, NEW r, Start(c, op, r) PROVE FreshKept'
  <2>1. \A d \in fresh : d # c
    BY <1>0, <1>3, FreshFree, StartShape
  <2>2. \A d \in fresh : call'[d] = call[d] /\ Holds(d)
    BY <1>0, <1>3, <2>1, StartShape DEF Holds, FreshKept
  <2>3. QED
    BY <1>2, <1>3, <2>2, StartShape
<1>4. ASSUME NEW c \in Calls, Warm(c) \/ Install(c) PROVE FreshKept'
  <2>1. PICK m, m2 \in Maps :
            /\ Worked(c, m, m2)
            /\ \/ call[c].pc = "open" /\ map[Home[c]] # NoMap /\ m = map[Home[c]]
               \/ call[c].pc = "read" /\ m = call[c].held
    BY <1>4, WorkSteps
  <2>2. ASSUME NEW d \in fresh PROVE call'[d] = call[d] /\ Holds(d)
    <3>1. d \in Calls /\ d # c /\ call[d].req # c /\ call[d].req \in Creates /\ Entry(d).status \in Decided
      BY <1>0, <2>1, FreshFree
    <3>2. Home[d] = Home[c] => m2[call[d].req] = Entry(d)
      BY <2>1, <3>1 DEF Worked, FreshKept
    <3>3. map'[Home[d]] # NoMap => map'[Home[d]][call[d].req] = Entry(d)
      BY <1>0, <2>1, <3>2, CallsAssumption DEF Worked, FreshKept, TypeOK
    <3>4. QED
      BY <2>1, <3>1, <3>3 DEF Worked, Holds, FreshKept
  <2>3. QED
    BY <1>2, <2>1, <2>2 DEF Worked
<1>5. ASSUME NEW c \in Calls, Read(c) \/ ReadInVain(c) PROVE FreshKept'
  <2>1. \A d \in fresh : d # c
    BY <1>0, <1>5, FreshFree, ReadShape
  <2>2. \A d \in fresh' : call'[d] = call[d] /\ Holds(d)
    BY <1>0, <1>5, <2>1, ReadShape DEF Holds, FreshKept
  <2>3. QED
    BY <1>2, <1>5, <2>2, ReadShape
<1>6. ASSUME NEW c \in Calls, Throw(c) PROVE FreshKept'
  <2>1. \A d \in fresh : d # c
    BY <1>0, <1>6, FreshFree, EndShape
  <2>2. file' = file /\ fresh' = fresh
    BY <1>6 DEF Throw
  <2>3. \A d \in fresh : call'[d] = call[d] /\ Holds(d)
    BY <1>0, <1>6, <2>1, <2>2, EndShape DEF Holds, FreshKept
  <2>4. QED
    BY <1>2, <2>2, <2>3
<1>7. ASSUME NEW c \in Calls, Rename(c) PROVE FreshKept'
  <2>1. /\ map' = map /\ call[c].pc = "save" /\ call'[c].pc = "end" /\ file' = call[c].held
        /\ \A d \in Calls : d # c => call'[d] = call[d]
        /\ fresh' = {d \in fresh : Home[d] = Home[c]} \cup {d \in {c} : Grants(d)}
    BY <1>7, EndShape DEF Rename
  <2>2. ASSUME NEW d \in fresh, Home[d] = Home[c] PROVE call'[d] = call[d] /\ Holds(d)
    <3>1. d \in Calls \ Creates /\ d # c
      BY <1>0, <2>1, FreshFree
    <3>2. map[Home[c]] = call[c].held /\ call[c].held # NoMap
      BY <1>0, <2>1, <2>2, <3>1 DEF OneCommand, InHand, TypeOK
    <3>3. file'[call[d].req] = Entry(d)
      BY <2>1, <2>2, <3>2 DEF FreshKept
    <3>4. QED
      BY <2>1, <3>1, <3>3 DEF Holds, FreshKept
  <2>3. ASSUME Grants(c)
        PROVE  /\ Confirmed(c)' /\ file'[call'[c].req] = Entry(c)'
               /\ map'[Home[c]] # NoMap => map'[Home[c]][call'[c].req] = Entry(c)'
               /\ \A d \in Calls : Home[d] = Home[c] => call'[d].pc # "read"
    <3>1. call'[c].op = call[c].op /\ call'[c].req = call[c].req /\ call'[c].answer = "ok"
      BY <1>7, <2>3, EndShape
    <3>2. Confirmed(c)' /\ Entry(c)' = Entry(c)
      BY <2>1, <2>3, <3>1 DEF Confirmed, Grants, Entry
    <3>3. Single(Home[c])
      BY <1>0, <2>3, Words DEF OneCommand, AskedBefore, Grants
    <3>4. map[Home[c]] = call[c].held /\ call[c].held[call[c].req] = Entry(c)
      BY <1>0, <2>1, <2>3, <3>3 DEF InHand, Signed
    <3>5. \A d \in Calls : Home[d] = Home[c] /\ d # c => ~InFlight(d)
      BY <1>0, <2>1, <3>3 DEF OneByOne, Single, InFlight
    <3>6. QED
      BY <2>1, <3>1, <3>2, <3>4, <3>5 DEF InFlight
  <2>4. QED
    BY <1>1, <2>1, <2>2, <2>3 DEF FreshKept
<1>8. ASSUME NEW p \in Procs, Restart(p) PROVE FreshKept'
  <2>1. \A d \in fresh : call'[d] = call[d]
    BY <1>0, <1>8, FreshFree, RestartShape DEF InFlight
  <2>2. \A d \in fresh : Holds(d)
    BY <1>0, <1>8, RestartShape DEF Holds, FreshKept
  <2>3. QED
    BY <1>2, <1>8, <2>1, <2>2, RestartShape
<1>9. CASE UNCHANGED <<file, map, call, fresh>>
  BY <1>9 DEF FreshKept, Confirmed, Grants, Entry
<1>10. QED
  BY <1>3, <1>4, <1>5, <1>6, <1>7, <1>8, <1>9 DEF Next, Progress, Ask, Order, Expire, vars

LEMMA TurnInit == Init => InTurn /\ FreshKept
  BY IdleTyped, Words DEF Init, InTurn, OneByOne, AskedBefore, InHand, Signed, FreshKept, InFlight,
     Idle, Grants

\* What an operator was told has been decided is on file, in the very words, for as long as no
\* other process has saved since and its own has not read the file in vain: no later answer,
\* listing, expiry, failing save or restart of its own process takes it back
\* (persistent-approval-store.ts:50-68, telegram-bot.ts:216-246).
THEOREM ConfirmedIsOnFile == ASSUME OneCommand PROVE Spec => []ConfirmedHolds
<1>1. TypeOK /\ FreshKept => ConfirmedHolds
  BY EntryTyped DEF TypeOK, FreshKept, Confirmed, Grants, ConfirmedHolds
<1>2. QED
  BY <1>1, TypeCorrect, TurnInit, TurnStep, FreshStep, PTL DEF Spec

LEMMA StandsStep ==
  TypeOK /\ CopiesGiven /\ InTurn /\ [Next]_vars =>
    \A p \in Procs, r \in Creates :
       (/\ Single(p)
        /\ map[p] # NoMap /\ map'[p] # NoMap
        /\ map[p][r].status \in Decided)
       => map'[p][r] = map[p][r]
<1> SUFFICES ASSUME TypeOK, CopiesGiven, InTurn, [Next]_vars, NEW p \in Procs, NEW r \in Creates,
                    Single(p), map[p] # NoMap, map'[p] # NoMap, map[p][r].status \in Decided
             PROVE  map'[p][r] = map[p][r]
  OBVIOUS
<1>1. call[r].pc = "end"
  BY DEF CopiesGiven, Given, HasAnswered, InTurn, AskedBefore
<1>2. ASSUME NEW c \in Calls, Warm(c) \/ Install(c) PROVE map'[p][r] = map[p][r]
  <2>1. PICK m, m2 \in Maps :
            /\ Worked(c, m, m2)
            /\ \/ call[c].pc = "open" /\ map[Home[c]] # NoMap /\ m = map[Home[c]]
               \/ call[c].pc = "read" /\ m = call[c].held
    BY <1>2, WorkSteps
  <2>2. CASE Home[c] # p
    BY <2>1, <2>2 DEF Worked, TypeOK
  <2>3. CASE Home[c] = p
    <3>1. m = map[p] /\ r # c
      BY <1>1, <2>1, <2>3 DEF InTurn, InHand
    <3>2. m2[r] = m[r] /\ map'[p] = m2
      BY <2>1, <2>3, <3>1 DEF Worked, TypeOK
    <3>3. QED
      BY <3>1, <3>2
  <2>4. QED
    BY <2>2, <2>3
<1>3. ASSUME NEW q \in Procs, Restart(q) PROVE map'[p][r] = map[p][r]
  BY <1>3, RestartShape
<1>4. CASE map' = map
  BY <1>4
<1>5. QED
  BY <1>2, <1>3, <1>4 DEF Next, Progress, Ask, Order, Start, Read, ReadInVain, Throw, Rename, Expire, vars

\* In a process that takes one command at a time a decision in memory is final, whatever is asked
\* of it later (approval-service.ts:69, :97, :142).
THEOREM AnswersStand == Spec => AnswerStands
<1>1. TypeOK /\ CopiesGiven /\ InTurn /\ [Next]_vars =>
        [\A p \in Procs, r \in Creates :
           (/\ map[p] # NoMap /\ map'[p] # NoMap
            /\ map[p][r].status \in Decided
            /\ \A c, d \in Calls : Home[c] = p /\ Home[d] = p => Line[c] = Line[d])
           => map'[p][r] = map[p][r]]_vars
  BY StandsStep DEF Single
<1>2. Init => CopiesGiven
  BY RecordsTyped, IdleTyped, CallsAssumption DEF Init, CopiesGiven, Given, Decided, NoRequests
<1>3. QED
  BY <1>1, <1>2, TypeCorrect, TurnInit, TurnStep, GivenStep, PTL DEF Spec, AnswerStands
=============================================================================
