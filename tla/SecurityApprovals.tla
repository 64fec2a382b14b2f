--------------------------- MODULE SecurityApprovals ---------------------------
(***************************************************************************)
(* Requests for approval (security/approvals/approval-service.ts) and the  *)
(* store that keeps them (persistent-approval-store.ts on top of           *)
(* security/persistence/json-file-store.ts).                               *)
(*                                                                         *)
(* Each process has a map of the requests, read from the file by its first *)
(* call and never again; a save puts one record into the map, takes a      *)
(* snapshot of all of it and replaces the file by it (temporary file,      *)
(* rename).  Agent enforcement and the control actions of the application  *)
(* create requests, concurrently; the Telegram bot's poll loop and an      *)
(* operator at the command line answer and list them, one command at a     *)
(* time, each command line in a process of its own.                        *)
(*                                                                         *)
(* The file is there from the start: the first save ever made is left out. *)
(***************************************************************************)
EXTENDS Naturals

CONSTANTS
    Calls,     \* the calls made; a request is named after the call creating it
    Creates,   \* those that create a request
    Procs,     \* processes
    Home,      \* the process a call is made in
    Line,      \* calls of one line are made one after another
    MaxRestarts,  \* bound: processes that end and are started again
    MaxFailures   \* bound: reads and saves that fail

ASSUME CallsAssumption ==
    /\ Creates \subseteq Calls /\ Creates # {}
    /\ Home \in [Calls -> Procs]
    /\ DOMAIN Line = Calls
ASSUME BoundsAssumption == MaxRestarts \in Nat /\ MaxFailures \in Nat

VARIABLES
    file,      \* data/security/approvals.json
    map,       \* the map of each process, once loaded
    call,      \* where each call stands and what it holds
    due,       \* requests whose expiresAt has passed
    late,      \* calls that granted or denied a request past its expiry
    fresh,     \* decisions confirmed; since then no other process has saved, and
               \* their own has not read the file in vain
    restarts,
    failures

vars == <<file, map, call, due, late, fresh, restarts, failures>>

-----------------------------------------------------------------------------
(* Records and maps.                                                       *)

Decided  == {"approved", "denied"}
Statuses == {"pending", "expired"} \cup Decided

NoCall  == "nobody"
Records == [status : Statuses, by : Calls \cup {NoCall}]
Absent  == [status |-> "absent", by |-> NoCall]
Maps    == [Creates -> Records \cup {Absent}]
NoMap   == [c \in {} |-> Absent]
NoRequests == [r \in Creates |-> Absent]

NewRequest == [status |-> "pending", by |-> NoCall]

\* Wrong on purpose: an expired request gets the word of cancelApproval.
Expired_Cancelled(record) == [record EXCEPT !.status = "cancelled"]

\* What expireApproval makes of a record: its decider, if any, stays.
Expired(record) == [record EXCEPT !.status = "expired"]

Overdue(m, r) == m[r].status = "pending" /\ r \in due

Verdict == [approve |-> "approved", deny |-> "denied"]

\* Wrong on purpose: any request that was not refused can be answered.
Answerable_Reopen(m, r) == m[r].status \in {"pending", "expired"} \cup Decided

\* Wrong on purpose: the expiry of the request is not looked at.
Answerable_AnyTime(m, r) == m[r].status = "pending"

\* approvePendingRequest and denyPendingRequest go on with these only.
Answerable(m, r) == m[r].status = "pending" /\ r \notin due

\* listPendingApprovals expires all that are overdue; what is expired at the
\* same time is saved at the same time.
Swept(m) == [r \in Creates |-> IF Overdue(m, r) THEN Expired(m[r]) ELSE m[r]]

-----------------------------------------------------------------------------
(* Calls.                                                                  *)

Ops    == {"create", "approve", "deny", "list"}
Idle   == [pc |-> "idle", op |-> "none", req |-> NoCall, held |-> NoMap, answer |-> "none"]
Places == {"idle", "open", "read", "save", "end"}
Answers == {"none", "ok", "refused", "failed", "cut"}

InFlight(c) == call[c].pc \notin {"idle", "end"}

\* The lines take one call at a time.
Free(c) == \A d \in Calls : Line[d] = Line[c] => ~InFlight(d)

Over == [Idle EXCEPT !.pc = "end"]

\* A call that has decided nothing leaves only its answer behind.
End(c, answer) ==
    call' = [call EXCEPT ![c] =
        IF answer = "refused" \/ @.op = "list" THEN [Over EXCEPT !.answer = answer]
        ELSE [@ EXCEPT !.pc = "end", !.held = NoMap, !.answer = answer]]

\* Wrong on purpose: persist runs before the record is put into the map.
Save_Before(c, m, m2, answer) ==
    /\ map' = [map EXCEPT ![Home[c]] = m2]
    /\ call' = [call EXCEPT ![c] = [@ EXCEPT !.pc = "save", !.held = m, !.answer = answer]]

\* save: m becomes m2, persist takes a snapshot of it, and the caller is to get
\* the answer once that is on file.
Save(c, m, m2, answer) ==
    /\ map' = [map EXCEPT ![Home[c]] = m2]
    /\ call' = [call EXCEPT ![c] = [@ EXCEPT !.pc = "save", !.held = m2, !.answer = answer]]

\* A call that saves nothing; the map is the one it worked on.
Return(c, m, answer) ==
    /\ map' = [map EXCEPT ![Home[c]] = m]
    /\ End(c, answer)

Create(c, m) ==
    /\ call[c].op = "create"
    /\ Save(c, m, [m EXCEPT ![c] = NewRequest], "ok")
    /\ UNCHANGED late

Answer(c, m) ==
    /\ call[c].op \in {"approve", "deny"}
    /\ LET r == call[c].req
       IN  \/ /\ Answerable(m, r)
              /\ Save(c, m, [m EXCEPT ![r] = [status |-> Verdict[call[c].op], by |-> c]], "ok")
              /\ late' = IF r \in due THEN late \cup {c} ELSE late
           \/ /\ ~Answerable(m, r)
              /\ IF Overdue(m, r) THEN Save(c, m, [m EXCEPT ![r] = Expired(m[r])], "refused")
                                  ELSE Return(c, m, "refused")
              /\ UNCHANGED late

List(c, m) ==
    /\ call[c].op = "list"
    /\ IF Swept(m) = m THEN Return(c, m, "ok") ELSE Save(c, m, Swept(m), "ok")
    /\ UNCHANGED late

\* With a map at hand a call runs to its save without giving way.
Work(c, m) ==
    /\ Create(c, m) \/ Answer(c, m) \/ List(c, m)
    /\ UNCHANGED <<file, due, fresh, restarts, failures>>

-----------------------------------------------------------------------------
Init ==
    /\ file = NoRequests
    /\ map = [p \in Procs |-> NoMap]
    /\ call = [c \in Calls |-> Idle]
    /\ due = {}
    /\ late = {}
    /\ fresh = {}
    /\ restarts = 0
    /\ failures = 0

Created == {c \in Creates : call[c].pc = "end" /\ call[c].answer = "ok"}

Start(c, op, r) ==
    /\ call[c].pc = "idle"
    /\ Free(c)
    /\ call' = [call EXCEPT ![c] = [Idle EXCEPT !.pc = "open", !.op = op, !.req = r]]
    /\ UNCHANGED <<file, map, due, late, fresh, restarts, failures>>

\* An agent's action or a control action needs an approval: a request with a new
\* id is created for it.
Ask(c) == c \in Creates /\ Start(c, "create", c)

\* The operator answers a request he has heard of, or wants the list of them: a
\* message to the bot or a command line.
Order(c, op, r) ==
    /\ c \notin Creates
    /\ \/ op \in {"approve", "deny"} /\ r \in Created
       \/ op = "list" /\ r = NoCall
    /\ Start(c, op, r)

\* load with a map already there.
Warm(c) ==
    /\ call[c].pc = "open"
    /\ map[Home[c]] # NoMap
    /\ Work(c, map[Home[c]])

\* load without one: the file is read, and every call that comes before the map
\* is there reads it too.
Read(c) ==
    /\ call[c].pc = "open"
    /\ map[Home[c]] = NoMap
    /\ call' = [call EXCEPT ![c] = [@ EXCEPT !.pc = "read", !.held = file]]
    /\ UNCHANGED <<file, map, due, late, fresh, restarts, failures>>

\* A read that fails, or finds no JSON, is tolerated: it yields no requests, and
\* the next save of this process writes a file without the others.
ReadInVain(c) ==
    /\ call[c].pc = "open"
    /\ map[Home[c]] = NoMap
    /\ failures < MaxFailures
    /\ failures' = failures + 1
    /\ call' = [call EXCEPT ![c] = [@ EXCEPT !.pc = "read", !.held = NoRequests]]
    /\ fresh' = {d \in fresh : Home[d] # Home[c]}
    /\ UNCHANGED <<file, map, due, late, restarts>>

\* What was read becomes the map, also when another call has installed one.
Install(c) ==
    /\ call[c].pc = "read"
    /\ Work(c, call[c].held)

\* writeJSON throws: the map keeps the change, the caller is told it failed.
Throw(c) ==
    /\ call[c].pc = "save"
    /\ failures < MaxFailures
    /\ failures' = failures + 1
    /\ End(c, "failed")
    /\ UNCHANGED <<file, map, due, late, fresh, restarts>>

\* c has told its operator that the request is approved, or denied.
Grants(c)    == call[c].op \in {"approve", "deny"} /\ call[c].answer = "ok"
Confirmed(c) == Grants(c) /\ call[c].pc = "end"

\* The rename: the file becomes the snapshot and the caller gets the answer.
Rename(c) ==
    /\ call[c].pc = "save"
    /\ file' = call[c].held
    /\ End(c, call[c].answer)
    /\ fresh' = {d \in fresh : Home[d] = Home[c]} \cup {d \in {c} : Grants(d)}
    /\ UNCHANGED <<map, due, late, restarts, failures>>

\* expiresAt passes.
Expire(r) ==
    /\ r \notin due
    /\ call[r].pc # "idle"
    /\ due' = due \cup {r}
    /\ UNCHANGED <<file, map, call, late, fresh, restarts, failures>>

\* A process ends, with the calls under way in it, and its map with it.  One
\* that has no call left is as good as gone.
Restart(p) ==
    /\ restarts < MaxRestarts
    /\ map[p] # NoMap
    /\ \E c \in Calls : Home[c] = p /\ call[c].pc # "end"
    /\ restarts' = restarts + 1
    /\ map' = [map EXCEPT ![p] = NoMap]
    /\ call' = [c \in Calls |->
                  IF Home[c] = p /\ InFlight(c)
                  THEN [call[c] EXCEPT !.pc = "end", !.held = NoMap, !.answer = "cut"]
                  ELSE call[c]]
    /\ UNCHANGED <<file, due, late, fresh, failures>>

Progress(c) == Warm(c) \/ Read(c) \/ ReadInVain(c) \/ Install(c) \/ Rename(c) \/ Throw(c)

Next ==
    \/ \E c \in Calls : Ask(c)
    \/ \E c \in Calls, op \in Ops, r \in Creates \cup {NoCall} : Order(c, op, r)
    \/ \E c \in Calls : Progress(c)
    \/ \E r \in Creates : Expire(r)
    \/ \E p \in Procs : Restart(p)

Spec == Init /\ [][Next]_vars

-----------------------------------------------------------------------------
(* Properties.                                                             *)

CallRecord == [pc : Places, op : Ops \cup {"none"}, req : Creates \cup {NoCall},
               held : Maps \cup {NoMap}, answer : Answers]

TypeOK ==
    /\ file \in Maps
    /\ map \in [Procs -> Maps \cup {NoMap}]
    /\ call \in [Calls -> CallRecord]
    /\ \A c \in Calls :
         /\ call[c].pc \in {"read", "save"} <=> call[c].held # NoMap
         /\ InFlight(c) => /\ call[c].op = "create" => c \in Creates
                           /\ call[c].op \in DOMAIN Verdict => call[c].req \in Creates
    /\ due \subseteq Creates /\ late \subseteq Calls /\ fresh \subseteq Calls
    /\ restarts \in 0..MaxRestarts /\ failures \in 0..MaxFailures

\* Every copy of the requests: on file, in memory, on its way between them.
Copies == {file} \cup {map[p] : p \in Procs} \cup {call[c].held : c \in Calls}

\* Wherever a request stands as approved or denied, on file, in the map of any
\* process or in a snapshot still to be renamed, an operator gave that very
\* answer to that request and gave it before the request expired
\* (approval-service.ts:63-109).
DecisionsAreGiven ==
    \A m \in Copies \ {NoMap} : \A r \in Creates :
        m[r].status \in Decided =>
            /\ m[r].by \in Calls \ late
            /\ call[m[r].by].req = r
            /\ Verdict[call[m[r].by].op] = m[r].status

\* What an operator was told has been approved or denied is on file, and a
\* restart finds it there, for as long as no other process has saved since and
\* its own has not read the file in vain, which json-file-store.ts:19-32 takes
\* for an empty one (persistent-approval-store.ts:50-68, telegram-bot.ts:216-246).
ConfirmedHolds ==
    \A c \in fresh : file[call[c].req].by = c
                     /\ file[call[c].req].status = Verdict[call[c].op]

\* In one process a request is answered once, and neither a later answer nor a
\* listing takes it back, for a process that takes its commands one at a time
\* (approval-service.ts:69, :97, :142).
AnswerStands ==
    [][\A p \in Procs, r \in Creates :
         (/\ map[p] # NoMap /\ map'[p] # NoMap
          /\ map[p][r].status \in Decided
          /\ \A c, d \in Calls : Home[c] = p /\ Home[d] = p => Line[c] = Line[d])
         => map'[p][r] = map[p][r]]_vars

\* "Safe for single-operator, single-server use": a decision the operator was
\* told is recorded stays on file.
SafeForOneOperator ==
    \A c \in Calls : Confirmed(c) => file[call[c].req].by = c
-----------------------------------------------------------------------------
(* The inductive invariant behind DecisionsAreGiven.                       *)

\* With the calls as k has them: c has answered r with this decision.
HasAnswered(k, c, r, decision) ==
    /\ c \in Calls /\ k[c].op \in DOMAIN Verdict
    /\ k[c].req = r /\ Verdict[k[c].op] = decision
    /\ k[c].pc \in {"save", "end"} /\ k[c].answer \in {"ok", "failed", "cut"}

\* Every decision in m is one that somebody has made.
Given(m, k) ==
    \A r \in Creates : m[r].status \in Decided => HasAnswered(k, m[r].by, r, m[r].status)

CopiesGiven ==
    /\ late = {}
    /\ Given(file, call)
    /\ \A p \in Procs : map[p] # NoMap => Given(map[p], call)
    /\ \A c \in Calls : call[c].held # NoMap => Given(call[c].held, call)
=============================================================================
