--------------------------- MODULE CommandExecutor ---------------------------
(***************************************************************************)
(* The command lane of the Operating Core: executeCommand                  *)
(* (core/commands/command-executor.ts) and the stores it works on - the    *)
(* idempotency records (one JSON map in one file) and the event ledger.    *)
(*                                                                         *)
(* A process runs a submission without interruption from its first line to *)
(* the await of the handler, and again from the handler's answer to the    *)
(* end; submissions of other processes on the same files interleave at     *)
(* every file access.  The map is written in place: the file is truncated, *)
(* then written; a file that cannot be parsed, or cannot be read, is taken *)
(* for an empty map.  A write may throw before the truncation or after it, *)
(* a read may fail, a handler may throw, a record may outlive its TTL and  *)
(* a process may die at any step.                                          *)
(***************************************************************************)
EXTENDS Naturals, FiniteSets

CONSTANTS
    Submissions,  \* calls of executeCommand
    Commands,     \* the commands they may carry
    Host,         \* the process each submission is made in
    NoOne

ASSUME CommandsAssumption ==
    Commands \subseteq
        [action: STRING, work: STRING, tenant: STRING, actor: STRING,
         environment: STRING,
         key: STRING, skipPolicy: BOOLEAN]

ASSUME NoOneAssumption == NoOne \notin Submissions

VARIABLES
    records,  \* the map in idempotency-records.json, by key
    ledger,   \* the events of system-events.jsonl, by the submission they name
    command,  \* the command a submission carries
    pc,       \* where a submission stands
    op,       \* the record it is about to write: start, success or failure
    snap,     \* the map it has read and changed and is about to write
    answer,   \* what its caller was told
    ran,      \* submissions whose handler has done its work
    lapsed,   \* submissions whose record has outlived its TTL
    gone      \* submissions whose record a fault took from the map or hid from a reader

vars == <<records, ledger, command, pc, op, snap, answer, ran, lapsed, gone>>

-----------------------------------------------------------------------------
(* Keys, hashes and the policy documents of runtime/policies.              *)

\* The default key is derived from the action and the payload.
idempotencyKey(c) ==
    IF c.key = "derived" THEN <<c.action, c.work>> ELSE <<"explicit", c.key>>

\* hashCommand covers the action, the payload and the tenant.
commandHash(c) == <<c.action, c.work, c.tenant>>

Keys == {idempotencyKey(c) : c \in Commands}

risk(action) ==
    CASE action \in {"inspect", "read", "list"}                          -> "low"
      [] action \in {"rerun", "escalate", "cancel", "force_unlock", "delete"} -> "high"
      [] OTHER                                                           -> "medium"

approvalRequired == {"rerun", "escalate", "cancel", "delete", "force_unlock"}

evaluateActionRisk(c) ==
    CASE risk(c.action) # "low" /\ c.environment = "production" /\ c.tenant = "none"
                                       -> "block"
      [] c.action \in approvalRequired -> "approval_required"
      [] risk(c.action) = "high"       -> "approval_required"
      [] OTHER                         -> "allow"

-----------------------------------------------------------------------------
(* The idempotency store.                                                  *)

Absent   == [by |-> NoOne, hash |-> <<"none", "none", "none">>, status |-> "none"]
EmptyMap == [k \in Keys |-> Absent]

\* The submissions on record in a map.
Recorded(m) == {m[k].by : k \in Keys} \ {NoOne}

Known(k) == records[k] # Absent
Live(k)  == Known(k) /\ records[k].by \notin lapsed

\* Wrong on purpose: a failed command may be sent again.
checkIdempotency_Retry(c) ==
    LET k == idempotencyKey(c)
    IN  CASE ~ Live(k)                           -> "miss"
          [] records[k].status = "failed"        -> "miss"
          [] records[k].hash # commandHash(c)    -> "conflict"
          [] OTHER                               -> "hit"

\* Wrong on purpose: a command still under way does not count.
checkIdempotency_InFlight(c) ==
    LET k == idempotencyKey(c)
    IN  CASE ~ Live(k)                           -> "miss"
          [] records[k].status = "started"       -> "miss"
          [] records[k].hash # commandHash(c)    -> "conflict"
          [] OTHER                               -> "hit"

\* "miss" stands for expired as well: the executor goes on in both cases.
checkIdempotency(c) ==
    LET k == idempotencyKey(c)
    IN  CASE ~ Live(k)                           -> "miss"
          [] records[k].hash # commandHash(c)    -> "conflict"
          [] OTHER                               -> "hit"

KeyOf(s) == idempotencyKey(command[s])

\* Between two awaits a process runs one submission only.
Sync == {"load", "open", "put"}
MayRun(s) == \A t \in Submissions \ {s} : Host[t] = Host[s] => pc[t] \notin Sync

-----------------------------------------------------------------------------
Init ==
    /\ records = EmptyMap
    /\ ledger  = {}
    /\ command \in [Submissions -> Commands]
    /\ pc      = [s \in Submissions |-> "new"]
    /\ op      = [s \in Submissions |-> "start"]
    /\ snap    = [s \in Submissions |-> EmptyMap]
    /\ answer  = [s \in Submissions |-> "none"]
    /\ ran     = {}
    /\ lapsed  = {}
    /\ gone    = {}

Answer(s, a) == /\ pc'     = [pc EXCEPT ![s] = "answered"]
                /\ answer' = [answer EXCEPT ![s] = a]

\* The update of the map is over.
Forget(s) == /\ snap' = [snap EXCEPT ![s] = EmptyMap]
             /\ op'   = [op EXCEPT ![s] = "start"]

Goto(s, label) == pc' = [pc EXCEPT ![s] = label] /\ UNCHANGED answer

\* One line is appended to the ledger, atomically.
appendSystemEvent(s, type) == ledger' = ledger \cup {<<s, type>>}

fixed == <<command, lapsed, gone>>

\* Of the envelope schema, the field a caller can get wrong here.
validateSchema(c) == c.environment \in {"local", "dev", "staging", "production"}

\* A schema error is answered "failed" before anything is read.
Refuse(s) ==
    /\ pc[s] = "new" /\ MayRun(s)
    /\ ~ validateSchema(command[s])
    /\ Answer(s, "failed")
    /\ UNCHANGED <<records, ledger, op, snap, ran, fixed>>

Ready(s) == pc[s] = "new" /\ MayRun(s) /\ validateSchema(command[s])

Deduplicate(s) ==
    /\ Ready(s)
    /\ checkIdempotency(command[s]) \in {"hit", "conflict"}
    /\ Answer(s, IF checkIdempotency(command[s]) = "hit" THEN "idempotent_hit" ELSE "blocked")
    /\ UNCHANGED <<records, ledger, op, snap, ran, fixed>>

Gate(s) == IF command[s].skipPolicy THEN "allow" ELSE evaluateActionRisk(command[s])

\* After a miss, or a read of the map that failed.
GateRefuses(s) ==
    /\ Ready(s)
    /\ Gate(s) # "allow"
    /\ appendSystemEvent(s, Gate(s))
    /\ Answer(s, IF Gate(s) = "block" THEN "blocked" ELSE "approval_required")
    /\ UNCHANGED <<records, op, snap, ran, fixed>>

\* The metrics or the event cannot be written: executeCommand itself rejects.
RefuseFails(s) ==
    /\ pc[s] = "new" /\ MayRun(s)
    /\ Answer(s, "rejected")
    /\ UNCHANGED <<records, ledger, op, snap, ran, fixed>>

Admit(s) ==
    /\ Ready(s)
    /\ checkIdempotency(command[s]) = "miss"
    /\ Gate(s) = "allow"
    /\ Goto(s, "load")
    /\ UNCHANGED <<records, ledger, op, snap, ran, fixed>>

\* The read fails and is taken for a miss.
AdmitBlind(s) ==
    /\ Ready(s)
    /\ Gate(s) = "allow"
    /\ Goto(s, "load")
    /\ gone' = gone \cup ({records[KeyOf(s)].by} \ {NoOne})
    /\ UNCHANGED <<records, ledger, op, snap, ran, command, lapsed>>

-----------------------------------------------------------------------------
(* One update of the map: readAll, change one record, writeAll.            *)

\* The catch block: the failure event, then recordCommandFailure.  When the
\* event cannot be appended either, executeCommand itself rejects.
Catch(s) ==
    \/ /\ appendSystemEvent(s, "failed")
       /\ op' = [op EXCEPT ![s] = "failure"]
       /\ snap' = [snap EXCEPT ![s] = EmptyMap]
       /\ Goto(s, "load")
    \/ Answer(s, "rejected") /\ Forget(s) /\ UNCHANGED ledger

\* Wrong on purpose: the status is written in the executor's own words.
Changed_Words(s) ==
    CASE op[s] = "start" -> [by |-> s, hash |-> commandHash(command[s]), status |-> "started"]
      [] op[s] = "success" -> [records[KeyOf(s)] EXCEPT !.status = "executed"]
      [] op[s] = "failure" -> [records[KeyOf(s)] EXCEPT !.status = "failed"]

Changed(s) ==
    CASE op[s] = "start" -> [by |-> s, hash |-> commandHash(command[s]), status |-> "started"]
      [] op[s] = "success" -> [records[KeyOf(s)] EXCEPT !.status = "completed"]
      [] op[s] = "failure" -> [records[KeyOf(s)] EXCEPT !.status = "failed"]

Load(s) ==
    /\ pc[s] = "load"
    /\ op[s] = "start" \/ Known(KeyOf(s))
    /\ snap' = [snap EXCEPT ![s] = [records EXCEPT ![KeyOf(s)] = Changed(s)]]
    /\ Goto(s, "open")
    /\ UNCHANGED <<records, ledger, op, ran, fixed>>

\* The read fails: recordCommandStart puts its record into an empty map.
LoadBlind(s) ==
    /\ pc[s] = "load" /\ op[s] = "start"
    /\ snap' = [snap EXCEPT ![s] = [EmptyMap EXCEPT ![KeyOf(s)] = Changed(s)]]
    /\ gone' = gone \cup Recorded(records)
    /\ Goto(s, "open")
    /\ UNCHANGED <<records, ledger, op, ran, command, lapsed>>

\* The record is gone, or the read fails: recordCommandSuccess throws into the
\* catch block, and what recordCommandFailure throws is swallowed.
LoadMissing(s) ==
    /\ pc[s] = "load" /\ op[s] # "start"
    /\ IF op[s] = "success" THEN Catch(s)
                            ELSE Answer(s, "failed") /\ Forget(s) /\ UNCHANGED ledger
    /\ UNCHANGED <<records, ran, fixed>>

Open(s) ==
    /\ pc[s] = "open"
    /\ records' = EmptyMap
    /\ Goto(s, "put")
    /\ UNCHANGED <<ledger, op, snap, ran, fixed>>

\* writeAll throws.
WriteThrows(s) ==
    CASE op[s] = "start"   -> Answer(s, "rejected") /\ Forget(s) /\ UNCHANGED ledger
      [] op[s] = "success" -> Catch(s)
      [] op[s] = "failure" -> Answer(s, "failed") /\ Forget(s) /\ UNCHANGED ledger

\* The file cannot be opened for writing; nothing was truncated.
OpenFails(s) ==
    /\ pc[s] = "open"
    /\ WriteThrows(s)
    /\ UNCHANGED <<records, ran, fixed>>

\* The file was truncated and cannot be written, or not to its end: the
\* process lives on with an empty map.
PutFails(s) ==
    /\ pc[s] = "put"
    /\ WriteThrows(s)
    /\ records' = EmptyMap
    /\ gone' = gone \cup Recorded(records) \cup Recorded(snap[s])
    /\ UNCHANGED <<ran, command, lapsed>>

Put(s) ==
    /\ pc[s] = "put"
    /\ records' = snap[s]
    /\ CASE op[s] = "start"   -> Goto(s, "running")
         [] op[s] = "success" -> Answer(s, "executed")
         [] op[s] = "failure" -> Answer(s, "failed")
    /\ Forget(s)
    /\ UNCHANGED <<ledger, ran, fixed>>

-----------------------------------------------------------------------------
(* The handler settles.                                                    *)

HandlerReturns(s) ==
    /\ pc[s] = "running" /\ MayRun(s)
    /\ ran' = ran \cup {s}
    /\ \/ /\ appendSystemEvent(s, "executed")
          /\ op' = [op EXCEPT ![s] = "success"]
          /\ Goto(s, "load") /\ UNCHANGED snap
       \/ Catch(s)
    /\ UNCHANGED <<records, fixed>>

HandlerThrows(s) ==
    /\ pc[s] = "running" /\ MayRun(s)
    /\ Catch(s)
    /\ UNCHANGED <<records, ran, fixed>>

-----------------------------------------------------------------------------
(* The environment.                                                        *)

\* Time passes the expiresAt of the record s has started.
Expire(s) ==
    /\ pc[s] # "new" /\ s \notin lapsed
    /\ \E k \in Keys : records[k].by = s
    /\ lapsed' = lapsed \cup {s}
    /\ UNCHANGED <<records, ledger, command, pc, op, snap, answer, ran, gone>>

\* purgeExpiredIdempotencyRecords, called while no submission is at the file.
Purge ==
    /\ \A s \in Submissions : pc[s] \notin Sync
    /\ records' = [k \in Keys |-> IF Live(k) THEN records[k] ELSE Absent]
    /\ UNCHANGED <<ledger, command, pc, op, snap, answer, ran, lapsed, gone>>

\* Its write throws after the truncation.
PurgeFails ==
    /\ \A s \in Submissions : pc[s] \notin Sync
    /\ \E k \in Keys : Known(k) /\ ~ Live(k)
    /\ records' = EmptyMap
    /\ gone' = gone \cup Recorded(records)
    /\ UNCHANGED <<ledger, command, pc, op, snap, answer, ran, lapsed>>

\* A process dies with every submission it has begun and not answered.
Crash(h) ==
    LET lost == {s \in Submissions : Host[s] = h /\ pc[s] \notin {"new", "answered"}}
    IN  /\ pc' = [s \in Submissions |-> IF s \in lost THEN "lost" ELSE pc[s]]
        /\ snap' = [s \in Submissions |-> IF s \in lost THEN EmptyMap ELSE snap[s]]
        /\ op' = [s \in Submissions |-> IF s \in lost THEN "start" ELSE op[s]]
        /\ gone' = gone \cup UNION {Recorded(snap[s]) : s \in {t \in lost : pc[t] = "put"}}
        /\ UNCHANGED <<records, ledger, command, answer, ran, lapsed>>

Step(s) ==
    \/ Refuse(s) \/ Deduplicate(s) \/ GateRefuses(s) \/ RefuseFails(s)
    \/ Admit(s) \/ AdmitBlind(s)
    \/ Load(s) \/ LoadBlind(s) \/ LoadMissing(s)
    \/ Open(s) \/ OpenFails(s) \/ Put(s) \/ PutFails(s)

Next ==
    \/ \E s \in Submissions : Step(s) \/ HandlerReturns(s) \/ HandlerThrows(s) \/ Expire(s)
    \/ Purge \/ PurgeFails
    \/ \E s \in Submissions : Crash(Host[s])

Spec == Init /\ [][Next]_vars

-----------------------------------------------------------------------------
(* Properties.                                                             *)

RecordType == [by: Submissions \cup {NoOne}, hash: {commandHash(c) : c \in Commands} \cup {Absent.hash},
               status: {"none", "started", "completed", "failed"}]

\* The types of the state.
TypeOK ==
    /\ records \in [Keys -> RecordType]
    /\ ledger \subseteq Submissions \X {"executed", "failed", "block", "approval_required"}
    /\ command \in [Submissions -> Commands]
    /\ pc \in [Submissions -> {"new", "load", "open", "put", "running", "answered", "lost"}]
    /\ op \in [Submissions -> {"start", "success", "failure"}]
    /\ snap \in [Submissions -> [Keys -> RecordType]]
    /\ answer \in [Submissions -> {"none", "executed", "idempotent_hit", "blocked",
                                   "approval_required", "failed", "rejected"}]
    /\ ran \subseteq Submissions
    /\ lapsed \subseteq Submissions
    /\ gone \subseteq Submissions

InFlight(s) == pc[s] = "running"

SameKey(s, t) == s # t /\ KeyOf(s) = KeyOf(t)

\* The record of s is over its time, or a fault took it from the map or hid it.
Excused(s) == s \in lapsed \cup gone

\* In one process two handlers for one key are in flight together only when
\* the record of one of them has outlived its TTL, or was lost with the whole
\* map in a failed write or read: not for failures, conflicts, purges, writes
\* that throw before the truncation, or deaths.
SingleFlight ==
    \A s, t \in Submissions :
        SameKey(s, t) /\ InFlight(s) /\ InFlight(t) => Excused(s) \/ Excused(t)

\* In one process a key's work is done twice only when the first one's record
\* has outlived its TTL or was lost with the map: not for a handler that threw,
\* an event or a success that could not be recorded, or a retry after either.
AtMostOnce ==
    \A s, t \in Submissions :
        SameKey(s, t) /\ {s, t} \subseteq ran => Excused(s) \/ Excused(t)

-----------------------------------------------------------------------------
(* The inductive invariant behind both, in one process.                    *)

OneProcess == \A s, t \in Submissions : Host[s] = Host[t]

\* At most one submission is at the map.
OneAtTheMap == \A s, t \in Submissions : pc[s] \in Sync /\ pc[t] \in Sync => s = t

\* Whoever works or has worked on a key holds it, unless its record is excused.
Holds(s) == (InFlight(s) \/ s \in ran) /\ ~ Excused(s)

\* The record of a holder is in the file or about to be again.
HoldersOnRecord ==
    \A s \in Submissions : Holds(s) =>
        \/ records[KeyOf(s)].by = s
        \/ \E t \in Submissions : pc[t] = "put"

\* So is it in what the submission at the map is about to write.
SnapHolds ==
    \A t \in Submissions : pc[t] \in {"open", "put"} =>
        /\ \A s \in Submissions : Holds(s) => snap[t][KeyOf(s)].by = s
        /\ op[t] = "start" => snap[t][KeyOf(t)].by = t

\* A submission is admitted only when nobody holds its key.
StartsAlone ==
    \A t \in Submissions : pc[t] \in Sync /\ op[t] = "start" =>
        \A s \in Submissions : SameKey(s, t) => ~ Holds(s)

IInv == TypeOK /\ OneAtTheMap /\ HoldersOnRecord /\ SnapHolds /\ StartsAlone
=============================================================================
