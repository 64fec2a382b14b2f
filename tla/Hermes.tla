-------------------------------- MODULE Hermes --------------------------------
(***************************************************************************)
(* Hermes around the missions: the scheduler and the bridge that trigger   *)
(* them (hermes/hermes-scheduler.ts, hermes-bridge.ts), the hooks that     *)
(* leave a row about each (missions/mission-db-hooks.ts), the watcher that *)
(* polls the rows of failed ones (hermes-failure-watcher.ts) and the       *)
(* repair engine that runs those again (hermes-repair-engine.ts).          *)
(*                                                                         *)
(* Of a mission only its outcome matters here, as MissionOutcome has it.   *)
(* The tables are services outside the repository; each request to one may *)
(* fail, and no caller in this part of the program minds.                  *)
(*                                                                         *)
(* The missions are of one type and of one day: their ids differ by the    *)
(* counter of the process alone.                                           *)
(***************************************************************************)
EXTENDS Naturals, Sequences, FiniteSets

CONSTANTS
    Polls,       \* polls of the watcher that may overlap
    Linked,      \* failed runs recorded from elsewhere, each with its mission
    FetchLimit,  \* rows a poll asks for: fetchLimit, 20 by default
    AutoRepair,  \* the watcher is started with autoRepair, which is off by default
    MaxRetries,  \* maxRetries of the strategy for each class of failures
    MaxDue,      \* bound: how often a schedule is due
    MaxRuns,     \* bound: missions triggered
    MaxClears    \* bound: stops of Hermes and deaths of its process

ASSUME PollsAssumption   == IsFiniteSet(Polls)
ASSUME WatcherAssumption == FetchLimit \in Nat /\ AutoRepair \in BOOLEAN
ASSUME RetriesAssumption == MaxRetries \in [DOMAIN MaxRetries -> Nat]
ASSUME BoundsAssumption  == {MaxDue, MaxRuns, MaxClears} \subseteq Nat

VARIABLES
    runs,        \* the missions triggered, and how far their hooks are
    missionSeq,  \* the counter of the process that their ids are made of
    rows,        \* mission_runs
    watching,    \* Hermes is started: watcherInterval is set
    seenFailures,
    poll,        \* where each poll stands
    repairs,     \* what became of each repair of each row, oldest first
    clears       \* stops and deaths so far

vars == <<runs, missionSeq, rows, watching, seenFailures, poll, repairs, clears>>

-----------------------------------------------------------------------------
Refs == Linked \cup (1..MaxRuns)

NoRow == [status |-> "none", linked |-> FALSE, created |-> 0]

RowStatuses == {"none", "running", "completed", "failed"}
Results     == {"pending", "success", "escalated"}

FailedRows == {f \in Refs : rows[f].status = "failed"}

\* Of the failed rows, those created after others come first, up to the limit.
Newest(fetched) ==
    /\ fetched = FailedRows \/ Cardinality(fetched) = FetchLimit
    /\ Cardinality(fetched) <= FetchLimit
    /\ \A f \in fetched, g \in FailedRows \ fetched : rows[g].created <= rows[f].created

\* For whom a mission runs: a schedule, or the nth repair of a row.
Schedule == [row |-> 0, nth |-> 0]

IdlePoll == [at |-> "idle", todo |-> {}, alert |-> Schedule, class |-> "none",
             attempt |-> 0, run |-> 0]

Due == Cardinality({k \in DOMAIN runs : runs[k].by = Schedule})

\* triggerMission: the mission has its id and runs.
Trigger(by) ==
    /\ Len(runs) < MaxRuns
    /\ missionSeq' = missionSeq + 1
    /\ runs' = Append(runs, [at |-> "mission", ref |-> missionSeq', by |-> by,
                             outcome |-> "open"])

Init ==
    /\ runs = <<>>
    /\ missionSeq = 0
    /\ rows = [f \in Refs |-> IF f \in Linked THEN [NoRow EXCEPT !.status = "failed", !.linked = TRUE]
                              ELSE NoRow]
    /\ watching = TRUE
    /\ seenFailures = {}
    /\ poll = [p \in Polls |-> IdlePoll]
    /\ repairs = [f \in Refs |-> <<>>]
    /\ clears = 0

-----------------------------------------------------------------------------
(* A mission and its row.                                                  *)

\* A schedule is due: executeScheduledMission.
TriggerFromSchedule ==
    /\ watching
    /\ Due < MaxDue
    /\ Trigger(Schedule)
    /\ UNCHANGED <<rows, watching, seenFailures, poll, repairs, clears>>

\* The row a hook makes names no mission: mission_id is "".
HookRow == [status |-> "running", linked |-> FALSE,
            created |-> 1 + Cardinality({k \in 1..MaxRuns : rows[k] # NoRow})]

\* The mission ends, and only now is its row made, as running.  A row with its
\* run_ref may be there, of a mission before a restart: run_ref is unique, the insert
\* is refused.
MissionEnds(k) ==
    /\ runs[k].at = "mission"
    /\ \E outcome \in {"completed", "failed"} :
         runs' = [runs EXCEPT ![k].at = "update", ![k].outcome = outcome]
    /\ \/ /\ rows[runs[k].ref] = NoRow
          /\ rows' = [rows EXCEPT ![runs[k].ref] = HookRow]
       \/ UNCHANGED rows
    /\ UNCHANGED <<missionSeq, watching, seenFailures, poll, repairs, clears>>

\* The row under the run_ref, whosever it is, gets the outcome.
UpdateMissionRunStatus(k) ==
    /\ runs[k].at = "update"
    /\ runs' = [runs EXCEPT ![k].at = "back"]
    /\ \/ /\ rows[runs[k].ref] # NoRow
          /\ rows' = [rows EXCEPT ![runs[k].ref].status = runs[k].outcome]
       \/ UNCHANGED rows
    /\ UNCHANGED <<missionSeq, watching, seenFailures, poll, repairs, clears>>

-----------------------------------------------------------------------------
(* The watcher.                                                            *)

\* A poll is due: it asks for the rows.
Ask(p) ==
    /\ watching
    /\ poll[p].at = "idle"
    /\ poll' = [poll EXCEPT ![p].at = "asked"]
    /\ UNCHANGED <<runs, missionSeq, rows, watching, seenFailures, repairs, clears>>

\* The poll goes on to its next alert, if there is one.
NextAlert(todo) ==
    IF todo = {} THEN IdlePoll ELSE [IdlePoll EXCEPT !.at = "next", !.todo = todo]

\* Of what is new, a watcher without autoRepair only notifies.
ToRepair(new) == IF AutoRepair THEN new ELSE {}

\* Wrong on purpose: a failure is marked as seen when its repair is over.
Answer_MarkLater(p) ==
    /\ poll[p].at = "asked"
    /\ \E fetched \in SUBSET FailedRows :
         /\ Newest(fetched)
         /\ poll' = [poll EXCEPT ![p] = NextAlert(ToRepair(fetched \ seenFailures))]
    /\ UNCHANGED <<runs, missionSeq, rows, watching, seenFailures, repairs, clears>>

\* The rows have come, though Hermes may have been stopped since; what is new is
\* marked in one go, before anything else is awaited.
Answer(p) ==
    /\ poll[p].at = "asked"
    /\ \E fetched \in SUBSET FailedRows :
         /\ Newest(fetched)
         /\ poll' = [poll EXCEPT ![p] = NextAlert(ToRepair(fetched \ seenFailures))]
         /\ seenFailures' = seenFailures \cup fetched
    /\ UNCHANGED <<runs, missionSeq, rows, watching, repairs, clears>>

\* The table does not answer; the poll is over.
NoAnswer(p) ==
    /\ poll[p].at = "asked"
    /\ poll' = [poll EXCEPT ![p] = IdlePoll]
    /\ UNCHANGED <<runs, missionSeq, rows, watching, seenFailures, repairs, clears>>

-----------------------------------------------------------------------------
(* The repair of a failure, awaited by its poll.                           *)

\* The failure gets a class, and a repair of it begins.
BeginRepair(p) ==
    /\ poll[p].at = "next"
    /\ \E f \in poll[p].todo, class \in DOMAIN MaxRetries :
         /\ poll' = [poll EXCEPT ![p] =
                [at |-> IF MaxRetries[class] = 0 THEN "give_up" ELSE "look",
                 todo |-> @.todo \ {f}, alert |-> [row |-> f, nth |-> Len(repairs[f]) + 1],
                 class |-> class, attempt |-> 1, run |-> 0]]
         /\ repairs' = [repairs EXCEPT ![f] = Append(@, "pending")]
    /\ UNCHANGED <<runs, missionSeq, rows, watching, seenFailures, clears>>

\* Wrong on purpose: an attempt for which there is no mission is not counted.
Missed_Free(p) == [poll[p] EXCEPT !.at = "look"]

\* Wrong on purpose: one attempt too many.
Missed_OneMore(p) ==
    IF poll[p].attempt <= MaxRetries[poll[p].class]
    THEN [poll[p] EXCEPT !.at = "look", !.attempt = @ + 1]
    ELSE [poll[p] EXCEPT !.at = "give_up"]

\* An attempt is over without success: the next one, or none.
Missed(p) ==
    IF poll[p].attempt < MaxRetries[poll[p].class]
    THEN [poll[p] EXCEPT !.at = "look", !.attempt = @ + 1]
    ELSE [poll[p] EXCEPT !.at = "give_up"]

\* getMissionById finds the mission the row names; retryMission triggers it again.
RetryMission(p) ==
    /\ poll[p].at = "look"
    /\ rows[poll[p].alert.row].linked
    /\ Trigger(poll[p].alert)
    /\ poll' = [poll EXCEPT ![p].at = "run", ![p].run = Len(runs) + 1]
    /\ UNCHANGED <<rows, watching, seenFailures, repairs, clears>>

\* The row names none, or the table does not answer.
NoMission(p) ==
    /\ poll[p].at = "look"
    /\ poll' = [poll EXCEPT ![p] = Missed(p)]
    /\ UNCHANGED <<runs, missionSeq, rows, watching, seenFailures, repairs, clears>>

\* finalizeRepair, and what the notification tells.
Finalize(p, result) ==
    /\ repairs' = [repairs EXCEPT ![poll[p].alert.row][poll[p].alert.nth] = result]
    /\ poll' = [poll EXCEPT ![p] = NextAlert(@.todo)]

\* Wrong on purpose: a mission that is back is a success.
Retried_Any(p) ==
    /\ poll[p].at = "run"
    /\ runs[poll[p].run].at = "back"
    /\ Finalize(p, "success")
    /\ UNCHANGED <<runs, missionSeq, rows, watching, seenFailures, clears>>

\* The mission that was run again is back.
Retried(p) ==
    /\ poll[p].at = "run"
    /\ runs[poll[p].run].at = "back"
    /\ \/ runs[poll[p].run].outcome = "completed" /\ Finalize(p, "success")
       \/ /\ runs[poll[p].run].outcome = "failed"
          /\ poll' = [poll EXCEPT ![p] = Missed(p)]
          /\ UNCHANGED repairs
    /\ UNCHANGED <<runs, missionSeq, rows, watching, seenFailures, clears>>

\* All attempts are used up, or there are none to make: a person is told.
GiveUp(p) ==
    /\ poll[p].at = "give_up"
    /\ Finalize(p, "escalated")
    /\ UNCHANGED <<runs, missionSeq, rows, watching, seenFailures, clears>>

-----------------------------------------------------------------------------
(* Hermes is stopped and started, or its process dies and is started again. *)

\* What is under way goes on; the watcher forgets what it has seen.
StopHermes ==
    /\ watching /\ clears < MaxClears
    /\ watching' = FALSE
    /\ seenFailures' = {}
    /\ clears' = clears + 1
    /\ UNCHANGED <<runs, missionSeq, rows, poll, repairs>>

StartHermes ==
    /\ ~watching
    /\ watching' = TRUE
    /\ UNCHANGED <<runs, missionSeq, rows, seenFailures, poll, repairs, clears>>

Die ==
    /\ clears < MaxClears
    /\ clears' = clears + 1
    /\ runs' = [k \in DOMAIN runs |-> [runs[k] EXCEPT !.at = "gone"]]
    /\ missionSeq' = 0
    /\ watching' = TRUE
    /\ seenFailures' = {}
    /\ poll' = [p \in Polls |-> IdlePoll]
    /\ UNCHANGED <<rows, repairs>>

-----------------------------------------------------------------------------
RunStep(k)    == MissionEnds(k) \/ UpdateMissionRunStatus(k)
RepairStep(p) == \/ BeginRepair(p) \/ RetryMission(p) \/ NoMission(p)
                 \/ Retried(p) \/ GiveUp(p)

Next == \/ TriggerFromSchedule \/ StopHermes \/ StartHermes \/ Die
        \/ \E k \in DOMAIN runs : RunStep(k)
        \/ \E p \in Polls : Ask(p) \/ Answer(p) \/ NoAnswer(p) \/ RepairStep(p)

\* Missions end (MissionOutcome), requests are answered or fail, polls are due, and a
\* table that is asked again and again answers.
Spec == /\ Init /\ [][Next]_vars
        /\ \A k \in 1..MaxRuns : WF_vars(k \in DOMAIN runs /\ RunStep(k))
        /\ \A p \in Polls : WF_vars(Ask(p)) /\ SF_vars(Answer(p)) /\ WF_vars(RepairStep(p))

-----------------------------------------------------------------------------
(* Properties.                                                             *)

Alerts == [row : Refs, nth : Nat \ {0}]

RowRecord  == [status : RowStatuses, linked : BOOLEAN, created : Nat]
RunRecord  ==
    {r \in [at : {"mission", "update", "back", "gone"}, ref : 1..MaxRuns,
            by : Alerts \cup {Schedule}, outcome : {"open", "completed", "failed"}] :
        /\ r.at = "mission" => r.outcome = "open"
        /\ r.at \in {"update", "back"} => r.outcome # "open"}
PollRecord == [at : {"idle", "asked", "next", "look", "run", "give_up"},
               todo : SUBSET Refs, alert : Alerts \cup {Schedule},
               class : DOMAIN MaxRetries \cup {"none"}, attempt : Nat, run : Nat]

Working(p) == poll[p].at \in {"look", "run", "give_up"}

PollsTyped ==
    /\ poll \in [Polls -> PollRecord]
    /\ \A p \in Polls :
         /\ Working(p) => poll[p].alert \in Alerts /\ poll[p].class \in DOMAIN MaxRetries
         /\ poll[p].at \in {"look", "run"} => poll[p].attempt \in 1..MaxRetries[poll[p].class]
         /\ poll[p].at = "run" => poll[p].run \in DOMAIN runs

TypeOK ==
    /\ runs \in Seq(RunRecord) /\ missionSeq \in 0..Len(runs)
    /\ rows \in [Refs -> RowRecord]
    /\ watching \in BOOLEAN /\ seenFailures \subseteq Refs
    /\ PollsTyped
    /\ repairs \in [Refs -> Seq(Results)]
    /\ clears \in 0..MaxClears

\* However its polls overlap, the watcher has a failure repaired once, and once
\* more for every stop or death that makes it forget (hermes-failure-watcher.ts:95,
\* :130-131).
RepairedOnce == \A f \in Refs : Len(repairs[f]) <= 1 + clears

MadeFor(alert) == {k \in DOMAIN runs : runs[k].by = alert}

Tells(f, n) ==
    LET made == MadeFor([row |-> f, nth |-> n])
    IN  /\ repairs[f][n] = "success"   => \E k \in made : runs[k].outcome = "completed"
        /\ repairs[f][n] = "escalated" => \A k \in made : runs[k].outcome = "failed"

\* The end a repair is said to have had is that of the missions run for it, whatever
\* else ran, failed or was repaired meanwhile (hermes-repair-engine.ts:177-221).
RepairsTell == \A f \in Refs : \A n \in DOMAIN repairs[f] : Tells(f, n)

\* f is an alert of a poll, or the one it has repaired now.
AtWork(f) ==
    \E p \in Polls : f \in poll[p].todo \/ (Working(p) /\ poll[p].alert.row = f)

\* Whatever a poll answers, f is among its rows.
InReach(f) ==
    /\ f \in FailedRows
    /\ Cardinality({g \in FailedRows \ {f} : rows[g].created >= rows[f].created}) < FetchLimit

\* f is among the rows a poll will get, and no repair of it has begun; or one has
\* been taken up and is not over.
Waits(f) ==
    \/ AutoRepair /\ watching /\ InReach(f) /\ repairs[f] = <<>>
    \/ AtWork(f)

\* Where autoRepair is on, a failure is taken up as long as it is among the newest
\* rows a poll asks for and Hermes is not stopped, also across deaths; and a repair
\* that is taken up comes to an end.  A failure older than those rows may be missed
\* for good (hermes-failure-watcher.ts:115-173, hermes-repair-engine.ts:147-221).
RepairsSettle == \A f \in Refs : Waits(f) ~> ~Waits(f)
-----------------------------------------------------------------------------
(* The inductive invariants behind the two.                                *)

\* The polls that have f before them.
Holders(f) == {p \in Polls : f \in poll[p].todo}

\* Behind RepairedOnce: what is repaired or before a poll was taken up as new, and what
\* has been taken up once is not new before the watcher forgets.
TakenUpOnce ==
    /\ \A p \in Polls : poll[p].at \in {"idle", "asked"} => poll[p].todo = {}
    /\ \A f \in Refs :
         Len(repairs[f]) + Cardinality(Holders(f)) <=
             clears + (IF f \in seenFailures THEN 1 ELSE 0)

\* Behind RepairsTell: a repair is one poll's; its missions are triggered by that poll
\* only, one at a time, and all but the one that runs have failed.
RepairsApart ==
    /\ \A k \in DOMAIN runs :
         runs[k].by # Schedule => runs[k].by.nth \in DOMAIN repairs[runs[k].by.row]
    /\ \A p \in Polls : Working(p) =>
         /\ poll[p].alert.nth \in DOMAIN repairs[poll[p].alert.row]
         /\ repairs[poll[p].alert.row][poll[p].alert.nth] = "pending"
         /\ \A q \in Polls : Working(q) /\ poll[q].alert = poll[p].alert => q = p
         /\ poll[p].at = "run" => runs[poll[p].run].by = poll[p].alert
         /\ \A k \in MadeFor(poll[p].alert) :
              runs[k].outcome = "failed" \/ (poll[p].at = "run" /\ k = poll[p].run)
=============================================================================
