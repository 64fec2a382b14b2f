------------------------------- MODULE RunViews -------------------------------
(***************************************************************************)
(* What operators see of runs: the tracker's file of events of a run       *)
(* (services/observability/run-tracker.ts), the dashboard over all runs    *)
(* (run-dashboard.ts) and the commands that list some of them              *)
(* (commands/list-*.command.ts).                                           *)
(*                                                                         *)
(* A run is its status and the few facts the views look at; updated is the *)
(* hour it was changed in, 0 if that cannot be read.                       *)
(***************************************************************************)
EXTENDS Integers, FiniteSetsExt, SequencesExt

-----------------------------------------------------------------------------
(* The tracker.  A track reads the file, empties it and fills it again; an *)
(* event has a size, as a text has that is laid over another.              *)

Empty == [there |-> FALSE, whole |-> FALSE, events |-> <<>>, size |-> 0]
Idle  == [at |-> "read", seen |-> <<>>]
Size(events) == FoldLeft(LAMBDA n, e : n + e.size, 0, events)

\* A text that is filled in over a longer one leaves the end of that one.
Filled(file, events) ==
    [there |-> TRUE, whole |-> file.size <= Size(events), events |-> events,
     size |-> IF file.size <= Size(events) THEN Size(events) ELSE file.size]

\* The next step of track k of those that go on at a time.
track(s, k, event) ==
    LET t == s.tracks[k]
        To(at) == [s EXCEPT !.tracks[k].at = at]
    IN  CASE t.at = "read" /\ s.file.there /\ ~s.file.whole -> To("failed")
          [] t.at = "read" /\ (~s.file.there \/ s.file.whole) ->
                [To("empty") EXCEPT !.tracks[k].seen = Append(s.file.events, event)]
          [] t.at = "empty" -> [To("fill") EXCEPT !.file = [Empty EXCEPT !.there = TRUE]]
          [] t.at = "fill"  -> [To("done") EXCEPT !.file = Filled(s.file, t.seen)]
          [] t.at \in {"done", "failed"} -> s

\* The tracks of the events go on as the turns say.
Tracked(file, events, turns) ==
    FoldLeft(LAMBDA s, k : track(s, k, events[k]), [file |-> file, tracks |-> [k \in DOMAIN events |-> Idle]], turns)

InTurn(n) == [i \in 1..(3 * n) |-> (i + 2) \div 3]

-----------------------------------------------------------------------------
(* The dashboard.                                                          *)

Statuses == {"queued", "context_loaded", "in_progress", "draft_complete", "validation_passed", "validation_failed",
             "pending_approval", "revision_requested", "approved", "rejected", "executed", "logged", "closed"}

isFailureRun(run)         == run.status = "validation_failed" \/ (run.errors /\ run.status # "executed")
isPendingApprovalRun(run) == run.status = "pending_approval" \/ run.approvalStatus = "pending"
isPublishedRun(run)       == run.status = "executed" /\ run.published

sortByRecency(runs)       == SortSeq(runs, LAMBDA a, b : a.updated > b.updated)
capItems(items, limit)    == SubSeq(items, 1, Min({limit, Len(items)}))

\* No limit is one above any number of runs.
NoLimit == 1000
normalizeLimit(limit) == IF limit > 0 THEN limit ELSE NoLimit

Counted == [queued |-> {"queued"}, pendingApproval |-> {"pending_approval"}, approved |-> {"approved"},
            executed |-> {"executed"}, rejected |-> {"rejected"}, revisionRequested |-> {"revision_requested"}]
countStatuses(runs) ==
    LET Count(Test(_)) == Len(SelectSeq(runs, Test))
    IN  [c \in DOMAIN Counted \cup {"failed"} |->
           IF c = "failed" THEN Count(isFailureRun) ELSE Count(LAMBDA run : run.status \in Counted[c])]

\* A file that is not a run's is left out with a warning, one that cannot be read with an error.
getDashboard(files, limit) ==
    LET runs   == sortByRecency(SelectSeq(files, LAMBDA f : f.read = "ok"))
        n      == normalizeLimit(limit)
        Of(Test(_)) == capItems(SelectSeq(runs, Test), n)
    IN  [ok |-> \A f \in ToSet(files) : f.read # "error", counts |-> countStatuses(runs),
         recentRuns |-> capItems(runs, n), recentFailures |-> Of(isFailureRun),
         pendingApprovals |-> Of(isPendingApprovalRun), recentlyPublished |-> Of(isPublishedRun)]

\* The commands cut what the dashboard has cut once more, at zero if the limit is below.
applyLimit(items, limit) == capItems(items, Max({0, limit}))

listFailedRuns(files, limit)   == applyLimit(getDashboard(files, limit).recentFailures, limit)
listExecutedRuns(files, limit) == applyLimit(getDashboard(files, limit).recentlyPublished, limit)
listApprovedRuns(files, limit) ==
    applyLimit(SelectSeq(getDashboard(files, limit).recentRuns,
                         LAMBDA run : run.status = "approved" /\ run.executable), limit)

-----------------------------------------------------------------------------
(* The trend of a rate: r of R runs in the last day, b of B in the last    *)
(* seven, the day among them.  The rates are compared without dividing.    *)

Window(now, hours, runs) == SelectSeq(runs, LAMBDA run : run.updated # 0 /\ now - run.updated <= hours)

deriveTrendStatus(r, R, b, B, higherIsBetter) ==
    LET delta == r * B - b * R
    IN  IF 20 * delta < R * B /\ -20 * delta < R * B THEN "neutral"
        ELSE IF (delta > 0) = higherIsBetter THEN "improving" ELSE "degrading"

buildTrend(runs, now, higherIsBetter) ==
    LET Attempted(hours) == SelectSeq(Window(now, hours, runs), LAMBDA run : run.attempted)
        Counts(hours)    == Len(SelectSeq(Window(now, hours, runs), LAMBDA run : run.counts))
        R == Len(Attempted(24))
        B == Len(Attempted(168))
    IN  IF R < 2 \/ B < 2 THEN "insufficient_data"
        ELSE deriveTrendStatus(Counts(24), R, Counts(168), B, higherIsBetter)

-----------------------------------------------------------------------------
(* Claims.  MCDistribution evaluates them.                                 *)

\* One after the other, all events are in the file, in order.
InTurnAllAreKept(events) ==
    LET s == Tracked(Empty, events, InTurn(Len(events)))
    IN  s.file.whole /\ s.file.events = events

\* In whatever order two go on, a file that is whole has one of the events at least and none
\* of a track that failed; it is what was there with some of them after it.
NoneIsInvented(file, events, turns) ==
    LET s == Tracked(file, events, turns)
        n == Len(file.events)
    IN  s.file.whole /\ (\E k \in DOMAIN events : s.tracks[k].at = "done") =>
          /\ SubSeq(s.file.events, 1, n) = file.events
          /\ \A i \in (n + 1)..Len(s.file.events) :
                \E j \in DOMAIN events : s.file.events[i] = events[j] /\ s.tracks[j].at = "done"
          /\ Len(s.file.events) > n

\* A file that cannot be read hides no other run.
BadHidesNone(files, limit, i) ==
    LET rest == [getDashboard(RemoveAt(files, i), limit) EXCEPT !.ok = FALSE]
    IN  files[i].read = "error" => getDashboard(files, limit) = rest

\* Each list is of its own kind, and what the limit cuts off is no newer than what is left.
ListsAreNewest(files, limit) ==
    LET cut == getDashboard(files, limit)
        all == getDashboard(files, NoLimit)
        Newest(some, every) ==
            /\ IsPrefix(some, every)
            /\ Len(some) < Len(every) => Len(some) = limit
            /\ \A i, j \in DOMAIN every : i < j => every[i].updated >= every[j].updated
    IN  /\ Newest(cut.recentFailures, all.recentFailures) /\ Newest(cut.pendingApprovals, all.pendingApprovals)
        /\ Newest(cut.recentlyPublished, all.recentlyPublished) /\ Newest(cut.recentRuns, all.recentRuns)
        /\ cut.counts = all.counts

\* The commands on failed and on executed runs list what the dashboard would.
CommandsList(files, limit) ==
    /\ listFailedRuns(files, limit) = getDashboard(files, limit).recentFailures
    /\ listExecutedRuns(files, limit) = getDashboard(files, limit).recentlyPublished

\* A trend that is not neutral is so against the earlier days alone.
TrendIsOfEarlier(r, R, b, B, higherIsBetter) ==
    LET trend == deriveTrendStatus(r, R, b, B, higherIsBetter)
        Earlier == (r * (B - R) > (b - r) * R) = higherIsBetter
    IN  /\ trend = "improving" => Earlier
        /\ trend = "degrading" => ~Earlier /\ B > R

(* Exceptions, which are there.                                            *)

\* Two tracks end without an error, and one event is gone, or the file is broken, so that no
\* later event can be tracked.
LosesEvent(events, turns) ==
    LET s == Tracked(Empty, events, turns)
    IN  /\ \A k \in DOMAIN events : s.tracks[k].at = "done"
        /\ s.file.whole /\ Len(s.file.events) < Len(events)
BreaksFile(events, turns) ==
    LET s == Tracked(Empty, events, turns)
    IN  /\ \A k \in DOMAIN events : s.tracks[k].at = "done"
        /\ Tracked(s.file, <<events[1]>>, InTurn(1)).tracks[1].at = "failed"

\* A track reads the file while it is empty, and fails.
ReadsEmptied(file, events, turns) ==
    \E k \in DOMAIN events : file.whole /\ Tracked(file, events, turns).tracks[k].at = "failed"

\* With a limit that is not used up, an approved run that could be executed is not listed.
ApprovedIsCutOff(files, limit) ==
    /\ Len(listApprovedRuns(files, limit)) < limit
    /\ Len(listApprovedRuns(files, limit)) < Len(listApprovedRuns(files, NoLimit))

\* A limit below zero is none to the dashboard and nothing to the commands.
NegativeListsNone(files, limit) ==
    /\ limit < 0 /\ getDashboard(files, limit) = getDashboard(files, NoLimit)
    /\ getDashboard(files, limit).recentFailures # <<>> /\ listFailedRuns(files, limit) = <<>>

\* One run is counted nowhere, one twice.
CountedNowhere(run) == run.read = "ok" /\ \A c \in DOMAIN countStatuses(<<run>>) : countStatuses(<<run>>)[c] = 0
CountedTwice(run)   == \E c \in DOMAIN Counted : countStatuses(<<run>>)[c] = 1 /\ countStatuses(<<run>>).failed = 1

\* The rate falls by half against the earlier days, and that is neutral.
HalfIsNeutral(r, R, b, B) ==
    /\ deriveTrendStatus(r, R, b, B, TRUE) = "neutral"
    /\ 2 * r * (B - R) <= (b - r) * R /\ b > r

=============================================================================
