---------------------------- MODULE MCDistribution ----------------------------
(* An instance of Distribution for TLC; and the claims of ContentWorkflows *)
(* and RunViews.                                                           *)
EXTENDS Distribution

OneMilestone == <<"runs_100">>
TwoChannels  == <<"linkedin", "email">>

-----------------------------------------------------------------------------
(* Every answer of a model, with every loss of events.                     *)
C == INSTANCE ContentWorkflows

ASSUME ContentIsSound ==
    \A workflow \in C!Workflows, material \in BOOLEAN, written \in SUBSET (1..3) :
    \A answer \in C!Answers(workflow) :
        C!LastOutcomeIsTrue(workflow, material, answer, written) /\ C!FlagsAgree(workflow, material, answer, written)

ASSUME ContentHasExceptions ==
    /\ \A workflow \in C!Workflows : \E answer \in C!Answers(workflow) :
          C!SuccessWithoutContent(workflow, answer)
    /\ \A workflow \in C!Workflows : \E answer \in C!Answers(workflow), written \in SUBSET (1..3) :
          C!UsedButNotAttempted(workflow, answer, written)
    /\ \E answer \in C!Answers("transcript") : C!SaysWithProvider(answer)

-----------------------------------------------------------------------------
(* Two tracks in every order, up to four runs and limits around their      *)
(* number, and rates of up to six runs.                                    *)
R == INSTANCE RunViews

Tracks == { <<[id |-> 1, size |-> 2], [id |-> 2, size |-> n]>> : n \in 1..3 }
TwoTurns == [1..6 -> 1..2]
Kept == [there |-> TRUE, whole |-> TRUE, events |-> <<[id |-> 0, size |-> 1]>>, size |-> 1]

RunAt(status, hour, read) ==
    [status |-> status, approvalStatus |-> IF status = "logged" THEN "pending" ELSE "none", errors |-> hour = 2,
     published |-> status = "executed", executable |-> status = "approved", updated |-> hour, read |-> read]
Shown == { RunAt(status, hour, "ok") : hour \in 1..2,
             status \in {"approved", "executed", "validation_failed", "logged"} }
         \cup {RunAt("approved", 3, "error"), RunAt("approved", 0, "ok")}
RunFiles == UNION {[1..n -> Shown] : n \in 1..3}
Rates == { <<r, x, b, y>> \in (0..4) \X (2..4) \X (0..6) \X (2..6) : r <= b /\ x <= y /\ b - r <= y - x /\ r <= x }

ASSUME ViewsAreSound ==
    /\ \A events \in Tracks : R!InTurnAllAreKept(events)
    /\ \A events \in Tracks, turns \in TwoTurns, file \in {R!Empty, Kept} : R!NoneIsInvented(file, events, turns)
    /\ \A files \in RunFiles : \A i \in DOMAIN files, limit \in {0, 1, 2} : R!BadHidesNone(files, limit, i)
    /\ \A files \in RunFiles, limit \in 1..2 : R!ListsAreNewest(files, limit) /\ R!CommandsList(files, limit)
    /\ \A t \in Rates, higher \in BOOLEAN : R!TrendIsOfEarlier(t[1], t[2], t[3], t[4], higher)

ASSUME ViewsHaveExceptions ==
    /\ \E events \in Tracks, turns \in TwoTurns : R!LosesEvent(events, turns)
    /\ \E events \in Tracks, turns \in TwoTurns : R!BreaksFile(events, turns)
    /\ \E events \in Tracks, turns \in TwoTurns : R!ReadsEmptied(Kept, events, turns)
    /\ \E files \in RunFiles : R!ApprovedIsCutOff(files, 1) /\ R!NegativeListsNone(files, -1)
    /\ \E status \in R!Statuses : R!CountedNowhere(RunAt(status, 1, "ok"))
    /\ \E status \in R!Statuses : R!CountedTwice(RunAt(status, 2, "ok"))
    /\ \E r \in 0..4, n \in 2..20 : R!HalfIsNeutral(r, n, r + 1, n + 1)
=============================================================================
