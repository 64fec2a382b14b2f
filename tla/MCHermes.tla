------------------------------- MODULE MCHermes -------------------------------
(* An instance of Hermes for TLC: one run that failed elsewhere, a class   *)
(* of STRATEGY_MAP that is retried twice and the one that is not retried;  *)
(* and the claims of WorkflowMemory.                                       *)
EXTENDS Hermes, Sequences

Strategies == [transient |-> 2, auth_config |-> 0]

-----------------------------------------------------------------------------
(* Up to three runs of two workflows, with every order of their ids.       *)
W == INSTANCE WorkflowMemory

Bodies == { <<W!Step("extract", a)>> : a \in BOOLEAN }
            \cup { <<W!Step("store", TRUE), W!Step("extract", a)>> : a \in BOOLEAN }
            \cup { <<W!Step("extract", a), W!Step("store", TRUE)>> : a \in BOOLEAN }
MemoryRuns(uuids) == { W!Run(u, w, b, n) : u \in uuids, w \in {"w", "v"}, b \in Bodies, n \in {0, 2, 4} }
Histories == { <<x>> : x \in MemoryRuns({1}) }
               \cup { <<x, y>> : x \in MemoryRuns({2}), y \in MemoryRuns({1, 3}) }
               \cup { <<x, y, z>> : x \in MemoryRuns({2}), y \in {r \in MemoryRuns({1, 3}) : r.writes = 4},
                                    z \in {r \in MemoryRuns({4}) : r.writes = 4 /\ r.workflow = "w"} }

ASSUME MemoryIsSound ==
    /\ \A past \in Histories :
          W!FailuresAreFailures(past) /\ W!ContextIsOfLast(past) /\ W!LastIfInOrder(past)
    /\ \A before \in { <<x>> : x \in MemoryRuns({2}) }, y \in MemoryRuns({1, 3}), z \in MemoryRuns({4}) :
          W!StoredComesLast(before, <<y, z>>)

ASSUME MemoryHasExceptions ==
    /\ \E past \in Histories : W!LastRunIsOlder(past)
    /\ \E run \in MemoryRuns({1}) : W!FailedIsLastRun(run)
    /\ \E run \in MemoryRuns({1}) : W!ForgottenSilently(run)
=============================================================================
