--------------------------- MODULE MCProvisioning ---------------------------
(* Two deliveries at once of a checkout, its subscription and a cancellation, *)
(* of a client who is there or whom the checkout enters, with and without     *)
(* data no handler can take; and the claims of Migrations.                    *)
EXTENDS Provisioning, TLC, Sequences

CONSTANTS d1, d2, paid, subscribed, cancelled, planner, weekly

MCKind == paid :> "checkout" @@ subscribed :> "created" @@ cancelled :> "deleted"
MCRoles == {planner}
MCMissions == {weekly}
Symmetry == Permutations({d1, d2})

-----------------------------------------------------------------------------
(* Runs of the migrations, one with an answer that is not ok at each place, *)
(* and two at a time in every order.                                        *)
M == INSTANCE Migrations

Plain   == M!Table("a", {})
Other   == M!Table("b", {"a"})
Unasked == M!Statement("t", FALSE, {"a"})
Missing == M!Table("c", {"elsewhere"})
Bodies  == { <<Plain>>, <<Other>>, <<Plain, Unasked>>, <<Unasked>>, <<Missing>>, <<Plain, Other>>, <<>> }
FilesOf(bodies) == { << M!File("f", x), M!File("g", y) >> : x \in bodies, y \in bodies }
Answers == {<<>>} \cup { [i \in 1..n |-> IF i = n THEN x ELSE "ok"] :
                            n \in 1..8, x \in M!Answers \ {"ok"} }
Bases == {M!Database({}), M!Database({"elsewhere"})}
Turns == [1..9 -> 1..2]

ASSUME MigrationsAreSound ==
    /\ \A files \in FilesOf(Bodies), db \in Bases :
          /\ \A answers \in Answers :
                /\ M!EnteredIsApplied(files, db, answers)
                /\ M!AgainIsNothing(files, db, answers)
                /\ M!RetryIsSafe(files, db, answers)
          /\ \A i \in 1..2 : M!ChangedStops(files, db, i)
    /\ \A files \in FilesOf({<<Plain, Unasked>>, <<Other>>, <<Unasked>>}), turns \in Turns :
          M!OneOfTwoGetsThrough(files, M!Database({}), turns)

ASSUME MigrationsHaveExceptions ==
    LET both == << M!File("f", <<Plain, Unasked>>), M!File("g", <<Other>>) >>
        db   == M!Database({})
    IN  /\ \E answers \in Answers : "refused" \in M!ToSet(answers) /\ M!RetryFails(both, db, answers)
        /\ \E answers \in Answers : "lost" \in M!ToSet(answers) /\ M!RetryFails(both, db, answers)
        /\ \E answers \in Answers : "dies" \in M!ToSet(answers) /\ M!RetryFails(both, db, answers)
        /\ M!ManifestStopsAtThird
        /\ \E turns \in Turns : M!OneFailsForNothing(both, db, turns)
        /\ M!AppliedOutOfOrder(M!File("f", <<Plain>>), M!File("g", <<Plain>>), db)
=============================================================================
