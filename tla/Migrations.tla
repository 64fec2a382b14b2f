------------------------------ MODULE Migrations ------------------------------
(***************************************************************************)
(* The runner of SQL migrations (db/migrator.ts) and the files it is       *)
(* given (sql/*.sql).  It reads the ledger once, applies what is not in    *)
(* it, one statement per request and without a transaction around them,    *)
(* and enters a file after its last statement.  A request may be refused,  *)
(* or its answer lost after it was carried out; a run may die between two  *)
(* requests; nothing keeps two runs apart.                                 *)
(*                                                                         *)
(* A statement is what it makes and needs.  Of the files the model has     *)
(* what decides whether they can be applied: a few statements of each.     *)
(***************************************************************************)
EXTENDS Naturals, Sequences, FiniteSetsExt, SequencesExt

\* guarded is IF NOT EXISTS, or a block that looks first.
Statement(makes, guarded, needs) == [makes |-> makes, guarded |-> guarded, needs |-> needs]
Table(name, needs)   == Statement(name, TRUE, needs)
Column(name, needs)  == Statement(name, TRUE, needs)
Trigger(name, needs) == Statement(name, FALSE, needs \cup {"update_updated_at"})
Policy(name, needs)  == Statement(name, FALSE, needs \cup {"auth"})

\* A file as it lies in the directory; hash tells its versions apart.
File(name, statements) == [name |-> name, hash |-> 1, present |-> TRUE, statements |-> statements]

neonOsSchema == File("neon-os-schema", << Table("control_runs", {}), Table("approvals", {}), Table("dag_runs", {}) >>)
neonSchema   == File("neon-schema", << Table("runs", {}), Table("steps", {"runs"}), Table("patterns", {"runs"}) >>)
saasOnboarding ==
    File("002-saas-onboarding",
         << Table("subscriptions", {"clients"}), Trigger("subscriptions_updated_at", {"subscriptions"}),
            Policy("service_full_access_clients", {"clients"}), Column("clients.plan_tier", {"clients"}) >>)
moatSignals ==
    File("003-moat-signals",
         << Table("client_signals", {"clients", "mission_runs"}), Table("client_schedules", {"clients"}),
            Trigger("client_schedules_updated_at", {"client_schedules"}),
            Column("deliverables.outcome", {"deliverables"}) >>)
patternsUpgrade     == File("004-patterns-upgrade", << Column("patterns.action_taken", {"patterns"}) >>)
distributionRouting == File("005-distribution-routing", << Table("distribution_assets", {"clients", "deliverables"}) >>)

MIGRATION_MANIFEST ==
    << neonOsSchema, neonSchema, saasOnboarding, moatSignals, patternsUpgrade, distributionRouting >>

\* What the schema of the other database makes, and what its host brings.
supabaseSchema == {"clients", "mission_runs", "deliverables", "update_updated_at", "auth"}

-----------------------------------------------------------------------------
Database(there) == [there |-> there, ledger |-> {}]

\* An answer to a request is "ok", "refused" or "lost"; instead of the request the run may die.
Answers == {"ok", "refused", "lost", "dies"}

Begun == [at |-> "ledger", known |-> {}, file |-> 1, ran |-> 0, applied |-> 0, skipped |-> 0, end |-> "no"]

Entry(file) == [name |-> file.name, hash |-> file.hash]

\* From file on, go over what was applied; stop at a file that is missing or was changed.
Settle(r, files) ==
    LET Known(i) == files[i].name \in {e.name : e \in r.known}
        Stops(i) == ~files[i].present \/ (Known(i) /\ Entry(files[i]) \notin r.known)
        ahead    == {i \in r.file..Len(files) : Stops(i) \/ ~Known(i)}
        next     == Min(ahead \cup {Len(files) + 1})
    IN  [r EXCEPT !.file = next, !.skipped = @ + next - r.file,
                  !.end = IF ahead = {} THEN "ok" ELSE IF Stops(next) THEN "failed" ELSE "no"]

executes(db, st)  == st.needs \subseteq db.there /\ (st.guarded \/ st.makes \notin db.there)
records(db, file) == file.name \notin {e.name : e \in db.ledger}

\* A request of a run: what becomes of the database and of the run.
Request(db, r, files, answer) ==
    LET Result(works, after, onward) ==
            [db |-> IF works /\ answer # "refused" THEN after ELSE db,
             r  |-> IF works /\ answer = "ok" THEN onward ELSE [r EXCEPT !.end = "failed"]]
        file == files[r.file]
    IN  CASE r.at = "ledger" -> Result(TRUE, db, [r EXCEPT !.at = "load"])
          [] r.at = "load"   -> Result(TRUE, db, Settle([r EXCEPT !.at = "files", !.known = db.ledger], files))
          [] r.at = "files" /\ r.ran < Len(file.statements) ->
                LET st == file.statements[r.ran + 1]
                IN  Result(executes(db, st), [db EXCEPT !.there = @ \cup {st.makes}], [r EXCEPT !.ran = @ + 1])
          [] r.at = "files" /\ r.ran = Len(file.statements) ->
                Result(records(db, file), [db EXCEPT !.ledger = @ \cup {Entry(file)}],
                       Settle([r EXCEPT !.file = @ + 1, !.ran = 0, !.applied = @ + 1], files))

\* A step of run k of those that go on at a time.
Step(s, k, files, answer) ==
    IF s.runs[k].end # "no" THEN s
    ELSE IF answer = "dies" THEN [s EXCEPT !.runs[k].end = "died"]
    ELSE LET out == Request(s.db, s.runs[k], files, answer)
         IN  [db |-> out.db, runs |-> [s.runs EXCEPT ![k] = out.r]]

\* The runs go on as the turns say, and then each to its end.
Turns(k, files) == [i \in 1..(2 + FoldLeft(LAMBDA n, f : n + Len(f.statements) + 1, 0, files)) |-> k]

Together(files, db, turns) ==
    FoldLeft(LAMBDA s, k : Step(s, k, files, "ok"), [db |-> db, runs |-> [k \in 1..2 |-> Begun]],
             turns \o Turns(1, files) \o Turns(2, files))

\* One run, of whose requests the answers are these, and then they are "ok".
runMigrations(files, db, answers) ==
    LET n == Len(Turns(1, files))
        s == FoldLeft(LAMBDA acc, i : Step(acc, 1, files, IF i \in DOMAIN answers THEN answers[i] ELSE "ok"),
                      [db |-> db, runs |-> <<Begun>>], [i \in 1..n |-> i])
    IN  [db |-> s.db, run |-> s.runs[1]]

Alone(files, db) == runMigrations(files, db, <<>>)

-----------------------------------------------------------------------------
(* Claims.  MCProvisioning evaluates them.                                 *)

Made(file) == {st.makes : st \in ToSet(file.statements)}
Sound(files, db) ==
    /\ \A e \in db.ledger : \E f \in ToSet(files) : Entry(f) = e /\ Made(f) \subseteq db.there
    /\ \E n \in 0..Len(files) : db.ledger = {Entry(files[i]) : i \in 1..n}

\* Whatever is refused, lost or dies, a file in the ledger was applied to its end, and before
\* it all that come before it; a run that ends ok has entered all.
EnteredIsApplied(files, db, answers) ==
    LET out == runMigrations(files, db, answers)
    IN  /\ Sound(files, out.db)
        /\ out.run.end = "ok" => out.db.ledger = {Entry(f) : f \in ToSet(files)}

\* And so with two runs at a time, of which one gets through if one alone would.
OneOfTwoGetsThrough(files, db, turns) ==
    LET s == Together(files, db, turns)
    IN  /\ Sound(files, s.db)
        /\ Alone(files, db).run.end = "ok" => \E k \in 1..2 : s.runs[k].end = "ok"

\* A run after one that ended ok skips all and does nothing.
AgainIsNothing(files, db, answers) ==
    LET out   == runMigrations(files, db, answers)
        again == Alone(files, out.db)
    IN  out.run.end = "ok" =>
          again.db = out.db /\ again.run.end = "ok" /\ again.run.applied = 0 /\ again.run.skipped = Len(files)

\* A run that stopped anywhere can be run again, if each statement is one that looks first.
RetryIsSafe(files, db, answers) ==
    /\ \A f \in ToSet(files) : \A st \in ToSet(f.statements) : st.guarded
    /\ Alone(files, db).run.end = "ok"
    => Alone(files, runMigrations(files, db, answers).db).run.end = "ok"

\* A file that was applied and then changed, or is gone, stops the run before it does anything.
ChangedStops(files, db, i) ==
    LET out     == Alone(files, db)
        changed == [files EXCEPT ![i].hash = 2]
        gone    == [files EXCEPT ![i].present = FALSE]
    IN  out.run.end = "ok" =>
          \A edited \in {changed, gone} :
              Alone(edited, out.db).run.end = "failed" /\ Alone(edited, out.db).db = out.db

(* Exceptions, which are there.                                            *)

\* After a failure that was not the files' the files cannot be applied at all.
RetryFails(files, db, answers) ==
    LET out == runMigrations(files, db, answers)
    IN  /\ Alone(files, db).run.end = "ok" /\ out.run.end \in {"failed", "died"}
        /\ Alone(files, out.db).run.end = "failed"

\* The files as they are end at the third in the database they are for, each time; they need
\* what the schema of the other database makes.
ManifestStopsAtThird ==
    LET out == Alone(MIGRATION_MANIFEST, Database({}))
    IN  /\ out.run.end = "failed" /\ out.run.applied = 2 /\ out.run.file = 3
        /\ Alone(MIGRATION_MANIFEST, out.db).run.end = "failed"
        /\ Alone(MIGRATION_MANIFEST, Database(supabaseSchema)).run.end = "ok"

\* One of two runs at a time fails, and says so of a database that is as it should be.
OneFailsForNothing(files, db, turns) ==
    LET s == Together(files, db, turns)
    IN  s.runs[2].end = "failed" /\ s.runs[1].end = "ok" /\ s.db = Alone(files, db).db

\* A file that comes into the order later is applied after those that it was put before.
AppliedOutOfOrder(f, g, db) ==
    LET first == Alone(<<g>>, db)
        again == Alone(<<f, g>>, first.db)
    IN  first.run.end = "ok" /\ again.run.end = "ok" /\ again.run.applied = 1 /\ again.run.skipped = 1

=============================================================================
