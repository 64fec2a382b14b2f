---------------------------- MODULE WorkflowMemory ----------------------------
(***************************************************************************)
(* A workflow of steps (workflows/orchestrator.ts, workflow-runner.ts) and *)
(* the memory around it (memory-runtime/*.ts): what a run is told before   *)
(* it begins, and what it leaves behind.                                   *)
(*                                                                         *)
(* A run has an id, which is random, a workflow, the steps, of which some  *)
(* store something under a key, and the number of writes of its last hook  *)
(* that succeed.  What is stored has one key.  The records lie in files    *)
(* that are named by their ids; an id is a number here, in the order of    *)
(* these names.                                                            *)
(***************************************************************************)
EXTENDS Integers, FiniteSetsExt, SequencesExt

Step(does, ok) == [does |-> does, ok |-> ok]
Run(uuid, workflow, steps, writes) ==
    [uuid |-> uuid, workflow |-> workflow, steps |-> steps, writes |-> writes]

\* Ids are hexadecimal digits; mem-<key>-<time> comes after each of them.
LastUuid == 9
MemoryId(time) == LastUuid + time

Record(id, of, failure) == [id |-> id, of |-> of, failure |-> failure]

Nothing == [logs |-> {}, daily |-> <<>>, context |-> 0, mistakes |-> <<>>, time |-> 1]

-----------------------------------------------------------------------------
\* The steps that are executed: up to the first that fails.
runSteps(steps) ==
    SubSeq(steps, 1, Min({i \in DOMAIN steps : ~steps[i].ok} \cup {Len(steps)}))

allOk(run) == \A i \in DOMAIN run.steps : run.steps[i].ok

executeStoreMemory(m, run, step) ==
    IF step.does = "store" /\ step.ok
    THEN [m EXCEPT !.logs = @ \cup {Record(MemoryId(m.time), run.uuid, FALSE)}, !.time = @ + 1]
    ELSE m

\* The writes of a hook, in their order; after one that fails there are none.
Hooks == [ok |-> <<"log", "daily", "context">>, failed |-> <<"mistake", "log", "daily", "context">>]
Write(m, run, what) ==
    CASE what = "mistake" -> [m EXCEPT !.mistakes = Append(@, run)]
      [] what = "log"     -> [m EXCEPT !.logs = @ \cup {Record(run.uuid, run.uuid, ~allOk(run))}]
      [] what = "daily"   -> [m EXCEPT !.daily = Append(@, run.uuid)]
      [] what = "context" -> [m EXCEPT !.context = run.uuid]

Written(m, run, writes) ==
    FoldLeft(LAMBDA acc, what : Write(acc, run, what), m, SubSeq(writes, 1, Min({run.writes, Len(writes)})))
afterRun(m, run)  == Written(m, run, Hooks.ok)
onFailure(m, run) == Written(m, run, Hooks.failed)

\* A hook answers ok even if it did not write, so of its warnings none is passed on.
HookWarnings == <<>>

executeWorkflow(m, run) ==
    LET done  == FoldLeft(LAMBDA acc, step : executeStoreMemory(acc, run, step), m, runSteps(run.steps))
    IN  [memory |-> IF allOk(run) THEN afterRun(done, run) ELSE onFailure(done, run),
         ok |-> allOk(run),
         stepsCompleted |-> Cardinality({i \in DOMAIN runSteps(run.steps) : run.steps[i].ok}),
         warnings |-> [i \in 1..(IF allOk(run) THEN 0 ELSE 1) |-> "step"] \o HookWarnings]

History(runs) == FoldLeft(LAMBDA m, run : executeWorkflow(m, run).memory, Nothing, runs)

\* The record with the last name of those that failed, or of the others.
getLastRunLog(m, failureOnly) ==
    LET those == {r \in m.logs : r.failure = failureOnly}
    IN  IF those = {} THEN {} ELSE {CHOOSE r \in those : \A s \in those : s.id <= r.id}

getRelevantMistakes(m, workflow) ==
    LET those == SelectSeq(m.mistakes, LAMBDA run : run.workflow = workflow)
    IN  SubSeq(those, Len(those) - Min({5, Len(those)}) + 1, Len(those))

\* Only mistakes are chosen by the workflow.
beforeRun(m, workflow) ==
    [workingContext |-> m.context, lastRun |-> getLastRunLog(m, FALSE),
     lastFailure |-> getLastRunLog(m, TRUE), mistakes |-> getRelevantMistakes(m, workflow)]

-----------------------------------------------------------------------------
(* Claims.  MCHermes evaluates them.                                       *)

WritesAll(run) == run.writes >= 4
Stores(runs)   == \E r \in ToSet(runs) : \E step \in ToSet(runSteps(r.steps)) : step.does = "store" /\ step.ok

\* A run tells the next of failures as failures and of others as such, however often it
\* failed to write; a step after the one that failed leaves nothing.
FailuresAreFailures(runs) ==
    LET m == History(runs)
        told == beforeRun(m, "w")
        Failed(r) == \E run \in ToSet(runs) : run.uuid = r.of /\ ~allOk(run)
    IN  /\ \A r \in told.lastFailure : Failed(r)
        /\ \A r \in told.lastRun : Failed(r) => r.id > LastUuid
        /\ \A run \in ToSet(told.mistakes) : ~allOk(run)
        /\ \A r \in m.logs : r.id > LastUuid =>
              \E run \in ToSet(runs) : run.uuid = r.of /\ \E i \in DOMAIN run.steps :
                  run.steps[i].does = "store" /\ \A j \in 1..i : run.steps[j].ok

\* If all could be written, the working context and the last line of the day are of the last
\* run, and its failure is the last of the mistakes of its workflow.
ContextIsOfLast(runs) ==
    LET m    == History(runs)
        last == runs[Len(runs)]
        told == beforeRun(m, last.workflow)
    IN  WritesAll(last) =>
          /\ told.workingContext = last.uuid /\ m.daily[Len(m.daily)] = last.uuid
          /\ ~allOk(last) => told.mistakes[Len(told.mistakes)] = last

\* The last run is the last one, if ids come in the order of the runs and nothing was stored.
LastIfInOrder(runs) ==
    LET Good(run) == allOk(run)
        Bad(run)  == ~allOk(run)
        Of(Test(_)) == LET i == SelectLastInSeq(runs, Test) IN IF i = 0 THEN {} ELSE {runs[i].uuid}
        told == beforeRun(History(runs), "w")
    IN  /\ \A i, j \in DOMAIN runs : i < j => runs[i].uuid < runs[j].uuid
        /\ ~Stores(runs) /\ \A run \in ToSet(runs) : WritesAll(run)
        => {r.of : r \in told.lastRun} = Of(Good) /\ {r.of : r \in told.lastFailure} = Of(Bad)

\* Once something was stored, no later run is ever the last run.
StoredComesLast(before, after) ==
    Stores(before) /\ ~Stores(after) =>
      beforeRun(History(before \o after), "w").lastRun = beforeRun(History(before), "w").lastRun

(* Exceptions, which are there.                                            *)

\* The last run that a run is told of is an older one, of another workflow at that.
LastRunIsOlder(runs) ==
    LET told == beforeRun(History(runs), runs[2].workflow)
    IN  /\ Len(runs) = 2 /\ ~Stores(runs) /\ \A i \in 1..2 : allOk(runs[i]) /\ WritesAll(runs[i])
        /\ runs[1].workflow # runs[2].workflow
        /\ {r.of : r \in told.lastRun} = {runs[1].uuid}

\* What a run stored before it failed is the last run that did not fail.
FailedIsLastRun(run) ==
    ~allOk(run) /\ {r.of : r \in beforeRun(History(<<run>>), run.workflow).lastRun} = {run.uuid}

\* A run that nothing tells of afterwards ends ok and without a warning.
ForgottenSilently(run) ==
    LET out == executeWorkflow(Nothing, run)
    IN  out.ok /\ out.memory = Nothing /\ out.warnings = <<>>

=============================================================================
