---------------------------- MODULE MissionControl ----------------------------
(***************************************************************************)
(* One mission: runMission (agent-roles/mission-controller.ts) over        *)
(* runAgentPipeline (agent-roles/pipeline-runner.ts), with the missions    *)
(* that agent-roles/mission-templates.ts builds.                           *)
(*                                                                         *)
(* A mission is a pipeline of stages, each done by a handler from outside. *)
(* The controller waits for one handler at a time, in a race with a timer: *)
(* a handler that loses the race goes on working, unheard.  What lies      *)
(* between the end of one wait and the next call is one step.              *)
(***************************************************************************)
EXTENDS Naturals, Sequences, FiniteSets

CONSTANTS
    Missions,  \* the missions that may be run
    Retries    \* maxRetries of each kind of stage, ROLE_DEFAULTS

Kinds == {"planner", "executor", "validator", "monitor"}

ASSUME RoleRetriesAssumption == Retries \in [Kinds -> Nat]

VARIABLES
    mission,   \* the mission that runs
    pipe,      \* the pipeline under way: the locals of runAgentPipeline
    state,     \* what the mission has to show
    outputs,   \* outputs the handlers have delivered, numbered from 1
    strays,    \* executors still at work although the wait for them is over
    rejected,  \* outputs a validator did not accept
    accepted   \* the last output a validator accepted

missionVars == <<mission, pipe, state, outputs, strays, rejected, accepted>>

-----------------------------------------------------------------------------
(* The missions of the templates.                                          *)

Template(stages, escalateOnFailure, maxEscalations, monitored) ==
    [stages |-> stages, escalateOnFailure |-> escalateOnFailure,
     maxEscalations |-> maxEscalations, monitored |-> monitored]

Full         == Template(<<"planner", "executor", "validator", "monitor">>, TRUE, 1, TRUE)
Review       == Template(<<"planner", "executor", "validator">>, TRUE, 1, FALSE)
ExecValidate == Template(<<"executor", "validator">>, FALSE, 0, FALSE)
Repair       == Template(<<"monitor", "planner", "executor", "validator">>, TRUE, 2, FALSE)
Monitor      == Template(<<"monitor">>, FALSE, 0, TRUE)

StageLists == {m.stages : m \in {Full, Review, ExecValidate, Repair, Monitor}}

\* The stages are those of a template; the options of a template leave the number
\* of rounds to whoever builds the mission.
ASSUME MissionsAssumption ==
    Missions \subseteq [stages : StageLists, escalateOnFailure : BOOLEAN,
                        maxEscalations : Nat, monitored : BOOLEAN]

Has(stages, kind) == \E i \in DOMAIN stages : stages[i] = kind

\* A mission escalates when its policy says so and it has an architect; 0 rounds
\* mean one, though mission-types.ts:34 says that 0 is no limit.
MaxEscalations(m) == IF m.maxEscalations = 0 THEN 1 ELSE m.maxEscalations
Escalates(m)      == m.escalateOnFailure /\ Has(m.stages, "planner")

-----------------------------------------------------------------------------
(* The pipeline under way.                                                 *)

Nothing == 0   \* no output: undefined, or the null of a failure

Stages == CASE pipe.part = "primary"    -> mission.stages
            [] pipe.part = "escalation" -> <<"planner", "executor", "validator">>
            [] pipe.part = "monitor"    -> <<"monitor">>
            [] OTHER                    -> <<>>

Pipeline(part, round) ==
    [part |-> part, round |-> round, stage |-> 1, rerun |-> FALSE, attempt |-> 0,
     rejections |-> 0, prev |-> Nothing, results |-> <<>>]

NoPipeline == Pipeline("none", 0)

UnderWay == pipe.part # "none"

ValidatorCanReject == /\ pipe.part \in {"primary", "escalation"}
                      /\ Has(Stages, "validator") /\ Has(Stages, "executor")

\* findPrecedingExecutor, 0 when there is none.
PrecedingExecutor ==
    LET before == {j \in 1..(pipe.stage - 1) : Stages[j] = "executor"}
    IN  IF before = {} THEN 0 ELSE CHOOSE j \in before : \A k \in before : k <= j

\* Who works now, and on what: the stage, or the executor a validator sent back.
\* executorPrev is looked up in the list of results, by the number of a stage.
Worker == IF pipe.rerun THEN "executor" ELSE Stages[pipe.stage]

executorPrev == IF PrecedingExecutor > 1 THEN pipe.results[PrecedingExecutor - 1].out
                ELSE Nothing

Input == IF pipe.rerun THEN executorPrev ELSE pipe.prev

-----------------------------------------------------------------------------
(* The mission's state.                                                    *)

InitialState == [status |-> "pending", plan |-> Nothing, executionOutput |-> Nothing,
                 validationResult |-> Nothing, escalations |-> 0]

Ended == state.status \in {"completed", "failed"}

\* Wrong on purpose: the first result of a role is kept, as in the escalation
\* record.
Latest_First(results, kind, old) ==
    LET of == {i \in DOMAIN results : results[i].role = kind}
    IN  IF of = {} THEN old ELSE results[CHOOSE i \in of : \A j \in of : i <= j].out

\* The output of the last result of a role, a failure's null included.
Latest(results, kind, old) ==
    LET of == {i \in DOMAIN results : results[i].role = kind}
    IN  IF of = {} THEN old ELSE results[CHOOSE i \in of : \A j \in of : j <= i].out

applyPipelineToState(results) ==
    [state EXCEPT !.plan = Latest(results, "planner", @),
                  !.executionOutput = Latest(results, "executor", @),
                  !.validationResult = Latest(results, "validator", @)]

FirstStatus(m) == CASE m.stages[1] = "planner"  -> "planning"
                    [] m.stages[1] = "executor" -> "executing"
                    [] m.stages[1] = "monitor"  -> "monitoring"
                    [] OTHER                    -> "validating"

Statuses == {"pending", "planning", "executing", "validating", "monitoring",
             "escalating", "completed", "failed"}

Finish(st, status) ==
    /\ state' = [st EXCEPT !.status = status]
    /\ pipe' = NoPipeline

\* Another pipeline begins.
Begin(st, status, part, round) ==
    /\ state' = [st EXCEPT !.status = status]
    /\ pipe' = Pipeline(part, round)

-----------------------------------------------------------------------------
(* The end of a pipeline.                                                  *)

\* Wrong on purpose: the result is there before the sentinel's pass.
PrimaryDone_Early(results) ==
    LET st == applyPipelineToState(results)
    IN  IF mission.monitored /\ ~Has(mission.stages, "monitor")
        THEN Begin(st, "completed", "monitor", 0)
        ELSE Finish(st, "completed")

\* The primary pipeline got through: the sentinel's pass if there is to be one
\* and none was among the stages.
PrimaryDone(results) ==
    LET st == applyPipelineToState(results)
    IN  IF mission.monitored /\ ~Has(mission.stages, "monitor")
        THEN Begin(st, "monitoring", "monitor", 0)
        ELSE Finish(st, "completed")

PrimaryFailed(results) ==
    LET st == applyPipelineToState(results)
    IN  IF Escalates(mission) THEN Begin(st, "escalating", "escalation", 1)
                              ELSE Finish(st, "failed")

\* Wrong on purpose: the loop is not left when a round succeeds.
Round_Goes(ok, results) ==
    LET st == [IF ok THEN applyPipelineToState(results) ELSE state
                  EXCEPT !.escalations = @ + 1]
    IN  IF pipe.round < MaxEscalations(mission)
        THEN Begin(st, "escalating", "escalation", pipe.round + 1)
        ELSE Finish(st, IF ok THEN "completed" ELSE "failed")

\* A round of escalation ends; only a successful one reaches the state.
Round(ok, results) ==
    LET st == [IF ok THEN applyPipelineToState(results) ELSE state
                  EXCEPT !.escalations = @ + 1]
    IN  IF ok THEN Finish(st, "completed")
        ELSE IF pipe.round < MaxEscalations(mission)
             THEN Begin(st, "escalating", "escalation", pipe.round + 1)
             ELSE Finish(st, "failed")

\* The mission's own result stands whatever the sentinel found.
EndPipeline(ok, results) ==
    \/ pipe.part = "primary" /\ ok  /\ PrimaryDone(results)
    \/ pipe.part = "primary" /\ ~ok /\ PrimaryFailed(results)
    \/ pipe.part = "escalation" /\ Round(ok, results)
    \/ pipe.part = "monitor" /\ Finish(state, "completed")

-----------------------------------------------------------------------------
(* The end of a wait.                                                      *)

Go(p) == pipe' = p /\ UNCHANGED state

\* Wrong on purpose: one attempt too many.
CanRetry_OneMore == Worker # "validator" /\ pipe.attempt <= Retries[Worker]

CanRetry == Worker # "validator" /\ pipe.attempt < Retries[Worker]

\* executeStageWithRetry calls the handler again, on the same input.
Retry == Go([pipe EXCEPT !.attempt = @ + 1])

\* Wrong on purpose: the validator is asked again about what it has seen.
Redelivered_Old(results, out) ==
    Go([pipe EXCEPT !.rerun = FALSE, !.attempt = 0, !.results = results])

\* The re-run executor delivers: its validator is called again.
Redelivered(results, out) ==
    Go([pipe EXCEPT !.rerun = FALSE, !.attempt = 0, !.prev = out, !.results = results])

\* A stage is done.
Advance(results, out) ==
    IF pipe.stage < Len(Stages)
    THEN Go([pipe EXCEPT !.stage = @ + 1, !.attempt = 0, !.prev = out, !.results = results])
    ELSE EndPipeline(TRUE, results)

\* Wrong on purpose: the rejections are not counted.
Reject_Forever(results) ==
    IF PrecedingExecutor # 0
    THEN Go([pipe EXCEPT !.rerun = TRUE, !.attempt = 0, !.results = results])
    ELSE EndPipeline(FALSE, results)

\* The validator sends the executor back, as often as that one may retry.
Reject(results) ==
    IF PrecedingExecutor # 0 /\ pipe.rejections < Retries["executor"]
    THEN Go([pipe EXCEPT !.rerun = TRUE, !.attempt = 0, !.rejections = @ + 1,
                         !.results = results])
    ELSE EndPipeline(FALSE, results)

\* A stage has its last result.
Conclude(ok, out) ==
    LET results == Append(pipe.results, [role |-> Worker, ok |-> ok, out |-> out])
    IN  \/ ok /\ pipe.rerun /\ Redelivered(results, out)
        \/ ok /\ ~pipe.rerun /\ Advance(results, out)
        \/ ~ok /\ pipe.rerun /\ EndPipeline(FALSE, results)
        \/ /\ ~ok /\ ~pipe.rerun
           /\ IF Worker = "validator" /\ ValidatorCanReject THEN Reject(results)
                                                              ELSE EndPipeline(FALSE, results)

Verdict(ok) ==
    IF Worker # "validator" THEN UNCHANGED <<rejected, accepted>>
    ELSE /\ accepted' = IF ok THEN Input ELSE accepted
         /\ rejected' = IF ok THEN rejected ELSE rejected \cup {Input}

Failed == /\ IF CanRetry THEN Retry ELSE Conclude(FALSE, Nothing)
          /\ Verdict(FALSE)

-----------------------------------------------------------------------------
MissionInit ==
    /\ mission \in Missions
    /\ state = [InitialState EXCEPT !.status = FirstStatus(mission)]
    /\ pipe = Pipeline("primary", 0)
    /\ outputs = 0
    /\ strays = 0
    /\ rejected = {}
    /\ accepted = Nothing

\* The handler answers that it has done its work.
Done ==
    /\ UnderWay
    /\ outputs' = outputs + 1
    /\ Conclude(TRUE, outputs')
    /\ Verdict(TRUE)
    /\ UNCHANGED <<mission, strays>>

\* The handler answers that it has failed; a validator, that it rejects.
Fails ==
    /\ UnderWay
    /\ Failed
    /\ UNCHANGED <<mission, strays, outputs>>

\* The timer is first: the stage has failed, its handler works on.
TimesOut ==
    /\ UnderWay
    /\ Failed
    /\ strays' = IF Worker = "executor" THEN strays + 1 ELSE strays
    /\ UNCHANGED <<mission, outputs>>

\* The handler throws: the catch block of runMission.
Throws ==
    /\ UnderWay
    /\ Finish(state, "failed")
    /\ UNCHANGED <<mission, outputs, strays, rejected, accepted>>

\* An executor nobody waits for ends; what it says is dropped.
StrayEnds ==
    /\ strays > 0
    /\ strays' = strays - 1
    /\ UNCHANGED <<mission, pipe, state, outputs, rejected, accepted>>

MissionNext == Done \/ Fails \/ TimesOut \/ Throws \/ StrayEnds

\* Handlers owe nothing; a timer that is set goes off.
MissionSpec == MissionInit /\ [][MissionNext]_missionVars /\ WF_missionVars(TimesOut)

-----------------------------------------------------------------------------
(* Properties.                                                             *)

Parts == {"none", "primary", "escalation", "monitor"}

MissionTypeOK ==
    /\ mission \in Missions
    /\ DOMAIN pipe = DOMAIN NoPipeline
    /\ pipe.part \in Parts /\ pipe.rerun \in BOOLEAN
    /\ pipe.round \in 0..MaxEscalations(mission)
    /\ UnderWay => /\ pipe.stage \in DOMAIN Stages
                   /\ pipe.attempt \in 0..Retries[Worker]
                   /\ pipe.rerun => Stages[pipe.stage] = "validator"
    /\ pipe.prev \in 0..outputs
    /\ \A i \in DOMAIN pipe.results : pipe.results[i].out \in 0..outputs
    /\ state.status \in Statuses
    /\ UnderWay <=> ~Ended
    /\ {state.plan, state.executionOutput, state.validationResult} \subseteq 0..outputs
    /\ strays \in Nat /\ rejected \subseteq 0..outputs /\ accepted \in 0..outputs

Audited == Has(mission.stages, "executor") /\ Has(mission.stages, "validator")

\* A mission that has an auditor and ends completed shows for its result the very
\* output the auditor accepted last, through retries, time-outs, rejections and
\* escalations (pipeline-runner.ts:58-73, mission-controller.ts:84-88, :140-153).
DeliveredWasAccepted ==
    state.status = "completed" /\ Audited =>
        accepted # Nothing /\ state.executionOutput = accepted

JudgedOnce == UnderWay /\ Worker = "validator" /\ Audited => Input \notin rejected

AcceptedNotRedone ==
    UnderWay /\ accepted # Nothing /\ mission.stages # Full.stages =>
        \A i \in pipe.stage..Len(Stages) : Stages[i] = "monitor"

\* A verdict holds.  A validator is never asked again about an output it has not
\* accepted: it is called again on what the executor has made since
\* (pipeline-runner.ts:67-72).  Work it has accepted is not done a second time,
\* unless a sentinel comes after it in the same pipeline and fails
\* (mission-controller.ts:48-60, :84-88).
VerdictsHold == JudgedOnce /\ AcceptedNotRedone

\* However slow they are, the executors of one mission at work at one time are
\* bounded: the attempts of a stage, times the rejections, times the pipelines
\* (pipeline-runner.ts:58, :119-137, :159-174).  This is the bound the code keeps,
\* not the one mission-types.ts:30-35 announces: of maxOperatorRetries, there the
\* limit of retries before an escalation, nothing takes notice, and 0 for
\* maxEscalations, there no limit, is one round (mission-controller.ts:65).
WorkBounded ==
    LET perStage == Retries["executor"] + 1
        rounds   == IF Escalates(mission) THEN MaxEscalations(mission) ELSE 0
    IN  strays <= perStage * perStage * (1 + rounds)

\* What triggerMission can see of it.
Shown == IF Ended THEN state.status ELSE "open"

Outcome == INSTANCE MissionOutcome WITH outcome <- Shown

\* A mission comes to one end, even if no handler ever answers, and stays there
\* (mission-controller.ts:41-100, pipeline-runner.ts:159-174).
ComesToOneEnd == Outcome!Spec
=============================================================================
