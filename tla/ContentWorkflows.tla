--------------------------- MODULE ContentWorkflows ---------------------------
(***************************************************************************)
(* The two workflows that ask a model for content                          *)
(* (workflows/transcript-to-content.workflow.ts, blog-authority), the      *)
(* events they leave through the orchestrator, and what the summary of a   *)
(* run makes of those (services/observability/run-summary.ts).             *)
(*                                                                         *)
(* Content is where it comes from: "model", "fixed" for what is computed   *)
(* without one, "made" for what is computed from the model's hooks.        *)
(***************************************************************************)
EXTENDS Naturals, FiniteSetsExt, SequencesExt

Workflows == {"transcript", "blog"}
Sections(workflow) ==
    IF workflow = "transcript" THEN {"hooks", "titles", "captions"}
    ELSE {"title", "outline", "blog_draft", "cta", "seo_notes", "hook_set"}

\* An answer is an object as it stands or after repair, some other text, or an error.
Answers(workflow) ==
    [kind : {"object", "repairable", "other", "throws"}, given : SUBSET Sections(workflow), summary : BOOLEAN]

parseModelOutputObject(answer) ==
    [ok |-> answer.kind \in {"object", "repairable"}, repaired |-> answer.kind = "repairable"]

Event(type, repaired) == [type |-> type, repaired |-> repaired]
Plain(types) == [i \in DOMAIN types |-> Event(types[i], FALSE)]

Events(answer) ==
    CASE answer.kind = "throws" -> Plain(<<"attempted", "failed", "fallback_used">>)
      [] answer.kind = "other"  -> Plain(<<"attempted", "parse_failed", "fallback_used">>)
      [] OTHER -> << Event("attempted", FALSE), Event("succeeded", parseModelOutputObject(answer).repaired) >>

Reasons(answer) ==
    CASE answer.kind = "throws"     -> {"generation failed"}
      [] answer.kind = "other"      -> {"not JSON"}
      [] answer.kind = "repairable" -> {"repaired"}
      [] answer.kind = "object"     -> {}

Result(workflow, assets, summary, warnings) ==
    [status |-> "draft_complete", assets |-> assets, summary |-> summary, warnings |-> warnings]

buildDeterministicResult(workflow, material) ==
    Result(workflow, [s \in Sections(workflow) |-> "fixed"], "fixed", IF material THEN {} ELSE {"no material"})

\* Without a runtime, and of no transcript, no model is asked.
Asked(workflow, material, runtime) == runtime /\ (workflow = "transcript" => material)

execute(workflow, material, runtime, answer) ==
    LET fixed   == buildDeterministicResult(workflow, material)
        parsed  == parseModelOutputObject(answer)
        Given(s) == parsed.ok /\ s \in answer.given
        Asset(s) == IF Given(s) THEN "model"
                    ELSE IF s \in {"titles", "captions"} /\ Given("hooks") THEN "made"
                    ELSE "fixed"
        own     == IF workflow = "transcript" THEN "with provider" ELSE fixed.summary
        warned  == fixed.warnings \cup Reasons(answer)
    IN  IF ~Asked(workflow, material, runtime) THEN fixed
        ELSE IF answer.kind = "throws" THEN [fixed EXCEPT !.warnings = warned]
        ELSE Result(workflow, [s \in Sections(workflow) |-> Asset(s)],
                    IF parsed.ok /\ answer.summary THEN "model" ELSE own, warned)

\* What the tracker recorded: an event it could not write is lost, and the workflow goes on.
Recorded(workflow, material, runtime, answer, written) ==
    IF ~Asked(workflow, material, runtime) THEN <<>>
    ELSE LET kept == SetToSortSeq(written \cap DOMAIN Events(answer), <)
         IN  [i \in DOMAIN kept |-> Events(answer)[kept[i]]]

deriveLastModelOutcome(last, repaired) ==
    CASE last.type = "succeeded"     -> IF repaired THEN "repaired_success" ELSE "succeeded"
      [] last.type = "failed"        -> "failed"
      [] last.type = "fallback_used" -> "fallback_used"
      [] OTHER                       -> "not_attempted"

NoSummary == [attempted |-> FALSE, succeeded |-> FALSE, repaired |-> FALSE, failed |-> FALSE,
              fallbackUsed |-> FALSE, lastOutcome |-> "none"]
deriveModelExecutionSummary(events) ==
    LET Has(type) == \E e \in ToSet(events) : e.type = type
        repaired  == Has("succeeded") /\ SelectSeq(events, LAMBDA e : e.type = "succeeded")[1].repaired
    IN  IF events = <<>> THEN NoSummary
        ELSE [attempted |-> Has("attempted"), succeeded |-> Has("succeeded"), repaired |-> repaired,
              failed |-> Has("failed"), fallbackUsed |-> Has("fallback_used"),
              lastOutcome |-> deriveLastModelOutcome(events[Len(events)], repaired)]

-----------------------------------------------------------------------------
(* Claims.  MCDistribution evaluates them.                                 *)

\* Whatever is not recorded, a success that a summary tells of was one, repaired or not, and
\* a failure or a fallback left nothing of the model in the result, which says why; if all is
\* recorded, the summary tells of a fallback whenever that was so.
LastOutcomeIsTrue(workflow, material, answer, written) ==
    LET out   == execute(workflow, material, TRUE, answer)
        told  == deriveModelExecutionSummary(Recorded(workflow, material, TRUE, answer, written))
        fixed == \A s \in Sections(workflow) : out.assets[s] = "fixed"
    IN  /\ told.lastOutcome = "succeeded" => answer.kind = "object"
        /\ told.lastOutcome = "repaired_success" => answer.kind = "repairable"
        /\ told.lastOutcome \in {"failed", "fallback_used"} => fixed /\ Reasons(answer) \subseteq out.warnings
        /\ DOMAIN Events(answer) \subseteq written /\ Asked(workflow, material, TRUE) =>
              told.lastOutcome = "fallback_used" <=> answer.kind \in {"other", "throws"}

\* The flags of a summary go together, once the first event was recorded.
FlagsAgree(workflow, material, answer, written) ==
    LET told == deriveModelExecutionSummary(Recorded(workflow, material, TRUE, answer, written))
    IN  /\ ~(told.succeeded /\ (told.failed \/ told.fallbackUsed))
        /\ told.repaired => told.succeeded
        /\ 1 \in written /\ told.lastOutcome # "none" => told.attempted

(* Exceptions, which are there.                                            *)

\* An object with none of the sections is a success without a warning, though nothing of the
\* content is the model's.
SuccessWithoutContent(workflow, answer) ==
    LET out  == execute(workflow, TRUE, TRUE, answer)
        told == deriveModelExecutionSummary(Events(answer))
    IN  /\ told.lastOutcome = "succeeded" /\ out.warnings = {}
        /\ \A s \in Sections(workflow) : out.assets[s] = "fixed"

\* With its last event lost, a run that used the model's content was not attempted.
UsedButNotAttempted(workflow, answer, written) ==
    LET told == deriveModelExecutionSummary(Recorded(workflow, TRUE, TRUE, answer, written))
    IN  /\ told.attempted /\ told.lastOutcome = "not_attempted"
        /\ \A s \in Sections(workflow) : execute(workflow, TRUE, TRUE, answer).assets[s] = "model"

\* A transcript whose answer could not be read says it was converted with the provider.
SaysWithProvider(answer) ==
    LET out == execute("transcript", TRUE, TRUE, answer)
    IN  /\ out.summary = "with provider" /\ deriveModelExecutionSummary(Events(answer)).fallbackUsed
        /\ \A s \in Sections("transcript") : out.assets[s] = "fixed"

=============================================================================
