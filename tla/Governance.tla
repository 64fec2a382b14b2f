------------------------------ MODULE Governance ------------------------------
(***************************************************************************)
(* What is judged before an offer or a text goes on: the policies of the   *)
(* governance engine (governance), the scores of the decision engine       *)
(* (decision) and what the offer and the content engine make of them       *)
(* (apps).  All of it reads and judges; only the engines save.             *)
(*                                                                         *)
(* Texts are matched with phrases and patterns; of a text the model has    *)
(* which kinds of them are found in it, of a category which lists have it. *)
(***************************************************************************)
EXTENDS Integers

\* legal has the severities of the prohibited patterns found; namesNone says that the text
\* speaks of "us" without a brand; the disclaimers of the base policy and of the client are
\* in it or not.
Texts ==
    [phrase : BOOLEAN, clientPhrase : BOOLEAN, wrongName : BOOLEAN, strongClaim : BOOLEAN,
     namesNone : BOOLEAN, baseDisclaimer : BOOLEAN, clientDisclaimer : BOOLEAN,
     legal : SUBSET {"block", "warn"}]

\* named says that a category is given with the text.
Categories == [named : BOOLEAN, disclaims : BOOLEAN, restricted : BOOLEAN, asks : BOOLEAN]
Uncategorized == [named |-> FALSE, disclaims |-> FALSE, restricted |-> FALSE, asks |-> FALSE]

\* What a client's file of overrides says, of this category and of the action at hand; a
\* tenant without one says nothing.
Overrides ==
    [phrases : BOOLEAN, disclaimer : BOOLEAN, maxClaim : {"none", "factual", "qualified", "strong"},
     approval : {"none", "always_required", "never_required"}]
NoOverrides == [phrases |-> FALSE, disclaimer |-> FALSE, maxClaim |-> "none", approval |-> "none"]

claimRank == [factual |-> 0, qualified |-> 1, strong |-> 2]
BaseClaim == "qualified"                      \* of brand-voice.policy.json

\* A judgement: whether it blocks, asks for approval, warns.
Judgement(blocks, asks, warns) == [blocks |-> blocks, asks |-> asks, warns |-> warns]

evaluateBrandVoice(text, category, over) ==
    LET cap == IF over.maxClaim = "none" \/ claimRank[over.maxClaim] >= claimRank[BaseClaim]
               THEN BaseClaim ELSE over.maxClaim
        lacks == IF over.disclaimer THEN ~text.clientDisclaimer
                 ELSE category.disclaims /\ ~text.baseDisclaimer
    IN  Judgement(\/ text.phrase
                  \/ over.phrases /\ text.clientPhrase
                  \/ text.wrongName
                  \/ text.strongClaim /\ claimRank[cap] < 2
                  \/ category.named /\ lacks,
                  FALSE,
                  text.namesNone)

evaluateLegalCompliance(text, category) ==
    Judgement("block" \in text.legal,
              category.asks \/ "block" \in text.legal,
              "warn" \in text.legal \/ category.restricted)

\* A list of steps: of a known workflow or not, with all its required and no forbidden ones.
Plans == [known : BOOLEAN, complete : BOOLEAN, clean : BOOLEAN]
validateWorkflowSteps(plan) ==
    Judgement(~(plan.known /\ plan.complete /\ plan.clean), FALSE, FALSE)

\* An offer: the required components but the timeline, the timeline, its price against the
\* floor, its number of deliverables against the most, the kinds of its guarantees, its
\* discount and whether its currency is that of the policy.
Discounts == {0, 15, 16, 35, 36}
Offers ==
    [complete : BOOLEAN, timeline : BOOLEAN, aboveFloor : BOOLEAN, withinScope : BOOLEAN,
     guarantees : SUBSET {"allowed", "unknown", "forbidden"}, discount : Discounts,
     ownCurrency : BOOLEAN]
maxAutoApprovedPercent == 15                  \* of offer-governance.policy.json,
maxApprovedPercent     == 35                  \* which blocks beyond it

evaluateOffer(offer) ==
    Judgement(\/ ~offer.complete \/ ~offer.timeline \/ ~offer.aboveFloor
              \/ "forbidden" \in offer.guarantees
              \/ offer.discount > maxApprovedPercent,
              offer.discount > maxAutoApprovedPercent /\ offer.discount <= maxApprovedPercent,
              ~offer.withinScope \/ "unknown" \in offer.guarantees \/ ~offer.ownCurrency)

\* An action of a role: known or not, with tools it may use or not, forbidden or not, one
\* that needs approval or not.
Deeds == [known : BOOLEAN, tools : BOOLEAN, forbidden : BOOLEAN, asks : BOOLEAN]
evaluateAgentAction(deed, over) ==
    Judgement(~deed.known \/ ~deed.tools \/ deed.forbidden,
              IF over.approval = "never_required" /\ ~deed.forbidden THEN FALSE
              ELSE over.approval = "always_required" \/ deed.asks,
              FALSE)

deriveOverall(j) ==
    CASE j.blocks                           -> "block"
      [] ~j.blocks /\ j.asks                -> "approval_required"
      [] ~j.blocks /\ ~j.asks /\ j.warns    -> "warn"
      [] OTHER                              -> "pass"

\* The judgement of the parts of a request together; one it does not have is not among them.
Together(parts) ==
    Judgement(\E p \in parts : p.blocks, \E p \in parts : p.asks, \E p \in parts : p.warns)
\* The parts about a text: the law is asked only if a category is named.
OfText(text, category, over) ==
    {evaluateBrandVoice(text, category, over)}
    \cup IF category.named THEN {evaluateLegalCompliance(text, category)} ELSE {}

evaluateGovernance(parts) == deriveOverall(Together(parts))

Strictness == [pass |-> 0, warn |-> 1, approval_required |-> 2, block |-> 3]

-----------------------------------------------------------------------------
(* The decision engine.                                                    *)

clamp(x, low, high) == IF x < low THEN low ELSE IF x > high THEN high ELSE x

\* A score from 0 to 9 of three from 0 to 3, the last two raised by the score of the answer
\* engines, which may be missing (below 0).
calculateMapScore(m, a, p, aeo) ==
    clamp(m, 0, 3)
    + clamp(clamp(a, 0, 3) + IF aeo >= 80 THEN 1 ELSE 0, 0, 3)
    + clamp(clamp(p, 0, 3) + IF aeo >= 70 THEN 1 ELSE 0, 0, 3)

MapDecision(score) ==
    CASE score >= 8               -> "execute"
      [] score >= 5 /\ score < 8  -> "improve"
      [] score < 5                -> "reconsider"

\* Of the signals of a cycle each counts for half a point, up to 10 points; efficiency is
\* counted in halves.
ceraEfficiency(signals) == clamp(signals, 0, 20)
compoundDecisionPath(score, efficiency) ==
    IF score <= 4 \/ efficiency <= 8 THEN "kill"
    ELSE IF score >= 8 /\ efficiency >= 16 THEN "scale" ELSE "pivot"

\* forced: by the system or with forceExecute.
applyDecisionPolicy(decision, forced) ==
    CASE decision = "execute"    -> "execute"
      [] decision = "improve"    -> "improve"
      [] decision = "reconsider" -> IF forced THEN "execute" ELSE "blocked"

-----------------------------------------------------------------------------
(* The engines: what is saved, with which status, "none" if nothing is.    *)

\* Neither engine names a category, so neither asks the law.
createOffer(offer, text, over) ==
    LET parts == OfText(text, Uncategorized, over) \cup {evaluateOffer(offer)}
    IN  IF evaluateGovernance(parts) = "block" THEN "none"
        ELSE IF Together(parts).asks THEN "pending" ELSE "approved"

createContentBrief(text, over) ==
    IF evaluateGovernance(OfText(text, Uncategorized, over)) = "block" THEN "none" ELSE "draft"

publishContent(title, over) ==
    IF evaluateGovernance(OfText(title, Uncategorized, over)) = "block" THEN "none" ELSE "published"

\* The offer of the lead-to-offer workflow, of a type without a floor of its own, and what
\* its governance check looks at: the offer if there is one, the title under a category that
\* is on no list, and no action.
WorkflowOffer == [complete |-> TRUE, timeline |-> FALSE, aboveFloor |-> TRUE, withinScope |-> TRUE,
                  guarantees |-> {}, discount |-> 0, ownCurrency |-> TRUE]
governanceCheck(title, over) ==
    LET named == [Uncategorized EXCEPT !.named = TRUE]
        offer == IF createOffer(WorkflowOffer, title, over) = "none" THEN {}
                 ELSE {evaluateOffer(WorkflowOffer)}
    IN  evaluateGovernance(OfText(title, named, over) \cup offer)

-----------------------------------------------------------------------------
(* What the judging is for.                                                *)

\* No warning or request for approval hides that something blocks, and adding a part to a
\* request never makes the outcome milder (governance-engine.ts:22-27).
PartsOnlyAdd(parts, more) ==
    /\ Strictness[evaluateGovernance(parts)] <= Strictness[evaluateGovernance(parts \cup more)]
    /\ (\E p \in parts : p.blocks) <=> evaluateGovernance(parts) = "block"

\* "Overrides are additive (stricter only) -- a client cannot loosen a base restriction"
\* (client-rule-engine.ts:5-6), as to texts and as to actions.
StricterText(text, category, over) ==
    Strictness[evaluateGovernance(OfText(text, category, NoOverrides))]
        <= Strictness[evaluateGovernance(OfText(text, category, over))]
StricterDeed(deed, over) ==
    Strictness[evaluateGovernance({evaluateAgentAction(deed, NoOverrides)})]
        <= Strictness[evaluateGovernance({evaluateAgentAction(deed, over)})]

\* It is so of phrases and claims, and of actions that are always to be approved.
Additive(over) == ~over.disclaimer /\ over.approval # "never_required"
ClientsAreStricter(text, category, over) == Additive(over) => StricterText(text, category, over)
DeedsAreStricter(deed, over)             == Additive(over) => StricterDeed(deed, over)

\* But a client's disclaimer takes the place of the base's, and never_required lifts an
\* approval, though no prohibition (agent-behavior-policy.ts:108-112).
LiftsApprovalOnly(deed, over) ==
    deed.forbidden => evaluateGovernance({evaluateAgentAction(deed, over)}) = "block"

\* An offer is on record as approved only if it keeps floor and components and its discount
\* needs no approval, and above the most that can be approved there is none
\* (offer-engine.ts:109-147).
OfferWithinRules(offer, text, over) ==
    LET saved == createOffer(offer, text, over)
    IN  /\ saved # "none" => /\ offer.complete /\ offer.timeline /\ offer.aboveFloor
                             /\ offer.discount <= maxApprovedPercent
        /\ saved = "approved" => offer.discount <= maxAutoApprovedPercent

\* The lead-to-offer workflow never makes an offer: its own has no timeline, which the policy
\* requires; its governance check then has no offer to judge and is as strict as the law and
\* the brand are with the title (lead-to-offer.workflow.ts:167-204).
WorkflowOffersNothing(title, over) ==
    /\ createOffer(WorkflowOffer, title, over) = "none"
    /\ ~title.phrase /\ ~title.wrongName /\ ~title.strongClaim /\ title.legal = {}
       /\ over = NoOverrides => governanceCheck(title, over) \in {"pass", "warn"}

\* What the law blocks can be drafted and published all the same: the engines name no category
\* (content-engine.ts:118-122, 210-213).
LawNotAsked(text) ==
    /\ "block" \in text.legal
    /\ createContentBrief(text, NoOverrides) = "draft"
    /\ publishContent(text, NoOverrides) = "published"

\* A higher score never leads to less, whichever of the four is higher, and what the cycle is
\* scaled on is strong, what it is not killed on not weak (decision-engine.ts:66-74).
DecisionSteps == [reconsider |-> 0, improve |-> 1, execute |-> 2]
PathSteps     == [kill |-> 0, pivot |-> 1, scale |-> 2]
ScoresMonotone(m, a, p, aeo) ==
    LET Step(score) == DecisionSteps[MapDecision(score)]
        here == calculateMapScore(m, a, p, aeo)
    IN  /\ here \in 0..9
        /\ \A more \in {calculateMapScore(m + 1, a, p, aeo), calculateMapScore(m, a + 1, p, aeo),
                        calculateMapScore(m, a, p + 1, aeo), calculateMapScore(m, a, p, aeo + 10)} :
              Step(here) <= Step(more)
PathsFollowDecisions(score, signals) ==
    LET path == compoundDecisionPath(score, ceraEfficiency(signals))
    IN  /\ path = "scale" => MapDecision(score) = "execute"
        /\ path # "kill" => MapDecision(score) # "reconsider"
        /\ PathSteps[path] <= PathSteps[compoundDecisionPath(score, ceraEfficiency(signals + 1))]

\* Force carries out what is weak and not what is moderate (decision-policy.ts:27-46).
ForceInverts ==
    /\ applyDecisionPolicy("reconsider", TRUE) = "execute"
    /\ applyDecisionPolicy("improve", TRUE) # "execute"
=============================================================================
