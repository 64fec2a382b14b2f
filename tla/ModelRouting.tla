----------------------------- MODULE ModelRouting -----------------------------
(***************************************************************************)
(* Which model a task goes to (model-routing): the policy turns the type   *)
(* of a task and its constraints into a provider, the router dispatches to *)
(* it and, when that fails and the caller allows it, escalates once.  With *)
(* it the roles of missions that use it or decide without a model          *)
(* (agent-roles/handlers): where the answers of MissionControl's handlers  *)
(* come from.                                                              *)
(*                                                                         *)
(* A task is its type and whether isHeavyTask takes it for a heavy one.    *)
(* What a provider answers is whether it answers.                          *)
(***************************************************************************)
EXTENDS Naturals, Sequences

DEFAULT_ROUTES ==
    [planner |-> "openai", transform |-> "local", format |-> "deterministic",
     local_agent |-> "local", retrieval_augmented_answer |-> "openai",
     research |-> "perplexity", validation |-> "perplexity",
     structured_output |-> "openai", low_priority |-> "local"]
TaskTypes == DOMAIN DEFAULT_ROUTES

Cloud            == {"openai", "perplexity"}
Providers        == Cloud \cup {"local", "deterministic"}
providerCostTier == [deterministic |-> 0, local |-> 1, openai |-> 2, perplexity |-> 2]

\* A request without a limit of cost has the highest tier for it.
Requests ==
    [taskType : TaskTypes, heavy : BOOLEAN, preferred : Providers \cup {"none"},
     offline : BOOLEAN, privacySensitive : BOOLEAN, mustBeLocal : BOOLEAN,
     strictFormat : BOOLEAN, maxCostTier : 0..2, allowEscalation : BOOLEAN]

\* The provider of a request, with preferred for its preference, and whether it is blocked.
resolveRoute(req, preferred) ==
    LET asked   == IF preferred = "none" THEN DEFAULT_ROUTES[req.taskType] ELSE preferred
        local   == IF req.mustBeLocal THEN "local" ELSE asked
        formed  == IF req.strictFormat /\ req.taskType = "format" THEN "deterministic" ELSE local
        cut     == req.offline /\ formed \in Cloud
        near    == IF cut THEN "local" ELSE formed
        private == IF /\ req.privacySensitive
                      /\ near = "openai"
                      /\ req.taskType \in {"transform", "local_agent"} THEN "local" ELSE near
        capped  == IF providerCostTier[private] <= req.maxCostTier THEN private
                   ELSE IF req.maxCostTier >= 1 THEN "local" ELSE "deterministic"
    IN  IF cut /\ req.taskType \in {"planner", "research"}
        THEN [provider |-> formed, blocked |-> TRUE]
        ELSE [provider |-> capped, blocked |-> FALSE]

EscalationTarget == [perplexity |-> "openai", deterministic |-> "local",
                     local |-> "openai", openai |-> "none"]

\* A dispatch needs options of its provider, which the caller gives or not; perplexity makes
\* do with those for openai, the local model needs none.
Usable(provider, given) ==
    \/ provider = "local"
    \/ provider \in given
    \/ provider = "perplexity" /\ "openai" \in given

\* The providers a request is dispatched to, in order, when those in up answer.
dispatched(req, given, up) ==
    LET preferred == IF req.heavy /\ ~req.mustBeLocal /\ ~req.offline
                     THEN "openai" ELSE req.preferred
        route     == resolveRoute(req, preferred)
        target    == EscalationTarget[route.provider]
        escalates == /\ ~(route.provider \in up /\ Usable(route.provider, given))
                     /\ req.allowEscalation
                     /\ target # "none"
                     /\ ~(target = "openai" /\ (req.offline \/ req.mustBeLocal))
    IN  IF route.blocked THEN <<>>
        ELSE IF escalates THEN <<route.provider, target>> ELSE <<route.provider>>

\* What the caller gets: whether it is an answer, and whether that of the escalation.
routeModelTask(req, given, up) ==
    LET tried   == dispatched(req, given, up)
        Good(i) == i \in DOMAIN tried /\ tried[i] \in up /\ Usable(tried[i], given)
    IN  [ok |-> Good(1) \/ Good(2), escalated |-> Good(2)]

\* The providers that receive the task.
Receives(req, given, up) ==
    {p \in {dispatched(req, given, up)[i] : i \in DOMAIN dispatched(req, given, up)} :
        Usable(p, given)}

-----------------------------------------------------------------------------
(* The roles.                                                              *)

\* The requests of the roles and of the two agents, heavy as the task may be, with the
\* options they give.
Free == [offline |-> FALSE, privacySensitive |-> FALSE, mustBeLocal |-> FALSE,
         strictFormat |-> FALSE, maxCostTier |-> 2, preferred |-> "none", heavy |-> FALSE,
         allowEscalation |-> TRUE, taskType |-> "planner"]
PlannerRequest(heavy)  == [Free EXCEPT !.heavy = heavy]
ExecutorRequest(heavy) == [Free EXCEPT !.heavy = heavy, !.taskType = "transform",
                                       !.maxCostTier = 1, !.allowEscalation = FALSE]
LocalAgentRequest(heavy) == [Free EXCEPT !.heavy = heavy, !.taskType = "transform",
                                         !.mustBeLocal = TRUE, !.allowEscalation = FALSE]
OptionsOf == [planner |-> {"openai"}, executor |-> {"deterministic"}, localAgent |-> {}]

\* A field of what the stage before the validator left, as typeof and its checks tell.
Values == {"undefined", "null", "empty string", "string", "empty array", "array", "object", "other"}
Checks == {"exists", "nonEmpty", "isString", "isArray", "isObject", "matches"}

\* matching says that a check with a pattern finds it.
runCheck(check, value, matching) ==
    CASE check = "exists"   -> value # "undefined"
      [] check = "nonEmpty" -> value \notin {"undefined", "null", "empty string", "empty array"}
      [] check = "isString" -> value \in {"empty string", "string"}
      [] check = "isArray"  -> value \in {"empty array", "array"}
      [] check = "isObject" -> value = "object"
      [] check = "matches"  -> value \in {"empty string", "string"} /\ matching

\* The validator answers ok when it has something to check and all of it passes; rules is a
\* set of the above, and previous says whether an output came before.
validatorOk(previous, rules) ==
    previous /\ \A r \in rules : runCheck(r.check, r.value, r.matching)

\* The monitor always answers ok, and says in its output whether all checks passed.
monitorOutput(passed) == [ok |-> TRUE, healthy |-> \A i \in DOMAIN passed : passed[i]]

-----------------------------------------------------------------------------
(* What the routing is for.                                                *)

\* A request that is offline or must stay on the machine reaches no cloud, not by its
\* preference, nor by its weight, nor by escalation (model-router.ts:81-97, 129-132).
StaysHere(req, given, up) ==
    req.offline \/ req.mustBeLocal => Receives(req, given, up) \cap Cloud = {}

\* The first provider is within the limit of cost, and the only one when the caller allows
\* no escalation (route-policy.ts:70-86).
WithinCost(req, given, up) ==
    LET tried == dispatched(req, given, up)
    IN  /\ tried # <<>> => providerCostTier[tried[1]] <= req.maxCostTier
        /\ ~req.allowEscalation => Len(tried) <= 1

\* Private transforms and local work go to openai only as an escalation or by way of
\* perplexity, whichever they prefer and however heavy they are (route-policy.ts:63-68).
PrivateFirst(req, given, up) ==
    LET tried == dispatched(req, given, up)
    IN  /\ req.privacySensitive
        /\ req.taskType \in {"transform", "local_agent"}
        /\ tried # <<>>
        => tried[1] # "openai"

\* A task is answered exactly if a provider that received it answers, and an escalation is
\* marked only if the first provider failed (model-router.ts:124-166).
AnswerExplained(req, given, up) ==
    LET result == routeModelTask(req, given, up)
        tried  == dispatched(req, given, up)
    IN  /\ result.ok => Receives(req, given, up) \cap up # {}
        /\ result.escalated => ~(tried[1] \in up /\ Usable(tried[1], given))
        /\ ~result.ok => Receives(req, given, up) \cap up = {}

\* The executor of a mission uses the local model and no other, heavy or not
\* (executor-handler.ts:17-21); so it fails with it, deterministic options or none.
ExecutorStaysLocal(up) ==
    \A heavy \in BOOLEAN :
        LET req == ExecutorRequest(heavy)
        IN  /\ dispatched(req, OptionsOf.executor, up) = <<"local">>
            /\ routeModelTask(req, OptionsOf.executor, up).ok <=> "local" \in up

\* The local agent keeps to the machine, the planner to openai.
AgentsKeepTheirPlace(up) ==
    \A heavy \in BOOLEAN :
        /\ dispatched(LocalAgentRequest(heavy), OptionsOf.localAgent, up) = <<"local">>
        /\ dispatched(PlannerRequest(heavy), OptionsOf.planner, up) = <<"openai">>

\* What an escalation does not look at: the limit of cost and privacy.
EscalationLeavesLimits(req, given, up) ==
    /\ req.privacySensitive
    /\ providerCostTier[dispatched(req, given, up)[Len(dispatched(req, given, up))]]
          > req.maxCostTier

\* A value is of at most one kind, and what has a kind exists.
ChecksAgree(value) ==
    LET Kinds == {c \in {"isString", "isArray", "isObject"} : runCheck(c, value, FALSE)}
    IN  /\ \A c, d \in Kinds : c = d
        /\ \E c \in Kinds \cup {"nonEmpty"} : runCheck(c, value, TRUE)
           => runCheck("exists", value, TRUE)
=============================================================================
