----------------------------- MODULE MCDagRuntime -----------------------------
(* Instances of DagRuntime for TLC.                                        *)
EXTENDS DagRuntime

V == INSTANCE DagValidation

\* A plan with a gate on one of two branches that meet again.
GateNodes == {"in", "gate", "draft", "post"}
GateEdges == {<<"in", "gate">>, <<"in", "draft">>, <<"gate", "post">>, <<"draft", "post">>}
GateRank  == [n \in GateNodes |-> CASE n = "in" -> 0 [] n = "gate" -> 1 [] n = "draft" -> 2
                                    [] n = "post" -> 3]

\* The last four stages of workflows/lead-to-offer.workflow.ts, its checkpoint
\* among them, in the order the workflow completes them, with their budgets.
LeadStages == <<"offer", "governance", "brief", "attribution">>
LeadNodes  == {LeadStages[i] : i \in 1..4}
LeadRank   == [n \in LeadNodes |-> CHOOSE i \in 1..4 : LeadStages[i] = n]
LeadEdges  == {<<"offer", "governance">>, <<"governance", "brief">>,
               <<"governance", "attribution">>}
LeadBudget == [n \in LeadNodes |-> IF n \in {"governance", "attribution"} THEN 1 ELSE 2]

OneEach    == [n \in Nodes |-> 1]
NoStages   == <<>>

-----------------------------------------------------------------------------
(* The validator, over bounded plans: three nodes of either type under     *)
(* every set of edges among them, lists of up to two nodes that may share  *)
(* an id under few edges that may lead to a node that is not there; the    *)
(* edges in two orders.                                                    *)

Node(i, t) == [id |-> i, type |-> t]
Types      == {"input", "transform"}

\* The sets of at most k edges among the members of a list, in two orders.
EdgeLists(ids, k) ==
    LET n    == Len(ids)
        All  == [i \in 1..(n * n) |->
                    [from |-> ids[((i - 1) \div n) + 1], to |-> ids[((i - 1) % n) + 1]]]
        Few  == {E \in SUBSET {All[i] : i \in DOMAIN All} : Cardinality(E) <= k}
        Sub  == {SelectSeq(All, LAMBDA e : e \in E) : E \in Few}
    IN  Sub \cup {V!Reverse(s) : s \in Sub}

FullPlans ==
    [nodes : {<<Node("a", "input"), Node("b", t), Node("c", u)>> : t, u \in Types},
     edges : EdgeLists(<<"a", "b", "c">>, 9)]
OddPlans ==
    [nodes : UNION {[1..k -> {Node(i, t) : i \in {"a", "b"}, t \in Types}] : k \in 0..2},
     edges : EdgeLists(<<"a", "b", "ghost">>, 3)]
BoundedPlans == FullPlans \cup OddPlans

\* A cycle is found in exactly the plans that have one.
ASSUME CyclesAreFound == \A plan \in BoundedPlans : V!CycleFoundIffThere(plan)

\* What is reported is a cycle.
ASSUME FoundAreCycles == \A plan \in BoundedPlans : V!PathIsACycle(plan)

\* Plans that pass have no cycle and nothing out of reach; some pass.
ASSUME PassedAreSound ==
    /\ \A plan \in BoundedPlans : V!PassedIsSound(plan)
    /\ \E plan \in FullPlans : V!valid(plan) /\ Len(plan.edges) = 3

\* The plan of this instance passes.
PlanHere ==
    [nodes |-> V!SetToSortSeq({Node(n, IF Parents(n) = {} THEN "input" ELSE "transform") :
                                  n \in Nodes}, LAMBDA m, n : Rank[m.id] < Rank[n.id]),
     edges |-> V!SetToSeq({[from |-> e[1], to |-> e[2]] : e \in Edges})]
ASSUME PlanPasses == V!valid(PlanHere)

-----------------------------------------------------------------------------
(* What the workflow asks the governance and the decision engine.          *)

G == INSTANCE Governance

ASSUME OutcomesCompose ==
    LET Judgements == [blocks : BOOLEAN, asks : BOOLEAN, warns : BOOLEAN]
    IN  \A parts, more \in {P \in SUBSET Judgements : Cardinality(P) <= 2} :
            G!PartsOnlyAdd(parts, more)

\* The lists have a category that asks among the restricted ones.
ASSUME OverridesAreJudged ==
    /\ \A text \in G!Texts, over \in {o \in G!Overrides : o.approval = "none"},
          category \in {G!Uncategorized} \cup {c \in G!Categories : c.named /\ (c.asks => c.restricted)} :
            G!ClientsAreStricter(text, category, over)
    /\ \A deed \in G!Deeds, over \in G!Overrides :
            G!DeedsAreStricter(deed, over) /\ G!LiftsApprovalOnly(deed, over)

\* Both exceptions are there.
ASSUME ClientsCanLoosen ==
    LET Own  == [G!NoOverrides EXCEPT !.disclaimer = TRUE]
        Lift == [G!NoOverrides EXCEPT !.approval = "never_required"]
        Disclaiming == [G!Uncategorized EXCEPT !.named = TRUE, !.disclaims = TRUE]
    IN  /\ \E text \in G!Texts : ~G!StricterText(text, Disclaiming, Own)
        /\ \E deed \in G!Deeds : ~G!StricterDeed(deed, Lift)

ASSUME EnginesAreSound ==
    /\ \A offer \in G!Offers, text \in {t \in G!Texts : t.legal = {} /\ ~t.clientPhrase /\ ~t.clientDisclaimer} :
            G!OfferWithinRules(offer, text, G!NoOverrides)
    /\ \A title \in G!Texts, over \in G!Overrides : G!WorkflowOffersNothing(title, over)
    /\ \E text \in G!Texts : G!LawNotAsked(text)

ASSUME DecisionsAreSound ==
    /\ \A m, a, p \in -1..4, aeo \in {-1, 59, 60, 69, 70, 79, 80, 100} : G!ScoresMonotone(m, a, p, aeo)
    /\ \A score \in 0..9, signals \in 0..22 : G!PathsFollowDecisions(score, signals)
    /\ G!ForceInverts

-----------------------------------------------------------------------------
(* The cache of plans and the retrieval behind the stages.                 *)

K == INSTANCE PlanCache
T == INSTANCE Retrieval

ASSUME HitsAreOwn ==
    \A entry \in K!Entries, caller \in {c \in K!Callers : c.kind = "plan"},
       highRisk, approved \in BOOLEAN : K!HitIsOwn(entry, caller, highRisk, approved)

ASSUME CacheIsSound ==
    /\ \A first, second, third \in K!Callers : K!NeverAnothers(first, second, third)
    /\ \A first, second \in K!Callers : K!EvictionExplained(first, second)
    /\ \A caller \in K!Callers : K!ReusedUnlessAnonymous(caller) /\ K!KeptOnlyIfSafe(caller)

ASSUME SomeEvict ==
    LET Of(kind) == {c \in K!Callers : c.kind = kind /\ c.tenant = "acme"}
    IN  /\ \E first, second \in Of("plan") : K!Evicts(first, second)
        /\ \E first, second \in Of("score") : first.policy = second.policy /\ K!Evicts(first, second)

ASSUME RetrievalIsSound ==
    /\ T!MemoriesAreReadOnly
    /\ \A req \in T!Searches : T!FindsOnlyOwn(req)
    /\ \A req \in T!Searches, ingest \in T!Ingests :
          T!NamedInProduction(req, ingest) /\ T!OwnIsFound(ingest, req)
    /\ \E req \in T!Searches, ingest \in T!Ingests : T!SharedByOmission(ingest, req)
=============================================================================
