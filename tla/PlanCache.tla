------------------------------- MODULE PlanCache -------------------------------
(***************************************************************************)
(* The cache of plans and scores (cache): whether an entry may answer a    *)
(* lookup, under which key it is kept, and what a cached planning or       *)
(* scoring does to the store.  A store is a function from the keys in use  *)
(* to their entries; a step of a caller is synchronous, so that it is a    *)
(* function of the store.                                                  *)
(***************************************************************************)
EXTENDS TLC

Tenants      == {"none", "anon", "acme"}     \* "none": the caller names no tenant
Environments == {"development", "production"}
Versions     == {"v1", "v2"}
Kinds        == {"plan", "score"}

\* policy is the version of the policy, version that of the capabilities (plans) or of the
\* formula (scores); input is what is planned or scored.
Callers ==
    [kind : Kinds, tenant : Tenants, environment : Environments, policy : Versions,
     version : Versions, input : {"goal"}]

\* An entry has the scope of the caller who wrote it, and may have expired or been invalidated.
Entries == [scope : Callers, expired : BOOLEAN, invalidated : BOOLEAN]

\* A lookup has a risk, and may bring an approval.
evaluateCachePolicy(found, entry, caller, highRisk, approved) ==
    IF caller.environment = "production" /\ caller.tenant = "none" THEN "blocked"
    ELSE IF highRisk /\ ~approved THEN "bypass"
    ELSE IF ~found THEN "miss"
    ELSE IF entry.invalidated THEN "miss"
    ELSE IF \/ entry.scope.tenant # caller.tenant
            \/ entry.scope.environment # caller.environment
            \/ entry.scope.policy # caller.policy
            \/ entry.scope.version # caller.version
         THEN "blocked"
    ELSE IF entry.expired THEN "stale" ELSE "hit"

\* The key has the name "anon" for no tenant; that of a plan is without the version of the
\* policy, that of a score without it and without the environment.
cacheKey(caller) ==
    [kind |-> caller.kind, tenant |-> IF caller.tenant = "none" THEN "anon" ELSE caller.tenant,
     place |-> IF caller.kind = "plan" THEN caller.environment ELSE "any",
     version |-> caller.version, input |-> caller.input]

Empty == [k \in {} |-> <<>>]

\* Lookups of the planner and of the scoring are of low risk.
lookupCache(store, caller) ==
    LET key   == cacheKey(caller)
        found == key \in DOMAIN store
    IN  evaluateCachePolicy(found, IF found THEN store[key] ELSE <<>>, caller, FALSE, FALSE)

writeCache(store, caller) ==
    (cacheKey(caller) :> [scope |-> caller, expired |-> FALSE, invalidated |-> FALSE]) @@ store

\* Of the entries of a kind those of a key and a tenant, where these are named.
invalidateCache(store, kind, key, tenant) ==
    [k \in DOMAIN store |->
        IF k.kind = kind /\ key \in {"any", k} /\ tenant \in {"none", store[k].scope.tenant}
        THEN [store[k] EXCEPT !.invalidated = TRUE] ELSE store[k]]

\* planExecutionCached and scoreOpportunityCached: the store after it; a plan is kept only if
\* all it does is to read files, a score always.
cached(store, caller, readsOnly, bypass) ==
    IF ~bypass /\ lookupCache(store, caller) = "hit" THEN store
    ELSE IF caller.kind = "score" \/ readsOnly THEN writeCache(store, caller) ELSE store

-----------------------------------------------------------------------------
(* What the cache is for.                                                  *)

\* A hit is the answer to the same tenant in the same environment under the same versions, it
\* is neither over nor withdrawn, and what is risky is not answered without an approval
\* (cache-policy-engine.ts:1-13).
HitIsOwn(entry, caller, highRisk, approved) ==
    evaluateCachePolicy(TRUE, entry, caller, highRisk, approved) = "hit" =>
        /\ entry.scope.tenant = caller.tenant
        /\ entry.scope.environment = caller.environment
        /\ entry.scope.policy = caller.policy
        /\ entry.scope.version = caller.version
        /\ ~entry.expired /\ ~entry.invalidated
        /\ highRisk => approved
        /\ caller.environment = "production" => caller.tenant # "none"

\* Whatever two callers did before, a third is answered only with what one of its own scope
\* wrote: keys that coincide cost an entry and never give one away.
NeverAnothers(first, second, third) ==
    LET store == cached(cached(Empty, first, TRUE, FALSE), second, TRUE, FALSE)
    IN  lookupCache(store, third) = "hit" => third \in {first, second}

\* What was just planned or scored is reused, except by a caller without a tenant in
\* production, for whom it is written each time and never read.
ReusedUnlessAnonymous(caller) ==
    LET store == cached(Empty, caller, TRUE, FALSE)
    IN  /\ DOMAIN store = {cacheKey(caller)}
        /\ lookupCache(store, caller) = "hit"
           <=> ~(caller.environment = "production" /\ caller.tenant = "none")

\* A plan that does more than to read is not kept, an entry that is invalidated not used.
KeptOnlyIfSafe(caller) ==
    /\ caller.kind = "plan" => cached(Empty, caller, FALSE, FALSE) = Empty
    /\ lookupCache(invalidateCache(writeCache(Empty, caller), caller.kind, "any", caller.tenant),
                   caller) # "hit"

\* A caller of another scope takes the place of what a first one had: of plans, "keyed by
\* tenantId + goalHash + capabilitySetVersion + policyVersion + environment"
\* (cache-bel-integration.ts:4-5), one under another version of the policy, and of a tenant
\* that is called anon; of scores also one in another environment.
Evicts(first, second) ==
    LET store == cached(cached(Empty, first, TRUE, FALSE), second, TRUE, FALSE)
    IN  /\ lookupCache(cached(Empty, first, TRUE, FALSE), first) = "hit"
        /\ lookupCache(store, first) # "hit"
EvictionExplained(first, second) ==
    Evicts(first, second) =>
        /\ first.kind = second.kind /\ first.version = second.version
        /\ \/ first.policy # second.policy
           \/ {first.tenant, second.tenant} = {"none", "anon"}
           \/ first.kind = "score" /\ first.environment # second.environment
=============================================================================
