--------------------------- MODULE MCMissionControl ---------------------------
(* The missions of the templates for TLC, one of them also with a sentinel *)
(* that is not among its stages, and the retries of ROLE_DEFAULTS.         *)
EXTENDS MissionControl

AllMissions == {Full, Review, ExecValidate, Repair, Monitor,
                [Review EXCEPT !.monitored = TRUE]}

RoleDefaults == [planner |-> 1, executor |-> 2, validator |-> 0, monitor |-> 1]

-----------------------------------------------------------------------------
R == INSTANCE ModelRouting

Options == SUBSET {"openai", "perplexity", "deterministic"}

\* Every request with every choice of options, when every provider fails and so as many
\* receive the task as ever may.
ASSUME RoutingIsSound ==
    \A req \in R!Requests, given \in Options :
        /\ R!StaysHere(req, given, {})
        /\ R!WithinCost(req, given, {})
        /\ R!PrivateFirst(req, given, {})

\* Requests without preference, with every set of providers that answer.
ASSUME AnswersAreExplained ==
    \A req \in {r \in R!Requests : r.preferred = "none" /\ ~r.strictFormat},
       given \in {{}, {"openai"}, {"openai", "deterministic"}}, up \in SUBSET R!Providers :
        R!AnswerExplained(req, given, up)

ASSUME RolesKeepTheirPlace ==
    \A up \in SUBSET R!Providers : R!ExecutorStaysLocal(up) /\ R!AgentsKeepTheirPlace(up)

ASSUME EscalationHasNoLimit ==
    \E req \in R!Requests : R!EscalationLeavesLimits(req, {"openai"}, {})

ASSUME ValidatorIsSound ==
    /\ \A value \in R!Values : R!ChecksAgree(value)
    /\ ~R!validatorOk(FALSE, {})
    /\ R!validatorOk(TRUE, {})

-----------------------------------------------------------------------------
(* The records of customers, with every set of records that are there.     *)

C == INSTANCE Crm

Stores   == {"file", "rows"}
RecordsOf(there) == [k \in C!Keys |-> IF k \in there THEN C!Old ELSE C!None]
AllRecords == {RecordsOf(there) : there \in SUBSET C!Keys}

\* Pairs are of contacts and opportunities.
PlainCalls(c) == {call \in C!Calls(c) : C!Plain(call) /\ call.kind # "lead"}
FewRecords    == {RecordsOf(there) : there \in SUBSET {k \in C!Keys : k.kind # "lead"}}
Alpha(permissions, approval) ==
    [tenant |-> "alpha", permissions |-> permissions, approval |-> approval]

ASSUME CallsAreSound ==
    /\ \A r \in C!Requests : C!ContextIsEarned(r)
    /\ \A call \in C!Calls("a"), records \in AllRecords :
          /\ \A store \in Stores : C!OneRecordAtMost(store, call, records)
          /\ C!StoresAgree(call, records)
    /\ \A store \in Stores, call \in {c \in C!Calls("a") : c.tenant = "alpha" /\ c.field = "stage"},
          granted \in C!Grants, approval \in {"none", "approved"}, corrupt, writes, audits \in BOOLEAN :
          C!OkIsNoted(store, Alpha(granted, approval), call,
                      [corrupt |-> corrupt, records |-> RecordsOf(C!Keys)], writes, audits)

ASSUME RowsAreSound ==
    \A a \in PlainCalls("a"), b \in PlainCalls("b"), records \in FewRecords :
        /\ C!RowsAreApart(a, b, records)
        /\ \A apart \in BOOLEAN : C!OneCreator("rows", a, b, records, apart)

ASSUME RecordsAreForgotten ==
    /\ \E a \in PlainCalls("a"), b \in PlainCalls("b"), records \in FewRecords :
          C!FileForgets(a, b, records)
    /\ \E a \in PlainCalls("a"), b \in PlainCalls("b"), records \in FewRecords :
          C!RowForgets(a, b, records)
    /\ \E a \in PlainCalls("a"), b \in PlainCalls("b"), records \in FewRecords :
          ~C!OneCreator("file", a, b, records, FALSE)
    /\ \E call \in PlainCalls("a"), records \in FewRecords : C!FileStartsAnew(call, records)
    /\ \E call \in PlainCalls("a"), records \in FewRecords :
          /\ call.op = "create" /\ call.tenant = "alpha"
          /\ C!DoneButNotNoted("rows", Alpha({"crm:*"}, "none"), call, records)

-----------------------------------------------------------------------------
(* The assistant: every request of its inputs, and short contexts.         *)

A == INSTANCE Assistant

Registrations == [{"summarize", "publish"} -> {{"read"}, {"read", "write"}, {"external"}}]
TurnSets      == {turns \in SUBSET A!Turns : \A t, u \in turns : t.id = u.id => t = u}
Readable      == [manifestsReadable |-> TRUE, skillsReadable |-> TRUE, brands |-> A!Brands, threads |-> A!Threads]

ASSUME RequestsAreSound ==
    /\ \A r \in A!Requests, w \in A!Worlds : A!OnlySoundRequestsRun(r, w)
    /\ \A tools \in SUBSET {"summarize", "publish", "outline"},
          explicit \in SUBSET {"summarize", "outline"}, capabilities \in SUBSET {"read", "write"} :
          /\ \A registered \in Registrations :
                A!ToolsAreLimited(tools, registered, explicit, capabilities)
          /\ \A p \in DOMAIN A!AgentProfiles :
                A!resolveAgentTooling(tools, <<>>, {}, A!AgentProfiles[p].capabilities) = tools

ASSUME ContextIsSound ==
    /\ \A sources \in A!Sources, max \in 1..4 : A!WithinLimit(sources, max)
    /\ \A turns \in TurnSets, limit \in 1..3 : A!LatestTurnsInOrder(turns, limit)
    /\ \A entry, query \in A!Entries : A!MemoryStaysWhereItIs(entry, query)

ASSUME AssistantHasExceptions ==
    /\ \E r \in A!Requests, w \in A!Worlds : A!RefusedButRemembered(r, w)
    /\ \E r \in A!Requests : A!WordLiftsApproval(r, Readable)
    /\ \E r \in A!Requests : A!ThreadOfAnother(r, Readable, [client |-> "bolt", brand |-> "none"])
    /\ \E r \in A!Requests, w \in A!Worlds : A!BrandIsDropped(r, w)
    /\ \E turns \in TurnSets : A!AnswerComesFirst(turns)
    /\ \E sources \in A!Sources : sources # <<>> /\ A!LatestIsPassedOver(sources, 2)
    /\ A!FormerTextIsFound(<<"old", "old">>, <<"new">>)

-----------------------------------------------------------------------------
(* The callbacks: every delivery around its time, stores with one entry of *)
(* each kind, and every two deliveries of four in the time they matter.    *)

W == INSTANCE Webhooks

Times  == 0..9
Here   == {d \in W!Deliveries : d.nonce = "n1" /\ d.id = "w1"}
Again  == {d \in Here : d.headers = "sound" /\ d.at = 2 /\ d.signed}
Others == {d \in W!Deliveries : d.headers = "sound" /\ d.at = 3 /\ d.body = "run and decision"}
OneOfEach ==
    {[W!Empty EXCEPT !.nonces["n1"] = n, !.ids["w1"] = w] : n, w \in {0, 4, 7}}

ASSUME CallbacksAreSound ==
    /\ \A d \in Here, store \in OneOfEach, config \in W!Configs, now \in Times :
          W!OnlyFreshBegun(d, store, config, now, "done")
    /\ \A d \in Again, config \in W!Configs, first \in Times, work \in W!Works :
          \A second \in first..12 : W!TakenOnce(d, config, first, second, work)
    /\ \A d \in Again, e \in Others, config \in W!Configs, first \in Times :
          \A second \in first..12 : W!NoneInTheWay(d, e, config, first, second)

ASSUME CallbacksHaveExceptions ==
    /\ \E d \in Again, first \in Times : \E second \in first..12 : W!TakenTwice(d, first, second)
    /\ \E d \in Again : W!TakenAfterRestart(d, 4, 5)
    /\ \E d \in Again : W!RetryIsRefused(d, 4, 5)
    /\ \E d \in Again, e \in Others : W!OtherIsRefused(d, e, 4, 5)

-----------------------------------------------------------------------------
(* Telegram: up to four updates in batches of one or two, three polls with *)
(* deaths at every place, and five events around the loops of the bot.     *)

T == INSTANCE Telegram

FewUpdates == UNION {[1..n -> T!Updates] : n \in 1..4}
Steps      == [1..3 -> [dies : {TRUE}, after : 0..2] \cup {[dies |-> FALSE, after |-> 0]}]
Event(op, loop) == [op |-> op, loop |-> loop]
Events     == UNION {[1..n -> {Event("start", 0), Event("stop", 0)}
                               \cup {Event(op, l) : op \in {"fire", "land"}, l \in 1..2}] : n \in 4..5}

ASSUME UpdatesAreHandled ==
    /\ \A updates \in FewUpdates, limit \in 1..2, steps \in Steps :
          /\ T!HandledAgainByDeathOnly(updates, limit, steps)
          /\ T!NoneIsLost(updates, limit, steps)
    /\ \A updates \in FewUpdates, limit \in 1..2 : T!BothGetThrough(updates, limit)
    /\ \A events \in Events : T!OneLoop(events)
    /\ \A c \in T!Settings, m \in T!Messages : T!AskedByTheListed(c, m)

ASSUME TelegramHasExceptions ==
    /\ \A kind \in {"senderless", "other"} : \E updates \in FewUpdates : T!ListenerIsHeldUp(updates, 2, kind)
    /\ \E updates \in FewUpdates, steps \in Steps : T!CarriedOutTwice(updates, 2, steps)
    /\ \E events \in Events : T!TwoLoops(events)
=============================================================================
