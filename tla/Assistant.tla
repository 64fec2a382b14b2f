------------------------------- MODULE Assistant -------------------------------
(***************************************************************************)
(* The assistant (services/runtime/assistant-runtime.ts): a request takes  *)
(* a brand, a profile, a model profile and a thread, finds a skill and a   *)
(* workflow for its words, and gives advice or starts a governed run; the  *)
(* exchange is recorded behind it.  What goes into the prompt is stitched  *)
(* from the thread, the memory and the deliverables, within a limit.       *)
(*                                                                         *)
(* A task is the set of the words in it that anything looks for.  Files of *)
(* records that cannot be read are part of the world a request comes into. *)
(***************************************************************************)
EXTENDS Integers, Sequences, SequencesExt, FiniteSets, FiniteSetsExt

Clients == {"acme", "bolt", "_template"}
Modes   == {"advisory", "orchestrated"}

(* The skills, in the order of their names, with two of the triggers each. *)
Skill(name, triggers, workflow, approval) ==
    [name |-> name, triggers |-> triggers, workflow |-> workflow, approvalRequired |-> approval]
Skills ==
    << Skill("blog-authority", {"blog", "authority"}, "blog-authority", TRUE),
       Skill("lead-gen", {"leads", "outreach"}, "blog-authority", TRUE),
       Skill("publish-to-sanity", {"publish", "sanity"}, "blog-authority", TRUE),
       Skill("seo-research", {"seo", "keyword"}, "blog-authority", FALSE),
       Skill("transcript-to-content", {"transcript", "clips"}, "transcript", FALSE) >>
Words == {"blog", "leads", "seo", "keyword", "transcript", "captions"}

\* Task types of the two workflows.
WorkflowOf == [blog_generation |-> "blog-authority", authority_blog |-> "blog-authority",
               transcript_to_content |-> "transcript"]

resolveSkill(skills, task, requested) ==
    LET score(i) == Cardinality(skills[i].triggers \cap task)
        best     == {i \in DOMAIN skills : score(i) > 0 /\ \A j \in DOMAIN skills : score(j) <= score(i)}
    IN  IF requested # "none" THEN {s \in ToSet(skills) : s.name = requested}
        ELSE IF best = {} THEN {} ELSE {skills[Min(best)]}

\* A task type nobody knows is only warned of.
resolveWorkflowTarget(task, requested, skill) ==
    IF requested \in DOMAIN WorkflowOf THEN {WorkflowOf[requested]}
    ELSE IF skill # {} THEN {s.workflow : s \in skill}
    ELSE IF task \cap {"transcript", "clips", "captions"} # {} THEN {"transcript"}
    ELSE IF task \cap {"blog", "authority", "seo", "keyword"} # {} THEN {"blog-authority"}
    ELSE {}

AgentProfiles ==
    ("runtime-default"   :> [modes |-> Modes, capabilities |-> {"read", "write"}, keeps |-> {"orchestrated"}]) @@
    ("local-advisor"     :> [modes |-> {"advisory"}, capabilities |-> {"read"}, keeps |-> {}]) @@
    ("governed-operator" :> [modes |-> Modes, capabilities |-> {"read", "write"}, keeps |-> {"orchestrated"}])
resolveAgentProfile(requested) ==
    AgentProfiles[IF requested \in DOMAIN AgentProfiles THEN requested ELSE "runtime-default"]

\* Of a skill's tools those the profile lists, and of these those whose capabilities it has;
\* of a tool nobody registered the capabilities are not known.
resolveAgentTooling(tools, registered, explicit, capabilities) ==
    {t \in tools : /\ explicit # {} => t \in explicit
                   /\ IF t \in DOMAIN registered THEN registered[t] \subseteq capabilities
                      ELSE explicit = {}}

\* The brand: none is found, without an error, if any manifest cannot be read.  The default
\* is the one that says so or else the first.
resolveBrandContext(brand, w) ==
    IF ~w.manifestsReadable THEN {}
    ELSE {b \in w.brands : IF brand = "none" THEN b.default ELSE b.id = brand}
ClientOf(r, brand) ==
    IF r.client # "none" THEN r.client
    ELSE IF brand # {} THEN (CHOOSE b \in brand : TRUE).client ELSE "_template"

\* What a request is refused for before anything is run.
RefusedFor(r, w) ==
    {e \in {"brand", "profile", "model", "thread"} :
        CASE e = "brand"   -> r.brand # "none" /\ w.manifestsReadable /\ resolveBrandContext(r.brand, w) = {}
          [] e = "profile" -> r.profile # "none" /\ r.profile \notin DOMAIN AgentProfiles
          [] e = "model"   -> r.model = "unknown"
          [] e = "thread"  -> r.thread \notin {"none"} \cup {t.id : t \in w.threads}}

\* The thread of a request: the one it names, whose client and brand are not looked at, or a
\* new one of its own, whatever else is wrong with the request.
ThreadOf(r, w) ==
    LET brand == resolveBrandContext(r.brand, w)
    IN  IF r.thread # "none" THEN {t \in w.threads : t.id = r.thread}
        ELSE {[id |-> "new", client |-> ClientOf(r, brand), brand |-> {b.id : b \in brand}]}

\* A request: what came of it, and whether it has a thread, in which the exchange is recorded.
run(r, w) ==
    LET profile  == resolveAgentProfile(r.profile)
        skill    == resolveSkill(IF w.skillsReadable THEN Skills ELSE <<>>, r.task, r.skill)
        workflow == resolveWorkflowTarget(r.task, r.taskType, skill)
        did      == IF RefusedFor(r, w) # {} \/ r.mode \notin profile.modes THEN "refused"
                    ELSE IF r.mode = "advisory" THEN "advised"
                    ELSE IF workflow = {} THEN "refused" ELSE "started"
    \* A run that was started may fail; keeps is whether what it yields is recorded.
    IN  [did       |-> did,
         workflow  |-> IF did = "started" THEN workflow ELSE {},
         approval  |-> \A s \in skill : s.approvalRequired,
         thread    |-> ThreadOf(r, w),
         keeps     |-> did # "refused" /\ r.mode \in profile.keeps]

-----------------------------------------------------------------------------
(* The context.                                                            *)

\* The latest turns, oldest first; of one time, the one whose id is greater comes first.
listTurns(turns, limit) ==
    LET sorted == SetToSortSeq(turns, LAMBDA a, b : a.at < b.at \/ (a.at = b.at /\ a.id > b.id))
    IN  SubSeq(sorted, Max({1, Len(sorted) - limit + 1}), Len(sorted))

\* Each source goes in if it still fits; one that does not is passed over.
tryInclude(sources, max) ==
    FoldLeft(LAMBDA acc, s : IF acc.total + s.size <= max
                             THEN [total |-> acc.total + s.size, in |-> Append(acc.in, s)]
                             ELSE acc,
             [total |-> 0, in |-> <<>>], sources)

\* What the search and the filter of deliverables let through; "none" names nothing.
Named(a, b) == a # "none" /\ b # "none" /\ a # b
matchesFilters(entry, query) ==
    ~Named(query.client, entry.client) /\ ~Named(query.brand, entry.brand)
    /\ ~Named(query.thread, entry.thread)
DeliverableFits(d, thread) ==
    \/ d.brand # "none" /\ d.brand \in thread.brand
    \/ d.client = thread.client

\* Indexing a text writes its chunks over those of the same numbers; found are all there are.
indexText(index, chunks) == [i \in 1..Max({Len(index), Len(chunks)}) |->
                                IF i <= Len(chunks) THEN chunks[i] ELSE index[i]]

-----------------------------------------------------------------------------
(* Inputs.                                                                 *)
Brands   == {[id |-> "a", client |-> "acme", default |-> TRUE], [id |-> "b", client |-> "bolt", default |-> FALSE]}
Threads  == {[id |-> "ours", client |-> "acme", brand |-> {"a"}], [id |-> "theirs", client |-> "bolt", brand |-> {"b"}]}
Worlds   == [manifestsReadable : BOOLEAN, skillsReadable : BOOLEAN, brands : {{}, Brands}, threads : {Threads}]
Requests == [task : {{}, {"seo"}, {"leads"}, {"captions"}, {"blog", "seo"}, {"blog", "seo", "keyword"}, {"transcript"}},
             mode : Modes, client : {"none", "acme"}, brand : {"none", "b", "unknown"},
             profile : {"none", "local-advisor", "unknown"}, model : {"none", "unknown"},
             thread : {"none", "ours", "theirs", "gone"}, skill : {"none", "lead-gen"},
             taskType : {"none", "authority_blog", "other"}]
Turns    == [id : 1..3, at : 1..2, role : {"user", "assistant"}]
Sources  == SeqOf([kind : {"old", "latest"}, size : {1, 2}], 3)
Entries  == [client : {"none", "acme", "bolt"}, brand : {"none", "a", "b"}, thread : {"none", "ours", "theirs"}]

(* Claims.  MCMissionControl evaluates them.                               *)

\* Only a request nothing is wrong with does anything, in a mode its profile has; advice is
\* kept by no profile; and without a skill a run waits for an approval.
OnlySoundRequestsRun(r, w) ==
    LET end == run(r, w)
    IN  /\ end.did # "refused" =>
              RefusedFor(r, w) = {} /\ r.mode \in resolveAgentProfile(r.profile).modes /\ end.thread # {}
        /\ end.did = "started" => r.mode = "orchestrated" /\ end.workflow # {} /\ r.profile # "local-advisor"
        /\ end.keeps => end.did = "started"
        /\ end.did = "started" /\ ~end.approval =>
              w.skillsReadable /\ r.task \cap {"seo", "keyword", "transcript"} # {}

\* A profile that lists tools fails closed; one that does not, never adds any.
ToolsAreLimited(tools, registered, explicit, capabilities) ==
    LET left == resolveAgentTooling(tools, registered, explicit, capabilities)
    IN  /\ left \subseteq tools
        /\ \A t \in left \cap DOMAIN registered : registered[t] \subseteq capabilities
        /\ explicit # {} => left \subseteq explicit \cap DOMAIN registered

\* The stitched sources keep to the limit, and what was passed over does not fit in the
\* end either.
WithinLimit(sources, max) ==
    LET end == tryInclude(sources, max)
    IN  /\ end.total <= max
        /\ \A s \in ToSet(sources) : s \notin ToSet(end.in) => end.total + s.size > max

\* Turns come by their times, and the later ones are the ones that come.
LatestTurnsInOrder(turns, limit) ==
    LET listed == listTurns(turns, limit)
    IN  /\ \A i, j \in DOMAIN listed : i < j => listed[i].at <= listed[j].at
        /\ \A t \in turns \ ToSet(listed), u \in ToSet(listed) : t.at <= u.at
        /\ Len(listed) = Min({limit, Cardinality(turns)})

\* What was said in a thread is found from no other; what names a client, by no other.
MemoryStaysWhereItIs(entry, query) ==
    query.client # "none" /\ query.thread # "none" /\ matchesFilters(entry, query) =>
        entry.thread \in {"none", query.thread} /\ entry.client \in {"none", query.client}

(* Exceptions, which are there.                                            *)

\* A request that is refused leaves a thread of its own.
RefusedButRemembered(r, w) ==
    run(r, w).did = "refused" /\ r.thread = "none" /\ run(r, w).thread # {}

\* A word of the task lifts the approval of a run of another workflow than the word's.
WordLiftsApproval(r, w) ==
    LET end == run(r, w)
    IN  end.did = "started" /\ ~end.approval /\ "transcript" \in r.task /\ end.workflow = {"blog-authority"}

\* The client of a request differs from that of its thread, whose deliverables it is shown.
ThreadOfAnother(r, w, d) ==
    LET end == run(r, w)
    IN  /\ end.did # "refused" /\ r.client # "none" /\ d.client # r.client
        /\ \E t \in end.thread : DeliverableFits(d, t)

\* A brand that was asked for is left out, as the manifest of another cannot be read.
BrandIsDropped(r, w) ==
    r.brand = "b" /\ run(r, w).did # "refused" /\ resolveBrandContext(r.brand, w) = {}

\* The answer stands before the question it was given to.
AnswerComesFirst(turns) ==
    \E q, a \in turns : /\ q.role = "user" /\ a.role = "assistant" /\ q.at = a.at
                        /\ listTurns(turns, 6) = <<a, q>>

\* The latest source is passed over for want of the room an older one took.
LatestIsPassedOver(sources, max) ==
    /\ Last(sources).kind = "latest" /\ Last(sources).size <= max
    /\ Last(sources) \notin ToSet(tryInclude(sources, max).in)

\* A chunk of the former text is still found.
FormerTextIsFound(index, chunks) ==
    \E i \in DOMAIN indexText(index, chunks) : indexText(index, chunks)[i] = "old"
================================================================================
