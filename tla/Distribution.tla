----------------------------- MODULE Distribution -----------------------------
(***************************************************************************)
(* From a client's results to what is published about them: the cycle that *)
(* writes case studies (hermes/missions/generate-case-study.ts) and the    *)
(* one that writes reports (generate-performance-report.ts), the cycle     *)
(* that expands such a proof into an asset per channel                     *)
(* (expand-distribution-assets.ts, services/distribution.ts), the queue in *)
(* which operators approve and schedule assets (hermes-status-api.ts) and  *)
(* the poll that publishes what is due (publish-scheduled-assets.ts).      *)
(*                                                                         *)
(* The tables are a service outside the repository.  A request to one is a *)
(* single statement there; it may fail, and it may have been carried out   *)
(* although the answer was lost.                                           *)
(***************************************************************************)
EXTENDS Naturals, Sequences, FiniteSets, SequencesExt

CONSTANTS
    Tellers,      \* cycles of generateCaseStudies that may overlap
    Expanders,    \* cycles of expandDistributionAssets that may overlap
    Publishers,   \* polls of publishScheduledAssets that may overlap
    Milestones,   \* the milestones of a client, in the order they are checked
    Channels,     \* the variants of a proof, in the order they are saved
    LookupLimit,  \* limit of the query for the sources there are assets of
    Batch,        \* limit of the query for the assets that are due
    MaxReports,   \* bound: performance reports
    MaxLapses,    \* bound: lookups that do not tell all there is
    MaxQueue      \* bound: the operators act on the first MaxQueue assets

ASSUME OrdersAssumption ==
    /\ Milestones \in Seq(ToSet(Milestones)) /\ "performance" \notin ToSet(Milestones)
    /\ Channels \in Seq(ToSet(Channels)) \ {<<>>} /\ IsInjective(Channels)
ASSUME LimitsAssumption ==
    /\ {LookupLimit, Batch} \subseteq Nat \ {0}
    /\ {MaxReports, MaxLapses, MaxQueue} \subseteq Nat

VARIABLES
    proofs,     \* deliverables of report_type case_study or performance, oldest first
    assets,     \* distribution_assets, oldest first
    teller,     \* per cycle: the milestones it has yet to check, by their places
    expander,   \* per cycle: the proofs it has yet to expand and the channels of one it
                \* has yet to save, by their places
    publisher,  \* per poll: the assets it has yet to patch
    lapses      \* lookups of the cycles that failed or came back short

vars == <<proofs, assets, teller, expander, publisher, lapses>>

-----------------------------------------------------------------------------
IdleTeller   == [at |-> "idle", todo |-> {}]
IdleExpander == [at |-> "idle", todo |-> {}, left |-> {}]

\* DistributionAssetStatus, in the order of the queue; nothing here sets "failed".
Statuses == <<"draft", "approved", "scheduled", "published">>

Lapsed == lapses.tellers + lapses.expanders

Sources == {assets[a].source : a \in DOMAIN assets}

\* The sources a query finds that returns LookupLimit of the assets, in no order.
Found ==
    IF Len(assets) <= LookupLimit THEN {Sources}
    ELSE {S \in SUBSET Sources :
            /\ Cardinality(S) <= LookupLimit
            /\ Cardinality({a \in DOMAIN assets : assets[a].source \in S}) >= LookupLimit}

Init ==
    /\ proofs = <<>>
    /\ assets = <<>>
    /\ teller    = [t \in Tellers |-> IdleTeller]
    /\ expander  = [e \in Expanders |-> IdleExpander]
    /\ publisher = [p \in Publishers |-> {}]
    /\ lapses = [tellers |-> 0, expanders |-> 0]

-----------------------------------------------------------------------------
(* Proofs.                                                                 *)

\* generatePerformanceReports: a report of the month, whatever reports there are.
StoreReport ==
    /\ Cardinality({d \in DOMAIN proofs : proofs[d] = "performance"}) < MaxReports
    /\ proofs' = Append(proofs, "performance")
    /\ UNCHANGED <<assets, teller, expander, publisher, lapses>>

\* The cycle has read the client's runs; they cross some of the milestones.
CheckMilestones(t) ==
    /\ teller[t].at = "idle"
    /\ \E crossed \in (SUBSET DOMAIN Milestones) \ {{}} :
         teller' = [teller EXCEPT ![t] = [at |-> "lookup", todo |-> crossed]]
    /\ UNCHANGED <<proofs, assets, expander, publisher, lapses>>

\* The milestone the cycle is at, and where it stands with the others.
Milestone(t) == Milestones[Min(teller[t].todo)]

NextMilestone(t) ==
    LET rest == teller[t].todo \ {Min(teller[t].todo)}
    IN  IF rest = {} THEN IdleTeller ELSE [at |-> "lookup", todo |-> rest]

Told(m) == \E d \in DOMAIN proofs : proofs[d] = m

\* Is there a case study of this milestone?
LookUpStudy(t) ==
    /\ teller[t].at = "lookup"
    /\ teller' = [teller EXCEPT ![t] = IF Told(Milestone(t)) THEN NextMilestone(t)
                                       ELSE [@ EXCEPT !.at = "store"]]
    /\ UNCHANGED <<proofs, assets, expander, publisher, lapses>>

\* The lookup fails, and that counts as "no".
LookUpStudyFails(t) ==
    /\ teller[t].at = "lookup"
    /\ Lapsed < MaxLapses
    /\ teller' = [teller EXCEPT ![t].at = "store"]
    /\ lapses' = [lapses EXCEPT !.tellers = @ + 1]
    /\ UNCHANGED <<proofs, assets, expander, publisher>>

\* The case study is stored, or that fails; the next milestone.
StoreStudy(t) ==
    /\ teller[t].at = "store"
    /\ \/ proofs' = Append(proofs, Milestone(t))
       \/ UNCHANGED proofs
    /\ teller' = [teller EXCEPT ![t] = NextMilestone(t)]
    /\ UNCHANGED <<assets, expander, publisher, lapses>>

-----------------------------------------------------------------------------
(* The expansion of proofs into assets.                                    *)

ListProofs(e) ==
    /\ expander[e].at = "idle" /\ proofs # <<>>
    /\ expander' = [expander EXCEPT ![e] =
            [at |-> "dedup", todo |-> DOMAIN proofs, left |-> {}]]
    /\ UNCHANGED <<proofs, assets, teller, publisher, lapses>>

\* Where the cycle stands with these proofs left.
NextProof(todo) ==
    IF todo = {} THEN IdleExpander ELSE [at |-> "next", todo |-> todo, left |-> {}]

\* The newest proof comes first; and what comes after it.
Current(e)   == Max(expander[e].todo)
AfterThis(e) == NextProof(expander[e].todo \ {Current(e)})

\* Wrong on purpose: only what the cycle finds complete is left alone.
Dedup_Complete(e) ==
    /\ expander[e].at = "dedup"
    /\ LET full == {d \in Sources : \A c \in ToSet(Channels) :
                       \E a \in DOMAIN assets : assets[a].source = d /\ assets[a].channel = c}
       IN  expander' = [expander EXCEPT ![e] = NextProof(@.todo \ full)]
    /\ UNCHANGED <<proofs, assets, teller, publisher, lapses>>

\* A proof with an asset is left alone: existingSourceIds.
Dedup(e) ==
    /\ expander[e].at = "dedup"
    /\ \E found \in Found :
         /\ expander' = [expander EXCEPT ![e] = NextProof(@.todo \ found)]
         /\ \/ found = Sources /\ UNCHANGED lapses
            \/ /\ found # Sources
               /\ Lapsed < MaxLapses
               /\ lapses' = [lapses EXCEPT !.expanders = @ + 1]
    /\ UNCHANGED <<proofs, assets, teller, publisher>>

\* The query for the assets fails, and then no proof has any.
DedupFails(e) ==
    /\ expander[e].at = "dedup"
    /\ Lapsed < MaxLapses
    /\ lapses' = [lapses EXCEPT !.expanders = @ + 1]
    /\ expander' = [expander EXCEPT ![e] = NextProof(@.todo)]
    /\ UNCHANGED <<proofs, assets, teller, publisher>>

\* expandProofDeliverable reads the proof and builds its variants.
BuildVariants(e) ==
    /\ expander[e].at = "next"
    /\ expander' = [expander EXCEPT ![e].at = "save", ![e].left = DOMAIN Channels]
    /\ UNCHANGED <<proofs, assets, teller, publisher, lapses>>

NoDeliverable(e) ==
    /\ expander[e].at = "next"
    /\ expander' = [expander EXCEPT ![e] = AfterThis(e)]
    /\ UNCHANGED <<proofs, assets, teller, publisher, lapses>>

Draft(e) == [source |-> Current(e), channel |-> Channels[Min(expander[e].left)],
             status |-> "draft", due |-> FALSE]

\* Wrong on purpose: the cycle goes on with the proof whose variants are all saved.
OneLess_Late(e) == expander' = [expander EXCEPT ![e].left = @ \ {Min(@)}]

\* One variant less, saved or not.
OneLess(e) ==
    LET rest == expander[e].left \ {Min(expander[e].left)}
    IN  expander' = [expander EXCEPT ![e] = IF rest = {} THEN AfterThis(e)
                                            ELSE [@ EXCEPT !.left = rest]]

SaveVariant(e) ==
    /\ expander[e].at = "save"
    /\ assets' = Append(assets, Draft(e))
    /\ OneLess(e)
    /\ UNCHANGED <<proofs, teller, publisher, lapses>>

SaveVariantFails(e) ==
    /\ expander[e].at = "save"
    /\ OneLess(e)
    /\ UNCHANGED <<proofs, assets, teller, publisher, lapses>>

-----------------------------------------------------------------------------
(* The queue.                                                              *)

Queue == {a \in DOMAIN assets : a <= MaxQueue}

\* Wrong on purpose: an asset of any status is approved.
Approve_Any(a) ==
    /\ assets' = [assets EXCEPT ![a].status = "approved"]
    /\ UNCHANGED <<proofs, teller, expander, publisher, lapses>>

\* The statement patches a draft only.
Approve(a) ==
    /\ assets[a].status = "draft"
    /\ assets' = [assets EXCEPT ![a].status = "approved"]
    /\ UNCHANGED <<proofs, teller, expander, publisher, lapses>>

\* Wrong on purpose: an asset that waits may be given another time.
Schedule_Again(a) ==
    /\ assets[a].status \in {"approved", "scheduled"}
    /\ \E due \in BOOLEAN :
         assets' = [assets EXCEPT ![a].status = "scheduled", ![a].due = due]
    /\ UNCHANGED <<proofs, teller, expander, publisher, lapses>>

\* The statement patches an approved asset only; the time may lie in the past.
Schedule(a) ==
    /\ assets[a].status = "approved"
    /\ \E due \in BOOLEAN :
         assets' = [assets EXCEPT ![a].status = "scheduled", ![a].due = due]
    /\ UNCHANGED <<proofs, teller, expander, publisher, lapses>>

\* scheduled_at is reached.
TimeComes(a) ==
    /\ assets[a].status = "scheduled" /\ ~assets[a].due
    /\ assets' = [assets EXCEPT ![a].due = TRUE]
    /\ UNCHANGED <<proofs, teller, expander, publisher, lapses>>

-----------------------------------------------------------------------------
(* The poll.                                                               *)

\* Wrong on purpose: an asset that is not scheduled yet holds up those after it.
DueAssets_Oldest ==
    {a \in DOMAIN assets : /\ assets[a].status = "scheduled" /\ assets[a].due
                           /\ \A b \in 1..(a - 1) : assets[b].status # "approved"}

DueAssets == {a \in DOMAIN assets : assets[a].status = "scheduled" /\ assets[a].due}

\* What is due when the poll asks, in no order, up to the limit.
Poll(p) ==
    /\ publisher[p] = {} /\ DueAssets # {}
    /\ \E due \in SUBSET DueAssets :
         /\ due = DueAssets \/ Cardinality(due) = Batch
         /\ Cardinality(due) <= Batch
         /\ publisher' = [publisher EXCEPT ![p] = due]
    /\ UNCHANGED <<proofs, assets, teller, expander, lapses>>

\* An asset of the poll is published, whatever has become of it since.
Publish(p) ==
    /\ \E a \in publisher[p] :
         /\ assets' = [assets EXCEPT ![a].status = "published"]
         /\ publisher' = [publisher EXCEPT ![p] = @ \ {a}]
    /\ UNCHANGED <<proofs, teller, expander, lapses>>

PublishFails(p) ==
    /\ \E a \in publisher[p] : publisher' = [publisher EXCEPT ![p] = @ \ {a}]
    /\ UNCHANGED <<proofs, assets, teller, expander, lapses>>

-----------------------------------------------------------------------------
\* The process of Hermes dies and is started again; the tables stay as they are.
Die ==
    /\ teller'    = [t \in Tellers |-> IdleTeller]
    /\ expander'  = [e \in Expanders |-> IdleExpander]
    /\ publisher' = [p \in Publishers |-> {}]
    /\ UNCHANGED <<proofs, assets, lapses>>

TellerStep(t) ==
    CheckMilestones(t) \/ LookUpStudy(t) \/ LookUpStudyFails(t) \/ StoreStudy(t)
ExpanderStep(e) ==
    \/ ListProofs(e) \/ Dedup(e) \/ DedupFails(e) \/ BuildVariants(e) \/ NoDeliverable(e)
    \/ SaveVariant(e) \/ SaveVariantFails(e)

Next == \/ StoreReport \/ Die
        \/ \E t \in Tellers : TellerStep(t)
        \/ \E e \in Expanders : ExpanderStep(e)
        \/ \E a \in Queue : Approve(a) \/ Schedule(a) \/ TimeComes(a)
        \/ \E p \in Publishers : Poll(p) \/ Publish(p) \/ PublishFails(p)

\* Time passes, polls are due, and a table that is asked again and again carries a
\* request out.  Nothing is assumed of the operators and of the other cycles.
Spec == /\ Init /\ [][Next]_vars
        /\ \A a \in 1..MaxQueue : WF_vars(a \in DOMAIN assets /\ TimeComes(a))
        /\ \A p \in Publishers : WF_vars(Poll(p)) /\ SF_vars(Publish(p))

-----------------------------------------------------------------------------
(* Properties.                                                             *)

TypeOK ==
    /\ proofs \in Seq(ToSet(Milestones) \cup {"performance"})
    /\ assets \in Seq([source : DOMAIN proofs, channel : ToSet(Channels),
                       status : ToSet(Statuses), due : BOOLEAN])
    /\ teller \in [Tellers -> [at : {"idle", "lookup", "store"}, todo : SUBSET DOMAIN Milestones]]
    /\ \A t \in Tellers : teller[t].at = "idle" <=> teller[t].todo = {}
    /\ expander \in [Expanders -> [at : {"idle", "dedup", "next", "save"},
                                   todo : SUBSET DOMAIN proofs, left : SUBSET DOMAIN Channels]]
    /\ \A e \in Expanders : /\ expander[e].at = "idle" <=> expander[e].todo = {}
                            /\ expander[e].at = "save" <=> expander[e].left # {}
    /\ publisher \in [Publishers -> SUBSET DOMAIN assets]
    /\ lapses \in [{"tellers", "expanders"} -> 0..MaxLapses]

Copies(d, c) ==
    {a \in DOMAIN assets : assets[a].source = d /\ assets[a].channel = c}

\* With one cycle of each kind at a time, a case study or an asset is there twice only
\* if a lookup has failed or come back short; that variants fail half way or a death
\* interrupts a cycle duplicates nothing (expand-distribution-assets.ts:49-69,
\* generate-case-study.ts:187-200).
CopiesExplained ==
    /\ \A m \in ToSet(Milestones) :
         Cardinality({d \in DOMAIN proofs : proofs[d] = m}) <= 1 + lapses.tellers
    /\ \A d \in DOMAIN proofs, c \in ToSet(Channels) :
         Cardinality(Copies(d, c)) <= 1 + lapses.expanders

\* An asset is approved, scheduled and published in this order and never goes back,
\* though the poll patches by id alone what it read as scheduled some time ago
\* (publish-scheduled-assets.ts:39-45, hermes-status-api.ts:1029, :1062).
QueueInOrder ==
    [][\A a \in DOMAIN assets : \A k \in DOMAIN Statuses :
          assets[a].status = Statuses[k] =>
              assets'[a].status \in {Statuses[j] : j \in {k, k + 1} \cap DOMAIN Statuses}]_vars

\* Nothing is published before the time it is scheduled for
\* (publish-scheduled-assets.ts:22-28).
NotBeforeItsTime == \A a \in DOMAIN assets : assets[a].status = "published" => assets[a].due

Is(a, status) == a \in DOMAIN assets /\ assets[a].status = status

\* What is scheduled comes out, however many patches fail and whatever dies
\* (publish-scheduled-assets.ts:38-53, hermes/index.ts:163).
ScheduledComesOut ==
    \A a \in 1..MaxQueue : Is(a, "scheduled") ~> Is(a, "published")
=============================================================================
