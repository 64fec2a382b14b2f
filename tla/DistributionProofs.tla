-------------------------- MODULE DistributionProofs --------------------------
(***************************************************************************)
(* What TLAPS proves of Distribution, for any number of assets, channels,  *)
(* cycles and polls and any limit: the polls overlap, patch what they read *)
(* some time ago and die, and the queue still moves one way; and with one  *)
(* cycle of each kind at a time only lookups that lapse make copies.       *)
(***************************************************************************)
EXTENDS Distribution, SequenceTheorems, FiniteSetTheorems, TLAPS

Words == {"draft", "approved", "scheduled", "published"}
Rows(S) == [source : S, channel : S, status : Words, due : BOOLEAN]

\* Where an asset comes from plays no part in the queue.
AssetsTyped == \E S : assets \in Seq(Rows(S))

\* What a poll has before it was due when it read it, and still is; it may have been
\* published by another poll since, and nothing else.
PollsHoldDue ==
    /\ publisher \in [Publishers -> SUBSET DOMAIN assets]
    /\ \A p \in Publishers : \A a \in publisher[p] :
         assets[a].due /\ assets[a].status \in {"scheduled", "published"}

QInv == AssetsTyped /\ PollsHoldDue /\ NotBeforeItsTime

LEMMA InQueue == ASSUME NEW a \in Queue PROVE a \in DOMAIN assets
  BY DEF Queue

LEMMA RowOf ==
  ASSUME AssetsTyped, NEW a \in DOMAIN assets
  PROVE  /\ assets[a].status \in Words /\ assets[a].due \in BOOLEAN
         /\ a \in Nat
<1>1. PICK S : assets \in Seq(Rows(S))
  BY DEF AssetsTyped
<1>2. DOMAIN assets = 1..Len(assets) /\ Len(assets) \in Nat /\ assets \in [1..Len(assets) -> Rows(S)]
  BY <1>1, LenProperties
<1>3. assets[a] \in Rows(S)
  BY <1>2
<1>4. QED
  BY <1>2, <1>3 DEF Rows

(***************************************************************************)
(* What a step may do to the queue: nothing; put a draft at its end; or    *)
(* patch one asset.                                                        *)
(***************************************************************************)
Appended ==
    /\ \E s, c : assets' = Append(assets, [source |-> s, channel |-> c,
                                           status |-> "draft", due |-> FALSE])
    /\ publisher' = publisher

Patched(a, status, due) ==
    /\ AssetsTyped'
    /\ DOMAIN assets' = DOMAIN assets
    /\ \A b \in DOMAIN assets : b # a => assets'[b] = assets[b]
    /\ assets'[a].status = status /\ assets'[a].due = due

\* One asset, one place further.
Moved(a) ==
    \/ assets[a].status = "draft"     /\ Patched(a, "approved", assets[a].due)
    \/ assets[a].status = "approved"  /\ \E due \in BOOLEAN : Patched(a, "scheduled", due)
    \/ assets[a].status = "scheduled" /\ Patched(a, "scheduled", TRUE)
    \/ /\ assets[a].status \in {"scheduled", "published"} /\ assets[a].due
       /\ Patched(a, "published", TRUE)

\* The row that was appended is the last, the others stay.
LEMMA AppendedForm ==
  ASSUME AssetsTyped, Appended
  PROVE  /\ AssetsTyped'
         /\ DOMAIN assets \subseteq DOMAIN assets'
         /\ \A a \in DOMAIN assets : assets'[a] = assets[a]
         /\ \A a \in DOMAIN assets' \ DOMAIN assets : assets'[a].status = "draft"
<1>1. PICK S : assets \in Seq(Rows(S))
  BY DEF AssetsTyped
<1>2. PICK s, c : assets' = Append(assets, [source |-> s, channel |-> c,
                                            status |-> "draft", due |-> FALSE])
  BY DEF Appended
<1> DEFINE T == S \cup {s, c}
           row == [source |-> s, channel |-> c, status |-> "draft", due |-> FALSE]
<1>3. Rows(S) \subseteq Rows(T) /\ row \in Rows(T) /\ row.status = "draft"
  BY DEF Rows, Words
<1>4. assets \in Seq(Rows(T))
  BY <1>1, <1>3, SeqMonotonic
<1> HIDE DEF row, T
<1>5. assets' = Append(assets, row)
  BY <1>2 DEF row
<1>6. /\ assets' \in Seq(Rows(T))
      /\ Len(assets') = Len(assets) + 1
      /\ \A i \in 1..Len(assets) : assets'[i] = assets[i]
      /\ assets'[Len(assets) + 1] = row
  BY <1>3, <1>4, <1>5, AppendProperties
<1>7. /\ DOMAIN assets = 1..Len(assets) /\ Len(assets) \in Nat
      /\ DOMAIN assets' = 1..Len(assets')
  BY <1>4, <1>6, LenProperties
<1>8. \A a \in DOMAIN assets' \ DOMAIN assets : a = Len(assets) + 1
  BY <1>6, <1>7
<1>9. DOMAIN assets \subseteq DOMAIN assets'
  BY <1>6, <1>7
<1>10. QED
  BY <1>3, <1>6, <1>7, <1>8, <1>9 DEF AssetsTyped

\* Patching some fields of one row.
LEMMA PatchedForm ==
  ASSUME NEW S, assets \in Seq(Rows(S)), NEW a \in DOMAIN assets, NEW row \in Rows(S),
         assets' = [assets EXCEPT ![a] = row]
  PROVE  Patched(a, row.status, row.due)
<1>1. DOMAIN assets = 1..Len(assets) /\ assets \in [1..Len(assets) -> Rows(S)]
  BY LenProperties
<1>2. assets' \in Seq(Rows(S))
  BY <1>1, ExceptSeq
<1>3. QED
  BY <1>1, <1>2 DEF AssetsTyped, Patched

LEMMA StatusPatched ==
  ASSUME AssetsTyped, NEW a \in DOMAIN assets, NEW status \in Words,
         assets' = [assets EXCEPT ![a].status = status]
  PROVE  Patched(a, status, assets[a].due)
<1>1. PICK S : assets \in Seq(Rows(S))
  BY DEF AssetsTyped
<1> DEFINE row == [assets[a] EXCEPT !.status = status]
<1>2. assets[a] \in Rows(S)
  BY <1>1, LenProperties
<1>3. row \in Rows(S) /\ row.status = status /\ row.due = assets[a].due
  BY <1>2 DEF Rows
<1>4. assets' = [assets EXCEPT ![a] = row]
  OBVIOUS
<1> HIDE DEF row
<1>5. QED
  BY <1>1, <1>3, <1>4, PatchedForm

LEMMA TimePatched ==
  ASSUME AssetsTyped, NEW a \in DOMAIN assets, NEW due \in BOOLEAN,
         assets' = [assets EXCEPT ![a].due = due]
  PROVE  Patched(a, assets[a].status, due)
<1>1. PICK S : assets \in Seq(Rows(S))
  BY DEF AssetsTyped
<1> DEFINE row == [assets[a] EXCEPT !.due = due]
<1>2. assets[a] \in Rows(S)
  BY <1>1, LenProperties
<1>3. row \in Rows(S) /\ row.status = assets[a].status /\ row.due = due
  BY <1>2 DEF Rows
<1>4. assets' = [assets EXCEPT ![a] = row]
  OBVIOUS
<1> HIDE DEF row
<1>5. QED
  BY <1>1, <1>3, <1>4, PatchedForm

LEMMA BothPatched ==
  ASSUME AssetsTyped, NEW a \in DOMAIN assets, NEW status \in Words, NEW due \in BOOLEAN,
         assets' = [assets EXCEPT ![a].status = status, ![a].due = due]
  PROVE  Patched(a, status, due)
<1>1. PICK S : assets \in Seq(Rows(S))
  BY DEF AssetsTyped
<1> DEFINE row == [assets[a] EXCEPT !.status = status, !.due = due]
<1>2. assets[a] \in Rows(S) /\ DOMAIN assets = 1..Len(assets)
      /\ assets \in [1..Len(assets) -> Rows(S)]
  BY <1>1, LenProperties
<1>3. row \in Rows(S) /\ row.status = status /\ row.due = due
  BY <1>2 DEF Rows
<1>4. assets' = [assets EXCEPT ![a] = row]
  BY <1>2
<1> HIDE DEF row
<1>5. QED
  BY <1>1, <1>3, <1>4, PatchedForm

-----------------------------------------------------------------------------
(* The steps.                                                              *)

LEMMA Shape ==
  ASSUME QInv, Next
  PROVE  \/ Appended
         \/ assets' = assets
         \/ \E a \in DOMAIN assets : Moved(a)
<1>1. CASE StoreReport \/ Die \/ \E t \in Tellers : TellerStep(t)
  BY <1>1 DEF StoreReport, Die, TellerStep, CheckMilestones, LookUpStudy, LookUpStudyFails,
              StoreStudy
<1>2. ASSUME NEW e \in Expanders, ExpanderStep(e) PROVE assets' = assets \/ Appended
  <2>1. CASE SaveVariant(e)
    BY <2>1 DEF SaveVariant, Draft, Appended
  <2>2. CASE ~SaveVariant(e)
    BY <1>2, <2>2 DEF ExpanderStep, ListProofs, Dedup, DedupFails, BuildVariants, NoDeliverable,
                      SaveVariantFails
  <2>3. QED
    BY <2>1, <2>2
<1>3. ASSUME NEW a \in Queue, Approve(a) PROVE Moved(a)
  BY <1>3, InQueue, StatusPatched DEF Approve, Moved, QInv, Words
<1>4. ASSUME NEW a \in Queue, Schedule(a) PROVE Moved(a)
  <2>1. PICK due \in BOOLEAN :
          assets' = [assets EXCEPT ![a].status = "scheduled", ![a].due = due]
    BY <1>4 DEF Schedule
  <2>2. Patched(a, "scheduled", due)
    BY <2>1, InQueue, BothPatched DEF QInv, Words
  <2>3. QED
    BY <1>4, <2>2 DEF Schedule, Moved
<1>5. ASSUME NEW a \in Queue, TimeComes(a) PROVE Moved(a)
  BY <1>5, InQueue, TimePatched DEF TimeComes, Moved, QInv
<1>6. ASSUME NEW p \in Publishers, Poll(p) \/ PublishFails(p) PROVE assets' = assets
  BY <1>6 DEF Poll, PublishFails
<1>7. ASSUME NEW p \in Publishers, Publish(p) PROVE \E a \in DOMAIN assets : Moved(a)
  <2>1. PICK a \in publisher[p] : assets' = [assets EXCEPT ![a].status = "published"]
    BY <1>7 DEF Publish
  <2>2. a \in DOMAIN assets /\ assets[a].due /\ assets[a].status \in {"scheduled", "published"}
    BY <2>1 DEF QInv, PollsHoldDue
  <2>3. Patched(a, "published", assets[a].due) /\ assets[a].due \in BOOLEAN
    BY <2>1, <2>2, StatusPatched, RowOf DEF QInv, Words
  <2>4. Moved(a)
    BY <2>2, <2>3 DEF Moved
  <2>5. QED
    BY <2>2, <2>4
<1>8. QED
  BY <1>1, <1>2, <1>3, <1>4, <1>5, <1>6, <1>7, InQueue DEF Next

\* Rows stay, and what is due and on its way out stays so.
Onward ==
    /\ AssetsTyped'
    /\ DOMAIN assets \subseteq DOMAIN assets'
    /\ \A a \in DOMAIN assets :
         assets[a].due /\ assets[a].status \in {"scheduled", "published"} =>
            assets'[a].due /\ assets'[a].status \in {"scheduled", "published"}

LEMMA StepsOnward ==
  ASSUME QInv, [Next]_vars
  PROVE  Onward /\ NotBeforeItsTime'
<1>1. CASE assets' = assets
  BY <1>1 DEF Onward, QInv, AssetsTyped, NotBeforeItsTime
<1>2. CASE Appended
  BY <1>2, AppendedForm DEF Onward, QInv, NotBeforeItsTime
<1>3. ASSUME NEW a \in DOMAIN assets, Moved(a) PROVE Onward /\ NotBeforeItsTime'
  <2>1. PICK status \in Words, due \in BOOLEAN :
          /\ Patched(a, status, due)
          /\ status = "published" => due
          /\ assets[a].due /\ assets[a].status \in {"scheduled", "published"} =>
                due /\ status \in {"scheduled", "published"}
    BY <1>3, RowOf DEF Moved, QInv, Words
  <2>2. QED
    BY <2>1 DEF Patched, Onward, QInv, NotBeforeItsTime
<1>4. CASE UNCHANGED vars
  BY <1>1, <1>4 DEF vars
<1>5. QED
  BY <1>1, <1>2, <1>3, <1>4, Shape

LEMMA PollsStep ==
  ASSUME QInv, [Next]_vars
  PROVE  PollsHoldDue'
<1>1. Onward
  BY StepsOnward
<1>2. ASSUME \A p \in Publishers : publisher'[p] \subseteq publisher[p],
             publisher' \in [Publishers -> SUBSET DOMAIN assets]
      PROVE  PollsHoldDue'
  BY <1>1, <1>2 DEF QInv, PollsHoldDue, Onward
<1>3. CASE publisher' = publisher
  BY <1>2, <1>3 DEF QInv, PollsHoldDue
<1>4. CASE Die
  BY <1>2, <1>4 DEF Die
<1>5. ASSUME NEW p \in Publishers, Poll(p) PROVE PollsHoldDue'
  <2>1. PICK due \in SUBSET DueAssets : publisher' = [publisher EXCEPT ![p] = due]
    BY <1>5 DEF Poll
  <2>2. assets' = assets
    BY <1>5 DEF Poll
  <2>3. QED
    BY <2>1, <2>2 DEF QInv, PollsHoldDue, DueAssets
<1>6. ASSUME NEW p \in Publishers, Publish(p) \/ PublishFails(p) PROVE PollsHoldDue'
  <2>1. PICK a \in publisher[p] : publisher' = [publisher EXCEPT ![p] = @ \ {a}]
    BY <1>6 DEF Publish, PublishFails
  <2>2. QED
    BY <1>2, <2>1 DEF QInv, PollsHoldDue
<1>7. QED
  <2>1. CASE UNCHANGED vars
    BY <1>3, <2>1 DEF vars
  <2>2. CASE Next
    <3>1. ASSUME StoreReport \/ \E t \in Tellers : TellerStep(t) PROVE publisher' = publisher
      BY <3>1 DEF StoreReport, TellerStep, CheckMilestones, LookUpStudy, LookUpStudyFails,
                  StoreStudy
    <3>2. ASSUME NEW e \in Expanders, ExpanderStep(e) PROVE publisher' = publisher
      BY <3>2 DEF ExpanderStep, ListProofs, Dedup, DedupFails, BuildVariants, NoDeliverable,
                  SaveVariant, SaveVariantFails
    <3>3. ASSUME NEW a \in Queue, Approve(a) \/ Schedule(a) \/ TimeComes(a)
          PROVE publisher' = publisher
      BY <3>3 DEF Approve, Schedule, TimeComes
    <3>4. QED
      BY <1>3, <1>4, <1>5, <1>6, <2>2, <3>1, <3>2, <3>3 DEF Next
  <2>3. QED
    BY <2>1, <2>2

-----------------------------------------------------------------------------
THEOREM QueueInvariance == Spec => []QInv
<1>1. Init => QInv
  <2> SUFFICES ASSUME Init PROVE QInv
    OBVIOUS
  <2>1. AssetsTyped /\ DOMAIN assets = {}
    BY EmptySeq DEF Init, AssetsTyped
  <2>2. QED
    BY <2>1 DEF Init, QInv, PollsHoldDue, NotBeforeItsTime
<1>2. QInv /\ [Next]_vars => QInv'
  BY StepsOnward, PollsStep DEF QInv, Onward
<1>3. QED
  BY <1>1, <1>2, PTL DEF Spec

\* Nothing is published before the time it is scheduled for, though the poll decides on
\* what it read some time ago (publish-scheduled-assets.ts:22-45).
THEOREM PublishedInTime == Spec => []NotBeforeItsTime
  BY QueueInvariance, PTL DEF QInv

\* However polls and operators overlap, an asset goes through the queue one place at a
\* time and never back (publish-scheduled-assets.ts:39-45, hermes-status-api.ts:1029, :1062).
THEOREM QueueKeepsOrder == Spec => QueueInOrder
<1>1. QInv /\ [Next]_vars =>
        [\A a \in DOMAIN assets : \A k \in DOMAIN Statuses :
            assets[a].status = Statuses[k] =>
                assets'[a].status \in {Statuses[j] : j \in {k, k + 1} \cap DOMAIN Statuses}]_vars
  <2> SUFFICES ASSUME QInv, Next, NEW a \in DOMAIN assets, NEW k \in DOMAIN Statuses,
                      assets[a].status = Statuses[k]
               PROVE  assets'[a].status \in {Statuses[j] : j \in {k, k + 1} \cap DOMAIN Statuses}
    BY DEF vars
  <2>1. /\ DOMAIN Statuses = 1..4
        /\ Statuses[1] = "draft" /\ Statuses[2] = "approved"
        /\ Statuses[3] = "scheduled" /\ Statuses[4] = "published"
    BY DEF Statuses
  <2> DEFINE From == assets[a].status
             To   == assets'[a].status
  <2>2. \/ To = From
        \/ From = "draft" /\ To = "approved"
        \/ From = "approved" /\ To = "scheduled"
        \/ From = "scheduled" /\ To = "published"
    <3>1. CASE assets' = assets
      BY <3>1
    <3>2. CASE Appended
      BY <3>2, AppendedForm DEF QInv
    <3>3. ASSUME NEW b \in DOMAIN assets, Moved(b)
          PROVE  \/ To = From
                 \/ From = "draft" /\ To = "approved"
                 \/ From = "approved" /\ To = "scheduled"
                 \/ From = "scheduled" /\ To = "published"
      BY <3>3 DEF Moved, Patched
    <3>4. QED
      BY <3>1, <3>2, <3>3, Shape
  <2> HIDE DEF From, To
  <2>3. From = Statuses[k]
    BY DEF From
  <2>4. \E j \in {k, k + 1} \cap DOMAIN Statuses : To = Statuses[j]
    <3>1. CASE To = From
      BY <2>1, <2>3, <3>1
    <3>2. CASE k = 1
      BY <2>1, <2>2, <2>3, <3>2
    <3>3. CASE k = 2
      BY <2>1, <2>2, <2>3, <3>3
    <3>4. CASE k = 3
      BY <2>1, <2>2, <2>3, <3>4
    <3>5. CASE k = 4
      BY <2>1, <2>2, <2>3, <3>5
    <3>6. QED
      BY <2>1, <3>2, <3>3, <3>4, <3>5
  <2>5. QED
    BY <2>4 DEF To
<1>2. QED
  BY <1>1, QueueInvariance, PTL DEF Spec, QueueInOrder
-----------------------------------------------------------------------------
(* The cycles.  What is first or newest of a set of places is in it.       *)

Less == {p \in Nat \X Nat : p[1] < p[2]}

LEMMA LeastOf ==
  ASSUME NEW S \in SUBSET Nat, S # {}
  PROVE  \E x \in S : \A y \in S : x <= y
<1>1. IsWellFoundedOn(Less, Nat)
  BY NatLessThanWellFounded, Zenon DEF OpToRel, Less
<1>2. PICK x \in S : \A y \in S : ~ (<<y, x>> \in Less)
  BY <1>1, WFMin
<1>3. ASSUME NEW y \in S PROVE x <= y
  <2>1. x \in Nat /\ y \in Nat
    OBVIOUS
  <2>2. ~ (y < x)
    BY <1>2, <2>1 DEF Less
  <2>3. QED
    BY <2>1, <2>2
<1>4. QED
  BY <1>3

LEMMA MinIsIn ==
  ASSUME NEW S \in SUBSET Nat, S # {}
  PROVE  Min(S) \in S
  BY LeastOf DEF Min

LEMMA MaxIsIn ==
  ASSUME NEW n \in Nat, NEW S \in SUBSET (1..n), S # {}
  PROVE  Max(S) \in S
<1> DEFINE T == {n - x : x \in S}
<1>0. \A x \in S : x \in 1..n
  OBVIOUS
<1>1. T \in SUBSET Nat /\ T # {}
  <2>1. \A x \in S : n - x \in Nat
    BY <1>0
  <2>2. QED
    BY <2>1
<1>2. PICK z \in T : \A y \in T : z <= y
  BY <1>1, LeastOf
<1>3. PICK x \in S : z = n - x
  OBVIOUS
<1>4. ASSUME NEW y \in S PROVE x >= y
  <2>1. n - y \in T /\ x \in 1..n /\ y \in 1..n
    BY <1>0
  <2>2. n - x <= n - y
    BY <1>2, <1>3, <2>1
  <2>3. QED
    BY <2>1, <2>2
<1>5. QED
  BY <1>4 DEF Max

LEMMA Places ==
  ASSUME TypeOK
  PROVE  /\ DOMAIN Milestones \subseteq Nat /\ DOMAIN Channels \subseteq Nat
         /\ DOMAIN Channels # {}
         /\ Len(proofs) \in Nat /\ DOMAIN proofs = 1..Len(proofs)
         /\ \A t \in Tellers : teller[t].at # "idle" =>
               /\ Min(teller[t].todo) \in DOMAIN Milestones
               /\ Milestone(t) \in ToSet(Milestones)
         /\ \A e \in Expanders : expander[e].at # "idle" => Current(e) \in expander[e].todo
         /\ \A e \in Expanders : expander[e].at = "save" =>
               Min(expander[e].left) \in expander[e].left
<1>1. /\ DOMAIN Milestones = 1..Len(Milestones) /\ Len(Milestones) \in Nat
      /\ DOMAIN Channels = 1..Len(Channels) /\ Len(Channels) \in Nat
      /\ Len(proofs) \in Nat /\ DOMAIN proofs = 1..Len(proofs)
  BY OrdersAssumption, LenProperties DEF TypeOK
<1>2. Len(Channels) \in Nat \ {0}
  BY OrdersAssumption, EmptySeq
<1>3. ASSUME NEW t \in Tellers, teller[t].at # "idle"
      PROVE  Min(teller[t].todo) \in DOMAIN Milestones /\ Milestone(t) \in ToSet(Milestones)
  <2>1. teller[t].todo \in SUBSET Nat /\ teller[t].todo # {}
        /\ teller[t].todo \subseteq DOMAIN Milestones
    BY <1>1, <1>3 DEF TypeOK
  <2>2. Min(teller[t].todo) \in DOMAIN Milestones
    BY <2>1, MinIsIn
  <2>3. QED
    BY <2>2 DEF Milestone, ToSet
<1>4. ASSUME NEW e \in Expanders, expander[e].at # "idle"
      PROVE  Current(e) \in expander[e].todo
  <2>1. expander[e].todo \in SUBSET (1..Len(proofs)) /\ expander[e].todo # {}
    BY <1>1, <1>4 DEF TypeOK
  <2>2. QED
    BY <1>1, <2>1, MaxIsIn DEF Current
<1>5. ASSUME NEW e \in Expanders, expander[e].at = "save"
      PROVE  Min(expander[e].left) \in expander[e].left
  <2>1. expander[e].left \in SUBSET Nat /\ expander[e].left # {}
    BY <1>1, <1>5 DEF TypeOK
  <2>2. QED
    BY <2>1, MinIsIn
<1>6. DOMAIN Milestones \subseteq Nat /\ DOMAIN Channels \subseteq Nat /\ DOMAIN Channels # {}
  <2>1. 1 \in DOMAIN Channels
    BY <1>1, <1>2
  <2>2. QED
    BY <1>1, <2>1
<1>7. QED
  BY <1>1, <1>3, <1>4, <1>5, <1>6

\* The rows of the assets, and what becomes of them.
Kinds == ToSet(Milestones) \cup {"performance"}
Row   == [source : DOMAIN proofs, channel : ToSet(Channels), status : ToSet(Statuses), due : BOOLEAN]

LEMMA StatusesAre == ToSet(Statuses) = Words
<1>1. DOMAIN Statuses = 1..4
  BY DEF Statuses
<1>2. QED
  BY <1>1 DEF ToSet, Statuses, Words

\* A proof more.
LEMMA ProofStored ==
  ASSUME TypeOK, NEW kind \in Kinds, proofs' = Append(proofs, kind)
  PROVE  /\ proofs' \in Seq(Kinds)
         /\ DOMAIN proofs' = 1..(Len(proofs) + 1)
         /\ DOMAIN proofs \subseteq DOMAIN proofs'
         /\ \A d \in DOMAIN proofs : proofs'[d] = proofs[d]
         /\ proofs'[Len(proofs) + 1] = kind
         /\ assets \in Seq(Row')
<1>1. proofs \in Seq(Kinds) /\ assets \in Seq(Row)
  BY DEF TypeOK, Kinds, Row
<1>2. /\ proofs' \in Seq(Kinds) /\ Len(proofs') = Len(proofs) + 1
      /\ \A i \in 1..Len(proofs) : proofs'[i] = proofs[i]
      /\ proofs'[Len(proofs) + 1] = kind
  BY <1>1, AppendProperties
<1>3. DOMAIN proofs = 1..Len(proofs) /\ Len(proofs) \in Nat /\ DOMAIN proofs' = 1..Len(proofs')
  BY <1>1, <1>2, LenProperties
<1>4. DOMAIN proofs \subseteq DOMAIN proofs'
  BY <1>2, <1>3
<1>5. Row \subseteq Row'
  BY <1>4 DEF Row
<1>6. assets \in Seq(Row')
  BY <1>1, <1>5, SeqMonotonic
<1>7. QED
  BY <1>2, <1>3, <1>4, <1>6

\* A row may change its status and its time, and a row may be added.
LEMMA RowPatched ==
  ASSUME TypeOK, NEW a \in DOMAIN assets, NEW row \in Row, assets' = [assets EXCEPT ![a] = row],
         proofs' = proofs
  PROVE  assets' \in Seq(Row') /\ DOMAIN assets' = DOMAIN assets
<1>1. assets \in Seq(Row)
  BY DEF TypeOK, Row
<1>2. DOMAIN assets = 1..Len(assets)
  BY <1>1, LenProperties
<1>3. assets' \in Seq(Row)
  BY <1>1, <1>2, ExceptSeq
<1>4. Row' = Row
  BY DEF Row
<1>5. QED
  BY <1>3, <1>4

LEMMA QueueTyped ==
  ASSUME TypeOK, NEW a \in DOMAIN assets, proofs' = proofs,
         NEW status \in Words, NEW due \in BOOLEAN,
         \/ assets' = [assets EXCEPT ![a].status = status]
         \/ assets' = [assets EXCEPT ![a].due = due]
         \/ assets' = [assets EXCEPT ![a].status = status, ![a].due = due]
  PROVE  /\ assets' \in Seq(Row') /\ DOMAIN assets' = DOMAIN assets
         /\ \A b \in DOMAIN assets : /\ assets'[b].source = assets[b].source
                                     /\ assets'[b].channel = assets[b].channel
<1>1. /\ assets \in Seq(Row) /\ DOMAIN assets = 1..Len(assets)
      /\ assets \in [1..Len(assets) -> Row]
  BY LenProperties DEF TypeOK, Row
<1>2. assets[a] \in Row
  BY <1>1
<1>3. PICK row \in Row :
        /\ assets' = [assets EXCEPT ![a] = row]
        /\ row.source = assets[a].source /\ row.channel = assets[a].channel
  <2> DEFINE s == [assets[a] EXCEPT !.status = status]
             t == [assets[a] EXCEPT !.due = due]
             b == [assets[a] EXCEPT !.status = status, !.due = due]
  <2>1. /\ s \in Row /\ s.source = assets[a].source /\ s.channel = assets[a].channel
        /\ t \in Row /\ t.source = assets[a].source /\ t.channel = assets[a].channel
        /\ b \in Row /\ b.source = assets[a].source /\ b.channel = assets[a].channel
    BY <1>2, StatusesAre DEF Row
  <2>2. \/ assets' = [assets EXCEPT ![a] = s]
        \/ assets' = [assets EXCEPT ![a] = t]
        \/ assets' = [assets EXCEPT ![a] = b]
    BY <1>1
  <2> HIDE DEF s, t, b
  <2>3. QED
    BY <2>1, <2>2
<1>4. assets' \in Seq(Row') /\ DOMAIN assets' = DOMAIN assets
  BY <1>3, RowPatched
<1>5. ASSUME NEW b \in DOMAIN assets
      PROVE  assets'[b].source = assets[b].source /\ assets'[b].channel = assets[b].channel
  BY <1>1, <1>3, <1>5
<1>6. QED
  BY <1>4, <1>5

LEMMA DraftAdded ==
  ASSUME TypeOK, NEW e \in Expanders, expander[e].at = "save",
         assets' = Append(assets, Draft(e)), proofs' = proofs
  PROVE  /\ assets' \in Seq(Row')
         /\ DOMAIN assets = 1..Len(assets) /\ Len(assets) \in Nat
         /\ DOMAIN assets' = 1..(Len(assets) + 1)
         /\ \A a \in DOMAIN assets : assets'[a] = assets[a]
         /\ assets'[Len(assets) + 1] = Draft(e)
<1>1. Draft(e) \in Row
  <2>1. Current(e) \in DOMAIN proofs /\ Min(expander[e].left) \in DOMAIN Channels
    BY Places DEF TypeOK
  <2>2. Channels[Min(expander[e].left)] \in ToSet(Channels) /\ "draft" \in ToSet(Statuses)
    BY <2>1, StatusesAre DEF ToSet, Words
  <2>3. QED
    BY <2>1, <2>2 DEF Draft, Row
<1>2. assets \in Seq(Row) /\ Row' = Row
  BY DEF TypeOK, Row
<1>3. /\ assets' \in Seq(Row) /\ Len(assets') = Len(assets) + 1
      /\ \A i \in 1..Len(assets) : assets'[i] = assets[i]
      /\ assets'[Len(assets) + 1] = Draft(e)
  BY <1>1, <1>2, AppendProperties
<1>4. /\ DOMAIN assets = 1..Len(assets) /\ Len(assets) \in Nat
      /\ DOMAIN assets' = 1..Len(assets')
  BY <1>2, <1>3, LenProperties
<1>5. QED
  BY <1>2, <1>3, <1>4

\* The parts of TypeOK.
TablesTyped == proofs \in Seq(Kinds) /\ assets \in Seq(Row)
TellersTyped ==
    /\ teller \in [Tellers -> [at : {"idle", "lookup", "store"}, todo : SUBSET DOMAIN Milestones]]
    /\ \A t \in Tellers : teller[t].at = "idle" <=> teller[t].todo = {}
ExpandersTyped ==
    /\ expander \in [Expanders -> [at : {"idle", "dedup", "next", "save"},
                                   todo : SUBSET DOMAIN proofs, left : SUBSET DOMAIN Channels]]
    /\ \A e \in Expanders : /\ expander[e].at = "idle" <=> expander[e].todo = {}
                            /\ expander[e].at = "save" <=> expander[e].left # {}
PollsTyped  == publisher \in [Publishers -> SUBSET DOMAIN assets]
LapsesTyped == lapses \in [{"tellers", "expanders"} -> 0..MaxLapses]

LEMMA PartsOfTypeOK ==
  TypeOK <=> TablesTyped /\ TellersTyped /\ ExpandersTyped /\ PollsTyped /\ LapsesTyped
BY DEF TypeOK, TablesTyped, TellersTyped, ExpandersTyped, PollsTyped, LapsesTyped, Kinds, Row

LEMMA TellerStepTyped ==
  ASSUME TypeOK, NEW t \in Tellers, TellerStep(t)
  PROVE  TellersTyped' /\ LapsesTyped'
<1>0. TellersTyped /\ LapsesTyped /\ MaxLapses \in Nat
  BY PartsOfTypeOK, LimitsAssumption
<1>1. /\ NextMilestone(t) \in [at : {"idle", "lookup"}, todo : SUBSET DOMAIN Milestones]
      /\ NextMilestone(t).at = "idle" <=> NextMilestone(t).todo = {}
  BY <1>0 DEF NextMilestone, IdleTeller, TellersTyped
<1>2. CASE CheckMilestones(t)
  <2>1. PICK crossed \in (SUBSET DOMAIN Milestones) \ {{}} :
          teller' = [teller EXCEPT ![t] = [at |-> "lookup", todo |-> crossed]]
    BY <1>2 DEF CheckMilestones
  <2>2. crossed \subseteq DOMAIN Milestones /\ crossed # {}
    OBVIOUS
  <2>3. TellersTyped'
    BY <1>0, <2>1, <2>2 DEF TellersTyped
  <2>4. QED
    BY <1>0, <1>2, <2>3 DEF CheckMilestones, LapsesTyped
<1>3. CASE LookUpStudy(t)
  <2>1. CASE teller' = [teller EXCEPT ![t] = NextMilestone(t)]
    BY <1>0, <1>1, <1>3, <2>1 DEF LookUpStudy, TellersTyped, LapsesTyped
  <2>2. CASE teller' = [teller EXCEPT ![t].at = "store"]
    BY <1>0, <1>3, <2>2 DEF LookUpStudy, TellersTyped, LapsesTyped
  <2>3. QED
    BY <1>3, <2>1, <2>2 DEF LookUpStudy
<1>4. CASE LookUpStudyFails(t)
  <2>1. TellersTyped'
    BY <1>0, <1>4 DEF LookUpStudyFails, TellersTyped
  <2>2. LapsesTyped'
    BY <1>0, <1>4 DEF LookUpStudyFails, LapsesTyped, Lapsed
  <2>3. QED
    BY <2>1, <2>2
<1>5. CASE StoreStudy(t)
  BY <1>0, <1>1, <1>5 DEF StoreStudy, TellersTyped, LapsesTyped
<1>6. QED
  BY <1>2, <1>3, <1>4, <1>5 DEF TellerStep

\* Where a cycle of the expansion may stand.
Standing == {s \in [at : {"idle", "dedup", "next", "save"},
                    todo : SUBSET DOMAIN proofs, left : SUBSET DOMAIN Channels] :
                (s.at = "idle" <=> s.todo = {}) /\ (s.at = "save" <=> s.left # {})}

LEMMA Stands ==
  ASSUME TypeOK, NEW e \in Expanders
  PROVE  /\ expander[e] \in Standing
         /\ AfterThis(e) \in Standing
         /\ \A todo \in SUBSET DOMAIN proofs :
               /\ NextProof(todo) \in Standing /\ NextProof(todo).at \in {"idle", "next"}
               /\ NextProof(todo).todo = todo
<1>1. expander[e] \in Standing
  BY DEF TypeOK, Standing
<1>2. \A todo \in SUBSET DOMAIN proofs :
        /\ NextProof(todo) \in Standing /\ NextProof(todo).at \in {"idle", "next"}
        /\ NextProof(todo).todo = todo
  BY DEF NextProof, IdleExpander, Standing
<1>3. AfterThis(e) \in Standing
  BY <1>1, <1>2 DEF AfterThis, Standing
<1>4. QED
  BY <1>1, <1>2, <1>3

LEMMA StandsNow ==
  ASSUME TypeOK, NEW e \in Expanders, NEW s \in Standing, proofs' = proofs,
         expander' = [expander EXCEPT ![e] = s]
  PROVE  ExpandersTyped'
  BY DEF TypeOK, ExpandersTyped, Standing

LEMMA ExpanderStepTyped ==
  ASSUME TypeOK, NEW e \in Expanders, ExpanderStep(e)
  PROVE  ExpandersTyped' /\ LapsesTyped'
<1>0. LapsesTyped /\ MaxLapses \in Nat /\ proofs' = proofs
  BY PartsOfTypeOK, LimitsAssumption
     DEF ExpanderStep, ListProofs, Dedup, DedupFails, BuildVariants, NoDeliverable, SaveVariant,
         SaveVariantFails
<1>1. /\ expander[e] \in Standing /\ AfterThis(e) \in Standing
      /\ \A found : NextProof(expander[e].todo \ found) \in Standing
      /\ NextProof(expander[e].todo) \in Standing
  BY Stands DEF Standing
<1>2. LapsesTyped'
  <2>1. CASE lapses' = lapses
    BY <1>0, <2>1 DEF LapsesTyped
  <2>2. CASE Lapsed < MaxLapses /\ lapses' = [lapses EXCEPT !.expanders = @ + 1]
    BY <1>0, <2>2 DEF LapsesTyped, Lapsed
  <2>3. QED
    BY <2>1, <2>2
       DEF ExpanderStep, ListProofs, Dedup, DedupFails, BuildVariants, NoDeliverable,
           SaveVariant, SaveVariantFails
<1>3. \E s \in Standing : expander' = [expander EXCEPT ![e] = s]
  <2>1. CASE ListProofs(e)
    <3>1. DOMAIN proofs # {}
      BY <2>1, EmptySeq DEF ListProofs, TypeOK
    <3>2. [at |-> "dedup", todo |-> DOMAIN proofs, left |-> {}] \in Standing
      BY <3>1 DEF Standing
    <3>3. QED
      BY <2>1, <3>2 DEF ListProofs
  <2>2. CASE Dedup(e)
    BY <1>1, <2>2 DEF Dedup
  <2>3. CASE DedupFails(e)
    BY <1>1, <2>3 DEF DedupFails
  <2>4. CASE BuildVariants(e)
    <3> DEFINE s == [expander[e] EXCEPT !.at = "save", !.left = DOMAIN Channels]
    <3>1. s \in Standing
      BY <1>1, <2>4, Places DEF Standing, BuildVariants
    <3>2. expander' = [expander EXCEPT ![e] = s]
      BY <2>4 DEF BuildVariants, TypeOK
    <3>3. QED
      BY <3>1, <3>2
  <2>5. CASE NoDeliverable(e)
    BY <1>1, <2>5 DEF NoDeliverable
  <2>6. CASE expander[e].at = "save" /\ OneLess(e)
    <3> DEFINE rest == expander[e].left \ {Min(expander[e].left)}
               s == [expander[e] EXCEPT !.left = rest]
    <3>1. CASE rest = {}
      BY <1>1, <2>6, <3>1 DEF OneLess
    <3>2. CASE rest # {}
      <4>1. s \in Standing
        BY <1>1, <2>6, <3>2 DEF Standing
      <4>2. expander' = [expander EXCEPT ![e] = s]
        BY <2>6, <3>2 DEF OneLess
      <4>3. QED
        BY <4>1, <4>2
    <3>3. QED
      BY <3>1, <3>2
  <2>7. QED
    BY <2>1, <2>2, <2>3, <2>4, <2>5, <2>6
       DEF ExpanderStep, SaveVariant, SaveVariantFails
<1>4. QED
  BY <1>0, <1>2, <1>3, StandsNow

LEMMA Grows ==
  ASSUME TypeOK, DOMAIN proofs \subseteq DOMAIN proofs', DOMAIN assets \subseteq DOMAIN assets'
  PROVE  /\ expander' = expander => ExpandersTyped'
         /\ publisher' = publisher => PollsTyped'
         /\ teller' = teller => TellersTyped'
         /\ lapses' = lapses => LapsesTyped'
<1>1. expander' = expander => ExpandersTyped'
  BY DEF TypeOK, ExpandersTyped
<1>2. publisher' = publisher => PollsTyped'
  BY DEF TypeOK, PollsTyped
<1>3. QED
  BY <1>1, <1>2 DEF TypeOK, TellersTyped, LapsesTyped

\* The steps that leave the tables alone, and the ones that do not.
LEMMA TypeStep ==
  ASSUME TypeOK, [Next]_vars
  PROVE  TypeOK'
<1>0. TablesTyped /\ TellersTyped /\ ExpandersTyped /\ PollsTyped /\ LapsesTyped
  BY PartsOfTypeOK
<1>s. SUFFICES TablesTyped' /\ TellersTyped' /\ ExpandersTyped' /\ PollsTyped' /\ LapsesTyped'
  BY PartsOfTypeOK, PTL
<1>t. ASSUME UNCHANGED <<proofs, assets>> PROVE TablesTyped'
  BY <1>0, <1>t DEF TablesTyped, Row
<1>1. CASE UNCHANGED vars
  BY <1>1, <1>t, Grows DEF vars
<1>2. ASSUME NEW kind \in Kinds, proofs' = Append(proofs, kind),
             UNCHANGED <<assets, expander, publisher>>
      PROVE  TablesTyped' /\ ExpandersTyped' /\ PollsTyped'
  BY <1>2, ProofStored, Grows DEF TablesTyped
<1>3. CASE StoreReport
  <2>1. "performance" \in Kinds
    BY DEF Kinds
  <2>2. TellersTyped' /\ LapsesTyped'
    BY <1>0, <1>3 DEF StoreReport, TellersTyped, LapsesTyped
  <2>3. QED
    BY <1>2, <1>3, <2>1, <2>2 DEF StoreReport
<1>4. CASE Die
  <2>1. TellersTyped' /\ ExpandersTyped' /\ PollsTyped' /\ LapsesTyped'
    BY <1>0, <1>4 DEF Die, TellersTyped, ExpandersTyped, PollsTyped, LapsesTyped, IdleTeller,
                      IdleExpander
  <2>2. QED
    BY <1>4, <1>t, <2>1 DEF Die
<1>5. ASSUME NEW t \in Tellers, TellerStep(t)
      PROVE  TablesTyped' /\ ExpandersTyped' /\ PollsTyped'
  <2>1. UNCHANGED <<assets, expander, publisher>>
    BY <1>5 DEF TellerStep, CheckMilestones, LookUpStudy, LookUpStudyFails, StoreStudy
  <2>2. CASE proofs' = proofs
    BY <1>t, <2>1, <2>2, Grows
  <2>3. CASE StoreStudy(t) /\ proofs' = Append(proofs, Milestone(t))
    BY <1>2, <2>1, <2>3, Places DEF StoreStudy, Kinds
  <2>4. QED
    BY <1>5, <2>2, <2>3
       DEF TellerStep, CheckMilestones, LookUpStudy, LookUpStudyFails, StoreStudy
<1>6. ASSUME NEW e \in Expanders, ExpanderStep(e)
      PROVE  TablesTyped' /\ TellersTyped' /\ PollsTyped'
  <2>1. UNCHANGED <<proofs, teller, publisher>>
    BY <1>6 DEF ExpanderStep, ListProofs, Dedup, DedupFails, BuildVariants, NoDeliverable,
                SaveVariant, SaveVariantFails
  <2>2. CASE assets' = assets
    BY <1>t, <2>1, <2>2, Grows
  <2>3. CASE SaveVariant(e)
    <3>1. assets' \in Seq(Row') /\ DOMAIN assets \subseteq DOMAIN assets'
      BY <2>1, <2>3, DraftAdded DEF SaveVariant
    <3>2. QED
      BY <1>0, <2>1, <3>1, Grows DEF TablesTyped
  <2>4. QED
    BY <1>6, <2>2, <2>3
       DEF ExpanderStep, ListProofs, Dedup, DedupFails, BuildVariants, NoDeliverable,
           SaveVariantFails
<1>7. ASSUME NEW a \in Queue, Approve(a) \/ Schedule(a) \/ TimeComes(a)
      PROVE  TablesTyped' /\ TellersTyped' /\ ExpandersTyped' /\ PollsTyped' /\ LapsesTyped'
  <2>1. UNCHANGED <<proofs, teller, expander, publisher, lapses>>
    BY <1>7 DEF Approve, Schedule, TimeComes
  <2>2. assets' \in Seq(Row') /\ DOMAIN assets' = DOMAIN assets
    BY <1>7, <2>1, InQueue, QueueTyped DEF Approve, Schedule, TimeComes, Words
  <2>3. QED
    BY <1>0, <2>1, <2>2, Grows DEF TablesTyped
<1>8. ASSUME NEW p \in Publishers, Poll(p) \/ Publish(p) \/ PublishFails(p)
      PROVE  TablesTyped' /\ TellersTyped' /\ ExpandersTyped' /\ PollsTyped' /\ LapsesTyped'
  <2>1. UNCHANGED <<proofs, teller, expander, lapses>>
    BY <1>8 DEF Poll, Publish, PublishFails
  <2>2. assets' \in Seq(Row') /\ DOMAIN assets' = DOMAIN assets
    <3>1. CASE assets' = assets
      BY <1>0, <2>1, <3>1 DEF TablesTyped, Row
    <3>2. CASE Publish(p)
      <4>1. PICK a \in publisher[p] : assets' = [assets EXCEPT ![a].status = "published"]
        BY <3>2 DEF Publish
      <4>2. a \in DOMAIN assets
        BY <1>0 DEF PollsTyped
      <4>3. QED
        BY <2>1, <4>1, <4>2, QueueTyped DEF Words
    <3>3. QED
      BY <1>8, <3>1, <3>2 DEF Poll, PublishFails
  <2>3. PollsTyped'
    <3>1. \E due \in SUBSET DOMAIN assets : publisher' = [publisher EXCEPT ![p] = due]
      BY <1>0, <1>8 DEF Poll, Publish, PublishFails, DueAssets, PollsTyped
    <3>2. QED
      BY <1>0, <2>2, <3>1 DEF PollsTyped
  <2>4. QED
    BY <1>0, <2>1, <2>2, <2>3, Grows DEF TablesTyped
<1>9. QED
  BY <1>1, <1>3, <1>4, <1>5, <1>6, <1>7, <1>8, TellerStepTyped, ExpanderStepTyped DEF Next

LEMMA InitTyped == Init => TypeOK
<1> SUFFICES ASSUME Init PROVE TypeOK
  OBVIOUS
<1>1. TablesTyped /\ DOMAIN assets = {}
  BY EmptySeq DEF Init, TablesTyped
<1>2. TellersTyped /\ ExpandersTyped /\ PollsTyped /\ LapsesTyped
  BY LimitsAssumption
     DEF Init, TellersTyped, ExpandersTyped, PollsTyped, LapsesTyped, IdleTeller, IdleExpander
<1>3. QED
  BY <1>1, <1>2, PartsOfTypeOK

\* The tables, the cycles and the polls have their types, and at most MaxLapses lookups
\* lapse (db/db-types.ts, DistributionAssetStatus; expand-distribution-assets.ts:37-83).
THEOREM TypeCorrect == Spec => []TypeOK
  BY InitTyped, TypeStep, PTL DEF Spec

-----------------------------------------------------------------------------
(* What there is twice.                                                    *)

OneTeller   == \A s, t \in Tellers : s = t
OneExpander == \A d, e \in Expanders : d = e

Studies(m) == {d \in DOMAIN proofs : proofs[d] = m}

TellsOnce ==
    \A m \in ToSet(Milestones) : Cardinality(Studies(m)) <= 1 + lapses.tellers

\* What the cycle is about to store is there no more often than lookups have failed.
StoresOwed ==
    \A t \in Tellers : teller[t].at = "store" =>
       Cardinality(Studies(Milestone(t))) <= lapses.tellers

SavesOnce ==
    \A d \in DOMAIN proofs, c \in ToSet(Channels) :
       Cardinality(Copies(d, c)) <= 1 + lapses.expanders

\* The cycle may yet save the asset of d for the channel at place i.
MaySave(e, d, i) ==
    /\ d \in expander[e].todo
    /\ \/ expander[e].at = "next"
       \/ expander[e].at = "save" /\ (d = Current(e) => i \in expander[e].left)

\* What it may yet save is there no more often than its lookups have lapsed.
SavesOwed ==
    \A e \in Expanders, d \in DOMAIN proofs, i \in DOMAIN Channels :
       MaySave(e, d, i) => Cardinality(Copies(d, Channels[i])) <= lapses.expanders

CInv == TypeOK /\ TellsOnce /\ StoresOwed /\ SavesOnce /\ SavesOwed

LEMMA Counts ==
  ASSUME TypeOK
  PROVE  /\ lapses.tellers \in Nat /\ lapses.expanders \in Nat
         /\ \A m : IsFiniteSet(Studies(m)) /\ Cardinality(Studies(m)) \in Nat
         /\ \A d, c : IsFiniteSet(Copies(d, c)) /\ Cardinality(Copies(d, c)) \in Nat
<1>1. lapses.tellers \in Nat /\ lapses.expanders \in Nat
  BY LimitsAssumption DEF TypeOK
<1>2. /\ DOMAIN proofs = 1..Len(proofs) /\ Len(proofs) \in Nat
      /\ DOMAIN assets = 1..Len(assets) /\ Len(assets) \in Nat
  BY LenProperties DEF TypeOK
<1>3. IsFiniteSet(DOMAIN proofs) /\ IsFiniteSet(DOMAIN assets)
  BY <1>2, FS_Interval
<1>4. ASSUME NEW m PROVE IsFiniteSet(Studies(m)) /\ Cardinality(Studies(m)) \in Nat
  <2>1. Studies(m) \in SUBSET DOMAIN proofs
    BY DEF Studies
  <2>2. QED
    BY <1>3, <2>1, FS_Subset, FS_CardinalityType
<1>5. ASSUME NEW d, NEW c PROVE IsFiniteSet(Copies(d, c)) /\ Cardinality(Copies(d, c)) \in Nat
  <2>1. Copies(d, c) \in SUBSET DOMAIN assets
    BY DEF Copies
  <2>2. QED
    BY <1>3, <2>1, FS_Subset, FS_CardinalityType
<1>6. QED
  BY <1>1, <1>4, <1>5

LEMMA OneMore ==
  ASSUME NEW S, NEW x, IsFiniteSet(S), Cardinality(S) \in Nat
  PROVE  Cardinality(S \cup {x}) \in {Cardinality(S), Cardinality(S) + 1}
  BY FS_AddElement

-----------------------------------------------------------------------------
(* Case studies.                                                           *)

\* A proof more is a study more of its own kind only.
LEMMA StudyAdded ==
  ASSUME TypeOK, NEW kind \in Kinds, proofs' = Append(proofs, kind), NEW m
  PROVE  Studies(m)' = IF m = kind THEN Studies(m) \cup {Len(proofs) + 1} ELSE Studies(m)
<1>1. /\ DOMAIN proofs' = 1..(Len(proofs) + 1) /\ DOMAIN proofs = 1..Len(proofs)
      /\ Len(proofs) \in Nat
      /\ \A d \in DOMAIN proofs : proofs'[d] = proofs[d]
      /\ proofs'[Len(proofs) + 1] = kind
  BY ProofStored, Places
<1>2. DOMAIN proofs' = DOMAIN proofs \cup {Len(proofs) + 1} /\ Len(proofs) + 1 \notin DOMAIN proofs
  BY <1>1
<1>3. QED
  BY <1>1, <1>2 DEF Studies

LEMMA TellsStep ==
  ASSUME CInv, [Next]_vars, OneTeller
  PROVE  TellsOnce' /\ StoresOwed'
<1>0. /\ TypeOK /\ TellsOnce /\ StoresOwed
      /\ lapses.tellers \in Nat
      /\ \A m : IsFiniteSet(Studies(m)) /\ Cardinality(Studies(m)) \in Nat
      /\ "performance" \notin ToSet(Milestones) /\ "performance" \in Kinds
      /\ ToSet(Milestones) \subseteq Kinds
  BY Counts, OrdersAssumption DEF CInv, Kinds
<1>q. ASSUME UNCHANGED <<proofs, teller>>, lapses.tellers' = lapses.tellers
      PROVE  TellsOnce' /\ StoresOwed'
  BY <1>0, <1>q DEF TellsOnce, StoresOwed, Studies, Milestone
<1>n. ASSUME UNCHANGED proofs, lapses.tellers' = lapses.tellers,
             \A t \in Tellers : teller'[t].at # "store"
      PROVE  TellsOnce' /\ StoresOwed'
  BY <1>0, <1>n DEF TellsOnce, StoresOwed, Studies
<1>1. CASE StoreReport
  <2>1. \A m \in ToSet(Milestones) : Studies(m)' = Studies(m)
    BY <1>0, <1>1, StudyAdded DEF StoreReport
  <2>2. TellsOnce'
    BY <1>0, <1>1, <2>1 DEF StoreReport, TellsOnce
  <2>3. ASSUME NEW t \in Tellers, teller[t].at = "store"
        PROVE  Milestone(t) \in ToSet(Milestones) /\ Milestone(t)' = Milestone(t)
    BY <1>0, <1>1, <2>3, Places DEF StoreReport, Milestone
  <2>4. StoresOwed'
    BY <1>0, <1>1, <2>1, <2>3 DEF StoreReport, StoresOwed
  <2>5. QED
    BY <2>2, <2>4
<1>2. CASE Die
  BY <1>2, <1>n DEF Die, IdleTeller
<1>3. ASSUME NEW t \in Tellers, CheckMilestones(t) PROVE TellsOnce' /\ StoresOwed'
  <2>1. \A s \in Tellers : teller'[s].at # "store"
    BY <1>0, <1>3 DEF CheckMilestones, OneTeller, TypeOK
  <2>2. QED
    BY <1>3, <1>n, <2>1 DEF CheckMilestones
<1>m. ASSUME NEW t \in Tellers, teller' = [teller EXCEPT ![t] = NextMilestone(t)]
      PROVE  \A s \in Tellers : teller'[s].at # "store"
  BY <1>0, <1>m DEF NextMilestone, IdleTeller, OneTeller, TypeOK
<1>e. ASSUME NEW t \in Tellers, teller' = [teller EXCEPT ![t].at = "store"]
      PROVE  Milestone(t)' = Milestone(t)
  BY <1>0, <1>e DEF Milestone, TypeOK
<1>4. ASSUME NEW t \in Tellers, LookUpStudy(t) PROVE TellsOnce' /\ StoresOwed'
  <2>1. CASE Told(Milestone(t))
    BY <1>4, <1>m, <1>n, <2>1 DEF LookUpStudy
  <2>2. CASE ~Told(Milestone(t))
    <3>1. teller' = [teller EXCEPT ![t].at = "store"] /\ UNCHANGED <<proofs, lapses>>
      BY <1>0, <1>4, <2>2 DEF LookUpStudy
    <3>2. Studies(Milestone(t)) = {}
      BY <2>2 DEF Told, Studies
    <3>3. Cardinality(Studies(Milestone(t))) <= lapses.tellers
      BY <1>0, <3>2, FS_EmptySet
    <3>4. StoresOwed'
      BY <1>e, <3>1, <3>3 DEF StoresOwed, OneTeller, Studies
    <3>5. QED
      BY <1>0, <3>1, <3>4 DEF TellsOnce, Studies
  <2>3. QED
    BY <2>1, <2>2
<1>5. ASSUME NEW t \in Tellers, LookUpStudyFails(t) PROVE TellsOnce' /\ StoresOwed'
  <2>1. /\ teller' = [teller EXCEPT ![t].at = "store"] /\ proofs' = proofs
        /\ lapses.tellers' = lapses.tellers + 1
    BY <1>0, <1>5 DEF LookUpStudyFails, TypeOK
  <2>2. Cardinality(Studies(Milestone(t))) <= lapses.tellers + 1
    BY <1>0, <1>5, Places DEF LookUpStudyFails, TellsOnce
  <2>3. StoresOwed'
    BY <1>e, <2>1, <2>2 DEF StoresOwed, OneTeller, Studies
  <2>4. ASSUME NEW m \in ToSet(Milestones)
        PROVE  Cardinality(Studies(m)') <= 1 + lapses'.tellers
    <3>1. Studies(m)' = Studies(m) /\ Cardinality(Studies(m)) <= 1 + lapses.tellers
          /\ Cardinality(Studies(m)) \in Nat
      BY <1>0, <2>1 DEF TellsOnce, Studies
    <3>2. QED
      BY <1>0, <2>1, <3>1
  <2>5. QED
    BY <2>3, <2>4 DEF TellsOnce
<1>6. ASSUME NEW t \in Tellers, StoreStudy(t) PROVE TellsOnce' /\ StoresOwed'
  <2>1. CASE proofs' = proofs
    BY <1>6, <1>m, <1>n, <2>1 DEF StoreStudy
  <2>2. CASE proofs' = Append(proofs, Milestone(t))
    <3>1. /\ Milestone(t) \in ToSet(Milestones) /\ lapses.tellers' = lapses.tellers
          /\ Cardinality(Studies(Milestone(t))) <= lapses.tellers
      BY <1>0, <1>6, Places DEF StoreStudy, StoresOwed
    <3>2. \A m \in ToSet(Milestones) :
            Studies(m)' = IF m = Milestone(t) THEN Studies(m) \cup {Len(proofs) + 1} ELSE Studies(m)
      BY <1>0, <2>2, <3>1, StudyAdded
    <3>3. ASSUME NEW m \in ToSet(Milestones)
          PROVE  Cardinality(Studies(m)') <= 1 + lapses'.tellers
      <4>1. CASE m = Milestone(t)
        <5>1. Cardinality(Studies(m)') \in {Cardinality(Studies(m)), Cardinality(Studies(m)) + 1}
          BY <1>0, <3>2, <4>1, OneMore
        <5>2. Cardinality(Studies(m)) <= lapses.tellers /\ Cardinality(Studies(m)) \in Nat
          BY <1>0, <3>1, <4>1
        <5>3. QED
          BY <1>0, <3>1, <5>1, <5>2
      <4>2. CASE m # Milestone(t)
        BY <1>0, <3>1, <3>2, <4>2 DEF TellsOnce
      <4>3. QED
        BY <4>1, <4>2
    <3>4. StoresOwed'
      BY <1>6, <1>m DEF StoreStudy, StoresOwed
    <3>5. QED
      BY <3>3, <3>4 DEF TellsOnce
  <2>3. QED
    BY <1>6, <2>1, <2>2 DEF StoreStudy
<1>7. ASSUME NEW e \in Expanders, ExpanderStep(e) PROVE TellsOnce' /\ StoresOwed'
  <2>1. UNCHANGED <<proofs, teller>> /\ lapses.tellers' = lapses.tellers
    BY <1>0, <1>7
       DEF ExpanderStep, ListProofs, Dedup, DedupFails, BuildVariants, NoDeliverable, SaveVariant,
           SaveVariantFails, TypeOK
  <2>2. QED
    BY <1>q, <2>1
<1>8. CASE UNCHANGED <<proofs, teller, lapses>>
  BY <1>8, <1>q
<1>9. QED
  BY <1>1, <1>2, <1>3, <1>4, <1>5, <1>6, <1>7, <1>8
     DEF Next, vars, TellerStep, Approve, Schedule, TimeComes, Poll, Publish, PublishFails

-----------------------------------------------------------------------------
(* Assets.                                                                 *)

\* The rows keep their sources and channels.
RowsKept ==
    /\ DOMAIN assets' = DOMAIN assets
    /\ \A a \in DOMAIN assets : /\ assets'[a].source = assets[a].source
                                /\ assets'[a].channel = assets[a].channel

LEMMA CopiesKept ==
  ASSUME RowsKept, NEW d, NEW c
  PROVE  Copies(d, c)' = Copies(d, c)
  BY DEF RowsKept, Copies

\* Of a proof that is not among the sources there is no asset.
LEMMA NoneOf ==
  ASSUME TypeOK, NEW d, d \notin Sources, NEW c
  PROVE  Cardinality(Copies(d, c)) = 0
<1>1. Copies(d, c) = {}
  BY DEF Copies, Sources
<1>2. QED
  BY <1>1, FS_EmptySet

LEMMA SourcesAreProofs == ASSUME TypeOK PROVE Sources \subseteq DOMAIN proofs
<1>1. assets \in [1..Len(assets) -> Row] /\ DOMAIN assets = 1..Len(assets)
  BY LenProperties DEF TypeOK, Row
<1>2. QED
  BY <1>1 DEF Sources, Row

\* The bounds stand when rows keep their sources and lapses may grow, whatever proofs are added.
LEMMA BoundsStand ==
  ASSUME CInv, RowsKept, DOMAIN proofs \subseteq DOMAIN proofs',
         lapses'.expanders \in Nat, lapses'.expanders >= lapses.expanders
  PROVE  SavesOnce'
<1>1. SUFFICES ASSUME NEW d \in DOMAIN proofs', NEW c \in ToSet(Channels)
               PROVE  Cardinality(Copies(d, c)') <= 1 + lapses'.expanders
  BY DEF SavesOnce
<1>2. /\ Copies(d, c)' = Copies(d, c) /\ Cardinality(Copies(d, c)) \in Nat
      /\ lapses.expanders \in Nat
  BY CopiesKept, Counts DEF CInv
<1>3. CASE d \in DOMAIN proofs
  BY <1>2, <1>3 DEF CInv, SavesOnce
<1>4. CASE d \notin DOMAIN proofs
  <2>1. Cardinality(Copies(d, c)) = 0
    BY <1>4, NoneOf, SourcesAreProofs DEF CInv
  <2>2. QED
    BY <1>2, <2>1
<1>5. QED
  BY <1>3, <1>4

\* A step that leaves the assets alone, after which the cycle may save no more than before
\* or what it may save is not there, or a lookup has lapsed.
LEMMA OwedStands ==
  ASSUME CInv, RowsKept, DOMAIN proofs \subseteq DOMAIN proofs',
         lapses'.expanders \in Nat, lapses'.expanders >= lapses.expanders,
         \A e \in Expanders, d \in DOMAIN proofs', i \in DOMAIN Channels :
            MaySave(e, d, i)' =>
               /\ d \in DOMAIN proofs
               /\ \/ MaySave(e, d, i)
                  \/ d \notin Sources
                  \/ lapses'.expanders = lapses.expanders + 1
  PROVE  SavesOnce' /\ SavesOwed'
<1>1. ASSUME NEW e \in Expanders, NEW d \in DOMAIN proofs', NEW i \in DOMAIN Channels,
             MaySave(e, d, i)'
      PROVE  Cardinality(Copies(d, Channels[i])') <= lapses'.expanders
  <2> DEFINE c == Channels[i]
  <2>1. /\ Copies(d, c)' = Copies(d, c) /\ Cardinality(Copies(d, c)) \in Nat
        /\ lapses.expanders \in Nat /\ d \in DOMAIN proofs /\ c \in ToSet(Channels)
    BY <1>1, CopiesKept, Counts DEF CInv, ToSet
  <2>2. CASE MaySave(e, d, i)
    <3>1. Cardinality(Copies(d, c)) <= lapses.expanders
      BY <2>1, <2>2 DEF CInv, SavesOwed
    <3>2. QED
      BY <2>1, <3>1
  <2>3. CASE d \notin Sources
    <3>1. Cardinality(Copies(d, c)) = 0
      BY <2>3, NoneOf DEF CInv
    <3>2. QED
      BY <2>1, <3>1
  <2>4. CASE lapses'.expanders = lapses.expanders + 1
    <3>1. Cardinality(Copies(d, c)) <= 1 + lapses.expanders
      BY <2>1 DEF CInv, SavesOnce
    <3>2. QED
      BY <2>1, <2>4, <3>1
  <2>5. QED
    BY <1>1, <2>2, <2>3, <2>4
<1>2. QED
  BY <1>1, BoundsStand DEF SavesOwed

\* A step of the expansion that saves nothing.
LEMMA ExpanderOwes ==
  ASSUME CInv, OneExpander, NEW e \in Expanders, ExpanderStep(e), assets' = assets
  PROVE  SavesOnce' /\ SavesOwed'
<1>0. /\ TypeOK /\ expander \in [Expanders -> Standing] /\ proofs' = proofs /\ RowsKept
      /\ lapses.expanders \in Nat
  BY Stands, Counts
     DEF CInv, ExpanderStep, ListProofs, Dedup, DedupFails, BuildVariants, NoDeliverable,
         SaveVariant, SaveVariantFails, RowsKept, TypeOK, Standing
<1>1. ASSUME lapses' = lapses,
             \A d, i : MaySave(e, d, i)' => MaySave(e, d, i) \/ d \notin Sources
      PROVE  SavesOnce' /\ SavesOwed'
  <2>1. \A f \in Expanders : \A d, i : MaySave(f, d, i)' => d \in DOMAIN proofs
    <3>1. ExpandersTyped'
      BY <1>0, ExpanderStepTyped
    <3>2. QED
      BY <1>0, <3>1 DEF ExpandersTyped, MaySave
  <2>2. \A f \in Expanders : \A d, i : MaySave(f, d, i)' => MaySave(f, d, i) \/ d \notin Sources
    BY <1>1, Zenon DEF OneExpander
  <2>3. QED
    BY <1>0, <1>1, <2>1, <2>2, OwedStands
<1>n. ASSUME NEW todo \in SUBSET expander[e].todo
      PROVE  /\ NextProof(todo).todo = todo /\ NextProof(todo).at \in {"idle", "next"}
             /\ NextProof(todo).at = "idle" => todo = {}
  BY DEF NextProof, IdleExpander
<1>2. CASE ListProofs(e)
  <2>1. expander'[e].at = "dedup" /\ lapses' = lapses
    BY <1>0, <1>2 DEF ListProofs
  <2>2. \A d, i : ~MaySave(e, d, i)'
    BY <2>1 DEF MaySave
  <2>3. QED
    BY <1>1, <2>1, <2>2
<1>3. CASE Dedup(e) \/ DedupFails(e)
  <2>1. CASE lapses' # [lapses EXCEPT !.expanders = @ + 1]
    <3>1. expander' = [expander EXCEPT ![e] = NextProof(@.todo \ Sources)] /\ lapses' = lapses
      BY <1>3, <2>1 DEF Dedup, DedupFails
    <3>2. expander'[e].todo = expander[e].todo \ Sources
      BY <1>0, <1>n, <3>1
    <3>3. \A d, i : MaySave(e, d, i)' => d \notin Sources
      BY <3>2 DEF MaySave
    <3>4. QED
      BY <1>1, <3>1, <3>3
  <2>2. CASE lapses' = [lapses EXCEPT !.expanders = @ + 1]
    <3>1. lapses'.expanders = lapses.expanders + 1
      BY <1>0, <2>2 DEF TypeOK
    <3>2. \A f \in Expanders : \A d, i : MaySave(f, d, i)' => d \in DOMAIN proofs
      <4>1. ExpandersTyped'
        BY <1>0, ExpanderStepTyped
      <4>2. QED
        BY <1>0, <4>1 DEF ExpandersTyped, MaySave
    <3>3. QED
      BY <1>0, <3>1, <3>2, OwedStands
  <2>3. QED
    BY <2>1, <2>2
<1>4. CASE BuildVariants(e)
  <2>1. /\ expander[e].at = "next" /\ lapses' = lapses
        /\ expander'[e].todo = expander[e].todo
    BY <1>0, <1>4 DEF BuildVariants, Standing
  <2>2. \A d, i : MaySave(e, d, i)' => MaySave(e, d, i)
    BY <2>1 DEF MaySave
  <2>3. QED
    BY <1>1, <2>1, <2>2
<1>5. ASSUME expander' = [expander EXCEPT ![e] = AfterThis(e)], lapses' = lapses,
             expander[e].at \in {"next", "save"}
      PROVE  SavesOnce' /\ SavesOwed'
  <2>1. expander'[e].todo = expander[e].todo \ {Current(e)}
    BY <1>0, <1>5, <1>n DEF AfterThis
  <2>2. \A d, i : MaySave(e, d, i)' => MaySave(e, d, i)
    BY <1>5, <2>1 DEF MaySave
  <2>3. QED
    BY <1>1, <1>5, <2>2
<1>6. CASE NoDeliverable(e)
  BY <1>5, <1>6 DEF NoDeliverable
<1>7. CASE SaveVariantFails(e)
  <2> DEFINE rest == expander[e].left \ {Min(expander[e].left)}
  <2>1. CASE rest = {}
    BY <1>5, <1>7, <2>1 DEF SaveVariantFails, OneLess
  <2>2. CASE rest # {}
    <3>1. /\ expander'[e].todo = expander[e].todo /\ expander'[e].left \subseteq expander[e].left
          /\ expander'[e].at = "save" /\ expander[e].at = "save" /\ lapses' = lapses
      BY <1>0, <1>7, <2>2 DEF SaveVariantFails, OneLess, Standing
    <3>2. ASSUME NEW d, NEW i, MaySave(e, d, i)' PROVE MaySave(e, d, i)
      BY <3>1, <3>2 DEF MaySave, Current
    <3>3. QED
      BY <1>1, <3>1, <3>2
  <2>3. QED
    BY <2>1, <2>2
<1>8. CASE SaveVariant(e)
  <2>1. DOMAIN assets' = 1..(Len(assets) + 1) /\ DOMAIN assets = 1..Len(assets)
        /\ Len(assets) \in Nat
    BY <1>0, <1>8, DraftAdded DEF SaveVariant
  <2>2. Len(assets) + 1 \in DOMAIN assets'
    BY <2>1
  <2>3. QED
    BY <2>1, <2>2
<1>9. QED
  BY <1>2, <1>3, <1>4, <1>6, <1>7, <1>8 DEF ExpanderStep

\* An asset more is a copy more of its own source and channel only.
LEMMA CopyAdded ==
  ASSUME TypeOK, NEW e \in Expanders, SaveVariant(e), NEW d, NEW c
  PROVE  Copies(d, c)' =
            IF d = Current(e) /\ c = Channels[Min(expander[e].left)]
            THEN Copies(d, c) \cup {Len(assets) + 1} ELSE Copies(d, c)
<1>1. /\ DOMAIN assets' = 1..(Len(assets) + 1) /\ DOMAIN assets = 1..Len(assets)
      /\ Len(assets) \in Nat
      /\ \A a \in DOMAIN assets : assets'[a] = assets[a]
      /\ assets'[Len(assets) + 1] = Draft(e)
  BY DraftAdded DEF SaveVariant
<1>2. DOMAIN assets' = DOMAIN assets \cup {Len(assets) + 1} /\ Len(assets) + 1 \notin DOMAIN assets
  BY <1>1
<1>3. /\ assets'[Len(assets) + 1].source = Current(e)
      /\ assets'[Len(assets) + 1].channel = Channels[Min(expander[e].left)]
  BY <1>1 DEF Draft
<1>4. QED
  BY <1>1, <1>2, <1>3 DEF Copies

LEMMA SaveOwes ==
  ASSUME CInv, OneExpander, NEW e \in Expanders, SaveVariant(e)
  PROVE  SavesOnce' /\ SavesOwed'
<1> DEFINE now == Current(e)
           place == Min(expander[e].left)
           rest == expander[e].left \ {place}
<1>0. /\ TypeOK /\ expander \in [Expanders -> Standing] /\ proofs' = proofs /\ lapses' = lapses
      /\ lapses.expanders \in Nat /\ expander[e].at = "save"
      /\ \A d, c : IsFiniteSet(Copies(d, c)) /\ Cardinality(Copies(d, c)) \in Nat
      /\ now \in expander[e].todo /\ place \in expander[e].left
      /\ expander[e].todo \subseteq DOMAIN proofs /\ expander[e].left \subseteq DOMAIN Channels
  BY Stands, Counts, Places DEF CInv, SaveVariant, TypeOK, Standing
<1>1. Cardinality(Copies(now, Channels[place])) <= lapses.expanders
  BY <1>0 DEF CInv, SavesOwed, MaySave
<1>2. ASSUME NEW d \in DOMAIN proofs, NEW c \in ToSet(Channels)
      PROVE  Cardinality(Copies(d, c)') <= 1 + lapses'.expanders
  <2>1. CASE d = now /\ c = Channels[place]
    <3>1. Cardinality(Copies(d, c)') \in {Cardinality(Copies(d, c)), Cardinality(Copies(d, c)) + 1}
      BY <1>0, <2>1, CopyAdded, OneMore
    <3>2. QED
      BY <1>0, <1>1, <2>1, <3>1
  <2>2. CASE ~(d = now /\ c = Channels[place])
    BY <1>0, <2>2, CopyAdded DEF CInv, SavesOnce
  <2>3. QED
    BY <2>1, <2>2
<1>3. ASSUME NEW d \in DOMAIN proofs, NEW i \in DOMAIN Channels, MaySave(e, d, i)'
      PROVE  MaySave(e, d, i) /\ ~(d = now /\ Channels[i] = Channels[place])
  <2>1. CASE rest = {}
    <3>1. expander'[e] = AfterThis(e) /\ expander'[e].todo = expander[e].todo \ {now}
      BY <1>0, <2>1 DEF SaveVariant, OneLess, AfterThis, NextProof, IdleExpander
    <3>2. QED
      BY <1>0, <1>3, <3>1 DEF MaySave
  <2>2. CASE rest # {}
    <3>1. /\ expander'[e].todo = expander[e].todo /\ expander'[e].left = rest
          /\ expander'[e].at = "save"
      BY <1>0, <2>2 DEF SaveVariant, OneLess, Standing
    <3>2. d \in expander[e].todo /\ (d = now => i \in rest)
      BY <1>3, <3>1 DEF MaySave, Current
    <3>3. d = now => i # place /\ i \in expander[e].left
      BY <3>2
    <3>4. d = now => Channels[i] # Channels[place]
      BY <1>0, <3>3, OrdersAssumption DEF IsInjective
    <3>5. QED
      BY <1>0, <3>2, <3>3, <3>4 DEF MaySave
  <2>3. QED
    BY <2>1, <2>2
<1>4. ASSUME NEW d \in DOMAIN proofs, NEW i \in DOMAIN Channels, MaySave(e, d, i)'
      PROVE  Cardinality(Copies(d, Channels[i])') <= lapses'.expanders
  <2>1. Copies(d, Channels[i])' = Copies(d, Channels[i])
    BY <1>0, <1>3, <1>4, CopyAdded
  <2>2. QED
    BY <1>0, <1>3, <1>4, <2>1 DEF CInv, SavesOwed
<1>5. SavesOnce'
  BY <1>0, <1>2 DEF SavesOnce
<1>6. \A f \in Expanders : f = e
  BY DEF OneExpander
<1>7. SavesOwed'
  BY <1>0, <1>4, <1>6 DEF SavesOwed
<1>8. QED
  BY <1>5, <1>7

LEMMA SavesStep ==
  ASSUME CInv, [Next]_vars, OneExpander
  PROVE  SavesOnce' /\ SavesOwed'
<1>0. TypeOK /\ TypeOK' /\ lapses.expanders \in Nat
  BY TypeStep, Counts DEF CInv
<1>q. ASSUME UNCHANGED expander, RowsKept, DOMAIN proofs \subseteq DOMAIN proofs',
             lapses'.expanders = lapses.expanders
      PROVE  SavesOnce' /\ SavesOwed'
  <2>1. ASSUME NEW e \in Expanders, NEW d, NEW i, MaySave(e, d, i)'
        PROVE  d \in DOMAIN proofs /\ MaySave(e, d, i)
    BY <1>0, <1>q, <2>1 DEF MaySave, Current, TypeOK
  <2>2. QED
    BY <1>0, <1>q, <2>1, OwedStands
<1>1. CASE StoreReport \/ \E t \in Tellers : TellerStep(t)
  <2>1. /\ UNCHANGED <<assets, expander>> /\ RowsKept /\ lapses'.expanders = lapses.expanders
    BY <1>0, <1>1
       DEF StoreReport, TellerStep, CheckMilestones, LookUpStudy, LookUpStudyFails, StoreStudy,
           RowsKept, TypeOK
  <2>2. \/ proofs' = proofs
        \/ \E kind \in Kinds : proofs' = Append(proofs, kind)
    BY <1>0, <1>1, Places
       DEF StoreReport, TellerStep, CheckMilestones, LookUpStudy, LookUpStudyFails, StoreStudy,
           Kinds
  <2>3. DOMAIN proofs \subseteq DOMAIN proofs'
    BY <1>0, <2>2, ProofStored
  <2>4. QED
    BY <1>q, <2>1, <2>3
<1>2. CASE Die
  <2>1. RowsKept /\ proofs' = proofs /\ lapses' = lapses
    BY <1>2 DEF Die, RowsKept
  <2>2. \A e \in Expanders : \A d, i : ~MaySave(e, d, i)'
    BY <1>2 DEF Die, MaySave, IdleExpander
  <2>3. QED
    BY <1>0, <2>1, <2>2, OwedStands
<1>3. ASSUME NEW e \in Expanders, ExpanderStep(e) PROVE SavesOnce' /\ SavesOwed'
  <2>1. CASE SaveVariant(e)
    BY <2>1, SaveOwes
  <2>2. CASE assets' = assets
    BY <1>3, <2>2, ExpanderOwes
  <2>3. QED
    BY <1>3, <2>1, <2>2
       DEF ExpanderStep, ListProofs, Dedup, DedupFails, BuildVariants, NoDeliverable,
           SaveVariantFails
<1>4. ASSUME NEW a \in Queue, Approve(a) \/ Schedule(a) \/ TimeComes(a)
      PROVE  SavesOnce' /\ SavesOwed'
  <2>1. UNCHANGED <<proofs, expander, lapses>>
    BY <1>4 DEF Approve, Schedule, TimeComes
  <2>2. RowsKept
    BY <1>0, <1>4, <2>1, InQueue, QueueTyped DEF Approve, Schedule, TimeComes, Words, RowsKept
  <2>3. QED
    BY <1>q, <2>1, <2>2
<1>5. ASSUME NEW p \in Publishers, Poll(p) \/ Publish(p) \/ PublishFails(p)
      PROVE  SavesOnce' /\ SavesOwed'
  <2>1. UNCHANGED <<proofs, expander, lapses>>
    BY <1>5 DEF Poll, Publish, PublishFails
  <2>2. RowsKept
    <3>1. CASE assets' = assets
      BY <3>1 DEF RowsKept
    <3>2. CASE Publish(p)
      <4>1. PICK a \in publisher[p] : assets' = [assets EXCEPT ![a].status = "published"]
        BY <3>2 DEF Publish
      <4>2. a \in DOMAIN assets
        BY <1>0 DEF TypeOK
      <4>3. QED
        BY <1>0, <2>1, <4>1, <4>2, QueueTyped DEF Words, RowsKept
    <3>3. QED
      BY <1>5, <3>1, <3>2 DEF Poll, PublishFails
  <2>3. QED
    BY <1>q, <2>1, <2>2
<1>6. CASE UNCHANGED vars
  BY <1>6, <1>q DEF vars, RowsKept
<1>7. QED
  BY <1>1, <1>2, <1>3, <1>4, <1>5, <1>6 DEF Next

\* With one cycle of each kind at a time, a case study or an asset is there twice only if a
\* lookup lapsed: saves that fail half way and deaths of the process duplicate nothing
\* (expand-distribution-assets.ts:49-69, generate-case-study.ts:193-206).
THEOREM TwiceOnlyByLapse ==
  ASSUME OneTeller, OneExpander
  PROVE  Spec => []CopiesExplained
<1>1. Init => CInv
  <2> SUFFICES ASSUME Init PROVE CInv
    OBVIOUS
  <2>1. TypeOK
    BY InitTyped
  <2>2. /\ \A m : Studies(m) = {}
        /\ DOMAIN proofs = {} /\ lapses.tellers = 0
    BY DEF Init, Studies
  <2>3. TellsOnce
    BY <2>2, FS_EmptySet DEF TellsOnce
  <2>6. StoresOwed
    BY DEF Init, StoresOwed, IdleTeller
  <2>4. SavesOnce /\ SavesOwed
    BY <2>2 DEF SavesOnce, SavesOwed
  <2>5. QED
    BY <2>1, <2>3, <2>4, <2>6 DEF CInv
<1>2. CInv /\ [Next]_vars => CInv'
  BY TypeStep, TellsStep, SavesStep DEF CInv
<1>3. CInv => CopiesExplained
  BY DEF CInv, TellsOnce, SavesOnce, Studies, CopiesExplained
<1>4. QED
  BY <1>1, <1>2, <1>3, PTL DEF Spec
=============================================================================
