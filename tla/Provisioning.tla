----------------------------- MODULE Provisioning -----------------------------
(***************************************************************************)
(* A client who pays, and one who cancels: the events of Stripe            *)
(* (api/stripe.ts), their handlers (api/stripe-handlers.ts), the five      *)
(* steps that set a client up (services/provisioning.ts) and the schedules *)
(* of clients (hermes/hermes-client-schedules.ts), for one client with one *)
(* subscription.                                                           *)
(*                                                                         *)
(* Stripe delivers an event at least once, in any order, and again while   *)
(* an earlier delivery is still worked on.  The tables are a service       *)
(* outside the repository (their unique keys are in sql/): any request may *)
(* fail.  A request that is carried out although its answer is lost goes   *)
(* on as one that succeeds: nobody reads those answers but for the count,  *)
(* the answer to the insert of a client excepted (EnterFails).             *)
(***************************************************************************)
EXTENDS Naturals, FiniteSets

CONSTANTS
    Deliveries,   \* deliveries of events that may be worked on at once
    Events,       \* the events about the client
    Kind,         \* per event: what it tells
    Roles,        \* the agents of the client's plan
    Missions,     \* the missions of the plan
    MaxLapses     \* bound: events worked on without having been recorded

Kinds == {"checkout", "created", "updated", "payment_failed", "deleted"}

ASSUME EventsAssumption == IsFiniteSet(Events) /\ Kind \in [Events -> Kinds]
ASSUME PlanAssumption == Missions # {} /\ Roles \cap Missions = {}
ASSUME DeliveriesAssumption == IsFiniteSet(Deliveries)
ASSUME LapsesAssumption == MaxLapses \in Nat

VARIABLES
    unnamed,       \* the checkouts that carry no client_id
    unfit,         \* the events with a tier of no plan, or a period that is no date
    recorded,      \* the events in stripe_events
    client,        \* status of the client, once there is one
    subscription,  \* status of the subscription, if there is one
    agents,        \* roles in client_agents, whose key is the client and the role
    missions,      \* per mission of the plan: its rows in missions, which has no such key
    schedules,     \* has the process the client's schedules in memory?
    kept,          \* are they in client_schedules?
    keeping,       \* is a write of them to client_schedules under way?
    delivery,      \* where each delivery stands, its event and what it has yet to make
    over,          \* history: events whose handling came to its end
    lost,          \* history: events whose handling died with the process
    dropped,       \* history: events whose handler threw, or gave up without a client
    refused,       \* history: agents and missions an insert of which failed
    lapses         \* history: events worked on without having been recorded

tables == <<client, subscription, agents, missions>>
memory == <<schedules, kept, keeping>>
events == <<unnamed, unfit>>
vars   == <<events, recorded, tables, memory, delivery, over, lost, dropped, refused, lapses>>

-----------------------------------------------------------------------------
NoEvent == "none"
Idle == [at |-> "idle", event |-> NoEvent, left |-> {}]

Checkouts == {e \in Events : Kind[e] = "checkout"}

Readable == {"checkout", "created", "updated"}

\* A client that has not paid yet may have been entered with either status, or not at all.
Init ==
    /\ unnamed \in SUBSET Checkouts
    /\ unfit \in SUBSET {e \in Events : Kind[e] \in Readable}
    /\ recorded = {} /\ over = {} /\ lost = {} /\ dropped = {} /\ refused = {} /\ lapses = 0
    /\ client \in {"none", "provisioning", "active"}
    /\ subscription = "none"
    /\ agents = {}
    /\ missions = [m \in Missions |-> 0]
    /\ schedules = FALSE /\ kept = FALSE /\ keeping = FALSE
    /\ delivery = [d \in Deliveries |-> Idle]

At(d, place) == delivery[d].at = place
Goto(d, place) == delivery' = [delivery EXCEPT ![d].at = place]
Event(d) == delivery[d].event

\* The handler of d ends, and the delivery is answered with 200, whatever came of it.
End(d) ==
    /\ delivery' = [delivery EXCEPT ![d] = Idle]
    /\ over' = over \cup {Event(d)}

\* It throws, and the route answers 500; or it gives up, and the route answers 200.
Drop(d) ==
    /\ delivery' = [delivery EXCEPT ![d] = Idle]
    /\ dropped' = dropped \cup {Event(d)}

-----------------------------------------------------------------------------
(* handleStripeWebhook.                                                    *)

\* A checkout that names the client comes when there is one.
Deliver(d) ==
    /\ At(d, "idle")
    /\ \E e \in Events :
         /\ e \in Checkouts \ unnamed => client # "none"
         /\ delivery' = [delivery EXCEPT ![d] = [Idle EXCEPT !.at = "lookup", !.event = e]]
    /\ UNCHANGED <<recorded, tables, memory, over, lost, dropped, refused, lapses>>

\* An event on record is answered as a duplicate.
SkipDuplicate(d) ==
    /\ At(d, "lookup") /\ Event(d) \in recorded
    /\ delivery' = [delivery EXCEPT ![d] = Idle]
    /\ UNCHANGED <<recorded, tables, memory, over, lost, dropped, refused, lapses>>

\* The event is not on record, or the lookup fails.
LookUp(d) ==
    /\ At(d, "lookup")
    /\ Goto(d, "record")
    /\ UNCHANGED <<recorded, tables, memory, over, lost, dropped, refused, lapses>>

Handler(e) ==
    CASE Kind[e] = "checkout" -> IF e \in unnamed THEN "enter" ELSE "subscribe"
      [] Kind[e] \in {"created", "deleted"} -> "find"
      [] OTHER -> "patch"

\* Wrong on purpose: an event is recorded and answered while the process works on another.
Record_Ignored(d) ==
    /\ At(d, "record") /\ Event(d) \notin recorded
    /\ recorded' = recorded \cup {Event(d)}
    /\ IF \E other \in Deliveries \ {d} : delivery[other].at \notin {"idle", "lookup", "record"}
       THEN delivery' = [delivery EXCEPT ![d] = Idle]
       ELSE Goto(d, Handler(Event(d)))
    /\ UNCHANGED <<tables, memory, over, lost, dropped, refused, lapses>>

\* The event is recorded before it is worked on.
Record(d) ==
    /\ At(d, "record") /\ Event(d) \notin recorded
    /\ recorded' = recorded \cup {Event(d)}
    /\ Goto(d, Handler(Event(d)))
    /\ UNCHANGED <<tables, memory, over, lost, dropped, refused, lapses>>

\* The insert fails, as it does when another delivery has recorded the event since
\* the lookup: "proceeding anyway".
RecordFails(d) ==
    /\ At(d, "record")
    /\ lapses < MaxLapses
    /\ lapses' = lapses + 1
    /\ Goto(d, Handler(Event(d)))
    /\ UNCHANGED <<recorded, tables, memory, over, lost, dropped, refused>>

-----------------------------------------------------------------------------
(* handleCheckoutCompleted, provisionClient.                               *)

\* Where provisioning stands with the rest of what to make, one after the other; the
\* order, which is the plan's in the code, is left open.
Making(d, place, rest, then) ==
    delivery' = [delivery EXCEPT ![d] = IF rest = {} THEN then
                                        ELSE [delivery[d] EXCEPT !.at = place, !.left = rest]]

AfterAgents(d) == [delivery[d] EXCEPT !.at = "mission", !.left = Missions]
AfterMissions(d) == [delivery[d] EXCEPT !.at = "folder", !.left = {}]

\* A checkout without client_id enters the client under the name its address gives, which
\* nobody else may have; the table takes no tier but those of the plans.
Enter(d) ==
    /\ At(d, "enter")
    /\ client = "none" /\ Event(d) \notin unfit
    /\ client' = "provisioning"
    /\ Goto(d, "subscribe")
    /\ UNCHANGED <<recorded, subscription, agents, missions, memory, over, lost, dropped, refused, lapses>>

\* The insert fails, or its answer does not come: the handler gives up.
EnterFails(d) ==
    /\ At(d, "enter")
    /\ \/ client = "none" /\ Event(d) \notin unfit /\ client' = "provisioning"
       \/ UNCHANGED client
    /\ Drop(d)
    /\ UNCHANGED <<recorded, subscription, agents, missions, memory, over, lost, refused, lapses>>

\* The row of the subscription; its key is unique, its tier one of the plans', and a
\* refusal changes nothing.
Subscribe(d) ==
    /\ At(d, "subscribe")
    /\ \/ subscription = "none" /\ Event(d) \notin unfit /\ subscription' = "active"
       \/ UNCHANGED subscription
    /\ Goto(d, "agents")
    /\ UNCHANGED <<recorded, client, agents, missions, memory, over, lost, dropped, refused, lapses>>

\* PLAN_FEATURES has no entry for the tier: provisionClient throws, outside of any try.
ThrowOnTier(d) ==
    /\ At(d, "agents") /\ Event(d) \in unfit
    /\ Drop(d)
    /\ UNCHANGED <<recorded, tables, memory, over, lost, refused, lapses>>

\* Wrong on purpose: a client who has all agents is taken for one who has been set up.
ListAgents_TakenForDone(d) ==
    /\ At(d, "agents") /\ Event(d) \notin unfit
    /\ \E existing \in {agents, {}} :
         Making(d, "agent", Roles \ existing,
                IF Roles \subseteq existing THEN AfterMissions(d) ELSE AfterAgents(d))
    /\ UNCHANGED <<recorded, tables, memory, over, lost, dropped, refused, lapses>>

\* createDefaultAgents leaves out the roles it finds; it finds none if the query fails.
ListAgents(d) ==
    /\ At(d, "agents") /\ Event(d) \notin unfit
    /\ \E existing \in {agents, {}} :
         Making(d, "agent", Roles \ existing, AfterAgents(d))
    /\ UNCHANGED <<recorded, tables, memory, over, lost, dropped, refused, lapses>>

InsertAgent(d) ==
    /\ At(d, "agent")
    /\ \E r \in delivery[d].left :
         /\ agents' = agents \cup {r}
         /\ Making(d, "agent", delivery[d].left \ {r}, AfterAgents(d))
    /\ UNCHANGED <<recorded, client, subscription, missions, memory, over, lost, dropped, refused, lapses>>

InsertAgentFails(d) ==
    /\ At(d, "agent")
    /\ \E r \in delivery[d].left :
         /\ refused' = refused \cup {r}
         /\ Making(d, "agent", delivery[d].left \ {r}, AfterAgents(d))
    /\ UNCHANGED <<recorded, tables, memory, over, lost, dropped, lapses>>

\* Wrong on purpose: an insert whose answer does not come in time is sent again.
InsertMission_Retried(d) ==
    /\ At(d, "mission")
    /\ \E m \in delivery[d].left :
         /\ missions' = [missions EXCEPT ![m] = @ + 1]
         /\ \/ Making(d, "mission", delivery[d].left \ {m}, AfterMissions(d))
            \/ UNCHANGED delivery
    /\ UNCHANGED <<recorded, client, subscription, agents, memory, over, lost, dropped, refused, lapses>>

\* createDefaultMissions asks for nothing first.
InsertMission(d) ==
    /\ At(d, "mission")
    /\ \E m \in delivery[d].left :
         /\ missions' = [missions EXCEPT ![m] = @ + 1]
         /\ Making(d, "mission", delivery[d].left \ {m}, AfterMissions(d))
    /\ UNCHANGED <<recorded, client, subscription, agents, memory, over, lost, dropped, refused, lapses>>

InsertMissionFails(d) ==
    /\ At(d, "mission")
    /\ \E m \in delivery[d].left :
         /\ refused' = refused \cup {m}
         /\ Making(d, "mission", delivery[d].left \ {m}, AfterMissions(d))
    /\ UNCHANGED <<recorded, tables, memory, over, lost, dropped, lapses>>

\* The folder has been made or not; the schedules are seeded, and their write begins.
Seed(d) ==
    /\ At(d, "folder")
    /\ schedules' = TRUE /\ keeping' = TRUE
    /\ Goto(d, "activate")
    /\ UNCHANGED <<recorded, tables, kept, over, lost, dropped, refused, lapses>>

Activate(d) ==
    /\ At(d, "activate")
    /\ client' = "active"
    /\ End(d)
    /\ UNCHANGED <<recorded, subscription, agents, missions, memory, lost, dropped, refused, lapses>>

ActivateFails(d) ==
    /\ At(d, "activate")
    /\ End(d)
    /\ UNCHANGED <<recorded, tables, memory, lost, dropped, refused, lapses>>

\* persistSchedules, which nobody waits for: a row that is there is merged with.
Keep ==
    /\ keeping
    /\ keeping' = FALSE
    /\ kept' \in {kept, TRUE}
    /\ UNCHANGED <<recorded, tables, schedules, delivery, over, lost, dropped, refused, lapses>>
-----------------------------------------------------------------------------
(* The other handlers.                                                     *)

\* What an event tells of the subscription.
Told(e) == CASE Kind[e] = "payment_failed" -> "past_due"
             [] Kind[e] = "deleted" -> "canceled"
             [] OTHER -> "active"

PatchSubscription(d) ==
    subscription' \in {subscription, IF subscription = "none" THEN "none" ELSE Told(Event(d))}

\* The row is looked for: a creation that finds none is left to the checkout.
Acknowledge(d) ==
    /\ At(d, "find") /\ Kind[Event(d)] = "created"
    /\ End(d)
    /\ UNCHANGED <<recorded, tables, memory, lost, dropped, refused, lapses>>

FindCreated(d) ==
    /\ At(d, "find") /\ Kind[Event(d)] = "created" /\ subscription # "none"
    /\ Goto(d, "patch")
    /\ UNCHANGED <<recorded, tables, memory, over, lost, dropped, refused, lapses>>

\* A deletion learns the client from the row; it goes on without, if there is none or the
\* query fails.
FindDeleted(d) ==
    /\ At(d, "find") /\ Kind[Event(d)] = "deleted"
    /\ \/ subscription # "none" /\ Goto(d, "cancel")
       \/ Goto(d, "cancel_unknown")
    /\ UNCHANGED <<recorded, tables, memory, over, lost, dropped, refused, lapses>>

Patch(d) ==
    /\ At(d, "patch") /\ Event(d) \notin unfit
    /\ PatchSubscription(d)
    /\ End(d)
    /\ UNCHANGED <<recorded, client, agents, missions, memory, lost, dropped, refused, lapses>>

\* The end of the period is no date: toISOString throws before the patch is sent.
ThrowOnDate(d) ==
    /\ At(d, "patch") /\ Event(d) \in unfit
    /\ Drop(d)
    /\ UNCHANGED <<recorded, tables, memory, over, lost, refused, lapses>>

Cancel(d) ==
    /\ At(d, "cancel")
    /\ PatchSubscription(d)
    /\ Goto(d, "pause")
    /\ UNCHANGED <<recorded, client, agents, missions, memory, over, lost, dropped, refused, lapses>>

\* Nobody is paused for a subscription that belongs to nobody.
CancelUnknown(d) ==
    /\ At(d, "cancel_unknown")
    /\ PatchSubscription(d)
    /\ End(d)
    /\ UNCHANGED <<recorded, client, agents, missions, memory, lost, dropped, refused, lapses>>

\* The schedules leave the memory of this process, whether or not the client is paused;
\* their rows stay.
Pause(d) ==
    /\ At(d, "pause")
    /\ client' \in {client, "paused"}
    /\ schedules' = FALSE
    /\ End(d)
    /\ UNCHANGED <<recorded, subscription, agents, missions, kept, keeping, lost, dropped, refused, lapses>>

-----------------------------------------------------------------------------
(* The process.                                                            *)

Working(d) == delivery[d].at \notin {"idle", "lookup", "record"}

\* The process ends and starts again: what it worked on is gone, and startHermes
\* restores the schedules from their rows, if it can read them.
Restart ==
    /\ delivery' = [d \in Deliveries |-> Idle]
    /\ lost' = lost \cup {Event(d) : d \in {w \in Deliveries : Working(w)}}
    /\ keeping' = FALSE
    /\ schedules' \in {kept, FALSE}
    /\ UNCHANGED <<recorded, tables, kept, over, dropped, refused, lapses>>

Webhook(d) == Deliver(d) \/ SkipDuplicate(d) \/ LookUp(d) \/ Record(d) \/ RecordFails(d)

Provision(d) ==
    \/ Enter(d) \/ EnterFails(d) \/ Subscribe(d) \/ ThrowOnTier(d) \/ ListAgents(d) \/ InsertAgent(d) \/ InsertAgentFails(d)
    \/ InsertMission(d) \/ InsertMissionFails(d) \/ Seed(d) \/ Activate(d) \/ ActivateFails(d)

OtherEvents(d) ==
    \/ Acknowledge(d) \/ FindCreated(d) \/ FindDeleted(d) \/ Patch(d) \/ ThrowOnDate(d)
    \/ Cancel(d) \/ CancelUnknown(d) \/ Pause(d)

\* What the events carry never changes.
Next ==
    /\ \/ \E d \in Deliveries : Webhook(d) \/ Provision(d) \/ OtherEvents(d)
       \/ Keep
       \/ Restart
    /\ UNCHANGED events

Spec == Init /\ [][Next]_vars

-----------------------------------------------------------------------------
Places == {"idle", "lookup", "record", "enter", "subscribe", "agents", "agent", "mission", "folder",
           "activate", "find", "patch", "cancel", "cancel_unknown", "pause"}

\* A delivery that is worked on has an event, and what is left to make is of the kind made.
Stage ==
    {s \in [at : Places, event : Events \cup {NoEvent}, left : SUBSET (Roles \cup Missions)] :
        /\ s.at # "idle" => s.event \in Events
        /\ s.at = "agent" => s.left \subseteq Roles
        /\ s.at = "mission" => s.left \subseteq Missions}

\* Every variable has values of its type.
TypeOK ==
    /\ unnamed \subseteq Checkouts /\ unfit \subseteq Events
    /\ recorded \subseteq Events
    /\ over \subseteq Events /\ lost \subseteq Events /\ dropped \subseteq Events
    /\ client \in {"none", "provisioning", "active", "paused"}
    /\ subscription \in {"none", "active", "past_due", "canceled"}
    /\ agents \subseteq Roles
    /\ missions \in [Missions -> Nat]
    /\ schedules \in BOOLEAN /\ kept \in BOOLEAN /\ keeping \in BOOLEAN
    /\ delivery \in [Deliveries -> Stage]
    /\ refused \subseteq Roles \cup Missions
    /\ lapses \in 0..MaxLapses

(***************************************************************************)
(* A client gets each mission of the plan once per checkout that is on     *)
(* record, and once more only for an event that was worked on without      *)
(* having been recorded: nothing else keeps the missions, which are        *)
(* inserted blindly, from growing with every delivery.                     *)
(* (createDefaultMissions, provisioning.ts:199-224; stripe.ts:211-232)     *)
(***************************************************************************)
MissionsExplained ==
    \A m \in Missions : missions[m] <= Cardinality(recorded \cap Checkouts) + lapses

(***************************************************************************)
(* An event on record is being worked on, or was to the end, or was lost   *)
(* with the process; or it carries a tier of no plan or a period that is   *)
(* no date, on which its handler throws, or no client_id, and its handler  *)
(* could not enter the client. As every later delivery of it is skipped,   *)
(* the one a 500 asks for included, nobody else would do the work.         *)
(* (handleStripeWebhook, stripe.ts:211-262; hermes-status-api.ts:934-943)  *)
(***************************************************************************)
TakenOrLost ==
    \A e \in recorded :
        \/ e \in over \cup lost
        \/ e \in dropped \cap (unnamed \cup unfit)
        \/ \E d \in Deliveries : Event(d) = e /\ Working(d)

(***************************************************************************)
(* When the handling of a checkout came to its end, which one that threw   *)
(* or that could not enter its client did not, the client is there with    *)
(* every agent and every mission of the plan but those whose insert        *)
(* failed, whatever other deliveries made or a restart cut short           *)
(* meanwhile. (handleCheckoutCompleted, stripe-handlers.ts:63-144;         *)
(* provisionClient, provisioning.ts:96-165)                                *)
(***************************************************************************)
EquippedAfterCheckout ==
    (over \cap Checkouts # {}) =>
        /\ client # "none"
        /\ Roles \subseteq agents \cup refused
        /\ \A m \in Missions : missions[m] > 0 \/ m \in refused
-----------------------------------------------------------------------------
(* What makes them inductive.                                              *)

ForCheckouts == {"enter", "subscribe", "agents", "agent", "mission", "folder", "activate"}

\* A delivery that may yet insert mission m.
Owes(d, m) ==
    \/ delivery[d].at \in {"enter", "subscribe", "agents", "agent"}
    \/ At(d, "mission") /\ m \in delivery[d].left

Owing(m) == {d \in Deliveries : Owes(d, m)}
Paid == recorded \cap Checkouts

\* Only a checkout sets a client up, and only one without client_id enters it.
RightHandler ==
    \A d \in Deliveries : Working(d) =>
        /\ delivery[d].at \in ForCheckouts <=> Kind[Event(d)] = "checkout"
        /\ At(d, "enter") => Event(d) \in unnamed

\* There is a client for a checkout that names it, and once one that does not has entered it.
ClientThere ==
    \A d \in Deliveries :
        \/ delivery[d].at \notin ForCheckouts \ {"enter"} /\ Event(d) \notin Checkouts \ unnamed
        \/ At(d, "idle")
        \/ client # "none"

\* What a provisioning has yet to make is all that may be missing.
MadeSoFar ==
    \A d \in Deliveries :
        /\ At(d, "agent") => Roles \subseteq agents \cup refused \cup delivery[d].left
        /\ delivery[d].at \in {"mission", "folder", "activate"} => Roles \subseteq agents \cup refused
        /\ At(d, "mission") =>
             \A m \in Missions \ delivery[d].left : missions[m] > 0 \/ m \in refused
        /\ delivery[d].at \in {"folder", "activate"} =>
             \A m \in Missions : missions[m] > 0 \/ m \in refused

\* The missions there are and those that are owed are paid for.
MissionsPaidFor ==
    \A m \in Missions :
        missions[m] + Cardinality(Owing(m)) <= Cardinality(Paid) + lapses

IInv ==
    TypeOK /\ RightHandler /\ ClientThere /\ MadeSoFar /\ EquippedAfterCheckout /\ TakenOrLost /\ MissionsPaidFor
=============================================================================
