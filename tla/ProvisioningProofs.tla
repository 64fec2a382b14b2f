------------------------ MODULE ProvisioningProofs ------------------------
(***************************************************************************)
(* What TLAPS proves of Provisioning, for any number of deliveries, any    *)
(* events and any plan.                                                    *)
(***************************************************************************)
EXTENDS Provisioning, FiniteSetTheorems, TLAPS

\* What a provisioning is left with is a stage, if the rest and what comes after are.
LEMMA MakingTyped ==
  ASSUME delivery \in [Deliveries -> Stage], NEW d \in Deliveries, NEW place, NEW rest,
         NEW then \in Stage, [delivery[d] EXCEPT !.at = place, !.left = rest] \in Stage,
         Making(d, place, rest, then)
  PROVE  delivery' \in [Deliveries -> Stage]
  <1> DEFINE more == [delivery[d] EXCEPT !.at = place, !.left = rest]
             new  == IF rest = {} THEN then ELSE more
  <1>1. delivery' = [delivery EXCEPT ![d] = new]
    BY DEF Making
  <1>2. new \in Stage
    OBVIOUS
  <1> HIDE DEF new
  <1> QED
    BY <1>1, <1>2

\* Every step keeps the types.
LEMMA TypeStep ==
  ASSUME TypeOK, [Next]_vars
  PROVE  TypeOK'
  <1> USE EventsAssumption, PlanAssumption, LapsesAssumption DEF TypeOK, At, Event, events, tables, memory, Places, Kinds
  <1>0. UNCHANGED events
    BY DEF Next, vars
  <1> USE <1>0
  <1>1. CASE \E d \in Deliveries : Deliver(d)
    <2>1. \A e \in Events : [Idle EXCEPT !.at = "lookup", !.event = e] \in Stage
      BY DEF Idle, Stage
    <2> QED
      BY <1>1, <2>1 DEF Deliver
  <1>2. CASE \E d \in Deliveries : SkipDuplicate(d)
    BY <1>2 DEF SkipDuplicate, Idle, Stage
  <1>3. CASE \E d \in Deliveries : LookUp(d)
    BY <1>3 DEF LookUp, Goto, Stage
  <1>4. CASE \E d \in Deliveries : Record(d)
    BY <1>4 DEF Record, Goto, Handler, Kinds, Stage
  <1>5. CASE \E d \in Deliveries : RecordFails(d)
    BY <1>5 DEF RecordFails, Goto, Handler, Kinds, Stage
  <1>6. CASE \E d \in Deliveries : Subscribe(d)
    BY <1>6 DEF Subscribe, Goto, Stage
  <1>7. CASE \E d \in Deliveries : ListAgents(d)
    <2> PICK d \in Deliveries : ListAgents(d)
      BY <1>7
    <2>1. /\ delivery[d] \in Stage /\ delivery[d].at # "idle"
          /\ delivery[d].at = "agent" => delivery[d].left \subseteq Roles
      BY DEF ListAgents, Stage
    <2>2. AfterAgents(d) \in Stage
      BY <2>1 DEF AfterAgents, Stage
    <2>3. \A rest \in SUBSET Roles :
            [delivery[d] EXCEPT !.at = "agent", !.left = rest] \in Stage
      BY <2>1 DEF Stage
    <2>4. delivery' \in [Deliveries -> Stage]
      BY <2>1, <2>2, <2>3, MakingTyped DEF ListAgents
    <2> QED
      BY <2>1, <2>4 DEF ListAgents
  <1>8. CASE \E d \in Deliveries : InsertAgent(d)
    <2> PICK d \in Deliveries : InsertAgent(d)
      BY <1>8
    <2>1. /\ delivery[d] \in Stage /\ delivery[d].at # "idle"
          /\ delivery[d].at = "agent" => delivery[d].left \subseteq Roles
      BY DEF InsertAgent, Stage
    <2>2. AfterAgents(d) \in Stage
      BY <2>1 DEF AfterAgents, Stage
    <2>3. \A rest \in SUBSET Roles :
            [delivery[d] EXCEPT !.at = "agent", !.left = rest] \in Stage
      BY <2>1 DEF Stage
    <2>4. delivery' \in [Deliveries -> Stage]
      BY <2>1, <2>2, <2>3, MakingTyped DEF InsertAgent
    <2> QED
      BY <2>1, <2>4 DEF InsertAgent
  <1>9. CASE \E d \in Deliveries : InsertAgentFails(d)
    <2> PICK d \in Deliveries : InsertAgentFails(d)
      BY <1>9
    <2>1. /\ delivery[d] \in Stage /\ delivery[d].at # "idle"
          /\ delivery[d].at = "agent" => delivery[d].left \subseteq Roles
      BY DEF InsertAgentFails, Stage
    <2>2. AfterAgents(d) \in Stage
      BY <2>1 DEF AfterAgents, Stage
    <2>3. \A rest \in SUBSET Roles :
            [delivery[d] EXCEPT !.at = "agent", !.left = rest] \in Stage
      BY <2>1 DEF Stage
    <2>4. delivery' \in [Deliveries -> Stage]
      BY <2>1, <2>2, <2>3, MakingTyped DEF InsertAgentFails
    <2> QED
      BY <2>1, <2>4 DEF InsertAgentFails
  <1>10. CASE \E d \in Deliveries : InsertMission(d)
    <2> PICK d \in Deliveries : InsertMission(d)
      BY <1>10
    <2>1. /\ delivery[d] \in Stage /\ delivery[d].at # "idle"
          /\ delivery[d].at = "mission" => delivery[d].left \subseteq Missions
      BY DEF InsertMission, Stage
    <2>2. AfterMissions(d) \in Stage
      BY <2>1 DEF AfterMissions, Stage
    <2>3. \A rest \in SUBSET Missions :
            [delivery[d] EXCEPT !.at = "mission", !.left = rest] \in Stage
      BY <2>1 DEF Stage
    <2>4. delivery' \in [Deliveries -> Stage]
      BY <2>1, <2>2, <2>3, MakingTyped DEF InsertMission
    <2> QED
      BY <2>1, <2>4 DEF InsertMission
  <1>11. CASE \E d \in Deliveries : InsertMissionFails(d)
    <2> PICK d \in Deliveries : InsertMissionFails(d)
      BY <1>11
    <2>1. /\ delivery[d] \in Stage /\ delivery[d].at # "idle"
          /\ delivery[d].at = "mission" => delivery[d].left \subseteq Missions
      BY DEF InsertMissionFails, Stage
    <2>2. AfterMissions(d) \in Stage
      BY <2>1 DEF AfterMissions, Stage
    <2>3. \A rest \in SUBSET Missions :
            [delivery[d] EXCEPT !.at = "mission", !.left = rest] \in Stage
      BY <2>1 DEF Stage
    <2>4. delivery' \in [Deliveries -> Stage]
      BY <2>1, <2>2, <2>3, MakingTyped DEF InsertMissionFails
    <2> QED
      BY <2>1, <2>4 DEF InsertMissionFails
  <1>12. CASE \E d \in Deliveries : Seed(d)
    BY <1>12 DEF Seed, Goto, Stage
  <1>13. CASE \E d \in Deliveries : Activate(d)
    BY <1>13 DEF Activate, End, Idle, Stage
  <1>14. CASE \E d \in Deliveries : ActivateFails(d)
    BY <1>14 DEF ActivateFails, End, Idle, Stage
  <1>15. CASE \E d \in Deliveries : Acknowledge(d)
    BY <1>15 DEF Acknowledge, End, Idle, Stage
  <1>16. CASE \E d \in Deliveries : FindCreated(d)
    BY <1>16 DEF FindCreated, Goto, Stage
  <1>17. CASE \E d \in Deliveries : FindDeleted(d)
    BY <1>17 DEF FindDeleted, Goto, Stage
  <1>18. CASE \E d \in Deliveries : Patch(d)
    BY <1>18 DEF Patch, End, Idle, PatchSubscription, Told, Stage
  <1>19. CASE \E d \in Deliveries : Cancel(d)
    BY <1>19 DEF Cancel, Goto, PatchSubscription, Told, Stage
  <1>20. CASE \E d \in Deliveries : CancelUnknown(d)
    BY <1>20 DEF CancelUnknown, End, Idle, PatchSubscription, Told, Stage
  <1>21. CASE \E d \in Deliveries : Pause(d)
    <2> PICK d \in Deliveries : Pause(d)
      BY <1>21
    <2>1. Idle \in Stage
      BY DEF Idle, Stage
    <2>2. delivery' \in [Deliveries -> Stage] /\ over' \subseteq Events
      BY <2>1 DEF Pause, End, Stage
    <2> QED
      BY <2>2 DEF Pause
  <1>22. CASE Keep
    BY <1>22 DEF Keep
  <1>23. CASE Restart
    <2>1. Idle \in Stage
      BY DEF Idle, Stage
    <2>2. \A d \in Deliveries : Working(d) => delivery[d].event \in Events
      BY DEF Working, Stage
    <2> QED
      BY <1>23, <2>1, <2>2 DEF Restart
  <1>24. CASE UNCHANGED vars
    BY <1>24 DEF vars
  <1>26. CASE \E d \in Deliveries : Enter(d)
    BY <1>26 DEF Enter, Goto, Stage
  <1>27. CASE \E d \in Deliveries : EnterFails(d)
    BY <1>27 DEF EnterFails, Drop, Idle, Stage
  <1>28. CASE \E d \in Deliveries : ThrowOnTier(d)
    BY <1>28 DEF ThrowOnTier, Drop, Idle, Stage
  <1>29. CASE \E d \in Deliveries : ThrowOnDate(d)
    BY <1>29 DEF ThrowOnDate, Drop, Idle, Stage
  <1>25. QED
    BY <1>1, <1>2, <1>3, <1>4, <1>5, <1>6, <1>7, <1>8, <1>9, <1>10, <1>11, <1>12, <1>13, <1>14, <1>15, <1>16, <1>17, <1>18, <1>19, <1>20, <1>21, <1>22, <1>23, <1>24, <1>26, <1>27, <1>28, <1>29 DEF Next, Webhook, Provision, OtherEvents

\* Every step leaves each delivery with the handler of its event.
LEMMA HandlerStep ==
  ASSUME TypeOK, RightHandler, [Next]_vars
  PROVE  RightHandler'
  <1> USE EventsAssumption, PlanAssumption, LapsesAssumption DEF TypeOK, Stage, At, Event, events, tables, memory, RightHandler, Working, ForCheckouts
  <1>0. UNCHANGED events
    BY DEF Next, vars
  <1> USE <1>0
  <1>1. CASE \E d \in Deliveries : Deliver(d)
    BY <1>1 DEF Deliver, Idle
  <1>2. CASE \E d \in Deliveries : SkipDuplicate(d)
    BY <1>2 DEF SkipDuplicate, Idle
  <1>3. CASE \E d \in Deliveries : LookUp(d)
    BY <1>3 DEF LookUp, Goto
  <1>4. CASE \E d \in Deliveries : Record(d)
    BY <1>4 DEF Record, Goto, Handler, Kinds
  <1>5. CASE \E d \in Deliveries : RecordFails(d)
    BY <1>5 DEF RecordFails, Goto, Handler, Kinds
  <1>6. CASE \E d \in Deliveries : Subscribe(d)
    BY <1>6 DEF Subscribe, Goto
  <1>7. CASE \E d \in Deliveries : ListAgents(d)
    BY <1>7 DEF ListAgents, Making, AfterAgents
  <1>8. CASE \E d \in Deliveries : InsertAgent(d)
    BY <1>8 DEF InsertAgent, Making, AfterAgents
  <1>9. CASE \E d \in Deliveries : InsertAgentFails(d)
    BY <1>9 DEF InsertAgentFails, Making, AfterAgents
  <1>10. CASE \E d \in Deliveries : InsertMission(d)
    BY <1>10 DEF InsertMission, Making, AfterMissions
  <1>11. CASE \E d \in Deliveries : InsertMissionFails(d)
    BY <1>11 DEF InsertMissionFails, Making, AfterMissions
  <1>12. CASE \E d \in Deliveries : Seed(d)
    BY <1>12 DEF Seed, Goto
  <1>13. CASE \E d \in Deliveries : Activate(d)
    BY <1>13 DEF Activate, End, Idle
  <1>14. CASE \E d \in Deliveries : ActivateFails(d)
    BY <1>14 DEF ActivateFails, End, Idle
  <1>15. CASE \E d \in Deliveries : Acknowledge(d)
    BY <1>15 DEF Acknowledge, End, Idle
  <1>16. CASE \E d \in Deliveries : FindCreated(d)
    BY <1>16 DEF FindCreated, Goto
  <1>17. CASE \E d \in Deliveries : FindDeleted(d)
    BY <1>17 DEF FindDeleted, Goto
  <1>18. CASE \E d \in Deliveries : Patch(d)
    BY <1>18 DEF Patch, End, Idle, PatchSubscription, Told
  <1>19. CASE \E d \in Deliveries : Cancel(d)
    BY <1>19 DEF Cancel, Goto, PatchSubscription, Told
  <1>20. CASE \E d \in Deliveries : CancelUnknown(d)
    BY <1>20 DEF CancelUnknown, End, Idle, PatchSubscription, Told
  <1>21. CASE \E d \in Deliveries : Pause(d)
    BY <1>21 DEF Pause, End, Idle
  <1>22. CASE Keep
    BY <1>22 DEF Keep
  <1>23. CASE Restart
    BY <1>23 DEF Restart, Idle, Working
  <1>24. CASE UNCHANGED vars
    BY <1>24 DEF vars
  <1>26. CASE \E d \in Deliveries : Enter(d)
    BY <1>26 DEF Enter, Goto
  <1>27. CASE \E d \in Deliveries : EnterFails(d)
    BY <1>27 DEF EnterFails, Drop, Idle
  <1>28. CASE \E d \in Deliveries : ThrowOnTier(d)
    BY <1>28 DEF ThrowOnTier, Drop, Idle
  <1>29. CASE \E d \in Deliveries : ThrowOnDate(d)
    BY <1>29 DEF ThrowOnDate, Drop, Idle
  <1>25. QED
    BY <1>1, <1>2, <1>3, <1>4, <1>5, <1>6, <1>7, <1>8, <1>9, <1>10, <1>11, <1>12, <1>13, <1>14, <1>15, <1>16, <1>17, <1>18, <1>19, <1>20, <1>21, <1>22, <1>23, <1>24, <1>26, <1>27, <1>28, <1>29 DEF Next, Webhook, Provision, OtherEvents

\* Every step leaves a client for each checkout that needs one.
LEMMA ClientStep ==
  ASSUME TypeOK, RightHandler, ClientThere, [Next]_vars
  PROVE  ClientThere'
  <1> USE EventsAssumption, PlanAssumption, LapsesAssumption DEF TypeOK, Stage, At, Event, events, tables, memory, ClientThere, RightHandler, Working, ForCheckouts, Checkouts
  <1>0. UNCHANGED events
    BY DEF Next, vars
  <1> USE <1>0
  <1>1. CASE \E d \in Deliveries : Deliver(d)
    BY <1>1 DEF Deliver, Idle
  <1>2. CASE \E d \in Deliveries : SkipDuplicate(d)
    BY <1>2 DEF SkipDuplicate, Idle
  <1>3. CASE \E d \in Deliveries : LookUp(d)
    BY <1>3 DEF LookUp, Goto
  <1>4. CASE \E d \in Deliveries : Record(d)
    BY <1>4 DEF Record, Goto, Handler, Kinds
  <1>5. CASE \E d \in Deliveries : RecordFails(d)
    BY <1>5 DEF RecordFails, Goto, Handler, Kinds
  <1>6. CASE \E d \in Deliveries : Subscribe(d)
    BY <1>6 DEF Subscribe, Goto
  <1>7. CASE \E d \in Deliveries : ListAgents(d)
    BY <1>7 DEF ListAgents, Making, AfterAgents
  <1>8. CASE \E d \in Deliveries : InsertAgent(d)
    BY <1>8 DEF InsertAgent, Making, AfterAgents
  <1>9. CASE \E d \in Deliveries : InsertAgentFails(d)
    BY <1>9 DEF InsertAgentFails, Making, AfterAgents
  <1>10. CASE \E d \in Deliveries : InsertMission(d)
    BY <1>10 DEF InsertMission, Making, AfterMissions
  <1>11. CASE \E d \in Deliveries : InsertMissionFails(d)
    BY <1>11 DEF InsertMissionFails, Making, AfterMissions
  <1>12. CASE \E d \in Deliveries : Seed(d)
    BY <1>12 DEF Seed, Goto
  <1>13. CASE \E d \in Deliveries : Activate(d)
    BY <1>13 DEF Activate, End, Idle
  <1>14. CASE \E d \in Deliveries : ActivateFails(d)
    BY <1>14 DEF ActivateFails, End, Idle
  <1>15. CASE \E d \in Deliveries : Acknowledge(d)
    BY <1>15 DEF Acknowledge, End, Idle
  <1>16. CASE \E d \in Deliveries : FindCreated(d)
    BY <1>16 DEF FindCreated, Goto
  <1>17. CASE \E d \in Deliveries : FindDeleted(d)
    BY <1>17 DEF FindDeleted, Goto
  <1>18. CASE \E d \in Deliveries : Patch(d)
    BY <1>18 DEF Patch, End, Idle, PatchSubscription, Told
  <1>19. CASE \E d \in Deliveries : Cancel(d)
    BY <1>19 DEF Cancel, Goto, PatchSubscription, Told
  <1>20. CASE \E d \in Deliveries : CancelUnknown(d)
    BY <1>20 DEF CancelUnknown, End, Idle, PatchSubscription, Told
  <1>21. CASE \E d \in Deliveries : Pause(d)
    BY <1>21 DEF Pause, End, Idle
  <1>22. CASE Keep
    BY <1>22 DEF Keep
  <1>23. CASE Restart
    BY <1>23 DEF Restart, Idle, Working
  <1>24. CASE UNCHANGED vars
    BY <1>24 DEF vars
  <1>26. CASE \E d \in Deliveries : Enter(d)
    BY <1>26 DEF Enter, Goto
  <1>27. CASE \E d \in Deliveries : EnterFails(d)
    BY <1>27 DEF EnterFails, Drop, Idle
  <1>28. CASE \E d \in Deliveries : ThrowOnTier(d)
    BY <1>28 DEF ThrowOnTier, Drop, Idle
  <1>29. CASE \E d \in Deliveries : ThrowOnDate(d)
    BY <1>29 DEF ThrowOnDate, Drop, Idle
  <1>25. QED
    BY <1>1, <1>2, <1>3, <1>4, <1>5, <1>6, <1>7, <1>8, <1>9, <1>10, <1>11, <1>12, <1>13, <1>14, <1>15, <1>16, <1>17, <1>18, <1>19, <1>20, <1>21, <1>22, <1>23, <1>24, <1>26, <1>27, <1>28, <1>29 DEF Next, Webhook, Provision, OtherEvents

\* Every step accounts for what a provisioning has made.
LEMMA MadeStep ==
  ASSUME TypeOK, MadeSoFar, [Next]_vars
  PROVE  MadeSoFar'
  <1> USE EventsAssumption, PlanAssumption, LapsesAssumption DEF TypeOK, Stage, At, Event, tables, memory, MadeSoFar
  <1>1. CASE \E d \in Deliveries : Deliver(d)
    BY <1>1 DEF Deliver, Idle
  <1>2. CASE \E d \in Deliveries : SkipDuplicate(d)
    BY <1>2 DEF SkipDuplicate, Idle
  <1>3. CASE \E d \in Deliveries : LookUp(d)
    BY <1>3 DEF LookUp, Goto
  <1>4. CASE \E d \in Deliveries : Record(d)
    BY <1>4 DEF Record, Goto, Handler, Kinds
  <1>5. CASE \E d \in Deliveries : RecordFails(d)
    BY <1>5 DEF RecordFails, Goto, Handler, Kinds
  <1>6. CASE \E d \in Deliveries : Subscribe(d)
    BY <1>6 DEF Subscribe, Goto
  <1>7. CASE \E d \in Deliveries : ListAgents(d)
    BY <1>7 DEF ListAgents, Making, AfterAgents
  <1>8. CASE \E d \in Deliveries : InsertAgent(d)
    BY <1>8 DEF InsertAgent, Making, AfterAgents
  <1>9. CASE \E d \in Deliveries : InsertAgentFails(d)
    BY <1>9 DEF InsertAgentFails, Making, AfterAgents
  <1>10. CASE \E d \in Deliveries : InsertMission(d)
    BY <1>10 DEF InsertMission, Making, AfterMissions
  <1>11. CASE \E d \in Deliveries : InsertMissionFails(d)
    BY <1>11 DEF InsertMissionFails, Making, AfterMissions
  <1>12. CASE \E d \in Deliveries : Seed(d)
    BY <1>12 DEF Seed, Goto
  <1>13. CASE \E d \in Deliveries : Activate(d)
    BY <1>13 DEF Activate, End, Idle
  <1>14. CASE \E d \in Deliveries : ActivateFails(d)
    BY <1>14 DEF ActivateFails, End, Idle
  <1>15. CASE \E d \in Deliveries : Acknowledge(d)
    BY <1>15 DEF Acknowledge, End, Idle
  <1>16. CASE \E d \in Deliveries : FindCreated(d)
    BY <1>16 DEF FindCreated, Goto
  <1>17. CASE \E d \in Deliveries : FindDeleted(d)
    BY <1>17 DEF FindDeleted, Goto
  <1>18. CASE \E d \in Deliveries : Patch(d)
    BY <1>18 DEF Patch, End, Idle, PatchSubscription, Told
  <1>19. CASE \E d \in Deliveries : Cancel(d)
    BY <1>19 DEF Cancel, Goto, PatchSubscription, Told
  <1>20. CASE \E d \in Deliveries : CancelUnknown(d)
    BY <1>20 DEF CancelUnknown, End, Idle, PatchSubscription, Told
  <1>21. CASE \E d \in Deliveries : Pause(d)
    BY <1>21 DEF Pause, End, Idle
  <1>22. CASE Keep
    BY <1>22 DEF Keep
  <1>23. CASE Restart
    BY <1>23 DEF Restart, Idle, Working
  <1>24. CASE UNCHANGED vars
    BY <1>24 DEF vars
  <1>26. CASE \E d \in Deliveries : Enter(d)
    BY <1>26 DEF Enter, Goto
  <1>27. CASE \E d \in Deliveries : EnterFails(d)
    BY <1>27 DEF EnterFails, Drop, Idle
  <1>28. CASE \E d \in Deliveries : ThrowOnTier(d)
    BY <1>28 DEF ThrowOnTier, Drop, Idle
  <1>29. CASE \E d \in Deliveries : ThrowOnDate(d)
    BY <1>29 DEF ThrowOnDate, Drop, Idle
  <1>25. QED
    BY <1>1, <1>2, <1>3, <1>4, <1>5, <1>6, <1>7, <1>8, <1>9, <1>10, <1>11, <1>12, <1>13, <1>14, <1>15, <1>16, <1>17, <1>18, <1>19, <1>20, <1>21, <1>22, <1>23, <1>24, <1>26, <1>27, <1>28, <1>29 DEF Next, Webhook, Provision, OtherEvents

\* A checkout is over only when all has been made.
LEMMA EquippedStep ==
  ASSUME TypeOK, RightHandler, ClientThere, MadeSoFar, EquippedAfterCheckout, [Next]_vars
  PROVE  EquippedAfterCheckout'
  <1> USE EventsAssumption, PlanAssumption, LapsesAssumption DEF TypeOK, Stage, At, Event, tables, memory, EquippedAfterCheckout, Checkouts, ClientThere, MadeSoFar, RightHandler, Working, ForCheckouts
  <1>1. CASE \E d \in Deliveries : Deliver(d)
    BY <1>1 DEF Deliver, Idle
  <1>2. CASE \E d \in Deliveries : SkipDuplicate(d)
    BY <1>2 DEF SkipDuplicate, Idle
  <1>3. CASE \E d \in Deliveries : LookUp(d)
    BY <1>3 DEF LookUp, Goto
  <1>4. CASE \E d \in Deliveries : Record(d)
    BY <1>4 DEF Record, Goto, Handler, Kinds
  <1>5. CASE \E d \in Deliveries : RecordFails(d)
    BY <1>5 DEF RecordFails, Goto, Handler, Kinds
  <1>6. CASE \E d \in Deliveries : Subscribe(d)
    BY <1>6 DEF Subscribe, Goto
  <1>7. CASE \E d \in Deliveries : ListAgents(d)
    BY <1>7 DEF ListAgents, Making, AfterAgents
  <1>8. CASE \E d \in Deliveries : InsertAgent(d)
    BY <1>8 DEF InsertAgent, Making, AfterAgents
  <1>9. CASE \E d \in Deliveries : InsertAgentFails(d)
    BY <1>9 DEF InsertAgentFails, Making, AfterAgents
  <1>10. CASE \E d \in Deliveries : InsertMission(d)
    BY <1>10 DEF InsertMission, Making, AfterMissions
  <1>11. CASE \E d \in Deliveries : InsertMissionFails(d)
    BY <1>11 DEF InsertMissionFails, Making, AfterMissions
  <1>12. CASE \E d \in Deliveries : Seed(d)
    BY <1>12 DEF Seed, Goto
  <1>13. CASE \E d \in Deliveries : Activate(d)
    BY <1>13 DEF Activate, End, Idle
  <1>14. CASE \E d \in Deliveries : ActivateFails(d)
    BY <1>14 DEF ActivateFails, End, Idle
  <1>15. CASE \E d \in Deliveries : Acknowledge(d)
    BY <1>15 DEF Acknowledge, End, Idle
  <1>16. CASE \E d \in Deliveries : FindCreated(d)
    BY <1>16 DEF FindCreated, Goto
  <1>17. CASE \E d \in Deliveries : FindDeleted(d)
    BY <1>17 DEF FindDeleted, Goto
  <1>18. CASE \E d \in Deliveries : Patch(d)
    BY <1>18 DEF Patch, End, Idle, PatchSubscription, Told
  <1>19. CASE \E d \in Deliveries : Cancel(d)
    BY <1>19 DEF Cancel, Goto, PatchSubscription, Told
  <1>20. CASE \E d \in Deliveries : CancelUnknown(d)
    BY <1>20 DEF CancelUnknown, End, Idle, PatchSubscription, Told
  <1>21. CASE \E d \in Deliveries : Pause(d)
    BY <1>21 DEF Pause, End, Idle
  <1>22. CASE Keep
    BY <1>22 DEF Keep
  <1>23. CASE Restart
    BY <1>23 DEF Restart, Idle, Working
  <1>24. CASE UNCHANGED vars
    BY <1>24 DEF vars
  <1>26. CASE \E d \in Deliveries : Enter(d)
    BY <1>26 DEF Enter, Goto
  <1>27. CASE \E d \in Deliveries : EnterFails(d)
    BY <1>27 DEF EnterFails, Drop, Idle
  <1>28. CASE \E d \in Deliveries : ThrowOnTier(d)
    BY <1>28 DEF ThrowOnTier, Drop, Idle
  <1>29. CASE \E d \in Deliveries : ThrowOnDate(d)
    BY <1>29 DEF ThrowOnDate, Drop, Idle
  <1>25. QED
    BY <1>1, <1>2, <1>3, <1>4, <1>5, <1>6, <1>7, <1>8, <1>9, <1>10, <1>11, <1>12, <1>13, <1>14, <1>15, <1>16, <1>17, <1>18, <1>19, <1>20, <1>21, <1>22, <1>23, <1>24, <1>26, <1>27, <1>28, <1>29 DEF Next, Webhook, Provision, OtherEvents

\* No recorded event is dropped.
LEMMA TakenStep ==
  ASSUME TypeOK, RightHandler, TakenOrLost, [Next]_vars
  PROVE  TakenOrLost'
  <1> USE EventsAssumption, PlanAssumption, LapsesAssumption DEF TypeOK, Stage, At, Event, events, tables, memory, TakenOrLost, Working
  <1>0. UNCHANGED events
    BY DEF Next, vars
  <1> USE <1>0
  <1>1. CASE \E d \in Deliveries : Deliver(d)
    BY <1>1 DEF Deliver, Idle
  <1>2. CASE \E d \in Deliveries : SkipDuplicate(d)
    BY <1>2 DEF SkipDuplicate, Idle
  <1>3. CASE \E d \in Deliveries : LookUp(d)
    BY <1>3 DEF LookUp, Goto
  <1>4. CASE \E d \in Deliveries : Record(d)
    BY <1>4 DEF Record, Goto, Handler, Kinds
  <1>5. CASE \E d \in Deliveries : RecordFails(d)
    BY <1>5 DEF RecordFails, Goto, Handler, Kinds
  <1>6. CASE \E d \in Deliveries : Subscribe(d)
    BY <1>6 DEF Subscribe, Goto
  <1>7. CASE \E d \in Deliveries : ListAgents(d)
    BY <1>7 DEF ListAgents, Making, AfterAgents
  <1>8. CASE \E d \in Deliveries : InsertAgent(d)
    BY <1>8 DEF InsertAgent, Making, AfterAgents
  <1>9. CASE \E d \in Deliveries : InsertAgentFails(d)
    BY <1>9 DEF InsertAgentFails, Making, AfterAgents
  <1>10. CASE \E d \in Deliveries : InsertMission(d)
    BY <1>10 DEF InsertMission, Making, AfterMissions
  <1>11. CASE \E d \in Deliveries : InsertMissionFails(d)
    BY <1>11 DEF InsertMissionFails, Making, AfterMissions
  <1>12. CASE \E d \in Deliveries : Seed(d)
    BY <1>12 DEF Seed, Goto
  <1>13. CASE \E d \in Deliveries : Activate(d)
    BY <1>13 DEF Activate, End, Idle
  <1>14. CASE \E d \in Deliveries : ActivateFails(d)
    BY <1>14 DEF ActivateFails, End, Idle
  <1>15. CASE \E d \in Deliveries : Acknowledge(d)
    BY <1>15 DEF Acknowledge, End, Idle
  <1>16. CASE \E d \in Deliveries : FindCreated(d)
    BY <1>16 DEF FindCreated, Goto
  <1>17. CASE \E d \in Deliveries : FindDeleted(d)
    BY <1>17 DEF FindDeleted, Goto
  <1>18. CASE \E d \in Deliveries : Patch(d)
    BY <1>18 DEF Patch, End, Idle, PatchSubscription, Told
  <1>19. CASE \E d \in Deliveries : Cancel(d)
    BY <1>19 DEF Cancel, Goto, PatchSubscription, Told
  <1>20. CASE \E d \in Deliveries : CancelUnknown(d)
    BY <1>20 DEF CancelUnknown, End, Idle, PatchSubscription, Told
  <1>21. CASE \E d \in Deliveries : Pause(d)
    BY <1>21 DEF Pause, End, Idle
  <1>22. CASE Keep
    BY <1>22 DEF Keep
  <1>23. CASE Restart
    BY <1>23 DEF Restart, Idle, Working
  <1>24. CASE UNCHANGED vars
    BY <1>24 DEF vars
  <1>26. CASE \E d \in Deliveries : Enter(d)
    BY <1>26 DEF Enter, Goto
  <1>27. CASE \E d \in Deliveries : EnterFails(d)
    BY <1>27 DEF EnterFails, Drop, Idle, RightHandler
  <1>28. CASE \E d \in Deliveries : ThrowOnTier(d)
    BY <1>28 DEF ThrowOnTier, Drop, Idle
  <1>29. CASE \E d \in Deliveries : ThrowOnDate(d)
    BY <1>29 DEF ThrowOnDate, Drop, Idle
  <1>25. QED
    BY <1>1, <1>2, <1>3, <1>4, <1>5, <1>6, <1>7, <1>8, <1>9, <1>10, <1>11, <1>12, <1>13, <1>14, <1>15, <1>16, <1>17, <1>18, <1>19, <1>20, <1>21, <1>22, <1>23, <1>24, <1>26, <1>27, <1>28, <1>29 DEF Next, Webhook, Provision, OtherEvents

\* A set within another and one more element has at most one more element.
LEMMA OneMore ==
  ASSUME NEW S, IsFiniteSet(S), NEW x, NEW T \in SUBSET (S \cup {x})
  PROVE  Cardinality(T) \in Nat /\ Cardinality(T) <= Cardinality(S) + 1
  <1>1. /\ IsFiniteSet(S \cup {x})
        /\ Cardinality(S \cup {x}) <= Cardinality(S) + 1
        /\ Cardinality(S) \in Nat /\ Cardinality(S \cup {x}) \in Nat
    BY FS_AddElement, FS_CardinalityType
  <1>2. IsFiniteSet(T) /\ Cardinality(T) <= Cardinality(S \cup {x})
    BY <1>1, FS_Subset
  <1>3. Cardinality(T) \in Nat
    BY <1>2, FS_CardinalityType
  <1> QED
    BY <1>1, <1>2, <1>3

\* Both sides of the account are numbers.
LEMMA AccountTyped ==
  ASSUME TypeOK, NEW m \in Missions
  PROVE  /\ missions[m] \in Nat /\ lapses \in Nat
         /\ IsFiniteSet(Owing(m)) /\ Cardinality(Owing(m)) \in Nat
         /\ IsFiniteSet(Paid) /\ Cardinality(Paid) \in Nat
  <1>1. Owing(m) \in SUBSET Deliveries /\ Paid \in SUBSET Events
    BY DEF Owing, Paid, Checkouts
  <1>2. IsFiniteSet(Owing(m)) /\ IsFiniteSet(Paid)
    BY <1>1, FS_Subset, DeliveriesAssumption, EventsAssumption
  <1> QED
    BY <1>2, FS_CardinalityType, LapsesAssumption DEF TypeOK

\* Nobody owes more and nothing is inserted: the account stays balanced.
LEMMA QuietStep ==
  ASSUME TypeOK, MissionsPaidFor, UNCHANGED <<missions, recorded, lapses>>,
         \A m \in Missions : Owing(m)' \subseteq Owing(m)
  PROVE  MissionsPaidFor'
  <1> SUFFICES ASSUME NEW m \in Missions
               PROVE  missions'[m] + Cardinality(Owing(m)') <= Cardinality(Paid') + lapses'
    BY DEF MissionsPaidFor
  <1>1. /\ Cardinality(Owing(m)') \in Nat
        /\ Cardinality(Owing(m)') <= Cardinality(Owing(m))
    <2>1. Owing(m)' \in SUBSET Owing(m)
      OBVIOUS
    <2> QED
      BY <2>1, AccountTyped, FS_Subset, FS_CardinalityType
  <1>2. Paid' = Paid
    BY DEF Paid, Checkouts
  <1> QED
    BY <1>1, <1>2, AccountTyped DEF MissionsPaidFor

\* A delivery begins to owe when its event is recorded: the account grows on both sides.
LEMMA RecordPaid ==
  ASSUME TypeOK, MissionsPaidFor, NEW d \in Deliveries, Record(d)
  PROVE  MissionsPaidFor'
  <1> SUFFICES ASSUME NEW m \in Missions
               PROVE  missions'[m] + Cardinality(Owing(m)') <= Cardinality(Paid') + lapses'
    BY DEF MissionsPaidFor
  <1>1. missions' = missions /\ lapses' = lapses /\ recorded' = recorded \cup {Event(d)}
    BY DEF Record, tables
  <1>2. Event(d) \in Events /\ Event(d) \notin recorded
    BY DEF Record, TypeOK, Stage, At, Event
  <1>3. CASE Event(d) \in Checkouts
    <2>1. Owing(m)' \in SUBSET (Owing(m) \cup {d})
      BY DEF Record, Owing, Owes, Goto, At, TypeOK
    <2>2. /\ Cardinality(Owing(m)') \in Nat
          /\ Cardinality(Owing(m)') <= Cardinality(Owing(m)) + 1
      BY <2>1, AccountTyped, OneMore
    <2>3. Paid' = Paid \cup {Event(d)} /\ Event(d) \notin Paid
      BY <1>1, <1>2, <1>3 DEF Paid, Checkouts
    <2>4. Cardinality(Paid') = Cardinality(Paid) + 1
      BY <2>3, AccountTyped, FS_AddElement
    <2> QED
      BY <1>1, <2>2, <2>4, AccountTyped DEF MissionsPaidFor
  <1>4. CASE Event(d) \notin Checkouts
    <2>1. Handler(Event(d)) \in {"find", "patch"}
      BY <1>2, <1>4, EventsAssumption DEF Handler, Checkouts, Kinds
    <2>2. Owing(m)' \in SUBSET Owing(m)
      BY <2>1 DEF Record, Owing, Owes, Goto, At, TypeOK
    <2>3. /\ Cardinality(Owing(m)') \in Nat
          /\ Cardinality(Owing(m)') <= Cardinality(Owing(m))
      BY <2>2, AccountTyped, FS_Subset, FS_CardinalityType
    <2>4. Paid' = Paid
      BY <1>1, <1>2, <1>4 DEF Paid, Checkouts
    <2> QED
      BY <1>1, <2>3, <2>4, AccountTyped DEF MissionsPaidFor
  <1> QED
    BY <1>3, <1>4

\* It begins to owe as well when the record fails, and the lapse is counted.
LEMMA LapsePaid ==
  ASSUME TypeOK, MissionsPaidFor, NEW d \in Deliveries, RecordFails(d)
  PROVE  MissionsPaidFor'
  <1> SUFFICES ASSUME NEW m \in Missions
               PROVE  missions'[m] + Cardinality(Owing(m)') <= Cardinality(Paid') + lapses'
    BY DEF MissionsPaidFor
  <1>1. missions' = missions /\ lapses' = lapses + 1 /\ Paid' = Paid
    BY DEF RecordFails, tables, Paid, Checkouts
  <1>2. Owing(m)' \in SUBSET (Owing(m) \cup {d})
    BY DEF RecordFails, Owing, Owes, Goto, At, TypeOK
  <1>3. /\ Cardinality(Owing(m)') \in Nat
        /\ Cardinality(Owing(m)') <= Cardinality(Owing(m)) + 1
    BY <1>2, AccountTyped, OneMore
  <1> QED
    BY <1>1, <1>3, AccountTyped DEF MissionsPaidFor

\* Inserting a mission settles what was owed of it.
LEMMA InsertPaid ==
  ASSUME TypeOK, MissionsPaidFor, NEW d \in Deliveries, InsertMission(d)
  PROVE  MissionsPaidFor'
  <1> SUFFICES ASSUME NEW m \in Missions
               PROVE  missions'[m] + Cardinality(Owing(m)') <= Cardinality(Paid') + lapses'
    BY DEF MissionsPaidFor
  <1>1. PICK made \in delivery[d].left :
          /\ missions' = [missions EXCEPT ![made] = @ + 1]
          /\ Making(d, "mission", delivery[d].left \ {made}, AfterMissions(d))
    BY DEF InsertMission
  <1>2. lapses' = lapses /\ Paid' = Paid
    BY DEF InsertMission, Paid, Checkouts
  <1>3. CASE made = m
    <2>1. d \in Owing(m)
      BY <1>1, <1>3 DEF InsertMission, Owing, Owes
    <2>2. Owing(m)' \in SUBSET (Owing(m) \ {d})
      BY <1>1, <1>3 DEF Making, AfterMissions, Owing, Owes, At, TypeOK, Stage
    <2>3. /\ Cardinality(Owing(m)') \in Nat
          /\ Cardinality(Owing(m)') <= Cardinality(Owing(m)) - 1
      BY <2>1, <2>2, AccountTyped, FS_RemoveElement, FS_Subset, FS_CardinalityType
    <2>4. missions'[m] = missions[m] + 1
      BY <1>1, <1>3 DEF TypeOK
    <2> QED
      BY <1>2, <2>3, <2>4, AccountTyped DEF MissionsPaidFor
  <1>4. CASE made # m
    <2>1. Owing(m)' \in SUBSET Owing(m)
      BY <1>1, <1>4 DEF InsertMission, Making, AfterMissions, Owing, Owes, At, TypeOK, Stage
    <2>2. /\ Cardinality(Owing(m)') \in Nat
          /\ Cardinality(Owing(m)') <= Cardinality(Owing(m))
      BY <2>1, AccountTyped, FS_Subset, FS_CardinalityType
    <2>3. missions'[m] = missions[m]
      BY <1>1, <1>4 DEF TypeOK
    <2> QED
      BY <1>2, <2>2, <2>3, AccountTyped DEF MissionsPaidFor
  <1> QED
    BY <1>3, <1>4

\* Every step keeps the account of missions balanced.
LEMMA PaidStep ==
  ASSUME TypeOK, MissionsPaidFor, [Next]_vars
  PROVE  MissionsPaidFor'
  <1> USE EventsAssumption, PlanAssumption, LapsesAssumption DEF TypeOK, Stage, At, Event, tables, memory, Owing, Owes
  <1>1. CASE \E d \in Deliveries : Deliver(d)
    BY <1>1, QuietStep DEF Deliver, Idle
  <1>2. CASE \E d \in Deliveries : SkipDuplicate(d)
    BY <1>2, QuietStep DEF SkipDuplicate, Idle
  <1>3. CASE \E d \in Deliveries : LookUp(d)
    BY <1>3, QuietStep DEF LookUp, Goto
  <1>4. CASE \E d \in Deliveries : Record(d)
    BY <1>4, RecordPaid
  <1>5. CASE \E d \in Deliveries : RecordFails(d)
    BY <1>5, LapsePaid
  <1>6. CASE \E d \in Deliveries : Subscribe(d)
    BY <1>6, QuietStep DEF Subscribe, Goto
  <1>7. CASE \E d \in Deliveries : ListAgents(d)
    BY <1>7, QuietStep DEF ListAgents, Making, AfterAgents
  <1>8. CASE \E d \in Deliveries : InsertAgent(d)
    BY <1>8, QuietStep DEF InsertAgent, Making, AfterAgents
  <1>9. CASE \E d \in Deliveries : InsertAgentFails(d)
    BY <1>9, QuietStep DEF InsertAgentFails, Making, AfterAgents
  <1>10. CASE \E d \in Deliveries : InsertMission(d)
    BY <1>10, InsertPaid
  <1>11. CASE \E d \in Deliveries : InsertMissionFails(d)
    BY <1>11, QuietStep DEF InsertMissionFails, Making, AfterMissions
  <1>12. CASE \E d \in Deliveries : Seed(d)
    BY <1>12, QuietStep DEF Seed, Goto
  <1>13. CASE \E d \in Deliveries : Activate(d)
    BY <1>13, QuietStep DEF Activate, End, Idle
  <1>14. CASE \E d \in Deliveries : ActivateFails(d)
    BY <1>14, QuietStep DEF ActivateFails, End, Idle
  <1>15. CASE \E d \in Deliveries : Acknowledge(d)
    BY <1>15, QuietStep DEF Acknowledge, End, Idle
  <1>16. CASE \E d \in Deliveries : FindCreated(d)
    BY <1>16, QuietStep DEF FindCreated, Goto
  <1>17. CASE \E d \in Deliveries : FindDeleted(d)
    BY <1>17, QuietStep DEF FindDeleted, Goto
  <1>18. CASE \E d \in Deliveries : Patch(d)
    BY <1>18, QuietStep DEF Patch, End, Idle, PatchSubscription, Told
  <1>19. CASE \E d \in Deliveries : Cancel(d)
    BY <1>19, QuietStep DEF Cancel, Goto, PatchSubscription, Told
  <1>20. CASE \E d \in Deliveries : CancelUnknown(d)
    BY <1>20, QuietStep DEF CancelUnknown, End, Idle, PatchSubscription, Told
  <1>21. CASE \E d \in Deliveries : Pause(d)
    BY <1>21, QuietStep DEF Pause, End, Idle
  <1>22. CASE Keep
    BY <1>22, QuietStep DEF Keep
  <1>23. CASE Restart
    BY <1>23, QuietStep DEF Restart, Idle
  <1>24. CASE UNCHANGED vars
    BY <1>24, QuietStep DEF vars
  <1>26. CASE \E d \in Deliveries : Enter(d)
    BY <1>26, QuietStep DEF Enter, Goto
  <1>27. CASE \E d \in Deliveries : EnterFails(d)
    BY <1>27, QuietStep DEF EnterFails, Drop, Idle
  <1>28. CASE \E d \in Deliveries : ThrowOnTier(d)
    BY <1>28, QuietStep DEF ThrowOnTier, Drop, Idle
  <1>29. CASE \E d \in Deliveries : ThrowOnDate(d)
    BY <1>29, QuietStep DEF ThrowOnDate, Drop, Idle
  <1>25. QED
    BY <1>1, <1>2, <1>3, <1>4, <1>5, <1>6, <1>7, <1>8, <1>9, <1>10, <1>11, <1>12, <1>13, <1>14, <1>15, <1>16, <1>17, <1>18, <1>19, <1>20, <1>21, <1>22, <1>23, <1>24, <1>26, <1>27, <1>28, <1>29 DEF Next, Webhook, Provision, OtherEvents

-----------------------------------------------------------------------------
\* The invariant holds at the start.
LEMMA InitInvariant == Init => IInv
  <1> SUFFICES ASSUME Init PROVE IInv
    OBVIOUS
  <1>0. Idle \in Stage
    BY DEF Idle, Stage, Places
  <1>1. TypeOK /\ RightHandler /\ ClientThere /\ MadeSoFar /\ EquippedAfterCheckout /\ TakenOrLost
    <2>1. TypeOK
      <3>1. delivery \in [Deliveries -> Stage]
        BY <1>0 DEF Init
      <3>2. missions \in [Missions -> Nat] /\ lapses \in 0..MaxLapses
        BY LapsesAssumption DEF Init
      <3> QED
        BY <3>1, <3>2 DEF Init, TypeOK
    <2>2. RightHandler /\ ClientThere /\ MadeSoFar
      BY DEF Init, Idle, RightHandler, ClientThere, MadeSoFar, Working, At
    <2> QED
      BY <2>1, <2>2 DEF Init, EquippedAfterCheckout, TakenOrLost
  <1>2. \A m \in Missions : Owing(m) = {}
    BY DEF Init, Owing, Owes, Idle, At
  <1>3. Paid = {}
    BY DEF Init, Paid
  <1>4. MissionsPaidFor
    BY <1>2, <1>3, FS_EmptySet DEF Init, MissionsPaidFor
  <1> QED
    BY <1>1, <1>4 DEF IInv

\* Every step keeps it.
LEMMA NextInvariant == IInv /\ [Next]_vars => IInv'
  BY TypeStep, HandlerStep, ClientStep, MadeStep, EquippedStep, TakenStep, PaidStep DEF IInv

LEMMA Invariance == Spec => []IInv
  BY InitInvariant, NextInvariant, PTL DEF Spec

(***************************************************************************)
(* Tables, memory and deliveries have their types in every reachable state *)
(* (provisioning.ts, stripe.ts, hermes-client-schedules.ts).               *)
(***************************************************************************)
THEOREM TypeCorrect == Spec => []TypeOK
  BY Invariance, PTL DEF IInv

(***************************************************************************)
(* Each mission is inserted at most once per recorded checkout and per     *)
(* event worked on without a record: a delivery that may yet insert one    *)
(* owes it, and comes to owe it only where a record or a lapse pays.       *)
(* (createDefaultMissions, provisioning.ts:199-224; stripe.ts:211-232)     *)
(***************************************************************************)
THEOREM MissionsAreExplained == Spec => []MissionsExplained
  <1>1. IInv => MissionsExplained
    <2> SUFFICES ASSUME IInv, NEW m \in Missions
                 PROVE  missions[m] <= Cardinality(Paid) + lapses
      BY DEF MissionsExplained, Paid
    <2> QED
      BY AccountTyped DEF IInv, MissionsPaidFor
  <1> QED
    BY <1>1, Invariance, PTL

(***************************************************************************)
(* No event on record is dropped but by the end of the process, by a       *)
(* handler that throws at a tier or a date, or by one that cannot enter a  *)
(* client nobody has named. (handleStripeWebhook, stripe.ts:211-262;       *)
(* hermes-status-api.ts:934-943)                                           *)
(***************************************************************************)
THEOREM RecordedIsTakenOrLost == Spec => []TakenOrLost
  BY Invariance, PTL DEF IInv

(***************************************************************************)
(* A checkout that came to its end, neither thrown at its tier nor left    *)
(* without a client, leaves a client with all agents and missions but      *)
(* those whose insert failed, however deliveries overlap and whenever the  *)
(* process restarts. (handleCheckoutCompleted, stripe-handlers.ts:63-144;  *)
(* provisionClient, provisioning.ts:96-165)                                *)
(***************************************************************************)
THEOREM CheckoutEquips == Spec => []EquippedAfterCheckout
  BY Invariance, PTL DEF IInv
=============================================================================
