CONSTANTS
    Missions <- AllMissions
    Retries <- RoleDefaults
SPECIFICATION MissionSpec
INVARIANTS
    MissionTypeOK
    DeliveredWasAccepted
    VerdictsHold
    WorkBounded
PROPERTIES
    ComesToOneEnd
CHECK_DEADLOCK FALSE
