SPECIFICATION Spec
CONSTANTS
    d1 = d1
    d2 = d2
    paid = paid
    subscribed = subscribed
    cancelled = cancelled
    planner = planner
    weekly = weekly
    Deliveries = {d1, d2}
    Events = {paid, subscribed, cancelled}
    Kind <- MCKind
    Roles <- MCRoles
    Missions <- MCMissions
    MaxLapses = 1
SYMMETRY Symmetry
INVARIANTS
    MissionsExplained
    TakenOrLost
    EquippedAfterCheckout
