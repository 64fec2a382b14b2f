CONSTANTS
    s1 = s1
    s2 = s2
    Submissions = {s1, s2}
    NoOne = NoOne
    Commands <- MCAllCommands
    Host <- MCOneProcess
SPECIFICATION Spec
INVARIANTS
    TypeOK
    SingleFlight
    AtMostOnce
CHECK_DEADLOCK FALSE
