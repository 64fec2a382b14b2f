CONSTANTS
    Tellers = {t1}
    Expanders = {e1}
    Publishers = {p1}
    Milestones <- OneMilestone
    Channels <- TwoChannels
    LookupLimit = 2
    Batch = 1
    MaxReports = 1
    MaxLapses = 1
    MaxQueue = 2
SPECIFICATION Spec
INVARIANTS
    TypeOK
    CopiesExplained
    NotBeforeItsTime
PROPERTIES
    QueueInOrder
    ScheduledComesOut
