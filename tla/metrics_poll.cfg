SPECIFICATION Spec
CONSTANTS
    h1 = h1
    h2 = h2
    Handlers <- MCTwoHandlers
    Managers <- MCPollers
    Routes <- MCPolling
    Tasks <- MCTwoTasks
    MaxLogEntries = 2
    MaxTasks = 2
SYMMETRY MCSymmetry
INVARIANTS
    TypeOK
    CountsAddUp
    LogComplete
    SnapshotCountsItsLog
\* A management request is served once, and MaxTasks is reached.
CHECK_DEADLOCK FALSE
