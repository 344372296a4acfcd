SPECIFICATION Spec
CONSTANTS
    h1 = h1
    h2 = h2
    Handlers <- MCOneHandler
    Managers <- MCClients
    Routes <- MCResetting
    Tasks <- MCResetTasks
    MaxLogEntries = 1
    MaxTasks = 1
INVARIANTS
    ResetForgetsThePast
    CountsAddUp
    SnapshotCountsItsLog
\* A management request is served once, and MaxTasks is reached.
CHECK_DEADLOCK FALSE
