SPECIFICATION Spec
CONSTANTS
    Absent = Absent
    Malformed = Malformed
    Empty = Empty
    Names <- MCNames
    Trim <- MCTrim
    Lower <- MCLower
    DefaultEndpoints <- MCEndpoints
    Threads <- MCThreads
    Calls <- MCCalls
    MaxInstances = 2
INVARIANTS
    TypeOK
    LatestDocumentInForce
    EditAnsweredInForce
    
PROPERTY
    EveryCallAnswered
\* Each thread makes one call, and a crash ends everything.
CHECK_DEADLOCK FALSE
