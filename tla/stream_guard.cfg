SPECIFICATION Spec
CONSTANTS
    Absent = Absent
    Malformed = Malformed
    Empty = Empty
    Names <- MCNames
    Trim <- MCTrim
    Lower <- MCLower
    DefaultEndpoints <- MCEndpoints
    Streams <- MCStreams
    StreamModel <- MCStreamModel
    Sources <- MCSources
    RetryChunks <- MCRetryChunks
    Configs <- MCConfigs
    MaxReads = 2
    EmptyStreams = FALSE
INVARIANTS
    TypeOK
    StreamRetryBudget
    NoSuspiciousStream
    RetryBeforeAnyOutput
    HostStreamsClosed
    AttemptsAccounted
PROPERTIES
    EveryStreamFinished
    ImplementsContract
