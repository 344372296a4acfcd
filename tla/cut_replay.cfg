SPECIFICATION Spec
CONSTANTS
    Absent = Absent
    Malformed = Malformed
    Empty = Empty
    Names <- MCNames
    Trim <- MCTrim
    Lower <- MCLower
    DefaultEndpoints <- MCEndpoints
    Streams <- MCStreams
    StreamModel <- MCStreamModel
    Sources <- MCSources
    RetryChunks <- MCCutChunks
    Configs <- MCConfigs
    MaxReads = 2
    EmptyStreams = FALSE
INVARIANT
    ReplayJudgedAsSent
