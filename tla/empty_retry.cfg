SPECIFICATION Spec
CONSTANTS
    Absent = Absent
    Malformed = Malformed
    Empty = Empty
    Names <- MCNames
    Trim <- MCTrim
    Lower <- MCLower
    DefaultEndpoints <- MCEndpoints
    Requests <- MCRequests
    ReqModel <- MCReqModel
    ReqPath <- MCReqPath
    Bodies <- MCBodiesOrNone
    Configs <- MCConfigs
INVARIANT
    SuspiciousNeverDelivered
