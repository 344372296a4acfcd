SPECIFICATION Spec
CONSTANTS
    Absent = Absent
    Malformed = Malformed
    Empty = Empty
    Names <- MCNames
    Trim <- MCTrim
    Lower <- MCLower
    DefaultEndpoints <- MCEndpoints
    Requests <- MCRequests
    ReqModel <- MCReqModel
    ReqPath <- MCReqPath
    Bodies <- MCBodies
    Configs <- MCConfigs
INVARIANT
    OnlyListedEndpointsJudged
