SPECIFICATION Spec
CONSTANTS
    Requests = {r1, r2}
    Names <- ThreeNames
    Listed <- AllowList
    Codes <- SomeCodes
    MaxScrapes = 2
INVARIANT NoRequestUnseen
INVARIANT OperationsCoverRequests
