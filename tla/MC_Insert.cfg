CONSTANTS
    c1 = c1  c2 = c2  c3 = c3  k1 = k1  k2 = k2  None = None
    Ctx <- CtxTriple
    Keys = {k1, k2}
    Req <- ReqInsert
    Xid <- MCXid
    DsbRows = {k1}
    MaxTimeouts = 0
    MaxDsbLoss = 1
    CancelOnRelease = TRUE
SPECIFICATION Spec
INVARIANT TypeOK
INVARIANT ClientSeesOutcome
CHECK_DEADLOCK FALSE
