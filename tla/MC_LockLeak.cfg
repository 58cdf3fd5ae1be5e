CONSTANTS
    c1 = c1  c2 = c2  c3 = c3  k1 = k1  k2 = k2  None = None
    Ctx <- CtxTriple
    Keys = {k1, k2}
    Req <- ReqDeadlock
    Xid <- MCXid
    DsbRows = {k1, k2}
    MaxTimeouts = 1
    MaxDsbLoss = 0
    CancelOnRelease = FALSE
SPECIFICATION Spec
INVARIANT EndedHoldsNoLocks
