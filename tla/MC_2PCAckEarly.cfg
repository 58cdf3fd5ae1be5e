CONSTANTS
    c1 = c1  c2 = c2  c3 = c3  k1 = k1  k2 = k2  k3 = k3  None = None
    Ctx <- CtxPair
    Keys = {k1, k2}
    Req <- ReqUpdates
    Xid <- MCXid
    DsbRows = {k1, k2}
    MaxTimeouts = 0
    MaxDsbLoss = 0
    CancelOnRelease = TRUE
    MaxLoss = 0
SPECIFICATION TPSpec
INVARIANT AckCommitAfterDurable
