CONSTANTS
    c1 = c1  c2 = c2  c3 = c3  k1 = k1  k2 = k2  None = None
    Ctx <- CtxPair
    Keys = {k1, k2}
    Req <- ReqSameRow
    Xid <- MCXid
    DsbRows = {k1, k2}
    MaxTimeouts = 2
    MaxDsbLoss = 1
    CancelOnRelease = TRUE
SPECIFICATION Spec
PROPERTY EveryTxEnds
