CONSTANTS
    a = a  b = b  None = None
    Ctx <- MCCtx
    Dist = {}
    Xid <- MCXid
    MaxCalls = 1
SPECIFICATION Spec
PROPERTY EveryCallReturns
CHECK_DEADLOCK FALSE
