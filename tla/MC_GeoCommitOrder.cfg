CONSTANTS
    a = a  b = b  None = None
    Ctx <- MCCtx
    Dist = {}
    Xid <- MCXid
    MaxCalls = 1
SPECIFICATION Spec
PROPERTY CommitWaitsForDependencies
CHECK_DEADLOCK FALSE
