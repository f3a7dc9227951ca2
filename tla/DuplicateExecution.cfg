\* Two attempts with the same key, the second before the first is answered.
SPECIFICATION Spec
CONSTANTS
    None = None
    r1 = r1
    r2 = r2
    r3 = r3
    k1 = k1
    Request <- MCPair
    Tool <- MCTool
    Role <- MCRole
    Arg <- MCArg
    Key <- MCKey
    Call <- MCRetry
    RequiredRole <- MCRequiredRole
    GatedCall <- MCGatedCall
    IdemTool <- MCIdemTool
    RideScoped <- MCRideScoped
INVARIANT NoDuplicateExecution
\* every request ends
CHECK_DEADLOCK FALSE
