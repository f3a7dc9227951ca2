\* A direct call that is denied for its role.
SPECIFICATION Spec
CONSTANTS
    None = None
    r1 = r1
    r2 = r2
    r3 = r3
    k1 = k1
    Request <- MCPair
    Tool <- MCTool
    Role <- MCRole
    Arg <- MCArg
    Key <- MCKey
    Call <- MCDenied
    RequiredRole <- MCRequiredRole
    GatedCall <- MCGatedCall
    IdemTool <- MCIdemTool
    RideScoped <- MCRideScoped
INVARIANT ToolCallsAreAudited
\* every request ends
CHECK_DEADLOCK FALSE
