\* The safety of the router: every kind of call, three concurrent requests.
SPECIFICATION Spec
CONSTANTS
    None = None
    r1 = r1
    r2 = r2
    r3 = r3
    k1 = k1
    Request <- MCRequest
    Tool <- MCTool
    Role <- MCRole
    Arg <- MCArg
    Key <- MCKey
    Call <- MCCall
    RequiredRole <- MCRequiredRole
    GatedCall <- MCGatedCall
    IdemTool <- MCIdemTool
    RideScoped <- MCRideScoped
SYMMETRY Symmetry
INVARIANTS
    TypeOK
    Gated
    AnswersAreReal
    RetryIsReplayed
    HistoryIsTruthful
PROPERTY ImplementsService
\* every request ends
CHECK_DEADLOCK FALSE
