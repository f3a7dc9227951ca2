\* A question about refunds, then a yes.
SPECIFICATION Spec
CONSTANTS
    None = None
    MaxTurns = 2
    Ride <- MCRide
    DefaultRide <- MCDefaultRide
    ClientKey <- MCKeys
    Settings <- MCShort
INVARIANT ActAfterVerify
\* the session ends after its last message
CHECK_DEADLOCK FALSE
