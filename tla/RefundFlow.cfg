\* Long conversations turn by turn, short ones whose turns overlap and fail,
\* and short ones in which the LLM requests refunds as well, with and without
\* keys of the client.
SPECIFICATION Spec
CONSTANTS
    None = None
    MaxTurns = 5
    Ride <- MCRide
    DefaultRide <- MCDefaultRide
    ClientKey <- MCKeys
    Settings <- MCSettings
INVARIANTS
    TypeOK
    SubmissionsWerePrompted
    SuccessIsReal
    AnsweredKeyHolds
    RefundedOnce
\* the session ends after its last message
CHECK_DEADLOCK FALSE
