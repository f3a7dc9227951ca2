\* Long conversations turn by turn, turns that overlap, escalations that overlap.
SPECIFICATION Spec
CONSTANTS
    None = None
    MaxJobs = 7
    Settings <- MCSettings
INVARIANTS
    TypeOK
    SessionAgreesWithQueue
    HandoffsHaveContext
    MemoryHasNoHoles
PROPERTY JobsEnd
\* the session ends after its last job
CHECK_DEADLOCK FALSE
