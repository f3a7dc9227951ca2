\* Small limits that can both be met, faults, a message delivered twice.
SPECIFICATION FairSpec
CONSTANTS
    MaxSteps = 2
    MaxToolCalls = 2
    MaxBatch = 2
    Asked <- MCAsked
    MaxSends = 2
    Kind <- MCKind
    Faults <- MCAllFaults
INVARIANTS
    TypeOK
    AnswersAreGrounded
    HandoffsAreReal
    HumansAreReached
    EmergenciesAreHandled
PROPERTY TurnEnds
\* the client stops after MaxSends deliveries
CHECK_DEADLOCK FALSE
