\* An emergency message is delivered again.
SPECIFICATION Spec
CONSTANTS
    MaxSteps = 8
    MaxToolCalls = 5
    MaxBatch = 1
    Asked <- MCAsked
    MaxSends = 2
    Kind <- MCEmergency
    Faults <- MCNoFaults
INVARIANT IncidentOnce
\* the client stops after MaxSends deliveries
CHECK_DEADLOCK FALSE
