\* Five requests over three windows; what follows INCR may fail.
SPECIFICATION Spec
CONSTANTS
    q1 = q1
    q2 = q2
    q3 = q3
    q4 = q4
    q5 = q5
    Request <- MCRequest
    Limit = 2
    Window = 2
    MaxTime = 5
SYMMETRY Symmetry
INVARIANTS
    TypeOK
    WindowCloses
    WindowsAreLimited
\* the requests and the clock end
CHECK_DEADLOCK FALSE
