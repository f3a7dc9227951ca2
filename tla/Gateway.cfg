\* A WebSocket and a request; clients leave, the server restarts.
SPECIFICATION FairSpec
CONSTANTS
    Conn <- MCConn
    WebSocket <- MCWebSocket
    MaxMessages = 3
    MaxTools = 1
INVARIANTS
    TypeOK
    FramesInOrder
PROPERTIES
    ImplementsChatService
    TakenIsAnswered
\* a connection ends
CHECK_DEADLOCK FALSE
