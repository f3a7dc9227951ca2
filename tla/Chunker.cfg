\* Chunks of three words, the window advances by one only.
SPECIFICATION FairSpec
CONSTANTS
    MaxParagraphs = 4
    MaxWords = 8
    Text <- MCText
    Size = 3
    Overlap = 2
INVARIANTS
    TypeOK
    ChunksFit
    NothingLost
PROPERTY Ends
\* the function returns
CHECK_DEADLOCK FALSE
