\* Operations on two articles: three in any order one after the other, and four
\* that overlap, two at a time; embeddings fail.
SPECIFICATION FairSpec
CONSTANTS
    Nobody = Nobody
    a1 = a1
    a2 = a2
    o1 = o1
    o2 = o2
    o3 = o3
    o4 = o4
    Article <- MCTwo
    Op <- MCFour
    Content <- MCText
    Blank <- MCBlank
    Settings <- MCSettings
INVARIANTS
    TypeOK
    OneIndex
    ApprovedOnce
    DeadlocksSpareOne
PROPERTIES
    IngestReplaces
    StaysIndexed
    OpsEnd
\* the operations end
CHECK_DEADLOCK FALSE
