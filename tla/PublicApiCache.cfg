SPECIFICATION FairSpec
CONSTANTS
    t1 = t1  t2 = t2
    r1 = r1
    w1 = w1
    NoEntry = NoEntry
    Type <- TwoTypes
    Query <- Lists
    Refers <- FirstToSecond
    Reader <- OneReader
    Writer <- OneWriter
    MaxWrites = 2
    MaxPending = 2
    Overlap = TRUE
    AdminWrites = TRUE
    ForeignDeletes = TRUE
    MayAbort = TRUE
INVARIANTS
    TypeOK
    StaleHasCause
PROPERTY
    EventuallyCurrent
