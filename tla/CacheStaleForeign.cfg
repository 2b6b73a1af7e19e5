SPECIFICATION Spec
CONSTANTS
    t1 = t1  t2 = t2
    r1 = r1
    w1 = w1
    NoEntry = NoEntry
    Type <- TwoTypes
    Query <- ListsAndItems
    Refers <- NoRelations
    Reader <- OneReader
    Writer <- OneWriter
    MaxWrites = 2
    MaxPending = 1
    Overlap = FALSE
    AdminWrites = FALSE
    ForeignDeletes = TRUE
    MayAbort = FALSE
INVARIANT
    NoStaleAfterWrite
