SPECIFICATION Spec
CONSTANTS
    r1 = r1  r2 = r2
    Lang <- FourLangs
    Request <- TwoRequests
    NoLang = 0
    MayAbort = TRUE
SYMMETRY Symmetry
INVARIANTS
    TypeOK
    DefaultsBounded
    DefaultIsActiveInSeries
    SomeActive
