SPECIFICATION Spec
CONSTANTS
    r1 = r1  r2 = r2  r3 = r3
    NoCode = NoCode
    CodeId <- TwoIds
    Request <- ThreeRequests
    MaxAttempts = 2
    MayAbort = TRUE
SYMMETRY Symmetry
INVARIANTS
    TypeOK
    AttemptsBounded
    LoginsBounded
    AttemptsLimited
    AtMostOneUnused
    RejectedForCauseInSeries
    OnlyUsedCodesSignIn
CHECK_DEADLOCK FALSE
