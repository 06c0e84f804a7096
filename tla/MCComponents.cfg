SPECIFICATION Spec
CONSTANTS
    j1 = j1
    x1 = x1
    x2 = x2
    pos = pos
    p1 = p1
    p2 = p2
CHECK_DEADLOCK FALSE
INVARIANTS
    OneLookPerKey
    EvaluatesFrozenRows
    SealedRowsSound
    RecordedBooksAreExact
    CoverageWasAlive
    
    OneRecordPerTrigger
    SignalsExpire
    NoFillIsTrue
    TargetIsEarned
    TrustedIsCurrent
    AcknowledgedStays
    LineageSurvives
    Serialized
    DecisionsStay
PROPERTIES
    SealedIsFinal
    ImplementsAuthority
