SPECIFICATION FairSpec
CONSTANTS
    d1 = d1
    d2 = d2
    c1 = c1
    c2 = c2
    Events = {e1, e2}
    Drains = {d1, d2}
    Cases = {c1, c2}
    NoCase = NoCase
    NoEvent = NoEvent
    LeaseTime = 1
    MaxRetries = 2
INVARIANTS
    AnalysedAtMostOnce
    DoneWasAnalysed
    NoForeignAdmission
    OneAnalyser
PROPERTIES
    RowHistoryFinal
    EventuallyResolved
CHECK_DEADLOCK FALSE
