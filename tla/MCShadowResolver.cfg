SPECIFICATION Spec
CONSTANTS
    BarMinutes = 2
    Signal = 1
    EntryBars = 1
    HorizonBars = 2
    LastBar = 2
    Ranges <- MinuteRanges
CHECK_DEADLOCK FALSE
INVARIANTS
    CompleteWindowResolves
