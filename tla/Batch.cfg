SPECIFICATION LiveSpec
CONSTANTS
    N = 3
    NoShape = "none"
    Asked <- Calls
    StopOnAuth = TRUE
    MaxSignals = 2
    Cancels = TRUE
CHECK_DEADLOCK FALSE
INVARIANTS AllAccounted CanaryDecides StopsAreKept
PROPERTIES FullPauseBeforeStart RunReturns
