SPECIFICATION Spec
CONSTANTS
    Proc = {p1}
    Checker = {}
    NoOne = NoOne
    Window = 3
    MinWindow = 2
    CancelMargin = 1
    SettleSlack = 2
    ExpiryLag = 1
    HistKeep = 4
    MaxStranger = 1
    StrangerOps = {"commit", "check"}
    CheckUnderLock = TRUE
    Silent = TRUE
    Faults = {"panic","interrupt","write","lost","crash"}
CHECK_DEADLOCK FALSE
INVARIANTS SettledMeansOver
PROPERTIES ExitIsTrue
