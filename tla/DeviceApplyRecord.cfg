SPECIFICATION Spec
CONSTANTS
    Proc = {p1, p2}
    Checker = {}
    NoOne = NoOne
    Window = 3
    MinWindow = 2
    CancelMargin = 1
    SettleSlack = 1
    ExpiryLag = 0
    HistKeep = 4
    MaxStranger = 0
    StrangerOps = {}
    CheckUnderLock = TRUE
    Silent = FALSE
    Faults = {}
CHECK_DEADLOCK FALSE
INVARIANT RecordSaysPending
