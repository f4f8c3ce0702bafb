SPECIFICATION Spec
CONSTANTS
    Proc = {p1, p2}
    Checker = {p2}
    NoOne = NoOne
    Window = 3
    MinWindow = 2
    CancelMargin = 1
    SettleSlack = 1
    ExpiryLag = 0
    HistKeep = 4
    MaxStranger = 1
    StrangerOps = {"commit", "confirmed", "check"}
    CheckUnderLock = TRUE
    Silent = FALSE
    Faults = {"lost","error","crash","panic"}
CHECK_DEADLOCK FALSE
INVARIANTS OneTransaction OpenRecordSettles
PROPERTIES SettleIsTrue ExitIsTrue EndsOnlyItsOwnWindow OnlyTheReviewedChange PermanentOnlyProven
