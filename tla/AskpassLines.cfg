SPECIFICATION Spec
CONSTANTS
    Client = {c1, c2}
    Secret = {s1}
    NoSecret = NoSecret
    MaxGets = 1
    Sem = 2
    Idle = 1
    Max = 2
    Slack = 1
    MaxNow = 3
    MaxGen = 5
    MaxReq = 3
    MaxBack = 1
CHECK_DEADLOCK FALSE
SYMMETRY Symmetry
INVARIANTS GetsPerLine PageIsClean NoticesAgree
PROPERTIES GrantedToTheRunningLine
