SPECIFICATION LiveSpec
CONSTANTS
    Client = {c1, c2}
    Secret = {s1}
    NoSecret = NoSecret
    MaxGets = 1
    Sem = 1
    Idle = 2
    Max = 3
    Slack = 1
    MaxNow = 4
    MaxGen = 4
    MaxReq = 2
    MaxBack = 0
CHECK_DEADLOCK FALSE
PROPERTIES ExpiredIsForgotten CallsReturn
