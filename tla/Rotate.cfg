\* See the README, "The runs".
CONSTANTS
    Accounts = {a, b, d}
    Initial = a
    Keys = {k}
    Password = Password
    Cmds = {c1, c2}
    NoOne = NoOne
    MaxRuns = 3
    MaxFaults = 3
SYMMETRY Symmetry
CONSTRAINT Promised
SPECIFICATION Spec
CHECK_DEADLOCK FALSE
INVARIANTS NeverLockedOut GrantsAreAccounted
PROPERTIES SaysWhatIsLeft
