\* See the README, "The runs".
CONSTANTS
    a = a
    b = b
    d = d
    Names = {a, b, d}
    NameOrder <- ThreeNames
    Cmds = {s1}
    Ranges <- Another
    Legacy <- LegacyR
    Default <- DefaultR
    MinSize = 2
    StartLegacy = TRUE
    ReuseNames = FALSE
    RangeAlone = TRUE
    MaxPeople = 2
    MaxChanges = 1
    MaxRenames = 2
    MaxAssigns = 0
    MaxRanges = 1
    LocalUID = 22
    AllowMismatch = TRUE
SYMMETRY Symmetry
SPECIFICATION HSpec
CHECK_DEADLOCK FALSE
INVARIANTS NumberIsTheLink
PROPERTIES NoHandover UsersKeepAccounts LocalUntouched
