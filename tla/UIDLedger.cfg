\* See the README, "The runs".
CONSTANTS
    Names = {a, b}
    Cmds = {s1, s2}
    Ranges <- Another
    Legacy <- LegacyR
    Default <- DefaultR
    MinSize = 2
    StartLegacy = FALSE
    ReuseNames = TRUE
    RangeAlone = FALSE
    MaxPeople = 2
    MaxChanges = 1
    MaxRenames = 1
    MaxAssigns = 1
    MaxRanges = 1
SYMMETRY Symmetry
SPECIFICATION Spec
CHECK_DEADLOCK FALSE
INVARIANTS NumbersUnique NeverReused
