SPECIFICATION Spec
CONSTANTS
    Kinds = {"data", "rst", "table"}
    Values = {v1, v2, v3}
    Default = v1
    Torn = Torn
    Blank = Blank
    MaxCrash = 3
    MaxFail = 1
    MaxChange = 3
INVARIANTS
    Recoverable
PROPERTIES
    ChangeSaved
    CopiesRepaired
CHECK_DEADLOCK FALSE
