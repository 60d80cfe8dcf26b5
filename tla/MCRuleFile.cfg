SPECIFICATION FairSpec
CONSTANTS
    Rule = {r1, r2}
    Absent = Absent
    Nothing = Nothing
    Default <- DirectDefault
    maxRuleFileBytes = 4
    MaxEdits = 2
    MaxStops = 1
    MaxIOErrors = 1
INVARIANTS
    TypeOK
    FileIsPolicy
    UnracedSaveIsPolicy
PROPERTIES
    PolicyNotLost
    Settles
CHECK_DEADLOCK FALSE
