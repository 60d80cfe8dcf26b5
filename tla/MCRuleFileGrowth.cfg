SPECIFICATION Spec
CONSTANTS
    Rule = {r1, r2}
    Absent = Absent
    Nothing = Nothing
    Default <- ProxyDefault
    maxRuleFileBytes = 3
    MaxEdits = 0
    MaxStops = 1
    MaxIOErrors = 0
SYMMETRY RuleSymmetry
INVARIANTS
    SavedIsPolicy
CHECK_DEADLOCK FALSE
