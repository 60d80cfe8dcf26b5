SPECIFICATION Spec
CONSTANTS
    Rule = {r1, r2}
    Absent = Absent
    Nothing = Nothing
    Default <- ProxyDefault
    maxRuleFileBytes = 6
    MaxEdits = 2
    MaxStops = 0
    MaxIOErrors = 0
SYMMETRY RuleSymmetry
INVARIANTS
    SavedIsPolicy
CHECK_DEADLOCK FALSE
