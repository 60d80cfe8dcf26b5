SPECIFICATION Spec
CONSTANTS
    Query = {q1, q2}
    N = 2
    Bootstrapped = 1
    dohFailureThreshold = 2
    InitialBackoff = 1
    MaxBackoff = 2
    StepCap = 2
    RequestBudget = 5
    ClientTimeout = 3
    MaxFaults = 5
INVARIANTS
    ShownIsCurrent
