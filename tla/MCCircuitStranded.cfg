SPECIFICATION FairSpec
CONSTANTS
    Query = {q1, q2}
    Expiring = {q1}
    FailureThreshold = 2
    Attempts = 2
    InitialBackoff = 1
    MaxBackoff = 2
    StepCap = 2
    MaxFaults = 4
PROPERTIES
    Recovers
