SPECIFICATION FairSpec
CONSTANTS
    Query = {q1, q2, q3}
    Expiring = {q1}
    FailureThreshold = 2
    Attempts = 2
    InitialBackoff = 3
    MaxBackoff = 5
    StepCap = 2
    MaxFaults = 4
INVARIANTS
    TypeOK
    CircuitCoherent
    WorkersAccounted
    ResponseMatchesVerdict
PROPERTIES
    ProbeLostOnlyByContext
    ImplementsBreaker
    RecoversUnlessStranded
