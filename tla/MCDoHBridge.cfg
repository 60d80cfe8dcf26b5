SPECIFICATION FairSpec
CONSTANTS
    Query = {q1, q2}
    N = 3
    Bootstrapped = 1
    dohFailureThreshold = 2
    InitialBackoff = 1
    MaxBackoff = 2
    StepCap = 2
    RequestBudget = 2
    ClientTimeout = 1
    MaxFaults = 3
INVARIANTS
    TypeOK
    UpstreamsCoherent
    EveryProbeReports
    PreferenceRespected
    OneHangLeavesTime
PROPERTIES
    ImplementsBreaker
    PreferredRecovers
