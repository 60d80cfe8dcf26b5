SPECIFICATION FairSpec
CONSTANTS
    Resolver = {unbound}
    mosdns = mosdns
    NoState = NoState
    restartInitial = 2
    restartMaximum = 3
    stableRuntime = 2
    shutdownGrace = 1
    staleAfter = 2
    StepCap = 2
    MaxFaults = 2
    MaxLosses = 2
INVARIANTS
    TypeOK
    HonestHealth
    RestartPaced
    NoOrphans
PROPERTIES
    ShutsDown
    BecomesReady
