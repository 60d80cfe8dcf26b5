SPECIFICATION FairSpec
CONSTANTS
    Dial = {d1, d2, d3}
    dialAddressTTL = 2
    MaxRebuilds = 2
    MaxFaults = 2
INVARIANTS
    TypeOK
PROPERTIES
    ExpiryConverges
    FailureConverges
