SPECIFICATION FairSpec
CONSTANTS
    MaxRequests = 2
    Listeners = {"main_tcp", "secure_udp"}
    Window = 1
    MaxGen = 2
CHECK_DEADLOCK FALSE
INVARIANTS
    TypeOK
    SuppressedOnlyIfReported
PROPERTIES
    FailureReported
