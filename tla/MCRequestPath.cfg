SPECIFICATION Spec
CONSTANTS
    anyone = anyone
    viaProxy = viaProxy
    Query <- MCQuery
    Asks <- MCAsks
    Leaving = {anyone}
    Attempts = 2
    AttemptTime = 2
    Threshold = 5
    QueryTimeout = 12
    LevelCap = 2
    Delays <- MCDelays
INVARIANTS
    TypeOK
    NoPlaintextAnswer
    RoutedByPolicy
    OnlyEncryptedIsVital
    CountsTellReply
PROPERTIES
    ProbeLostOnlyIfSlowOrGone
