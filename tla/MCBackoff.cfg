SPECIFICATION Spec
CONSTANTS
    InitialBound = 12
    MaximumBound = 60
    StepBound = 7
INVARIANTS
    DelayIsCappedPower
    JitterWithinFifth
    BothCopiesAgree
CHECK_DEADLOCK FALSE
