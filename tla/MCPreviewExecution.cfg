SPECIFICATION Spec
CONSTANTS
    SpliceLead = 3
    ReplanPeriod = 1
    MaxAge = 5
    Horizon = 4
    Slots = 2
    MaxBrake = 2
    MaxGap = 1
    Setups <- MCSetups
    Inputs <- MCInputs
    None = None
    MaxTime = 8
    MaxFrames = 1
    MaxEpoch = 2
    MaxFolds = 1
CONSTRAINT Bound
CHECK_DEADLOCK FALSE
INVARIANTS
    StopIsBounded
PROPERTIES
    SpliceIsContinuous
