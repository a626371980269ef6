SPECIFICATION FairSpec
CONSTANTS
    None = None
    Full = 4
    Stop = 3
    ArmBelow = 2
    Hysteresis = 1
    MinOpening = 0
    Squeeze = 1
    Sustain = 3
    Creep = 1
    StaleTimeout = 2
    MinPeriod = 2
    Deadband = 1
    MaxDt = 2
    Readings = {0, 2, None}
    MaxEvents = 3
INVARIANTS
    GripIsSustained
PROPERTIES
    OnlyCommandOpens
    DriveReachesMotor
