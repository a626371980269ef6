SPECIFICATION FairSpec
CONSTANTS
    None = None
    MaxEvents = 5
    MaxInFlight = 1
INVARIANTS
    LeaseReturned
PROPERTIES
    StaleTokenDropped
    MotionGetsThrough
CHECK_DEADLOCK FALSE
