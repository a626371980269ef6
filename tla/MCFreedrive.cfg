SPECIFICATION FairSpec
CONSTANTS
    MaxPose = 2
    Capacity = 2
    Faults = {"refused", "ack_lost", "timeout"}
    None = None
INVARIANTS
    HeardTeachingIsUndone
PROPERTIES
    WireQuietWhileTeaching
    
    SessionSettles
