SPECIFICATION Spec
CONSTANTS
    Cams = {head, wrist}
    Master = head
    Modes <- MCModes
    MaxDiff = 1
    MaxBuffered = 2
    QueueSize = 1
    Timeout = 1
    RetryDelay = 1
    MaxAttempts = 1
    MaxLag = 0
    MaxTime = 5
INVARIANTS
    NoPreReconnectFrame
PROPERTIES
    MasterFramesInOrder
    Resumes
CHECK_DEADLOCK FALSE
