SPECIFICATION Spec
CONSTANTS
    None = None
    Horizon = 3
    ExecuteSteps = 2
    Modes = {"fixed_steps", "ready_event", "sequential"}
    MaxDelay = 1
    KeepPending = 2
    MaxEvents = 2
    MaxAttempts = 1
INVARIANTS
    NoStalePlan
    PendingIsBacked
    RowAligned
    RtcPrevIsPlayed
    ResumesAcceptedPlan
    RowsOfThisEpoch
CHECK_DEADLOCK FALSE
