SPECIFICATION ServerSpec
CONSTANTS
    MaxPending = 2
    HoldTimeout = 1
    Timeouts <- MCTimeouts
    ModePairs <- MCModePairs
    Leases <- MCLeases
    NoLease <- MCNoLease
    None = None
    Sources = {a, b}
    NoSource = NoSource
    EnforceLease = TRUE
    LeaseTimeout = 1
    CommandTimeout = 1
    MaxSeq = 2
    MaxToken = 1
    Packets <- MCPackets
    MaxAccepted = 3
    MaxTime = 3
SYMMETRY SourceSymmetry
CONSTRAINT ServerBound
INVARIANTS
    AcceptedInSequence
    NoTargetFromBeforeLifecycle
    LifecycleNotLost
    LifecycleInOrderOnce
PROPERTIES
    LeaseOnlyMovesFromHolder
    LeasedTargetNeedsLease
    LifecycleBeforeTarget
