SPECIFICATION Spec
CONSTANTS
    MaxPose = 1
    Capacity = 4
    Faults = {"ack_lost"}
    None = None
INVARIANT NeverSilentlyHandGuidable
