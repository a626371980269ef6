SPECIFICATION Spec
CONSTANTS
    None = None
    MaxEvents = 3
    Presses = {{"right"}, {"left", "right"}}
    RoiArms = {"left"}
PROPERTIES
    ReleasedWhenReady
    FailedLatchHolds
    
CHECK_DEADLOCK FALSE
