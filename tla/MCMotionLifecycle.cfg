SPECIFICATION LifecycleSpec
CONSTANTS
    Commands <- MCCommands
    Configs <- MCConfigs
    BrakeTicks = 2
    BoxTicks = 2
INVARIANTS
    LatchedIsNotArmed
PROPERTIES
    EmergencyIsSilent
    ImplementsServoLatch
