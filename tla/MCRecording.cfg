SPECIFICATION FairRecordingSpec
CONSTANTS
    Nothing = Nothing
    wrist = wrist
    scene = scene
    ExpectedCameras <- MCCameras
    Shapes = {s1, s2}
    MaxRows = 2
    MaxTakes = 2
    MaxInbox = 2
    MaxEvents = 3
INVARIANTS
    ImagesContiguous
PROPERTIES
    NeverOverwrites
    LossIsReported
    RecordingEnds
