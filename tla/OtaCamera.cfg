SPECIFICATION CamFairSpec
CONSTANTS
    Depth = 2
    Chunks = 2
    MaxUploads = 3
    MaxDrops = 1
INVARIANTS
    UpdateShownAndHeld
    CameraStopsForUpload
    CameraShown
PROPERTIES
    FailureReleasesUnlessDropped
    StopIsFinal
CHECK_DEADLOCK FALSE
