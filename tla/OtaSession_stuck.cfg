SPECIFICATION FairSpec
CONSTANTS
    Depth = 2
    Chunks = 3
    MaxUploads = 1
PROPERTIES
    FailureReleases
CHECK_DEADLOCK FALSE
