SPECIFICATION PresenceFairSpec
CONSTANTS
    Eggs = {"rainbow"}
    MaxCalls = 2
    MaxFaces = 2
PROPERTIES
    CueEndsUnlessRaced
CHECK_DEADLOCK FALSE
