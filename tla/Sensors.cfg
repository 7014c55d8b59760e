SPECIFICATION FairSpec
CONSTANTS
    None = None
    MaxDrops = 1
    Threshold = 2
    Values = {v1, v2}
    Frames = {nobody, near, far}
    Nobody = nobody
INVARIANTS
    AvailabilityShown
    EntityConfigured
    EnvStateShown
    RadarStateShown
PROPERTIES
    OnlineShown
CHECK_DEADLOCK FALSE
