SPECIFICATION FairSpec
CONSTANTS
    Capacity = 1
    Rows = 2
    Word = 4
    Labels <- BootLabels
    MaxReports = 1
    HoldIsLong = FALSE
INVARIANTS
    NoUseAfterFree
    UiBehindSplash
PROPERTIES
    StillAfterLineFade
    SplashGoes
CHECK_DEADLOCK FALSE
