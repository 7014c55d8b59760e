SPECIFICATION FairSpec
CONSTANTS
    Day = 2
    Night = 1
INVARIANTS
    ScreenFollowsIdle
    HoldKeepsAwake
    IdleTimerPending
PROPERTIES
    SleepsUntouched
CHECK_DEADLOCK FALSE
