SPECIFICATION FairSpec
CONSTANTS
    Eggs = {"rainbow", "sparkle"}
    MaxCalls = 2
PROPERTIES
    BootFinishes
    TimedEffectEnds
CHECK_DEADLOCK FALSE
