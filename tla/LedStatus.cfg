SPECIFICATION Spec
CONSTANTS
    Eggs = {"rainbow", "sparkle"}
    MaxCalls = 3
INVARIANTS
    SettledShowsState
    
PROPERTIES
    PriorityKept
CHECK_DEADLOCK FALSE
