SPECIFICATION Spec
CONSTANTS
    Capacity = 2
    Rows = 2
    Word = 8
    Labels <- BootLabels
    MaxReports = 0
    HoldIsLong = TRUE
PROPERTY
    UpdatesNeverOverlap
CHECK_DEADLOCK FALSE
