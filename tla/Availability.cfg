SPECIFICATION FairSpec
CONSTANTS
    MaxRetry = 1
    MaxRestarts = 1
    Ids = {1, 2, 3}
    None = None
    MaxOthers = 1
INVARIANTS
    GivesUpOnlyInARow
    SettledMeansOnline
    RetryWillCome
PROPERTIES
    OnlineInTheEnd
    GivenUpMeansOffline
CHECK_DEADLOCK FALSE
