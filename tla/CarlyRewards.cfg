SPECIFICATION Spec
CONSTANTS
    DailyXpSoftCap = 10
    DailyXpHardCap = 25
    DailyCreditSoftCap = 30
    DailyCreditHardCap = 45
    Jobs <- TaskJobs
    Subtasks = {0}
    Collaborators = {0, 1}
    Foods = {"berry"}
    Cares = {"feed"}
    Instants <- NextDays
    MaxTimes = 1
    MaxCalls = 2
INVARIANTS
    LedgerBalances
    DailyCapsHold
    RewardedOnce
    FocusIsSpentOnce
CHECK_DEADLOCK FALSE
