SPECIFICATION Spec
CONSTANTS
    DailyXpSoftCap = 30
    DailyXpHardCap = 60
    DailyCreditSoftCap = 100
    DailyCreditHardCap = 200
    Jobs <- ProjectJobs
    Subtasks = {0}
    Collaborators = {0}
    Foods = {"berry"}
    Cares = {"feed", "play", "sleep"}
    Instants <- NextDays
    MaxTimes = 1
    MaxCalls = 1
INVARIANTS
    TypeOK
    LevelIsExact
    StreakIsEarned
CHECK_DEADLOCK FALSE
