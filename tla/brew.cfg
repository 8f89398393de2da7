SPECIFICATION Spec
CONSTANTS
    CycleIds = {1, 2, 3}
    QueueLength = 3
    MaxAnswers = 2
    Configs <- MCConfigs
    RetareWindow = 1
    Protection = 1
    Grace = 1
    MinBrew = 2
    MaxBrew = 3
    GuardLimit = 3
    Drip = 1
    CatchUp = 1
    RetryWindow = 1
    MaxAttempts = 2
INVARIANTS
    DirectStopIsOwn
    LearnsFromWholeShots
    TimerCommandsInOrder
PROPERTIES
    WeightStopIsCurrent
    NoStopUnderProtection
    RecordedOnce
    TimerStopRequested
CHECK_DEADLOCK FALSE
