SPECIFICATION FairTimerSpec
CONSTANTS
    Callback = Callback
    Looping = Looping
    EventType = {Callback, Looping}
    NoType = NoType
    MaxTime = 2
    Period = 1
    Task = {t1, t2}
    MaxSleeps = 2
INVARIANTS
    EarliestProgrammed
    UnscheduledStaysQuiet
    RescheduledEventIsQueued
PROPERTIES
    SleepEnds
    SyncPauseReturns
CHECK_DEADLOCK FALSE
