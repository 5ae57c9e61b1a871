SPECIFICATION FairSpec
CONSTANTS
    Thread = {t1, t2}
    Compositor = t1
    Capacity = 2
    Modes = {TRUE, FALSE}
    MaxCommands = 4
    Nil = Nil
CHECK_DEADLOCK FALSE
INVARIANTS
    RequestsLookedAfter
    CallerWaitsForCommand
PROPERTY
    OperationsReturn
