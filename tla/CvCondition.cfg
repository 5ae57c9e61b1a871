SPECIFICATION Spec
CONSTANTS
    t1 = t1
    t2 = t2
    t3 = t3
    Thread = {t1, t2, t3}
    NoThread = NoThread
    Address = {a}
    Key = {k}
    NoKey = NoKey
    BasePriority <- ThreeBasePriorities
    Priorities = {}
    TerminatingPriority = 1
    Terminable = {t2}
    Mortal = {t1, t2}
CHECK_DEADLOCK FALSE
INVARIANTS
    LockExclusion
    WaiterKnownToOwner
    BlockedIsReachable
