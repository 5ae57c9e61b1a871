SPECIFICATION Spec
CONSTANTS
    t1 = t1
    t2 = t2
    t3 = t3
    Thread = {t1, t2, t3}
    NoThread = NoThread
    Address = {a, b}
    Key = {}
    NoKey = NoKey
    BasePriority <- ThreeBasePriorities
    Priorities = {6}
    TerminatingPriority = 1
    Terminable = {t3}
    Mortal = {}
CHECK_DEADLOCK FALSE
INVARIANTS
    WaiterKnownToOwner
