SPECIFICATION FairSpec
CONSTANTS
    Thread = {t1, t2}
    Object = {o1, o2}
    MaxObjects = 2
    Nil = Nil
INVARIANTS
    NoMissedSignal
    ListsMatchWaiters
PROPERTIES
    SuccessNamesSignaledObject
    TimedWaitEnds
