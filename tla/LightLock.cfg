SPECIFICATION FairLockSpec
CONSTANTS
    Thread = {t1, t2, t3}
    NoThread = NoThread
    SuspendType = {process, thread}
    Terminable = {t1}
INVARIANTS
    LockTypeOK
    MutualExclusion
    NoForgottenWaiter
PROPERTIES
    ImplementsMutex
    WaitersKeepOwnerRunning
    OwnerMovesOn
