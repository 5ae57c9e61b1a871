SPECIFICATION FairSpec
CONSTANTS
    Thread = {t1, t2, t3}
    Resource = {r}
    Amount = {2}
    Limit = {2, 4}
    MaxInt = 4
    Terminable = {t1}
    MaxLosses = 1
    None = None
CHECK_DEADLOCK FALSE
INVARIANT
    AccountsMatch
PROPERTIES
    NobodySleepsThroughRelease
    LockIsReleased
