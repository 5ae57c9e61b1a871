SPECIFICATION FairSpec
CONSTANTS
    Incrementer = {g1, g2}
    Client = {c1}
    Slot = {0, 1}
    None = None
    MaxValue = 2
    Modulus = 16
    FailLimit = 0
    InterfaceManaged = FALSE
CHECK_DEADLOCK FALSE
INVARIANTS
    NothingOverdue
    WaitingHasAction

    
