SPECIFICATION Spec
CONSTANTS
    Incrementer = {g1}
    Client = {c1}
    Slot = {0}
    None = None
    MaxValue = 2
    Modulus = 16
    FailLimit = 0
    InterfaceManaged = FALSE
CHECK_DEADLOCK FALSE
INVARIANT
    FreeSlotIsIdle
