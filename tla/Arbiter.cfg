SPECIFICATION Spec
CONSTANTS
    Thread = {t1, t2, t3}
    Address = {1, 2}
    Priority = {1, 2}
    Half = 2
    Values <- EdgeValues
    Counts = {0, 1, 2}
    Guests = {"any", "futex"}
    Nil = Nil
SYMMETRY Symmetry
INVARIANTS
    TreeMatchesWaiters
    NoLostWakeup
PROPERTIES
    SignalsAsPromised

