SPECIFICATION FairSpec
CONSTANTS
    Producer = {p1, p2}
    Consumer = {c1}
    Value = {v1, v2}
    NoValue = NoValue
    Nil = Nil
    Capacity = 2
    IndexRange = 4
INVARIANTS
    TypeOK
    NoSlotRace
    NoLostWakeup
PROPERTIES
    ImplementsFifo
    CallsReturn
