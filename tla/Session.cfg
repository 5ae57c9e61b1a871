SPECIFICATION FairSpec
CONSTANTS
    Client = {c1, c2}
    Event = {e}
    Server = {s1, s2}
    None = None
INVARIANTS
    AnswersWaiter
    RequestsAreCounted
    SignalNotMissed
PROPERTIES
    RequestsEnd
CHECK_DEADLOCK FALSE
