CONSTANTS
    e1 = e1
    e2 = e2
    e3 = e3
    e4 = e4
    Event = {e1, e2, e3, e4}
    Unsafe = {e4}
    Garbled = {e3}
    Separated = {e2}
    Backlog = 2
    NoEvent = NoEvent
SPECIFICATION FairSpec
INVARIANT ChainHolds
PROPERTIES LogSpec SentIsAnswered
CHECK_DEADLOCK FALSE
