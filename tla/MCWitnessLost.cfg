CONSTANTS
    e1 = e1
    e2 = e2
    e3 = e3
    e4 = e4
    Event = {e1, e2}
    Unsafe = {}
    Garbled = {}
    Separated = {}
    Backlog = 2
    NoEvent = NoEvent
SPECIFICATION Spec
INVARIANT NoSilentAction
CHECK_DEADLOCK FALSE
