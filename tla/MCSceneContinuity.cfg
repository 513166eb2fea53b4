SPECIFICATION MCSpec
CONSTANTS
    Hook = {h1, h2}
    Branch = {"session"}
    Anchor = {1, 2}
    Hash = {"old", "new"}
    NoEntry = NoEntry
    Nothing = Nothing
    Unreadable = Unreadable
    MaxEvents = 3
    MaxTouches = 2
    MCGround = {"ABSENT", "old"}
SYMMETRY Hooks
INVARIANTS
    TypeOK
    TamperIsReported
    NoFalseHold
    NoStall
CHECK_DEADLOCK FALSE
