SPECIFICATION FairSpec
CONSTANTS
    Stream = {"first", "second"}
    Request <- MCRequest
    Malformed = Malformed
    Junk = Junk
    MaxSent <- MCMaxSent
INVARIANTS
    TypeOK
    WardenActsOnRecord
PROPERTIES
    MirrorSpec
    SentIsAnswered
CHECK_DEADLOCK FALSE
