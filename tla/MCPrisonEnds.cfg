SPECIFICATION FairSpec
CONSTANTS
    Stream = {"first", "second"}
    Request <- MCRequest
    Malformed = Malformed
    Junk = Junk
    MaxSent <- MCMaxSent
PROPERTIES
    EveryRequestEnds
CHECK_DEADLOCK FALSE
