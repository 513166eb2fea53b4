CONSTANTS
    pin = pin
    pout = pout
    a1 = a1
    none = none
    Path <- MCPath
    Outside <- MCOutside
    Protected <- MCEmpty
    RegistryPath <- MCEmpty
    LedgerPath <- MCEmpty
    Unscoped <- MCEmpty
    Surface <- MCEmpty
    Actor <- MCActor
    NoActor <- MCNoActor
    SoftThreshold = 2
    Hook = {h1, h2}
    Branch = {b1, b2}
    Proposal <- MCFewProposals
    Unreadable = Unreadable
    MaxEvents = 3
SPECIFICATION MCParallelSpec
INVARIANTS RememberedExit
