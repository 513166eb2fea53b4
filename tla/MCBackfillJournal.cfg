CONSTANTS
    k1 = k1
    k2 = k2
    k3 = k3
    s1 = s1
    s2 = s2
    f1 = f1
    f2 = f2
    c1 = c1
    c2 = c2
    Call = {k1, k2, k3}
    Cid <- MCCid
    Session = {s1, s2}
    File = {f2}
    Content = {c1, c2}
    Absent = Absent
    Oversize = {c2}
    NotListed = NotListed
    NoPreimage = NoPreimage
    NoCall = NoCall
    NoManifest = NoManifest
SYMMETRY MCSymmetry
SPECIFICATION Spec
INVARIANTS GroundIsJournalled RetakenInOrder
CHECK_DEADLOCK FALSE
