CONSTANTS
    k1 = k1
    k2 = k2
    k3 = k3
    s1 = s1
    s2 = s2
    f1 = f1
    f2 = f2
    c1 = c1
    c2 = c2
    Call = {k1, k2, k3}
    Cid <- MCCid
    Session = {s1}
    File = {f1}
    Content = {c1, c2}
    Absent = Absent
    Oversize = {}
    NotListed = NotListed
    NoPreimage = NoPreimage
    NoCall = NoCall
    NoManifest = NoManifest
SPECIFICATION Spec
INVARIANT GroundRetaken
CHECK_DEADLOCK FALSE
