CONSTANTS
    c1 = c1
    c2 = c2
    i1 = i1
    i2 = i2
    s1 = s1
    f1 = f1
    d1 = d1
    d2 = d2
    o1 = o1
    o2 = o2
    Call <- MCCall
    Cid <- MCCid
    Session <- MCSession
    File <- MCFile
    Data <- MCData
    Object <- MCObject
    Absent = absent
    NoState = nostate
    Torn = torn
    NoAutopsy = noautopsy
    Workload <- MCWorkload
SPECIFICATION Spec
INVARIANTS TypeOK CourtsAreStrongest AllowedIsClear AllowedIsOnRecord DeleteIsNoted
PROPERTY AutopsyIsOfItsCall
CHECK_DEADLOCK FALSE
