SPECIFICATION Spec
CONSTANTS
    None = None
    Unreviewed = Unreviewed
    t1 = t1
    t2 = t2
    p1 = p1
    p2 = p2
    o1 = o1
    o2 = o2
SYMMETRY Symmetry
INVARIANT WarmIsolateCatchesUp
CHECK_DEADLOCK FALSE
