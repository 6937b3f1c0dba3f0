SPECIFICATION Spec
CONSTANTS
    None = None
    t1 = t1
    t2 = t2
    n1 = n1
    n2 = n2
    j1 = j1
SYMMETRY Symmetry
INVARIANTS
    OfflineWorkSafe
    SellingSafe
    BuyingSafe
PROPERTIES
    PageSteps
CHECK_DEADLOCK FALSE
