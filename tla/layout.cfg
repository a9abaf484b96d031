SPECIFICATION Spec
CONSTANTS
    Owners = {o1, o2, o3}
    MaxChildren = 2
    MaxReports = 2
SYMMETRY Symmetry
INVARIANTS
    TypeOK
    Contiguous
    AnchorOnScreen
    NothingBelowAnchor
CHECK_DEADLOCK FALSE
