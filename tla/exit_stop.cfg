SPECIFICATION Spec
CONSTANTS
    Orders = {o1, o2, o3}
    None = None
    Seqs <- MCSeqs
    Level <- MCLevel
    MaxFaults = 2
    Configs <- MCConfigs
INVARIANTS
    TypeOK
    NeverSoldTwice
    BookAndVenueAgree
SYMMETRY MCOrderSymmetry
CHECK_DEADLOCK FALSE
