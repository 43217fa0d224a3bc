SPECIFICATION ScanSpec
CONSTANTS
    Scans = {s1, s2}
    Callbacks = {k1, k2, k3}
    Users = {u1}
SYMMETRY MCSymmetry
INVARIANTS ScanInv CriticalNotifiedOnce SummaryIsComplete
CHECK_DEADLOCK FALSE
