SPECIFICATION Spec
CONSTANTS
    Procs = {p1, p2}
    Writers = {p1}
    Values = {0, 1}
    MaxSeq = 4
INVARIANT NeverTorn
CHECK_DEADLOCK FALSE
