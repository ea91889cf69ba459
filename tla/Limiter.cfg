SPECIFICATION Spec
CONSTANTS
    Threads = {t1, t2}
    Rate = 3
    MaxN = 4
    MaxClock = 7
SYMMETRY Symmetric
INVARIANTS
    TypeOK
    RateKept
