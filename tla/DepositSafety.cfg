\* two deposits, a callback and two overlapping sweeps, crashes, and customers who pay whenever they like
CONSTANTS
    c1 = c1
    c2 = c2
    s1 = s1
    s2 = s2
    Deposits = 2
    Caller = {c1}
    Sweep = {s1, s2}
    BATCH = 2
    Crashes = TRUE
SPECIFICATION Spec
SYMMETRY Symmetry
INVARIANTS CreditedExactlyOnce PaidNeverWrittenOff
PROPERTIES OutcomeFinal
