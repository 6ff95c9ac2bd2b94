\* no webhook arrives, each sweep takes one deposit, and the API may die while a checkout is made
CONSTANTS
    c1 = c1
    c2 = c2
    s1 = s1
    s2 = s2
    Deposits = 2
    Caller = {}
    Sweep = {s1}
    BATCH = 1
    Crashes = TRUE
SPECIFICATION FairSpec
PROPERTIES PaidIsCredited DepositEnds
