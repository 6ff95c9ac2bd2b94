\* withMultiLock when transactions end within 2.5 s of the last key (one tick = 2.5 s); no symmetry, for liveness
CONSTANTS
    Wallet <- MCWallet
    Ops <- MCMixedOps
    InitBalance <- MCInitBalance
    p1 = p1
    p2 = p2
    p3 = p3
    Proc = {p1, p2}
    Free = Free
    LockTTL = 4
    RetryWindow = 2
    TxLimit = 1
SPECIFICATION FairSpec
INVARIANTS NoCircularWait
PROPERTIES RefinesAtomicWallet RequestEnds
