\* withLock with the code's proportions: TTL 10 s, 5 s of retries, transactions of at most 7 s (one tick = 2.5 s)
CONSTANTS
    Wallet <- MCWallet
    Ops <- MCSingleOps
    InitBalance <- MCInitBalance
    p1 = p1
    p2 = p2
    p3 = p3
    Proc = {p1, p2, p3}
    Free = Free
    LockTTL = 4
    RetryWindow = 2
    TxLimit = 3
SPECIFICATION Spec
SYMMETRY Symmetry
INVARIANTS StoredMatchesLedger NoDoubleSpend
PROPERTIES ForeignLockKept
