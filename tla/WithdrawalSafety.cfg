\* one withdrawal and two checks at once; it may end with every call over
CONSTANTS
    w1 = w1
    w2 = w2
    c1 = c1
    c2 = c2
    Request = {w1}
    Checker = {c1, c2}
    Stalls = FALSE
    SuddenReversals = FALSE
SPECIFICATION FairSpec
CHECK_DEADLOCK FALSE
INVARIANTS RefundedExactlyOnce LedgerFollowsStatus NeverRefundedAndPaid
PROPERTIES WithdrawalSettles ReversalIsRefunded
