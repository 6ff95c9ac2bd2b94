\* every failure at every awaited call
CONSTANTS
    Wallet = {1, 2}
    InitBalance <- MCInitBalance
    Req = {1, 2, 3}
    Calls <- MCReverseCalls
    Faults = {"redis", "db", "crash"}
    SerialRetries = FALSE
SPECIFICATION Spec
CHECK_DEADLOCK FALSE
INVARIANTS LedgerMatchesBalance ReversedApart KeyMovesOnce
