\* two reversals of one transaction at once
CONSTANTS
    Wallet = {1, 2}
    InitBalance <- MCInitBalance
    Req = {1, 2, 3}
    Calls <- MCReverseCalls
    Faults = {}
    SerialRetries = FALSE
SPECIFICATION Spec
CHECK_DEADLOCK FALSE
INVARIANT ReversedOnce
