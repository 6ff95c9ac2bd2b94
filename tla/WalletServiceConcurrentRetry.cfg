\* a client repeats a call before the first one is answered
CONSTANTS
    Wallet = {1, 2}
    InitBalance <- MCInitBalance
    Req = {1, 2, 3}
    Calls <- MCMoveCalls
    Faults = {}
    SerialRetries = FALSE
SPECIFICATION Spec
CHECK_DEADLOCK FALSE
INVARIANT IdempotentOnce
