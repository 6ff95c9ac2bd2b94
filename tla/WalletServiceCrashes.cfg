\* credits, debits, transfers, retries and reversals, with crashes; every request ends, so the system stops
CONSTANTS
    Wallet = {1, 2}
    InitBalance <- MCInitBalance
    Req = {1, 2, 3}
    Calls <- MCAllCalls
    Faults = {"crash"}
    SerialRetries = TRUE
SPECIFICATION FairSpec
CHECK_DEADLOCK FALSE
INVARIANTS TypeOK HistoryMatchesBalance LedgerMatchesBalance LegsTogether
PROPERTIES RowsSettle
