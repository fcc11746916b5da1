SPECIFICATION HealthySpec
CONSTANTS
    MaxEpoch = 2
    Results <- OnlyOK
    Unsolicited <- FewUnsolicited
    ListErrors <- MCListErrors
    Confirmations <- FewConfirmations
PROPERTY ReconnectLogsIn
CHECK_DEADLOCK FALSE
