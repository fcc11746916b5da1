SPECIFICATION Spec
CONSTANTS
    MaxEpoch = 2
    Results <- FewResults
    Unsolicited <- FewUnsolicited
    ListErrors <- MCListErrors
    Confirmations <- FewConfirmations
PROPERTY LossReachesTheWatcher
CHECK_DEADLOCK FALSE
