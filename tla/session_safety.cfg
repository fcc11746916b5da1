SPECIFICATION FairSpec
CONSTANTS
    MaxEpoch = 3
    Results <- MCResults
    Unsolicited <- MCUnsolicited
    ListErrors <- MCListErrors
    Confirmations <- MCConfirmations
INVARIANTS
    TypeOK
    OneCallInFlight
    CallsHaveTheirData
    WatcherIsCurrent
    
PROPERTIES
    ImplementsDialogue
    LossIsKept
    LossIsHandled
    ClosedIsNoticed
\* The plugin may stop: the dialogue fails, or MaxEpoch is reached.
CHECK_DEADLOCK FALSE
