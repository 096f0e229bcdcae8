CONSTANTS
    chat = chat
    chat2 = chat2
    rcv = rcv
    Runs = {rcv}
    RecoveryRuns = {rcv}
    LeaseSeconds = 2
    TimeoutSeconds = 3
    BatchLimit = 2
    MaxTime = 4
SPECIFICATION FairSpec
INVARIANTS OwnedMeansOpen RecoverySuccessIsCertain
PROPERTIES EveryRunTerminates
CHECK_DEADLOCK FALSE
