CONSTANTS
    chat = chat
    chat2 = chat2
    rcv = rcv
    Runs = {chat}
    RecoveryRuns = {}
    LeaseSeconds = 1
    TimeoutSeconds = 2
    BatchLimit = 1
    MaxTime = 4
SPECIFICATION Spec
INVARIANTS OwnerReportsUnknownEffect
CHECK_DEADLOCK FALSE
