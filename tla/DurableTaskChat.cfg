CONSTANTS
    chat = chat
    chat2 = chat2
    rcv = rcv
    Runs = {chat, chat2}
    RecoveryRuns = {}
    LeaseSeconds = 1
    TimeoutSeconds = 2
    BatchLimit = 2
    MaxTime = 3
SPECIFICATION Spec
CONSTRAINT SecondOwnerHangs
INVARIANTS TypeOK LedgerDecides
PROPERTIES OnlyRereadRewrites LedgerIsFinal
CHECK_DEADLOCK FALSE
