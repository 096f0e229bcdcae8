CONSTANTS
    chat = chat
    chat2 = chat2
    rcv = rcv
    Runs = {chat, chat2}
    RecoveryRuns = {}
    LeaseSeconds = 2
    TimeoutSeconds = 1
    BatchLimit = 2
    MaxTime = 2
SPECIFICATION Spec
CONSTRAINT SecondOwnerHangs
INVARIANTS TerminalAgreement
CHECK_DEADLOCK FALSE
