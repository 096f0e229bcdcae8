CONSTANTS
    p1 = p1
    Procs <- OneProc
    Limit = 1
    Lease = Lease
    MaxEpoch = 2
    MaxBoots = 2
    MaxTrouble = 1
SPECIFICATION Spec
INVARIANT LostIsGone
CHECK_DEADLOCK FALSE
