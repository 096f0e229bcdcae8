CONSTANTS
    p1 = p1
    Procs <- OneProc
    Limit = 1
    Lease = Lease
    MaxEpoch = 2
    MaxBoots = 2
    MaxTrouble = 1
SPECIFICATION FairSpec
INVARIANTS TypeOK PermitsBalance
PROPERTIES OutcomeStands LeftoversGo EveryCommandStops
CHECK_DEADLOCK FALSE
