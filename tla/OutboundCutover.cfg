CONSTANTS
    o1 = o1
    o2 = o2
    p1 = p1
    p2 = p2
    s1 = s1
    Processes <- OneProcess
    ProcessOf <- SameProcess
    Nobody = Nobody
    Gone = Gone
    Drain = Drain
    Occs <- TwoOccs
    Producers <- TwoProducers
    Slot <- LateSlot
    Manual <- FirstOcc
    Prepared <- SecondOcc
    Malformed <- FirstOcc
    Grace = 1
    MaxTime = 2
    MaxEpoch = 2
SPECIFICATION FairSpec
INVARIANTS TypeOK LaneIsCurrent EpochsInOrder
PROPERTIES ImplementsLifecycle DrainEnds
CHECK_DEADLOCK FALSE
