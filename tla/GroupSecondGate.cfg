CONSTANTS
    m1 = m1
    m2 = m2
    c1 = c1
    c2 = c2
    Msgs <- TwoMsgs
    Direct <- FirstMsg
    Named <- FirstMsg
    Other <- SecondMsg
    Calls <- TwoCalls
    Thresholds <- OneOrTwo
    MaxPending = 2
    LingerMax = 2
    MaxSpoken = 1
    Commands = 1
    MaxFaults = 1
    NoMsg = NoMsg
SYMMETRY CallSymmetry
SPECIFICATION Spec
INVARIANTS OneGate
CHECK_DEADLOCK FALSE
