CONSTANTS
    w1 = w1
    w2 = w2
    NumRuns = 2
    MaxRows = 2
    Proactive <- FirstRun
    Malformed <- SecondRun
    Workers <- TwoWorkers
    LeaseSeconds = 1
    MaxAttempts = 1
    Deadline = 1
    RetryDelays <- OneDelay
    SettleTries = 1
    MaxTime = 2
    MaxFaults = 1
SPECIFICATION FairSpec
PROPERTIES
    CircuitStopsSends
    EveryLeafConverges
