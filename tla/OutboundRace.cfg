CONSTANTS
    w1 = w1
    w2 = w2
    NumRuns = 1
    MaxRows = 2
    Proactive <- FirstRun
    Malformed <- NoRun
    Workers <- TwoWorkers
    LeaseSeconds = 1
    MaxAttempts = 2
    Deadline = 2
    RetryDelays <- OneDelay
    SettleTries = 2
    MaxTime = 3
    MaxFaults = 2
SYMMETRY WorkerSymmetry
SPECIFICATION Spec
INVARIANTS
    TypeOK
    CopiesMatchStatus
    PlainSuccessIsOneCopy
    RunMirrorsLeaf
    SourceMirrorsRun
PROPERTIES
    FinalIsFinal
    ClearStopsSends
