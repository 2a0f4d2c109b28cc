CONSTANTS
    Interval = 1
    MaxBatchSize = 2
    TryCap = 1
    ProposeCap = 1
    MaxRequest = 2
    MaxRound = 2
    Self = 1
    Others = {}
    Reported = {0}
    MaxReport = 2
SPECIFICATION MCBenchSpec
INVARIANT LatencyOfOwnRequests
CHECK_DEADLOCK FALSE
