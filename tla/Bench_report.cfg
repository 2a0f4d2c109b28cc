CONSTANTS
    Interval = 2
    MaxBatchSize = 3
    TryCap = 1
    ProposeCap = 1
    MaxRequest = 2
    MaxRound = 4
    Self = 1
    Others = {2}
    Reported = {0, 2}
    MaxReport = 2
SPECIFICATION MCBenchSpec
INVARIANTS ProposerTypeOK RoundsInOrder Accounting NothingLost WaitNeedsLag  NeverOvercounts AloneIsCounted
PROPERTY ReportComes
CHECK_DEADLOCK FALSE
