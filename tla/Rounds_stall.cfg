CONSTANTS
    N = 4
    F = 1
    Self = 1
    Absent = {4}
    attackSim = FALSE
    Split <- FirstTwo
    MaxVertexRound = 2
    Interval = 1
    MaxBatchSize = 1
    TryCap = 1
    ProposeCap = 1
    MaxRequest = 1
    MaxRound = 3
SPECIFICATION RoundsFairSpec
PROPERTY AdaptiveWaitEnds
CHECK_DEADLOCK FALSE
