CONSTANTS
    N = 4
    F = 1
    Self = 1
    Absent = {}
    attackSim = FALSE
    Split <- FirstTwo
    MaxVertexRound = 2
    Interval = 1
    MaxBatchSize = 1
    TryCap = 1
    ProposeCap = 1
    MaxRequest = 1
    MaxRound = 3
SPECIFICATION RoundsSpec
INVARIANTS RoundsTypeOK ConnectionsQuorum OwnNotForgotten WeaksPointBack
PROPERTIES RoundsOnlyRise
CHECK_DEADLOCK FALSE
