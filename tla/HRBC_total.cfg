CONSTANTS
    n1 = n1  n2 = n2  n3 = n3  n4 = n4
    Node = {n1, n2, n3, n4}
    Sender = n1
    F = 1
    Byz = {}
    Absent = {}
    SyncNodes = {}
    Successors = {}
    Executors = {}
    SliceNum = 1
    MaxCrash = 1
SPECIFICATION CrashedSenderSpec
PROPERTY Totality
CHECK_DEADLOCK FALSE
