CONSTANTS
    n1 = n1  n2 = n2  n3 = n3  n4 = n4
    Node = {n1, n2, n3, n4}
    Sender = n1
    F = 1
    Byz = {}
    Absent = {n4}
    SyncNodes = {}
    Successors = {n2}
    Executors = {n3}
    SliceNum = 1
    MaxCrash = 1
SPECIFICATION FairSpec
PROPERTY Validity
CHECK_DEADLOCK FALSE
