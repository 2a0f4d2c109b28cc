CONSTANTS
    n1 = n1  n2 = n2  n3 = n3  n4 = n4
    Node = {n1, n2, n3, n4}
    Sender = n1
    F = 1
    Byz = {}
    Absent = {}
    SyncNodes = {n1}
    Successors = {n1}
    Executors = {n1}
    SliceNum = 2
    MaxCrash = 1
SPECIFICATION Spec
CONSTRAINT OneDown
INVARIANTS TypeOK CertQuorum WeakCertSound ValRetained CertAvailable
PROPERTY OneBroadcast
CHECK_DEADLOCK FALSE
SYMMETRY NodeSymmetry
