CONSTANTS
    n1 = n1  n2 = n2  n3 = n3  n4 = n4
    Node = {n1, n2, n3, n4}
    F = 1
    MaxRound = 6
    Observers = {n1, n2}
    Scenes <- ForkScenes
    Graphs <- SceneGraphs
    Leaders <- SceneLeaders
    attackSim = FALSE
SPECIFICATION MCSpec
INVARIANTS Agreement
CHECK_DEADLOCK FALSE
