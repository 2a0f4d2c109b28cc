CONSTANTS
    n1 = 1  n2 = 2  n3 = 3  n4 = 4
    Node = {1, 2, 3, 4}
    F = 1
    MaxRound = 4
    Observers = {1, 2}
    Scenes <- HermitScenes
    Graphs <- SceneGraphs
    Leaders <- SceneLeaders
    Weaks <- SceneWeaks
    Place <- Turned
    attackSim = FALSE
SPECIFICATION MCCommitSpec
INVARIANTS SameOrder
CHECK_DEADLOCK FALSE
