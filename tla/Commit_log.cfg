CONSTANTS
    n1 = 1  n2 = 2  n3 = 3  n4 = 4
    Node = {1, 2, 3, 4}
    F = 1
    MaxRound = 6
    Observers = {1, 2}
    Scenes <- LogScenes
    Graphs <- SceneGraphs
    Leaders <- SceneLeaders
    Weaks <- SceneWeaks
    Place <- Turned
    attackSim = FALSE
SPECIFICATION MCCommitSpec
INVARIANTS CommitTypeOK PayloadKept ClearCommitsAgree
PROPERTIES ExecutedOnce OneLog
CHECK_DEADLOCK FALSE
