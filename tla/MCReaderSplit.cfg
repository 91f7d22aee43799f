SPECIFICATION Spec
CONSTANTS
    f1 = f1
    f2 = f2
    Alerts = 1
    Time <- MCTime
    Relevant <- MCAllRelevant
    Limit = 3
    Window = 2
    Files <- MCTwoFiles
    Pieces <- MCAnyPieces
    Rotations <- MCNone
    MaxRotations = 0
    Races <- MCAppend
    MaxFailures = 0
INVARIANT
    NothingSkipped
