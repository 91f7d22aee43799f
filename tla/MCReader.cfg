SPECIFICATION Spec
CONSTANTS
    f1 = f1
    f2 = f2
    Alerts = 4
    Time <- MCTime
    Relevant <- MCRelevant
    Limit = 2
    Window = 2
    Files <- MCTwoFiles
    Pieces <- MCAnyPieces
    Rotations <- MCBoth
    MaxRotations = 2
    Races <- MCLineRename
    MaxFailures = 1
INVARIANTS
    TypeOK
    NothingSkipped
PROPERTIES
    ReturnedAgainForCause
    EventuallyReturned
