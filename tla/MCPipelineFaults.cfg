SPECIFICATION Spec
CONSTANTS
    p1 = p1
    p2 = p2
    Unusable = Unusable
    Procs <- MCOneProc
    Events <- MCEvents
    AlertIds <- MCAlertIds
    AlertOf <- MCAlertOf
    Entity <- MCEntity
    Batches <- MCBatches
    Scores <- MCQueueAndPage
    PageAt = 8
    QueueAt = 4
    PromoteAt = 7
    FailFast = FALSE
    Faults <- MCAllButDedup
    MaxFaults = 2
    MaxExpiries = 0
INVARIANTS
    TypeOK
    NothingLost
PROPERTIES
    TakenIsDecided
    ImplementsLedger
