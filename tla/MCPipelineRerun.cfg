SPECIFICATION Spec
CONSTANTS
    p1 = p1
    p2 = p2
    Unusable = Unusable
    Procs <- MCTwoProcs
    Events <- MCTwoEvents
    AlertIds <- MCTwoAlerts
    AlertOf <- MCAlertOf
    Entity <- MCEntity
    Batches <- MCSmallBatches
    Scores <- MCQueueOnly
    PageAt = 8
    QueueAt = 4
    PromoteAt = 7
    FailFast = FALSE
    Faults <- MCDedupOrCrash
    MaxFaults = 1
    MaxExpiries = 1
INVARIANT
    EvidenceComplete
PROPERTY
    VerdictKept
