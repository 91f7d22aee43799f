SPECIFICATION NarrationSpec
CONSTANTS
    AlertWindow = 30
    MaxAlerts = 3
    SharedEntity = TRUE
    IncidentWindow = 120
    PrivateAddresses <- MCPrivate
    PublicAddresses <- MCPublic
    Inventory <- MCInventory
    PageAt = 8
    QueueAt = 4
    PromoteAt = 8
    Events <- MCEvents
    MaxBatch <- MCMaxBatch
    Verdicts = {"malicious", "suspicious", "unknown"}
    ModelScores <- MCModelScores
    ModelActions = {"page_now", "mark_likely_benign", "other"}
    ModelErrors <- MCModelErrors
    MaxRetries = 1
    JsonAttempts = 2
    Channels = {"email", "slack"}
    AnalystScores <- MCAnalystScores
    MaxReviewed = 2
    DraftAttempts = 2
    ReportedModels <- MCReportedModels
    RequestedModel = "configured"
    MaxTold <- MCMaxTold
INVARIANTS
    PartitionInTime
    OrderIrrelevant
    CriticalReachesIncident
    FirewallAloneStaysBelow
    SourceTrue
    LabelMeansReview
    ToldTrue
