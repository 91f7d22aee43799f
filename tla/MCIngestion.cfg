SPECIFICATION Spec
CONSTANTS
    NoLevel = NoLevel
    NoTime = NoTime
    Clients <- MCClients
    Docs <- MCDocs
    Time <- MCTime
    Level <- MCLevel
    MinLevel <- MCMinLevel
    Lookback = 6
    Limit = 2
    Interval = 1
    MaxRetries = 1
    MaxPolls = 2
    TokenLife = 4
    Skew = 1
    Lag = 1
    KeyLife = 10
    Failures <- MCFailures
    MaxFaults = 2
    MaxTime = 10
    Results <- MCResults
    BatchSize = 1
    PushRetries = 1
    PushFailures <- MCPushFailures
INVARIANTS
    NothingMissed
    NothingProcessedTwice
    NoExpiredTokenSent
    CredentialsRejectedOnce
    DecidedIsCollected
    CollectedAgainForCause
CHECK_DEADLOCK FALSE
