SPECIFICATION Spec
CONSTANTS
    NoData = NoData
    Providers <- MCProviders
    Indicators <- MCIndicators
    Type <- MCType
    Global <- MCGlobal
    Supports <- MCSupports
    Gap <- MCGap
    Attempts <- MCAttempts
    Data <- MCData
    HttpErrors <- MCHttpErrors
    OtherErrors <- MCOtherErrors
    Candidates <- MCCandidates
    TTL = 3
    Latencies <- MCLatencies
    MaxTime = 5
    MaxFailures = 1
INVARIANT
    EachLookupOnce
PROPERTIES
    LookupsSpaced
    NothingPaidTwice
    AnswersFresh
