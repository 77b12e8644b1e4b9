SPECIFICATION FairSpec
CONSTANTS
    Options <- MCOptions
    Defaults <- MCDefaults
    HalfRange = 32
    Grain = 4
    Floats <- MCFloats
    Exact = 8
    MaxAttempts = 2
    MaxCalls = 2
    MaxCopies = 4
INVARIANTS
    TypeOK
    OneOrder
    OutcomeHolds
    StopsWithLastResponse
    BackoffIsGeometric
PROPERTIES
    PollReturns
