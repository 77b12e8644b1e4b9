SPECIFICATION FairSpec
CONSTANTS
    Policies <- MCPolicies
    Statuses <- MCStatuses
INVARIANTS
    TypeOK
    RetryableMeansExhausted
    FinalAnswersStand
    AtMostOneDeadStart
    RetriesAreObserved
PROPERTIES
    CallReturns
    CallContract
