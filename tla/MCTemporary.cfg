SPECIFICATION Spec
CONSTANTS
    Policies <- MCDefaultPolicy
    Statuses <- MCStatuses
INVARIANTS
    TemporaryMeansExhausted
