SPECIFICATION Spec
CONSTANTS
    HalfRange = 32768
    Callers = {c1, c2}
    Structs = {s1}
    Drafts <- MCDrafts
    Choices <- MCChoices
    MaxEdits = 1
    MaxCalls = 2
    MaxRounds = 2
SYMMETRY CallersAlike
CHECK_DEADLOCK FALSE
INVARIANTS
    TypeOK
    EchoedIdIsTransmitted
    SentIsAccepted
    AcceptedIsExact
    StagesAgree
PROPERTY VerdictFollowsStruct
