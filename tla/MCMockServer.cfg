SPECIFICATION Spec
CONSTANTS
    typed = typed
    plain = plain
    faulty = faulty
    NoKey = NoKey
    None = None
    Handlers = {h1, h2, h3}
    Keys = {k1, k2}
    Cap = 1
    Scenarios = {typed, faulty}
    Faulty <- MCFaulty
    Carriers <- MCCarriers
    Responses <- MCResponses
SYMMETRY MCSymmetry
INVARIANTS
    TypeOK
    ReplaysBelong
    DuplicatesAgree
    OneCallbackPerKey
    ResetIsolates
