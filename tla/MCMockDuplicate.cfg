SPECIFICATION Spec
CONSTANTS
    typed = typed
    plain = plain
    faulty = faulty
    NoKey = NoKey
    None = None
    Handlers = {h1, h2}
    Keys = {k1}
    Cap = 1
    Scenarios = {typed, plain}
    Faulty <- MCFaulty
    Carriers <- MCCarriers
    Responses <- MCResponses
INVARIANTS
    DuplicateGetsOriginal
