SPECIFICATION HistorySpec
CONSTANTS
    Keys = {k1, k2, k3}
    Responses = {r1, r2}
    Cap = 2
    MaxUses = 6
INVARIANTS
    IndexAgrees
    KeepsMostRecent
    ReplaysLastPut
