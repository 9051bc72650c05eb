\* Goroutines that call the store freely, all operations, overlapping also on
\* one id; no symmetry, because calls must also return.
CONSTANTS
    Procs = {p1, p2}
    Ids = {i1, i2}
    Vals = {v1}
    Cells = {c1, c2, c3}
    ZeroRec = ZeroRec
    NoProc = NoProc
    NoId = NoId
    NoCell = NoCell
    TTL = 1
    MaxSize = 1
    CallersSerialized = FALSE
    MaxTime = 2
    MaxCalls = 3
SPECIFICATION FairSpec
INVARIANT Capacity
INVARIANT VictimWasOldest
PROPERTY LiveEntrySurvivesGet
PROPERTY CallsReturn
