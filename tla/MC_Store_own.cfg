\* Two concurrent Puts of different ids with room for one.
CONSTANTS
    Procs = {p1, p2}
    Ids = {i1, i2}
    Vals = {v1}
    Cells = {c1, c2, c3}
    ZeroRec = ZeroRec
    NoProc = NoProc
    NoId = NoId
    NoCell = NoCell
    TTL = 1
    MaxSize = 1
    CallersSerialized = TRUE
    MaxTime = 0
    MaxCalls = 4
SPECIFICATION Spec
PROPERTY NeverEvictsOwnRecord
