\* Callers serialised per id, as in the service: refinement of RecordMap.
CONSTANTS
    Procs = {p1, p2}
    Ids = {i1, i2}
    Vals = {v1, v2}
    Cells = {c1, c2, c3}
    ZeroRec = ZeroRec
    NoProc = NoProc
    NoId = NoId
    NoCell = NoCell
    TTL = 1
    MaxSize = 1
    CallersSerialized = TRUE
    MaxTime = 2
    MaxCalls = 5
SPECIFICATION Spec
SYMMETRY Symm
PROPERTY ImplementsRecordMap
