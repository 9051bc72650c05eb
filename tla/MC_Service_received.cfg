\* One client, one request at a time, nothing expires and nothing is evicted.
CONSTANTS
    NoId = NoId
    NoRecord = NoRecord
    full = full
    silent = silent
    stars = stars
    banned = banned
    Mode <- ModeOf
    RestoreAllowed <- RestoreOf
    Types <- TypesOf
    Allowed <- AllButBanned
    Procs = {p1}
    Consumers = {full}
    Ids = {i1}
    Originals <- FewOriginals
    MaxRequests = 4
    MaxLosses = 0
SPECIFICATION Spec
PROPERTY ReceivedMaskRestores
