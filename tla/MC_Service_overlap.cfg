\* Overlapping requests of one consumer.
CONSTANTS
    NoId = NoId
    NoRecord = NoRecord
    full = full
    silent = silent
    stars = stars
    banned = banned
    Mode <- ModeOf
    RestoreAllowed <- RestoreOf
    Types <- TypesOf
    Allowed <- AllButBanned
    Procs = {p1, p2}
    Consumers = {full}
    Ids = {i1, i2}
    Originals <- MoreOriginals
    MaxRequests = 3
    MaxLosses = 1
SPECIFICATION FairSpec
INVARIANTS
    DecisionStillHolds
PROPERTIES
    RepeatGivesSameMask
    Answered
