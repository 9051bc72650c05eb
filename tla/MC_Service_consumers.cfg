\* Three policies and one consumer that is refused, one request at a time.
CONSTANTS
    NoId = NoId
    NoRecord = NoRecord
    full = full
    silent = silent
    stars = stars
    banned = banned
    Mode <- ModeOf
    RestoreAllowed <- RestoreOf
    Types <- TypesOf
    Allowed <- AllButBanned
    Procs = {p1}
    Consumers = {full, silent, stars, banned}
    Ids = {i1}
    Originals <- FewOriginals
    MaxRequests = 4
    MaxLosses = 1
SPECIFICATION Spec
INVARIANT SecretsStayWithConsumer
PROPERTY NoSecretWithoutRestore
