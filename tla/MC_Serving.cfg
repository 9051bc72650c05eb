SPECIFICATION FairSpec
CONSTANTS
    Reqs = {r1, r2}
    MaxRPS = 1
    MaxRefills = 1
    Threads = {t1, t2}
    Models = {m1}
    NoModel = NoModel
    Workers = 1
    NoCall = NoCall
    Connecting = Connecting
INVARIANTS TokensAreExact PeakIsExact ModelsAreConserved
PROPERTIES Answered Exits
CHECK_DEADLOCK FALSE
