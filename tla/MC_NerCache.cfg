\* Three goroutines and three texts, room for two flights and two entries.
CONSTANTS
    Procs = {p1, p2, p3}
    Texts = {t1, t2, t3}
    NoText = NoText
    NoEntry = NoEntry
    TTL = 1
    MaxSize = 2
    MaxInflight = 2
    MaxTime = 1
    MaxCalls = 5
SPECIFICATION Spec
SYMMETRY Symmetric
INVARIANT FlightHasOneLeader
INVARIANT FollowersHaveALeader
INVARIANT Bounded
INVARIANT FollowersGetTheirFlight
INVARIANT HitIsFresh
PROPERTY OldestGoFirst
