\* More goroutines than keys, and one cell more than can be in use at a time.
CONSTANTS
    Procs = {p1, p2, p3}
    Keys = {k1, k2}
    Locks = {l1, l2, l3, l4}
    NoProc = NoProc
    NoKey = NoKey
    NoLock = NoLock
SPECIFICATION FairSpec
INVARIANT MutualExclusion
INVARIANT UnlockFindsOwnLock
PROPERTY LockReturns
PROPERTY ImplementsKeyLocks
