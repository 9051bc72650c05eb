----------------------------- MODULE KeyedMutex -----------------------------
(***************************************************************************)
(* internal/api/keyedmutex.go: a map from keys to reference-counted lock   *)
(* objects, itself guarded by one mutex k.mu.                              *)
(*                                                                         *)
(* A goroutine of Procs calls Lock(k) and later Unlock(k), as the defer in *)
(* Service.Process does.  Every blocking point of the two methods is a     *)
(* step boundary:                                                          *)
(*                                                                         *)
(*   Lock     k.mu.Lock() ............................ idle -> lookup      *)
(*   Register map lookup, refs++, k.mu.Unlock() ...... lookup -> waiting   *)
(*   Acquire  l.mu.Lock() ............................ waiting -> holding  *)
(*   Unlock   k.mu.Lock() ............................ holding -> release  *)
(*   Release  map lookup, refs--, delete, l.mu.Unlock(), k.mu.Unlock()     *)
(*            ........................................ release -> idle     *)
(*                                                                         *)
(* Lock objects are heap cells: one that neither the map nor a goroutine   *)
(* refers to any more has been collected and its address may be reused, so *)
(* a finite set Locks stands for the heap.                                 *)
(***************************************************************************)
EXTENDS Integers, FiniteSets

CONSTANTS Procs,    \* goroutines
          Keys,     \* scoped payload ids
          Locks,    \* heap cells for keyLock objects
          NoProc, NoKey, NoLock

ASSUME KMAssumption ==
    /\ IsFiniteSet(Procs)
    /\ NoProc \notin Procs
    /\ NoKey \notin Keys
    /\ NoLock \notin Locks

VARIABLES
    mu,      \* holder of k.mu
    m,       \* k.m: key -> lock object, NoLock where the map has no entry
    refs,    \* keyLock.refs of every lock object
    owner,   \* the goroutine inside l.mu of every lock object
    pc,      \* where each goroutine is in Lock/Unlock
    key,     \* the argument of the call in progress
    ptr      \* the lock object l a goroutine waits for or is inside of

vars == <<mu, m, refs, owner, pc, key, ptr>>

PC == {"idle", "lookup", "waiting", "holding", "release", "panicked"}

\* Goroutines that are counted in a lock object's refs.
Counted == {"waiting", "holding", "release"}
\* Goroutines between the return of Lock and the end of Unlock.
Inside == {"holding", "release"}

Users(k) == {p \in Procs : pc[p] \in Counted /\ key[p] = k}

TypeOK ==
    /\ mu \in Procs \cup {NoProc}
    /\ m \in [Keys -> Locks \cup {NoLock}]
    /\ refs \in [Locks -> Nat]
    /\ owner \in [Locks -> Procs \cup {NoProc}]
    /\ pc \in [Procs -> PC]
    /\ key \in [Procs -> Keys \cup {NoKey}]
    /\ ptr \in [Procs -> Locks \cup {NoLock}]

Init ==
    /\ mu = NoProc
    /\ m = [k \in Keys |-> NoLock]
    /\ refs = [l \in Locks |-> 0]
    /\ owner = [l \in Locks |-> NoProc]
    /\ pc = [p \in Procs |-> "idle"]
    /\ key = [p \in Procs |-> NoKey]
    /\ ptr = [p \in Procs |-> NoLock]

-----------------------------------------------------------------------------
\* Cells that no live pointer refers to.
Garbage == {l \in Locks : (\A k \in Keys : m[k] # l) /\ (\A p \in Procs : ptr[p] # l)}

\* The lock object Lock works on: the one in the map, or &keyLock{}.
LockFor(k) == IF m[k] = NoLock THEN Garbage ELSE {m[k]}

\* l.refs++, where a new object starts at the zero value.
RefsAfterRegister(l, k) == [refs EXCEPT ![l] = IF m[k] = NoLock THEN 1 ELSE @ + 1]

\* l.refs == 0 after the decrement: nobody else holds or waits for l.
LastUserAlways(l) == TRUE
LastUser(l) == refs[l] = 1

\* k.mu.Lock() at the top of Lock(k).
Lock(p, k) ==
    /\ pc[p] = "idle"
    /\ mu = NoProc
    /\ mu' = p
    /\ pc' = [pc EXCEPT ![p] = "lookup"]
    /\ key' = [key EXCEPT ![p] = k]
    /\ UNCHANGED <<m, refs, owner, ptr>>

\* The rest of the section guarded by k.mu in Lock.
Register(p) ==
    /\ pc[p] = "lookup"
    /\ \E l \in LockFor(key[p]) :
          /\ refs' = RefsAfterRegister(l, key[p])
          /\ m' = [m EXCEPT ![key[p]] = l]
          /\ ptr' = [ptr EXCEPT ![p] = l]
    /\ mu' = NoProc
    /\ pc' = [pc EXCEPT ![p] = "waiting"]
    /\ UNCHANGED <<owner, key>>

\* l.mu.Lock(), outside k.mu: Lock returns.
AcquireBarging(p) ==
    /\ pc[p] = "waiting"
    /\ owner' = [owner EXCEPT ![ptr[p]] = p]
    /\ pc' = [pc EXCEPT ![p] = "holding"]
    /\ UNCHANGED <<mu, m, refs, key, ptr>>
Acquire(p) ==
    /\ pc[p] = "waiting"
    /\ owner[ptr[p]] = NoProc
    /\ owner' = [owner EXCEPT ![ptr[p]] = p]
    /\ pc' = [pc EXCEPT ![p] = "holding"]
    /\ UNCHANGED <<mu, m, refs, key, ptr>>

\* k.mu.Lock() at the top of Unlock.
Unlock(p) ==
    /\ pc[p] = "holding"
    /\ mu = NoProc
    /\ mu' = p
    /\ pc' = [pc EXCEPT ![p] = "release"]
    /\ UNCHANGED <<m, refs, owner, key, ptr>>

\* Who l.mu belongs to after Release.
OwnerKeptWhileShared(l) == IF refs[l] = 1 THEN [owner EXCEPT ![l] = NoProc] ELSE owner
OwnerAfterRelease(l) == [owner EXCEPT ![l] = NoProc]

ReleaseLast(p) ==
    /\ pc[p] = "release"
    /\ mu' = NoProc
    /\ refs' = [refs EXCEPT ![ptr[p]] = @ - 1]
    /\ m' = [m EXCEPT ![key[p]] = NoLock]
    /\ owner' = OwnerKeptWhileShared(ptr[p])
    /\ pc' = [pc EXCEPT ![p] = "idle"]
    /\ key' = [key EXCEPT ![p] = NoKey]
    /\ ptr' = [ptr EXCEPT ![p] = NoLock]

\* The section of Unlock.  The object is looked up again, by key: an absent
\* entry is the panic "unlock of unknown keyed mutex".
Release(p) ==
    /\ pc[p] = "release"
    /\ mu' = NoProc
    /\ LET k == key[p]
           l == m[k]
       IN  IF l = NoLock
           THEN /\ pc' = [pc EXCEPT ![p] = "panicked"]
                /\ UNCHANGED <<m, refs, owner, key, ptr>>
           ELSE /\ refs' = [refs EXCEPT ![l] = @ - 1]
                /\ m' = IF LastUser(l) THEN [m EXCEPT ![k] = NoLock] ELSE m
                /\ owner' = OwnerAfterRelease(l)
                /\ pc' = [pc EXCEPT ![p] = "idle"]
                /\ key' = [key EXCEPT ![p] = NoKey]
                /\ ptr' = [ptr EXCEPT ![p] = NoLock]

Next ==
    \E p \in Procs :
        \/ \E k \in Keys : Lock(p, k)
        \/ Register(p)
        \/ Acquire(p)
        \/ Unlock(p)
        \/ Release(p)

Spec == Init /\ [][Next]_vars

\* Goroutines that are inside Lock or Unlock keep running; a caller that got
\* the lock calls Unlock (the defer in Service.Process).  sync.Mutex hands a
\* starving waiter the lock (starvation mode), so a blocked Lock is strongly
\* fair.  Nothing makes an idle goroutine call Lock.
Fairness ==
    \A p \in Procs :
        /\ WF_vars(Register(p)) /\ WF_vars(Release(p))
        /\ SF_vars(Acquire(p)) /\ SF_vars(Unlock(p))

FairSpec == Spec /\ Fairness

-----------------------------------------------------------------------------
\* keyedmutex.go:5-7: decisions about one payload id are atomic, that is, two
\* goroutines never are between Lock and Unlock of the same key.
MutualExclusion ==
    \A p, q \in Procs :
        /\ p # q /\ pc[p] \in Inside /\ pc[q] \in Inside
        => key[p] # key[q]

\* Unlock finds its lock object by key.  As long as a goroutine is counted,
\* the map still leads from its key to the very object it waits for or holds,
\* and a holder really is inside that object's mutex: Unlock neither panics,
\* nor unlocks an unlocked mutex, nor unlocks for somebody else.
UnlockFindsOwnLock ==
    /\ \A p \in Procs : pc[p] \in Counted => /\ ptr[p] # NoLock
                                             /\ m[key[p]] = ptr[p]
    /\ \A p \in Procs : pc[p] \in Inside => owner[ptr[p]] = p
    /\ \A p \in Procs : pc[p] # "panicked"

\* An entry exists exactly while some goroutine uses its key, and its count is
\* the number of those goroutines: the map of locks cannot leak
\* (TestKeyedMutexReleasesUnusedKeys) and no entry goes away too early.
RefsCountUsers ==
    \A k \in Keys :
        IF m[k] = NoLock THEN Users(k) = {}
        ELSE Users(k) # {} /\ refs[m[k]] = Cardinality(Users(k))

\* Every call of Lock returns: a waiter is never left on an object that
\* nobody will unlock.
LockReturns ==
    \A p \in Procs : pc[p] \in {"lookup", "waiting"} ~> pc[p] = "holding"

\* The map of counted locks implements plain per-key locks.
askedPairs == {<<p, key[p]>> : p \in {q \in Procs : pc[q] \in {"lookup", "waiting"}}}
heldPairs == {<<p, key[p]>> : p \in {q \in Procs : pc[q] \in Inside}}
KL == INSTANCE KeyLocks WITH asked <- askedPairs, held <- heldPairs
ImplementsKeyLocks == KL!Spec

=============================================================================
