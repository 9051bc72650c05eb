------------------------------- MODULE Store -------------------------------
(***************************************************************************)
(* internal/store/store.go: the in-memory map from payload ids to records, *)
(* with a TTL and a size limit.                                            *)
(*                                                                         *)
(* Goroutines call Get, Put and Remove.  s.mu guards the map, each entry   *)
(* has a lock of its own, and lastUsedSeq is an atomic that the eviction   *)
(* scan reads without the entry's lock.  A step is what happens between    *)
(* two points at which another goroutine can interfere:                    *)
(*                                                                         *)
(*   Get   GetLookup    the map is read under s.mu                         *)
(*         GetLocked    e.lock is taken; expired, or LastUsed and seq.Add  *)
(*         GetExpire    s.mu inside e.lock: removal of the expired entry   *)
(*         GetReturn    lastUsedSeq.Store, e.lock released                 *)
(*   Put   PutInsert    an entry is found or made under s.mu               *)
(*         PutWrite     e.lock is taken; record, LastUsed, seq.Add         *)
(*         PutStoreSeq  lastUsedSeq.Store                                  *)
(*         EvictBegin   s.mu inside e.lock; the size is compared           *)
(*         ScanEntry    one iteration of the scan, s.mu held               *)
(*         Evict        the oldest entry goes, both locks are released     *)
(*                                                                         *)
(* Records are opaque: a plaintext pair under AES-GCM is one value.  Heap  *)
(* cells stand for *entry; one that neither the map nor a goroutine refers *)
(* to has been collected and may be allocated again.                       *)
(*                                                                         *)
(* CallersSerialized says whether calls for one id overlap: in the service *)
(* they do not, because Service.Process holds its keyed lock around them   *)
(* (and it never calls Remove); the store itself does not prevent it.      *)
(***************************************************************************)
EXTENDS Integers, FiniteSets

CONSTANTS Procs, Ids, Vals,
          Cells,                 \* heap cells for entries
          ZeroRec,               \* the record of &entry{}
          NoProc, NoId, NoCell,
          TTL, MaxSize,          \* ttl and maxSize, positive by New
          CallersSerialized,
          MaxTime, MaxCalls      \* bounds: the clock, and calls in a behaviour

ASSUME StoreAssumption ==
    /\ IsFiniteSet(Procs) /\ IsFiniteSet(Ids)
    /\ NoProc \notin Procs /\ NoId \notin Ids /\ NoCell \notin Cells \cup Vals \cup {ZeroRec}
    /\ ZeroRec \notin Vals
    /\ TTL \in Nat \ {0} /\ MaxSize \in Nat \ {0}
    /\ CallersSerialized \in BOOLEAN
    /\ MaxTime \in Nat /\ MaxCalls \in Nat

VARIABLES
    now,        \* s.now()
    entries,    \* s.entries: id -> cell, NoCell where there is no entry
    mu,         \* holder of s.mu while it is held across steps
    seq,        \* s.seq
    lock,       \* entry.lock: cell -> holder
    val,        \* entry.rec: cell -> record
    lastUsed,   \* entry.rec.LastUsed
    lastSeq,    \* entry.lastUsedSeq
    pc, id, ptr, new,           \* per goroutine: position, id, e, rec (Put)
    next,       \* per goroutine: the result of seq.Add not yet stored
    scanned, oldest, oldestSeq, \* the locals of the scan under s.mu
    calls       \* calls made so far (bounded by MaxCalls)

heap == <<lock, val, lastUsed, lastSeq>>
scan == <<scanned, oldest, oldestSeq>>
args == <<id, ptr, new, next>>
vars == <<now, entries, mu, seq, heap, pc, args, scan, calls>>

GetPC == {"getLock", "getExpire", "getStoreSeq"}
PutPC == {"putLock", "putStoreSeq", "evict", "scan"}
Labels == {"idle"} \cup GetPC \cup PutPC

\* time.Time{} lies before any time by more than any TTL.
ZeroTime == -TTL - 1

TypeOK ==
    /\ now \in Nat
    /\ entries \in [Ids -> Cells \cup {NoCell}]
    /\ mu \in Procs \cup {NoProc}
    /\ seq \in Nat
    /\ lock \in [Cells -> Procs \cup {NoProc}]
    /\ val \in [Cells -> Vals \cup {ZeroRec}]
    /\ lastUsed \in [Cells -> Int]
    /\ lastSeq \in [Cells -> Nat]
    /\ pc \in [Procs -> Labels]
    /\ id \in [Procs -> Ids \cup {NoId}]
    /\ ptr \in [Procs -> Cells \cup {NoCell}]
    /\ new \in [Procs -> Vals \cup {ZeroRec}]
    /\ next \in [Procs -> Nat]
    /\ scanned \subseteq Ids
    /\ oldest \in Ids \cup {NoId}
    /\ oldestSeq \in Nat
    /\ calls \in Nat

Init ==
    /\ now = 0
    /\ entries = [i \in Ids |-> NoCell]
    /\ mu = NoProc
    /\ seq = 0
    /\ lock = [c \in Cells |-> NoProc]
    /\ val = [c \in Cells |-> ZeroRec]
    /\ lastUsed = [c \in Cells |-> ZeroTime]
    /\ lastSeq = [c \in Cells |-> 0]
    /\ pc = [p \in Procs |-> "idle"]
    /\ id = [p \in Procs |-> NoId]
    /\ ptr = [p \in Procs |-> NoCell]
    /\ new = [p \in Procs |-> ZeroRec]
    /\ next = [p \in Procs |-> 0]
    /\ scanned = {} /\ oldest = NoId /\ oldestSeq = 0
    /\ calls = 0

-----------------------------------------------------------------------------
Stored == {i \in Ids : entries[i] # NoCell}
Garbage == {c \in Cells : (\A i \in Ids : entries[i] # c) /\ (\A p \in Procs : ptr[p] # c)}

ExpiredAtTTL(c) == now - lastUsed[c] >= TTL
Expired(c) == now - lastUsed[c] > TTL

\* A goroutine starts a call for i.
Call(p, i) ==
    /\ pc[p] = "idle"
    /\ CallersSerialized => \A q \in Procs : id[q] # i
    /\ calls < MaxCalls
    /\ calls' = calls + 1

\* A goroutine returns from its call.
Return(p) ==
    /\ pc' = [pc EXCEPT ![p] = "idle"]
    /\ id' = [id EXCEPT ![p] = NoId]
    /\ ptr' = [ptr EXCEPT ![p] = NoCell]
    /\ new' = [new EXCEPT ![p] = ZeroRec]
    /\ next' = [next EXCEPT ![p] = 0]
    /\ UNCHANGED calls

Goto(p, label) == pc' = [pc EXCEPT ![p] = label]

\* e.lock, taken for the rest of the call.
LockEntryShared(p) == lock' = [lock EXCEPT ![ptr[p]] = p]
LockEntry(p) ==
    /\ lock[ptr[p]] = NoProc
    /\ lock' = [lock EXCEPT ![ptr[p]] = p]
UnlockEntry(p) == lock' = [lock EXCEPT ![ptr[p]] = NoProc]

\* next' = s.seq.Add(1), not yet stored in an entry.
DrawSeq(p) ==
    /\ seq' = seq + 1
    /\ next' = [next EXCEPT ![p] = seq + 1]

Tick ==
    /\ now < MaxTime
    /\ now' = now + 1
    /\ UNCHANGED <<entries, mu, seq, heap, pc, args, scan, calls>>
-----------------------------------------------------------------------------
\* Get: the lookup.  Without an entry the call returns ErrNotFound at once.
GetLookup(p, i) ==
    /\ Call(p, i)
    /\ mu = NoProc
    /\ IF entries[i] = NoCell
       THEN UNCHANGED <<pc, args>>
       ELSE /\ Goto(p, "getLock")
            /\ id' = [id EXCEPT ![p] = i]
            /\ ptr' = [ptr EXCEPT ![p] = entries[i]]
            /\ UNCHANGED <<new, next>>
    /\ UNCHANGED <<now, entries, mu, seq, heap, scan>>

\* e.lock.Lock().  An expired entry is to be removed; otherwise the use is
\* recorded.  (expired and LastUsed read the clock within one section.)
GetLocked(p) ==
    /\ pc[p] = "getLock"
    /\ LockEntry(p)
    /\ IF Expired(ptr[p])
       THEN /\ Goto(p, "getExpire")
            /\ UNCHANGED <<lastUsed, seq, next>>
       ELSE /\ Goto(p, "getStoreSeq")
            /\ lastUsed' = [lastUsed EXCEPT ![ptr[p]] = now]
            /\ DrawSeq(p)
    /\ UNCHANGED <<now, entries, mu, val, lastSeq, id, ptr, new, scan, calls>>

\* Removal of an expired entry, unless the map leads to another one by now.
ExpireEntry(p) ==
    IF entries[id[p]] = ptr[p] THEN [entries EXCEPT ![id[p]] = NoCell] ELSE entries

GetExpireKeepsLock(p) ==
    /\ pc[p] = "getExpire"
    /\ mu = NoProc
    /\ entries' = ExpireEntry(p)
    /\ Return(p)
    /\ UNCHANGED <<now, mu, seq, heap, scan>>
GetExpire(p) ==
    /\ pc[p] = "getExpire"
    /\ mu = NoProc
    /\ entries' = ExpireEntry(p)
    /\ UnlockEntry(p)
    /\ Return(p)
    /\ UNCHANGED <<now, mu, seq, val, lastUsed, lastSeq, scan>>

\* lastUsedSeq.Store, then the record is returned.
GetReturn(p) ==
    /\ pc[p] = "getStoreSeq"
    /\ lastSeq' = [lastSeq EXCEPT ![ptr[p]] = next[p]]
    /\ UnlockEntry(p)
    /\ Return(p)
    /\ UNCHANGED <<now, entries, mu, seq, val, lastUsed, scan>>
-----------------------------------------------------------------------------
\* Put: the entry of i is found, or made with a zero record and a sequence
\* number of its own, and published.
PutInsert(p, i, v) ==
    /\ Call(p, i)
    /\ mu = NoProc
    /\ IF entries[i] # NoCell
       THEN /\ ptr' = [ptr EXCEPT ![p] = entries[i]]
            /\ UNCHANGED <<entries, seq, val, lastUsed, lastSeq>>
       ELSE \E c \in Garbage :
            /\ ptr' = [ptr EXCEPT ![p] = c]
            /\ entries' = [entries EXCEPT ![i] = c]
            /\ seq' = seq + 1
            /\ val' = [val EXCEPT ![c] = ZeroRec]
            /\ lastUsed' = [lastUsed EXCEPT ![c] = ZeroTime]
            /\ lastSeq' = [lastSeq EXCEPT ![c] = seq + 1]
    /\ Goto(p, "putLock")
    /\ id' = [id EXCEPT ![p] = i]
    /\ new' = [new EXCEPT ![p] = v]
    /\ UNCHANGED <<now, mu, lock, next, scan>>

\* e.lock.Lock(), e.rec = rec, LastUsed and seq.Add.
PutWrite(p) ==
    /\ pc[p] = "putLock"
    /\ LockEntry(p)
    /\ val' = [val EXCEPT ![ptr[p]] = new[p]]
    /\ lastUsed' = [lastUsed EXCEPT ![ptr[p]] = now]
    /\ DrawSeq(p)
    /\ Goto(p, "putStoreSeq")
    /\ UNCHANGED <<now, entries, mu, lastSeq, id, ptr, new, scan, calls>>

PutStoreSeq(p) ==
    /\ pc[p] = "putStoreSeq"
    /\ lastSeq' = [lastSeq EXCEPT ![ptr[p]] = next[p]]
    /\ Goto(p, "evict")
    /\ UNCHANGED <<now, entries, mu, seq, lock, val, lastUsed, args, scan, calls>>

\* s.mu.Lock() with e.lock held, and the early return of evictIfNeededLocked.
FitsExactly == Cardinality(Stored) <= MaxSize + 1
Fits == Cardinality(Stored) <= MaxSize

EvictBegin(p) ==
    /\ pc[p] = "evict"
    /\ mu = NoProc
    /\ IF Fits
       THEN UnlockEntry(p) /\ Return(p) /\ UNCHANGED mu
       ELSE mu' = p /\ Goto(p, "scan") /\ UNCHANGED <<lock, args, calls>>
    /\ UNCHANGED <<now, entries, seq, val, lastUsed, lastSeq, scan>>

\* One iteration over the map, in no particular order: lastUsedSeq is read
\* without the entry's lock.
NewestFirst(s) == oldest = NoId \/ s > oldestSeq
OldestFirst(s) == oldest = NoId \/ s < oldestSeq

ScanEntry(p) ==
    /\ pc[p] = "scan"
    /\ \E i \in Stored \ scanned :
          LET s == lastSeq[entries[i]] IN
          /\ scanned' = scanned \cup {i}
          /\ oldest' = IF OldestFirst(s) THEN i ELSE oldest
          /\ oldestSeq' = IF OldestFirst(s) THEN s ELSE oldestSeq
    /\ UNCHANGED <<now, entries, mu, seq, heap, pc, args, calls>>

\* The loop is over: the oldest entry goes; s.mu and e.lock are released.
Evict(p) ==
    /\ pc[p] = "scan"
    /\ scanned = Stored
    /\ entries' = [entries EXCEPT ![oldest] = NoCell]
    /\ scanned' = {} /\ oldest' = NoId /\ oldestSeq' = 0
    /\ mu' = NoProc
    /\ UnlockEntry(p)
    /\ Return(p)
    /\ UNCHANGED <<now, seq, val, lastUsed, lastSeq>>
-----------------------------------------------------------------------------
\* Remove; the service does not call it.
Remove(p, i) ==
    /\ ~CallersSerialized
    /\ Call(p, i)
    /\ mu = NoProc
    /\ entries' = [entries EXCEPT ![i] = NoCell]
    /\ UNCHANGED <<now, mu, seq, heap, pc, args, scan>>

\* Nobody calls any more (the bound MaxCalls).
Rest == calls = MaxCalls /\ UNCHANGED vars

Step(p) ==
    \/ GetLocked(p) \/ GetExpire(p) \/ GetReturn(p)
    \/ PutWrite(p) \/ PutStoreSeq(p)
    \/ EvictBegin(p) \/ ScanEntry(p) \/ Evict(p)

Next ==
    \/ Tick
    \/ \E p \in Procs :
          \/ Step(p)
          \/ \E i \in Ids : GetLookup(p, i) \/ Remove(p, i)
          \/ \E i \in Ids, v \in Vals : PutInsert(p, i, v)
    \/ Rest

Spec == Init /\ [][Next]_vars

\* A goroutine inside a call keeps running; at every point of a call one step
\* is next.  sync.Mutex hands a starving waiter the lock, so a goroutine that
\* waits for e.lock or s.mu is not passed over for ever: strong fairness.
FairSpec == Spec /\ \A p \in Procs : SF_vars(Step(p))
-----------------------------------------------------------------------------
\* The size limit (store.go:10): a Put may overshoot it until its own eviction
\* is done, but each Put in progress by at most one entry; with no Put in
\* progress the limit is kept, although every Put evicts at most one entry.
PutsInProgress == {p \in Procs : pc[p] \in PutPC}
Capacity == Cardinality(Stored) <= MaxSize + Cardinality(PutsInProgress)

\* A goroutine leaves the last step of a Get on an expired entry, or of an
\* evicting Put.
ExpiryDone(p) == pc[p] = "getExpire" /\ pc'[p] = "idle"
EvictionDone(p) == pc[p] = "scan" /\ pc'[p] = "idle"

\* A Get that judged an entry expired before it got s.mu back never takes a
\* written, unexpired record out of the map: neither its own entry can have been
\* written since (e.lock), nor does it delete what a later Put stored under the
\* same id (the identity check, store.go:98).
Live(i) == entries[i] # NoCell /\ val[entries[i]] # ZeroRec /\ ~Expired(entries[i])
LiveEntrySurvivesGet ==
    [][\A p \in Procs, i \in Ids :
          ExpiryDone(p) /\ Live(i) => entries'[i] = entries[i]]_vars

\* The eviction scan reads lastUsedSeq without the entries' locks, so it is no
\* snapshot.  Still, what it settles on was older, when it was read, than every
\* other entry is at the moment of the deletion (store.go:164-175).
VictimWasOldest ==
    mu # NoProc /\ scanned = Stored =>
        /\ oldest \in Stored
        /\ \A i \in Stored \ {oldest} : oldestSeq < lastSeq[entries[i]]

\* Every call returns: e.lock is taken before s.mu and never the other way, and
\* no path keeps a lock (store.go:94-105 and 120-128).
CallsReturn == \A p \in Procs : pc[p] # "idle" ~> pc[p] = "idle"

\* With callers serialised per id the heap of locked entries implements a plain
\* map with a TTL and a size limit.
content == [i \in Ids |-> IF entries[i] = NoCell THEN NoCell ELSE val[entries[i]]]
used == [i \in Ids |-> IF content[i] \in Vals THEN lastUsed[entries[i]] ELSE 0]
call == [p \in Procs |->
            CASE pc[p] \in {"getLock", "getExpire"} ->
                    [at |-> "asked", id |-> id[p], val |-> val[ptr[p]]]
              [] pc[p] = "getStoreSeq" ->
                    [at |-> "found", id |-> id[p], val |-> val[ptr[p]]]
              [] OTHER -> [at |-> "none"]]
RM == INSTANCE RecordMap WITH Absent <- NoCell
ImplementsRecordMap == RM!Spec
-----------------------------------------------------------------------------
\* store.go:158-159, on evictIfNeededLocked, which Put calls: it never deletes
\* the record just written.
NeverEvictsOwnRecord ==
    [][\A p \in Procs :
          EvictionDone(p) /\ entries[id[p]] = ptr[p] => entries'[id[p]] = ptr[p]]_vars

=============================================================================
