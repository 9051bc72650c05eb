---------------------------- MODULE StoreProofs ----------------------------
(***************************************************************************)
(* Proofs about Store for every finite set of goroutines and ids, every    *)
(* set of records and cells, every TTL, size limit and bound, and both     *)
(* kinds of callers: type correctness, the size limit, the order of        *)
(* eviction, and that it implements RecordMap for callers per id.          *)
(***************************************************************************)
EXTENDS Store, FiniteSetTheorems, TLAPS

\* A goroutine in a call has an id and an entry.
CallInv ==
    \A p \in Procs : pc[p] # "idle" => id[p] \in Ids /\ ptr[p] \in Cells

\* s.mu is held across steps only by the one goroutine that scans.
MuInv == \A p \in Procs : pc[p] = "scan" <=> mu = p

\* A scan runs only when there is something to evict, the map does not change
\* under it, and it has a candidate as soon as it has looked at an entry.
ScanInv ==
    /\ mu # NoProc => Cardinality(Stored) > MaxSize /\ scanned \subseteq Stored
    /\ mu = NoProc => scanned = {}
    /\ IF scanned = {} THEN oldest = NoId ELSE oldest \in scanned

IInv == TypeOK /\ CallInv /\ MuInv /\ ScanInv /\ Capacity

-----------------------------------------------------------------------------
\* Stored and PutsInProgress are subsets of finite sets, so they can be counted.
LEMMA CountsAreNat ==
    /\ IsFiniteSet(Stored) /\ Cardinality(Stored) \in Nat
    /\ IsFiniteSet(PutsInProgress) /\ Cardinality(PutsInProgress) \in Nat
<1>1. Stored \in SUBSET Ids /\ PutsInProgress \in SUBSET Procs
  BY DEF Stored, PutsInProgress
<1>2. IsFiniteSet(Stored) /\ IsFiniteSet(PutsInProgress)
  BY <1>1, StoreAssumption, FS_Subset
<1>3. QED
  BY <1>2, FS_CardinalityType

\* The positions of a goroutine, and which of them belong to a Put.
LEMMA LabelFacts ==
    /\ "idle" \in Labels /\ "getLock" \in Labels /\ "getExpire" \in Labels
    /\ "getStoreSeq" \in Labels /\ "putLock" \in Labels
    /\ "putStoreSeq" \in Labels /\ "evict" \in Labels /\ "scan" \in Labels
BY DEF Labels, GetPC, PutPC

\* The empty map at rest satisfies the invariant.
LEMMA InitIInv == Init => IInv
<1> SUFFICES ASSUME Init PROVE IInv
  OBVIOUS
<1>1. TypeOK /\ CallInv /\ MuInv
  BY StoreAssumption, LabelFacts DEF Init, TypeOK, CallInv, MuInv, ZeroTime
<1>2. Stored = {} /\ PutsInProgress = {}
  BY DEF Init, Stored, PutsInProgress, PutPC
<1>3. Cardinality(Stored) = 0 /\ Cardinality(PutsInProgress) = 0
  BY <1>2, FS_EmptySet
<1>4. ScanInv /\ Capacity
  BY <1>3, StoreAssumption DEF Init, ScanInv, Capacity
<1>5. QED
  BY <1>1, <1>4 DEF IInv

\* Every step keeps the types.
LEMMA NextTypeOK == TypeOK /\ CallInv /\ [Next]_vars => TypeOK' /\ CallInv'
<1> SUFFICES ASSUME TypeOK, CallInv, [Next]_vars PROVE TypeOK' /\ CallInv'
  OBVIOUS
<1> USE LabelFacts DEF TypeOK, CallInv, heap, scan, args
<1>1. CASE UNCHANGED vars
  BY <1>1 DEF vars
<1>2. CASE Tick
  BY <1>2 DEF Tick
<1>3. ASSUME NEW p \in Procs, NEW i \in Ids, GetLookup(p, i) PROVE TypeOK' /\ CallInv'
  BY <1>3 DEF GetLookup, Call, Goto
<1>4. ASSUME NEW p \in Procs, NEW i \in Ids, Remove(p, i) PROVE TypeOK' /\ CallInv'
  BY <1>4 DEF Remove, Call
<1>5. ASSUME NEW p \in Procs, NEW i \in Ids, NEW v \in Vals, PutInsert(p, i, v)
      PROVE  TypeOK' /\ CallInv'
  <2>1. /\ calls' \in Nat /\ pc' = [pc EXCEPT ![p] = "putLock"]
        /\ id' = [id EXCEPT ![p] = i] /\ new' = [new EXCEPT ![p] = v]
        /\ UNCHANGED <<now, mu, lock, next, scan>>
    BY <1>5 DEF PutInsert, Call, Goto
  <2>2. \E c \in Cells : ptr' = [ptr EXCEPT ![p] = c]
    BY <1>5 DEF PutInsert, Garbage
  <2>3. /\ entries' \in [Ids -> Cells \cup {NoCell}] /\ seq' \in Nat
        /\ val' \in [Cells -> Vals \cup {ZeroRec}]
        /\ lastUsed' \in [Cells -> Int] /\ lastSeq' \in [Cells -> Nat]
    <3>1. CASE entries[i] # NoCell
      BY <3>1, <1>5 DEF PutInsert
    <3>2. CASE entries[i] = NoCell
      BY <3>2, <1>5, StoreAssumption DEF PutInsert, Garbage, ZeroTime
    <3>3. QED
      BY <3>1, <3>2
  <2>4. QED
    BY <2>1, <2>2, <2>3
<1>6. ASSUME NEW p \in Procs, GetLocked(p) PROVE TypeOK' /\ CallInv'
  BY <1>6 DEF GetLocked, LockEntry, DrawSeq, Goto
<1>7. ASSUME NEW p \in Procs, GetExpire(p) PROVE TypeOK' /\ CallInv'
  BY <1>7 DEF GetExpire, ExpireEntry, UnlockEntry, Return
<1>8. ASSUME NEW p \in Procs, GetReturn(p) PROVE TypeOK' /\ CallInv'
  BY <1>8 DEF GetReturn, UnlockEntry, Return
<1>9. ASSUME NEW p \in Procs, PutWrite(p) PROVE TypeOK' /\ CallInv'
  BY <1>9 DEF PutWrite, LockEntry, DrawSeq, Goto
<1>10. ASSUME NEW p \in Procs, PutStoreSeq(p) PROVE TypeOK' /\ CallInv'
  BY <1>10 DEF PutStoreSeq, Goto
<1>11. ASSUME NEW p \in Procs, EvictBegin(p) PROVE TypeOK' /\ CallInv'
  BY <1>11, SMTT(30) DEF EvictBegin, UnlockEntry, Return, Goto
<1>12. ASSUME NEW p \in Procs, ScanEntry(p) PROVE TypeOK' /\ CallInv'
  BY <1>12 DEF ScanEntry, Stored
<1>13. ASSUME NEW p \in Procs, Evict(p) PROVE TypeOK' /\ CallInv'
  BY <1>13 DEF Evict, UnlockEntry, Return
<1>14. CASE Rest
  BY <1>14 DEF Rest, vars
<1>15. QED
  BY <1>1, <1>2, <1>3, <1>4, <1>5, <1>6, <1>7, <1>8, <1>9, <1>10, <1>11, <1>12,
     <1>13, <1>14 DEF Next, Step

\* s.mu changes hands only at the two ends of a scan.
LEMMA NextMuInv == TypeOK /\ MuInv /\ [Next]_vars => MuInv'
<1> SUFFICES ASSUME TypeOK, MuInv, [Next]_vars PROVE MuInv'
  OBVIOUS
<1> USE DEF TypeOK, MuInv, heap, scan, args
<1>1. CASE UNCHANGED vars \/ Tick \/ Rest
  BY <1>1 DEF vars, Tick, Rest
<1>2. ASSUME NEW p \in Procs, NEW i \in Ids, GetLookup(p, i) \/ Remove(p, i) PROVE MuInv'
  BY <1>2 DEF GetLookup, Remove, Call, Goto
<1>3. ASSUME NEW p \in Procs, NEW i \in Ids, NEW v \in Vals, PutInsert(p, i, v)
      PROVE  MuInv'
  BY <1>3 DEF PutInsert, Call, Goto
<1>4. ASSUME NEW p \in Procs, GetLocked(p) \/ PutWrite(p) \/ PutStoreSeq(p) PROVE MuInv'
  BY <1>4 DEF GetLocked, PutWrite, PutStoreSeq, Goto
<1>5. ASSUME NEW p \in Procs, GetExpire(p) \/ GetReturn(p) PROVE MuInv'
  BY <1>5 DEF GetExpire, GetReturn, Return
<1>6. ASSUME NEW p \in Procs, EvictBegin(p) PROVE MuInv'
  BY <1>6, StoreAssumption DEF EvictBegin, Return, Goto
<1>7. ASSUME NEW p \in Procs, ScanEntry(p) PROVE MuInv'
  BY <1>7 DEF ScanEntry
<1>8. ASSUME NEW p \in Procs, Evict(p) PROVE MuInv'
  BY <1>8, StoreAssumption DEF Evict, Return
<1>9. QED
  BY <1>1, <1>2, <1>3, <1>4, <1>5, <1>6, <1>7, <1>8 DEF Next, Step

\* An action that changes neither the map nor the Puts in progress, and leaves
\* the scan alone, keeps the other two conjuncts.
LEMMA QuietStep ==
    ASSUME ScanInv, Capacity, Stored' = Stored, PutsInProgress' = PutsInProgress,
           UNCHANGED <<mu, scanned, oldest>>
    PROVE  ScanInv' /\ Capacity'
BY DEF ScanInv, Capacity

\* Removing an entry outside of a scan only makes room.
LEMMA RemovalStep ==
    ASSUME ScanInv, Capacity, mu = NoProc, Stored' \subseteq Stored,
           PutsInProgress' = PutsInProgress, UNCHANGED <<mu, scanned, oldest>>
    PROVE  ScanInv' /\ Capacity'
<1>1. Cardinality(Stored') <= Cardinality(Stored) /\ Cardinality(Stored') \in Nat
  BY CountsAreNat, FS_Subset, FS_CardinalityType
<1>2. Capacity'
  BY <1>1, CountsAreNat, StoreAssumption DEF Capacity
<1>3. QED
  BY <1>2 DEF ScanInv

\* The steps keep the scan's bookkeeping right and the size within its bound.
LEMMA NextScanCapacity == IInv /\ [Next]_vars => ScanInv' /\ Capacity'
<1> SUFFICES ASSUME IInv, [Next]_vars PROVE ScanInv' /\ Capacity'
  OBVIOUS
<1> USE DEF IInv, heap, scan, args
<1>1. CASE UNCHANGED vars \/ Tick \/ Rest
  <2>1. Stored' = Stored /\ PutsInProgress' = PutsInProgress
        /\ UNCHANGED <<mu, scanned, oldest>>
    BY <1>1 DEF vars, Tick, Rest, Stored, PutsInProgress
  <2>2. QED
    BY <2>1, QuietStep
<1>2. ASSUME NEW p \in Procs, NEW i \in Ids, GetLookup(p, i) PROVE ScanInv' /\ Capacity'
  <2>1. Stored' = Stored /\ UNCHANGED <<mu, scanned, oldest>>
    BY <1>2 DEF GetLookup, Stored
  <2>2. PutsInProgress' = PutsInProgress
    BY <1>2 DEF TypeOK, GetLookup, Call, Goto, PutsInProgress, PutPC
  <2>3. QED
    BY <2>1, <2>2, QuietStep
<1>3. ASSUME NEW p \in Procs, NEW i \in Ids, Remove(p, i) PROVE ScanInv' /\ Capacity'
  <2>1. /\ mu = NoProc /\ Stored' \subseteq Stored /\ PutsInProgress' = PutsInProgress
        /\ UNCHANGED <<mu, scanned, oldest>>
    BY <1>3 DEF TypeOK, Remove, Stored, PutsInProgress
  <2>2. QED
    BY <2>1, RemovalStep
<1>4. ASSUME NEW p \in Procs, NEW i \in Ids, NEW v \in Vals, PutInsert(p, i, v)
      PROVE  ScanInv' /\ Capacity'
  <2>1. /\ mu = NoProc /\ UNCHANGED <<mu, scanned, oldest>>
        /\ p \notin PutsInProgress /\ PutsInProgress' = PutsInProgress \cup {p}
    BY <1>4 DEF TypeOK, PutInsert, Call, Goto, PutsInProgress, PutPC
  <2>2. Cardinality(PutsInProgress') = Cardinality(PutsInProgress) + 1
    BY <2>1, CountsAreNat, FS_AddElement
  <2>3. Stored' = Stored \cup {i}
    <3>1. CASE entries[i] # NoCell
      BY <3>1, <1>4 DEF PutInsert, Stored
    <3>2. CASE entries[i] = NoCell
      BY <3>2, <1>4, StoreAssumption DEF TypeOK, PutInsert, Garbage, Stored
    <3>3. QED
      BY <3>1, <3>2
  <2>4. Cardinality(Stored') <= Cardinality(Stored) + 1
    <3>1. Cardinality(Stored \cup {i}) =
             IF i \in Stored THEN Cardinality(Stored) ELSE Cardinality(Stored) + 1
      BY CountsAreNat, FS_AddElement
    <3>2. QED
      BY <2>3, <3>1, CountsAreNat
  <2>5. Cardinality(Stored') \in Nat
    <3>1. IsFiniteSet(Stored')
      BY <2>3, CountsAreNat, FS_AddElement
    <3>2. QED
      BY <3>1, FS_CardinalityType
  <2>6. Capacity'
    BY <2>2, <2>4, <2>5, CountsAreNat, StoreAssumption DEF Capacity
  <2>7. QED
    BY <2>1, <2>6 DEF ScanInv
<1>5. ASSUME NEW p \in Procs, GetLocked(p) \/ PutWrite(p) \/ PutStoreSeq(p)
      PROVE  ScanInv' /\ Capacity'
  <2>1. Stored' = Stored /\ UNCHANGED <<mu, scanned, oldest>>
    BY <1>5 DEF GetLocked, PutWrite, PutStoreSeq, Stored
  <2>2. PutsInProgress' = PutsInProgress
    BY <1>5 DEF TypeOK, GetLocked, PutWrite, PutStoreSeq, Goto, PutsInProgress, PutPC
  <2>3. QED
    BY <2>1, <2>2, QuietStep
<1>6. ASSUME NEW p \in Procs, GetExpire(p) PROVE ScanInv' /\ Capacity'
  <2>1. mu = NoProc /\ Stored' \subseteq Stored /\ UNCHANGED <<mu, scanned, oldest>>
    BY <1>6 DEF TypeOK, GetExpire, ExpireEntry, Stored
  <2>2. PutsInProgress' = PutsInProgress
    BY <1>6 DEF TypeOK, GetExpire, Return, PutsInProgress, PutPC
  <2>3. QED
    BY <2>1, <2>2, RemovalStep
<1>7. ASSUME NEW p \in Procs, GetReturn(p) PROVE ScanInv' /\ Capacity'
  <2>1. Stored' = Stored /\ UNCHANGED <<mu, scanned, oldest>>
    BY <1>7 DEF GetReturn, Stored
  <2>2. PutsInProgress' = PutsInProgress
    BY <1>7 DEF TypeOK, GetReturn, Return, PutsInProgress, PutPC
  <2>3. QED
    BY <2>1, <2>2, QuietStep
<1>8. ASSUME NEW p \in Procs, EvictBegin(p) PROVE ScanInv' /\ Capacity'
  <2>1. /\ mu = NoProc /\ Stored' = Stored /\ UNCHANGED <<scanned, oldest>>
        /\ p \in PutsInProgress
    BY <1>8 DEF EvictBegin, Stored, PutsInProgress, PutPC
  <2>2. CASE Fits
    <3>1. PutsInProgress' = PutsInProgress \ {p} /\ mu' = mu
      BY <1>8, <2>2 DEF TypeOK, EvictBegin, Return, PutsInProgress, PutPC
    <3>2. Cardinality(PutsInProgress') \in Nat
      BY <3>1, CountsAreNat, FS_RemoveElement, FS_CardinalityType
    <3>3. Capacity'
      BY <2>1, <2>2, <3>2, CountsAreNat, StoreAssumption DEF Capacity, Fits
    <3>4. QED
      BY <2>1, <3>1, <3>3 DEF ScanInv
  <2>3. CASE ~Fits
    <3>1. PutsInProgress' = PutsInProgress
      BY <1>8, <2>3 DEF TypeOK, EvictBegin, Goto, PutsInProgress, PutPC
    <3>2. Capacity'
      BY <2>1, <3>1 DEF Capacity
    <3>3. Cardinality(Stored) > MaxSize
      BY <2>3, CountsAreNat, StoreAssumption DEF Fits
    <3>4. QED
      BY <2>1, <3>2, <3>3 DEF ScanInv
  <2>4. QED
    BY <2>2, <2>3
<1>9. ASSUME NEW p \in Procs, ScanEntry(p) PROVE ScanInv' /\ Capacity'
  <2>1. /\ mu = p /\ p # NoProc /\ mu' = mu
        /\ Stored' = Stored /\ PutsInProgress' = PutsInProgress
    BY <1>9, StoreAssumption DEF ScanEntry, MuInv, Stored, PutsInProgress
  <2>2. PICK i \in Stored \ scanned :
          /\ scanned' = scanned \cup {i}
          /\ oldest' = i \/ (oldest # NoId /\ oldest' = oldest)
    BY <1>9 DEF ScanEntry, OldestFirst
  <2>3. ScanInv'
    BY <2>1, <2>2 DEF ScanInv
  <2>4. QED
    BY <2>1, <2>3 DEF Capacity
<1>10. ASSUME NEW p \in Procs, Evict(p) PROVE ScanInv' /\ Capacity'
  <2>1. mu = p /\ p # NoProc /\ mu' = NoProc /\ scanned' = {} /\ oldest' = NoId
    BY <1>10, StoreAssumption DEF Evict, MuInv
  <2>2. Cardinality(Stored) > MaxSize /\ scanned = Stored
    BY <1>10, <2>1 DEF ScanInv, Evict
  <2>3. Stored # {}
    BY <2>2, FS_EmptySet, StoreAssumption
  <2>4. oldest \in Stored
    BY <2>2, <2>3 DEF ScanInv
  <2>5. Stored' = Stored \ {oldest}
    BY <1>10, <2>4 DEF TypeOK, Evict, Stored
  <2>6. Cardinality(Stored') = Cardinality(Stored) - 1
    BY <2>4, <2>5, CountsAreNat, FS_RemoveElement
  <2>7. p \in PutsInProgress /\ PutsInProgress' = PutsInProgress \ {p}
    BY <1>10 DEF TypeOK, Evict, Return, PutsInProgress, PutPC
  <2>8. Cardinality(PutsInProgress') = Cardinality(PutsInProgress) - 1
    BY <2>7, CountsAreNat, FS_RemoveElement
  <2>9. Capacity'
    BY <2>6, <2>8, CountsAreNat, StoreAssumption DEF Capacity
  <2>10. QED
    BY <2>1, <2>9 DEF ScanInv
<1>11. QED
  BY <1>1, <1>2, <1>3, <1>4, <1>5, <1>6, <1>7, <1>8, <1>9, <1>10 DEF Next, Step

\* The inductive invariant holds in every reachable state.
THEOREM IInvHolds == Spec => []IInv
<1>1. IInv /\ [Next]_vars => IInv'
  BY NextTypeOK, NextMuInv, NextScanCapacity DEF IInv
<1>2. QED
  BY InitIInv, <1>1, PTL DEF Spec

\* Every variable keeps the type its Go counterpart has.
THEOREM TypeOKHolds == Spec => []TypeOK
<1>1. IInv => TypeOK
  BY DEF IInv
<1>2. QED
  BY <1>1, IInvHolds, PTL

\* However many goroutines call the store and however their steps interleave,
\* it exceeds its limit by at most one record per Put in progress (store.go:10
\* and 160-176): every Put evicts at most one record, and that is enough.
THEOREM CapacityHolds == Spec => []Capacity
<1>1. IInv => Capacity
  BY DEF IInv
<1>2. QED
  BY <1>1, IInvHolds, PTL

-----------------------------------------------------------------------------
(***************************************************************************)
(* The eviction scan.  Sequence numbers are drawn with an atomic add and   *)
(* stored in a second step, while a scan may be reading.  What makes the   *)
(* victim right nevertheless: numbers are unique, and an entry's number    *)
(* only grows, because its lock is held from the draw to the store.        *)
(***************************************************************************)
LockedPC == {"getExpire", "getStoreSeq", "putStoreSeq", "evict", "scan"}
Drawn == {p \in Procs : pc[p] \in {"getStoreSeq", "putStoreSeq"}}

\* From e.lock.Lock to the end of the call a goroutine holds its entry's lock.
LockInv == \A p \in Procs : pc[p] \in LockedPC => lock[ptr[p]] = p

\* No two ids share an entry.
EntriesInjective == \A i, j \in Stored : entries[i] = entries[j] => i = j

\* Numbers were drawn from seq, are used once, and grow within an entry.
SeqInv ==
    /\ \A c \in Cells : lastSeq[c] <= seq
    /\ \A c, d \in Cells : c # d /\ lastSeq[c] = lastSeq[d] => lastSeq[c] = 0
    /\ \A i \in Stored : lastSeq[entries[i]] > 0
    /\ \A p \in Drawn : lastSeq[ptr[p]] < next[p] /\ next[p] <= seq
    /\ \A p, q \in Drawn : next[p] = next[q] => p = q
    /\ \A p \in Drawn, c \in Cells : next[p] # lastSeq[c]

\* The candidate's number, as read, is below those of the other entries looked
\* at so far, and nobody else has it or is about to store it.
CandidateInv ==
    mu # NoProc /\ scanned # {} =>
        /\ 0 < oldestSeq /\ oldestSeq <= lastSeq[entries[oldest]]
        /\ \A i \in scanned \ {oldest} : oldestSeq < lastSeq[entries[i]]
        /\ \A c \in Cells \ {entries[oldest]} : lastSeq[c] # oldestSeq
        /\ \A p \in Drawn : next[p] # oldestSeq

SInv == IInv /\ LockInv /\ EntriesInjective /\ SeqInv /\ CandidateInv

\* Nothing is drawn, stored or scanned at the start.
LEMMA InitSInv == Init => SInv
BY InitIInv DEF Init, SInv, LockInv, LockedPC, EntriesInjective, SeqInv, CandidateInv,
     Stored, Drawn

\* Steps that touch neither the map nor a sequence number.
LEMMA QuietSInv ==
    ASSUME SInv, UNCHANGED <<entries, seq, lastSeq, mu, scanned, oldest, oldestSeq>>,
           \A p \in Drawn' : p \in Drawn /\ ptr'[p] = ptr[p] /\ next'[p] = next[p]
    PROVE  EntriesInjective' /\ SeqInv' /\ CandidateInv'
<1>1. Stored' = Stored
  BY DEF Stored
<1>2. QED
  BY <1>1 DEF SInv, EntriesInjective, SeqInv, CandidateInv

\* A goroutine outside of a locked section leaves every lock, or takes a free one.
LEMMA NextLockInv == IInv /\ LockInv /\ [Next]_vars => LockInv'
<1> SUFFICES ASSUME IInv, LockInv, [Next]_vars PROVE LockInv'
  OBVIOUS
<1> USE StoreAssumption DEF IInv, TypeOK, CallInv, LockInv, LockedPC, heap, scan, args
<1>1. CASE UNCHANGED vars \/ Tick \/ Rest
  BY <1>1 DEF vars, Tick, Rest
<1>2. ASSUME NEW p \in Procs, NEW i \in Ids, GetLookup(p, i) \/ Remove(p, i) PROVE LockInv'
  BY <1>2 DEF GetLookup, Remove, Call, Goto
<1>3. ASSUME NEW p \in Procs, NEW i \in Ids, NEW v \in Vals, PutInsert(p, i, v)
      PROVE  LockInv'
  <2>1. /\ pc[p] = "idle" /\ pc' = [pc EXCEPT ![p] = "putLock"] /\ lock' = lock
        /\ \A q \in Procs \ {p} : ptr'[q] = ptr[q]
    BY <1>3 DEF PutInsert, Call, Goto
  <2>2. QED
    BY <2>1
<1>4. ASSUME NEW p \in Procs, GetLocked(p) \/ PutWrite(p) PROVE LockInv'
  BY <1>4 DEF GetLocked, PutWrite, LockEntry, Goto
<1>5. ASSUME NEW p \in Procs, PutStoreSeq(p) \/ ScanEntry(p) PROVE LockInv'
  BY <1>5 DEF PutStoreSeq, ScanEntry, Goto
<1>6. ASSUME NEW p \in Procs, GetExpire(p) \/ GetReturn(p) \/ Evict(p) PROVE LockInv'
  BY <1>6 DEF GetExpire, GetReturn, Evict, UnlockEntry, Return
<1>7. ASSUME NEW p \in Procs, EvictBegin(p) PROVE LockInv'
  BY <1>7 DEF EvictBegin, UnlockEntry, Return, Goto
<1>8. QED
  BY <1>1, <1>2, <1>3, <1>4, <1>5, <1>6, <1>7 DEF Next, Step

\* Drawing the next number keeps numbers unique and growing.
LEMMA DrawSInv ==
    ASSUME SInv, NEW p \in Procs, GetLocked(p) \/ PutWrite(p)
    PROVE  EntriesInjective' /\ SeqInv' /\ CandidateInv'
<1>1. CASE GetLocked(p) /\ Expired(ptr[p])
  BY <1>1, QuietSInv DEF SInv, IInv, TypeOK, GetLocked, Goto, Drawn, scan
<1>2. CASE PutWrite(p) \/ (GetLocked(p) /\ ~Expired(ptr[p]))
  <2>1. /\ seq' = seq + 1 /\ next' = [next EXCEPT ![p] = seq + 1]
        /\ UNCHANGED <<entries, lastSeq, ptr, mu, scanned, oldest, oldestSeq>>
        /\ p \notin Drawn
        /\ ptr[p] \in Cells
    BY <1>2 DEF SInv, IInv, CallInv, GetLocked, PutWrite, DrawSeq, Drawn, scan
  <2>2. Drawn' = Drawn \cup {p}
    BY <1>2 DEF SInv, IInv, TypeOK, GetLocked, PutWrite, Goto, Drawn
  <2>3. Stored' = Stored
    BY <2>1 DEF Stored
  <2>4. seq \in Nat /\ lastSeq \in [Cells -> Nat] /\ next \in [Procs -> Nat]
        /\ oldestSeq \in Nat /\ Drawn \subseteq Procs
    BY DEF SInv, IInv, TypeOK, Drawn
  <2>5. EntriesInjective'
    BY <2>1, <2>3 DEF SInv, EntriesInjective
  <2>6. SeqInv'
    BY <2>1, <2>2, <2>3, <2>4 DEF SInv, SeqInv
  <2>7. CandidateInv'
    <3>1. mu # NoProc /\ scanned # {} => oldestSeq <= seq
      <4>1. mu # NoProc /\ scanned # {} => entries[oldest] \in Cells
        BY DEF SInv, IInv, TypeOK, ScanInv, Stored
      <4>2. QED
        BY <2>4, <4>1 DEF SInv, SeqInv, CandidateInv
    <3>2. QED
      BY <2>1, <2>2, <2>4, <3>1 DEF SInv, CandidateInv
  <2>8. QED
    BY <2>5, <2>6, <2>7
<1>3. QED
  BY <1>1, <1>2

\* Storing the drawn number makes the entry newer than it was.
LEMMA StoreSInv ==
    ASSUME SInv, NEW p \in Procs, GetReturn(p) \/ PutStoreSeq(p)
    PROVE  EntriesInjective' /\ SeqInv' /\ CandidateInv'
<1>1. /\ lastSeq' = [lastSeq EXCEPT ![ptr[p]] = next[p]]
      /\ UNCHANGED <<entries, seq, mu, scanned, oldest, oldestSeq>>
      /\ p \in Drawn /\ ptr[p] \in Cells
  BY DEF SInv, IInv, CallInv, GetReturn, PutStoreSeq, Drawn, scan
<1>2. Drawn' = Drawn \ {p}
  BY DEF SInv, IInv, TypeOK, GetReturn, PutStoreSeq, Return, Goto, Drawn
<1>3. \A q \in Drawn' : ptr'[q] = ptr[q] /\ next'[q] = next[q]
  BY <1>2 DEF SInv, IInv, TypeOK, GetReturn, PutStoreSeq, Return, Drawn, args
<1>4. Stored' = Stored /\ \A i \in Stored : entries[i] \in Cells
  BY <1>1 DEF SInv, IInv, TypeOK, Stored
<1>5. /\ seq \in Nat /\ lastSeq \in [Cells -> Nat] /\ next \in [Procs -> Nat]
      /\ oldestSeq \in Nat /\ Drawn \subseteq Procs
  BY DEF SInv, IInv, TypeOK, Drawn
<1>6. \A q \in Drawn \ {p} : ptr[q] # ptr[p]
  BY <1>1 DEF SInv, LockInv, LockedPC, Drawn
<1>7. EntriesInjective'
  BY <1>1, <1>4 DEF SInv, EntriesInjective
<1>8. SeqInv'
  BY <1>1, <1>2, <1>3, <1>4, <1>5, <1>6 DEF SInv, SeqInv
<1>9. CandidateInv'
  <2> SUFFICES ASSUME mu # NoProc, scanned # {} PROVE CandidateInv'
    BY <1>1 DEF CandidateInv
  <2>1. scanned \subseteq Stored /\ oldest \in scanned /\ entries[oldest] \in Cells
    BY <1>4 DEF SInv, IInv, ScanInv
  <2>2. lastSeq[ptr[p]] < next[p] /\ next[p] # oldestSeq
    BY <1>1 DEF SInv, SeqInv, CandidateInv
  <2>3. \A c \in Cells : lastSeq[c] <= lastSeq'[c] /\ lastSeq'[c] \in Nat
    BY <1>1, <1>5, <2>2
  <2>4. QED
    BY <1>1, <1>2, <1>3, <1>4, <1>5, <2>1, <2>2, <2>3 DEF SInv, CandidateInv
<1>10. QED
  BY <1>7, <1>8, <1>9

\* A new entry gets a number that nobody has.
LEMMA InsertSInv ==
    ASSUME SInv, NEW p \in Procs, NEW i \in Ids, NEW v \in Vals, PutInsert(p, i, v)
    PROVE  EntriesInjective' /\ SeqInv' /\ CandidateInv'
<1>1. /\ mu = NoProc /\ UNCHANGED <<mu, next, scanned, oldest, oldestSeq>>
      /\ pc[p] = "idle" /\ pc' = [pc EXCEPT ![p] = "putLock"]
  BY DEF PutInsert, Call, Goto, scan
<1>2. Drawn' = Drawn /\ p \notin Drawn
  BY <1>1 DEF SInv, IInv, TypeOK, Drawn
<1>3. CandidateInv'
  BY <1>1 DEF CandidateInv
<1>4. CASE entries[i] # NoCell
  <2>1. UNCHANGED <<entries, seq, lastSeq>> /\ ptr' = [ptr EXCEPT ![p] = entries[i]]
    BY <1>4 DEF PutInsert
  <2>2. \A q \in Drawn' : q \in Drawn /\ ptr'[q] = ptr[q] /\ next'[q] = next[q]
    BY <1>1, <1>2, <2>1 DEF SInv, IInv, TypeOK
  <2>3. QED
    BY <1>1, <2>1, <2>2, QuietSInv
<1>5. CASE entries[i] = NoCell
  <2>1. PICK c \in Garbage :
          /\ ptr' = [ptr EXCEPT ![p] = c]
          /\ entries' = [entries EXCEPT ![i] = c]
          /\ seq' = seq + 1
          /\ lastSeq' = [lastSeq EXCEPT ![c] = seq + 1]
    BY <1>5 DEF PutInsert
  <2>2. /\ c \in Cells /\ c # NoCell
        /\ (\A j \in Ids : entries[j] # c) /\ (\A q \in Procs : ptr[q] # c)
    BY StoreAssumption DEF Garbage
  <2>3. Stored' = Stored \cup {i} /\ entries' \in [Ids -> Cells \cup {NoCell}]
    BY <2>1, <2>2, <1>5 DEF SInv, IInv, TypeOK, Stored
  <2>4. EntriesInjective'
    BY <2>1, <2>2, <2>3, <1>5 DEF SInv, IInv, TypeOK, EntriesInjective, Stored
  <2>5. /\ seq \in Nat /\ lastSeq \in [Cells -> Nat] /\ next \in [Procs -> Nat]
        /\ Drawn \subseteq Procs /\ \A j \in Stored : entries[j] \in Cells
    BY DEF SInv, IInv, TypeOK, Drawn, Stored
  <2>6. \A q \in Drawn : ptr'[q] = ptr[q] /\ next'[q] = next[q] /\ ptr[q] \in Cells
    BY <1>1, <1>2, <2>1, <2>5 DEF SInv, IInv, TypeOK, CallInv, Drawn
  <2>7. \A j \in Stored' : lastSeq'[entries'[j]] > 0
    BY <2>1, <2>2, <2>3, <2>5, <1>5 DEF SInv, IInv, TypeOK, SeqInv, Stored
  <2>8. SeqInv'
    BY <1>1, <1>2, <2>1, <2>2, <2>5, <2>6, <2>7 DEF SInv, SeqInv
  <2>9. QED
    BY <1>3, <2>4, <2>8
<1>6. QED
  BY <1>4, <1>5

\* Taking entries out of the map, whoever does it, is harmless to the numbers.
LEMMA DropSInv ==
    ASSUME SInv, NEW p \in Procs,
           GetExpire(p) \/ Evict(p) \/ \E i \in Ids : Remove(p, i)
    PROVE  EntriesInjective' /\ SeqInv' /\ CandidateInv'
<1>1. /\ mu' = NoProc /\ UNCHANGED <<seq, lastSeq>>
  BY DEF GetExpire, Evict, Remove, heap
<1>2. /\ Stored' \subseteq Stored
      /\ \A i \in Stored' : entries'[i] = entries[i]
  BY DEF SInv, IInv, TypeOK, GetExpire, ExpireEntry, Evict, Remove, Stored
<1>3. \A q \in Drawn' : q \in Drawn /\ ptr'[q] = ptr[q] /\ next'[q] = next[q]
  BY DEF SInv, IInv, TypeOK, GetExpire, Evict, Remove, Return, Drawn, args
<1>4. QED
  BY <1>1, <1>2, <1>3 DEF SInv, EntriesInjective, SeqInv, CandidateInv

\* The scan keeps the smallest number it has read; an entry it has read can
\* only have become newer since.
LEMMA ScanSInv ==
    ASSUME SInv, NEW p \in Procs, ScanEntry(p)
    PROVE  EntriesInjective' /\ SeqInv' /\ CandidateInv'
<1>1. /\ mu = p /\ p # NoProc /\ scanned \subseteq Stored
      /\ UNCHANGED <<entries, seq, lastSeq, mu, ptr, next, pc>>
  BY StoreAssumption DEF SInv, IInv, MuInv, ScanInv, ScanEntry, heap, args
<1>2. Stored' = Stored /\ Drawn' = Drawn
  BY <1>1 DEF Stored, Drawn
<1>3. EntriesInjective' /\ SeqInv'
  BY <1>1, <1>2 DEF SInv, EntriesInjective, SeqInv
<1>4. PICK i \in Stored \ scanned :
        /\ scanned' = scanned \cup {i}
        /\ oldest' = IF OldestFirst(lastSeq[entries[i]]) THEN i ELSE oldest
        /\ oldestSeq' = IF OldestFirst(lastSeq[entries[i]])
                        THEN lastSeq[entries[i]] ELSE oldestSeq
  BY DEF ScanEntry
<1>5. /\ lastSeq \in [Cells -> Nat] /\ oldestSeq \in Nat /\ Drawn \subseteq Procs
      /\ next \in [Procs -> Nat] /\ \A j \in Stored : entries[j] \in Cells
      /\ NoId \notin Stored
  BY StoreAssumption DEF SInv, IInv, TypeOK, Drawn, Stored
<1>6. \A j, k \in Stored : j # k => lastSeq[entries[j]] # lastSeq[entries[k]]
  BY <1>5 DEF SInv, SeqInv, EntriesInjective
<1>7. CandidateInv'
  <2>1. CASE scanned = {}
    BY <2>1, <1>1, <1>2, <1>4, <1>5 DEF SInv, IInv, ScanInv, SeqInv, CandidateInv, OldestFirst
  <2>2. CASE scanned # {} /\ lastSeq[entries[i]] < oldestSeq
    <3>1. oldest' = i /\ oldestSeq' = lastSeq[entries[i]]
      BY <2>2, <1>4 DEF OldestFirst
    <3>2. \A j \in scanned : oldestSeq' < lastSeq[entries[j]]
      BY <2>2, <3>1, <1>1, <1>5 DEF SInv, IInv, ScanInv, CandidateInv
    <3>3. QED
      BY <3>1, <3>2, <1>1, <1>2, <1>4, <1>5 DEF SInv, SeqInv, CandidateInv
  <2>3. CASE scanned # {} /\ ~(lastSeq[entries[i]] < oldestSeq)
    <3>1. oldest \in scanned /\ oldest # NoId
      BY <2>3, <1>1, <1>5 DEF SInv, IInv, ScanInv
    <3>2. oldest' = oldest /\ oldestSeq' = oldestSeq
      BY <2>3, <3>1, <1>4 DEF OldestFirst
    <3>3. entries[i] # entries[oldest]
      BY <3>1, <1>1, <1>4 DEF SInv, EntriesInjective
    <3>4. oldestSeq < lastSeq[entries[i]]
      BY <2>3, <3>3, <1>1, <1>5 DEF SInv, CandidateInv
    <3>5. QED
      BY <2>3, <3>1, <3>2, <3>4, <1>1, <1>2, <1>4, <1>5 DEF SInv, CandidateInv
  <2>4. QED
    BY <2>1, <2>2, <2>3
<1>8. QED
  BY <1>3, <1>7

\* Comparing the size takes s.mu at most; a scan has not looked at anything yet.
LEMMA EvictBeginSInv ==
    ASSUME SInv, NEW p \in Procs, EvictBegin(p)
    PROVE  EntriesInjective' /\ SeqInv' /\ CandidateInv'
<1>1. /\ mu = NoProc /\ UNCHANGED <<entries, seq, lastSeq, scanned>>
  BY DEF EvictBegin, scan
<1>2. \A q \in Drawn' : q \in Drawn /\ ptr'[q] = ptr[q] /\ next'[q] = next[q]
  BY DEF SInv, IInv, TypeOK, EvictBegin, Return, Goto, Drawn, args
<1>3. scanned' = {}
  BY <1>1 DEF SInv, IInv, ScanInv
<1>4. Stored' = Stored
  BY <1>1 DEF Stored
<1>5. QED
  BY <1>1, <1>2, <1>3, <1>4 DEF SInv, EntriesInjective, SeqInv, CandidateInv

\* The strengthened invariant is inductive.
LEMMA NextSInv == SInv /\ [Next]_vars => SInv'
<1> SUFFICES ASSUME SInv, [Next]_vars PROVE SInv'
  OBVIOUS
<1>1. IInv' /\ LockInv'
  BY NextTypeOK, NextMuInv, NextScanCapacity, NextLockInv DEF SInv, IInv
<1>2. EntriesInjective' /\ SeqInv' /\ CandidateInv'
  <2>1. CASE UNCHANGED vars \/ Tick \/ Rest
    BY <2>1, QuietSInv DEF vars, Tick, Rest, heap, scan, args, Drawn
  <2>2. ASSUME NEW p \in Procs, NEW i \in Ids, GetLookup(p, i)
        PROVE  EntriesInjective' /\ SeqInv' /\ CandidateInv'
    <3>1. \A q \in Drawn' : q \in Drawn /\ ptr'[q] = ptr[q] /\ next'[q] = next[q]
      BY <2>2 DEF SInv, IInv, TypeOK, GetLookup, Call, Goto, Drawn, args
    <3>2. QED
      BY <2>2, <3>1, QuietSInv DEF GetLookup, heap, scan
  <2>3. ASSUME NEW p \in Procs, NEW i \in Ids, Remove(p, i)
        PROVE  EntriesInjective' /\ SeqInv' /\ CandidateInv'
    BY <2>3, DropSInv
  <2>4. ASSUME NEW p \in Procs, NEW i \in Ids, NEW v \in Vals, PutInsert(p, i, v)
        PROVE  EntriesInjective' /\ SeqInv' /\ CandidateInv'
    BY <2>4, InsertSInv
  <2>5. ASSUME NEW p \in Procs, Step(p)
        PROVE  EntriesInjective' /\ SeqInv' /\ CandidateInv'
    BY <2>5, DrawSInv, StoreSInv, DropSInv, ScanSInv, EvictBeginSInv DEF Step
  <2>6. QED
    BY <2>1, <2>2, <2>3, <2>4, <2>5 DEF Next
<1>3. QED
  BY <1>1, <1>2 DEF SInv

\* Although the scan reads the numbers of the entries without their locks, the
\* one it settles on was, when read, older than every other entry is when it is
\* deleted (store.go:164-175).
THEOREM VictimWasOldestHolds == Spec => []VictimWasOldest
<1>1. SInv => VictimWasOldest
  <2> SUFFICES ASSUME SInv, mu # NoProc, scanned = Stored
               PROVE  /\ oldest \in Stored
                      /\ \A i \in Stored \ {oldest} : oldestSeq < lastSeq[entries[i]]
    BY DEF VictimWasOldest
  <2>1. Stored # {}
    BY FS_EmptySet, StoreAssumption DEF SInv, IInv, ScanInv
  <2>2. QED
    BY <2>1 DEF SInv, IInv, ScanInv, CandidateInv
<1>2. QED
  BY InitSInv, NextSInv, <1>1, PTL DEF Spec

(***************************************************************************)
(* A Get that found its entry expired holds the entry's lock until it has  *)
(* taken it out of the map, so the entry stays expired meanwhile.          *)
(***************************************************************************)
ExpireInv == \A p \in Procs : pc[p] = "getExpire" => Expired(ptr[p])

LEMMA NextExpireInv == SInv /\ ExpireInv /\ [Next]_vars => ExpireInv'
<1> SUFFICES ASSUME SInv, ExpireInv, [Next]_vars,
                    NEW q \in Procs, pc'[q] = "getExpire"
             PROVE  Expired(ptr[q])'
  BY DEF ExpireInv
<1> DEFINE Kept == /\ pc[q] = "getExpire" /\ ptr'[q] = ptr[q] /\ now <= now'
                   /\ lastUsed'[ptr[q]] = lastUsed[ptr[q]]
<1>0. /\ now \in Nat /\ now' \in Nat /\ TTL \in Nat /\ lastUsed \in [Cells -> Int]
      /\ pc \in [Procs -> Labels] /\ ptr \in [Procs -> Cells \cup {NoCell}]
  BY StoreAssumption, NextTypeOK DEF SInv, IInv, TypeOK
<1>1. pc[q] = "getExpire" => ptr[q] \in Cells /\ lock[ptr[q]] = q
  BY DEF SInv, IInv, CallInv, LockInv, LockedPC
<1>2. Kept => Expired(ptr[q])'
  BY <1>0, <1>1 DEF ExpireInv, Expired
<1>3. CASE UNCHANGED vars \/ Tick \/ Rest
  BY <1>0, <1>2, <1>3 DEF vars, Tick, Rest, heap, args
<1>4. ASSUME NEW p \in Procs, NEW i \in Ids, GetLookup(p, i) \/ Remove(p, i)
      PROVE  Expired(ptr[q])'
  BY <1>0, <1>2, <1>4 DEF GetLookup, Remove, Call, Goto, heap, args
<1>5. ASSUME NEW p \in Procs, NEW i \in Ids, NEW v \in Vals, PutInsert(p, i, v)
      PROVE  Expired(ptr[q])'
  <2>1. /\ pc[p] = "idle" /\ pc' = [pc EXCEPT ![p] = "putLock"] /\ now' = now
        /\ \A r \in Procs \ {p} : ptr'[r] = ptr[r]
    BY <1>0, <1>5 DEF PutInsert, Call, Goto
  <2>2. lastUsed' = lastUsed \/ \E c \in Garbage : lastUsed' = [lastUsed EXCEPT ![c] = ZeroTime]
    BY <1>5 DEF PutInsert
  <2>3. \A c \in Garbage : ptr[q] # c
    BY DEF Garbage
  <2>4. q # p /\ pc[q] = "getExpire" /\ ptr'[q] = ptr[q] /\ now <= now'
    BY <1>0, <2>1
  <2>5. lastUsed'[ptr[q]] = lastUsed[ptr[q]]
    BY <1>0, <1>1, <2>2, <2>3, <2>4
  <2>6. QED
    BY <1>2, <2>4, <2>5
<1>6. ASSUME NEW p \in Procs, GetLocked(p) \/ PutWrite(p) PROVE Expired(ptr[q])'
  <2>1. CASE q = p
    BY <1>0, <1>6, <2>1 DEF GetLocked, PutWrite, Goto, Expired
  <2>2. CASE q # p
    <3>1. pc'[q] = pc[q] /\ ptr' = ptr /\ now' = now
      BY <1>0, <1>6, <2>2 DEF GetLocked, PutWrite, Goto
    <3>2. lock[ptr[p]] = NoProc /\ q # NoProc
      BY <1>6, StoreAssumption DEF GetLocked, PutWrite, LockEntry
    <3>3. lastUsed' = lastUsed \/ lastUsed' = [lastUsed EXCEPT ![ptr[p]] = now]
      BY <1>6 DEF GetLocked, PutWrite
    <3>4. QED
      BY <1>0, <1>1, <1>2, <3>1, <3>2, <3>3
  <2>3. QED
    BY <2>1, <2>2
<1>7. ASSUME NEW p \in Procs, PutStoreSeq(p) \/ ScanEntry(p) \/ EvictBegin(p)
      PROVE  Expired(ptr[q])'
  BY <1>0, <1>2, <1>7 DEF PutStoreSeq, ScanEntry, EvictBegin, Return, Goto, heap, args
<1>8. ASSUME NEW p \in Procs, GetExpire(p) \/ GetReturn(p) \/ Evict(p)
      PROVE  Expired(ptr[q])'
  BY <1>0, <1>2, <1>8 DEF GetExpire, GetReturn, Evict, Return
<1>9. QED
  BY <1>3, <1>4, <1>5, <1>6, <1>7, <1>8 DEF Next, Step

\* A Get that takes its expired entry out of the map takes out nothing that is
\* alive: not its own entry, written meanwhile, nor a later one of the same id
\* (store.go:94-105).
THEOREM LiveEntrySurvivesGetHolds == Spec => LiveEntrySurvivesGet
<1>1. Init => ExpireInv
  BY DEF Init, ExpireInv
<1>2. ASSUME SInv, ExpireInv, Next, NEW p \in Procs, NEW i \in Ids,
             ExpiryDone(p), Live(i)
      PROVE  entries'[i] = entries[i]
  <2>1. pc[p] = "getExpire" /\ pc'[p] = "idle"
    BY <1>2 DEF ExpiryDone
  <2>2. GetExpire(p)
    <3>1. pc \in [Procs -> Labels]
      BY <1>2 DEF SInv, IInv, TypeOK
    <3>2. \A r \in Procs : Step(r) /\ r # p => pc'[p] = pc[p]
      BY <2>1, <3>1 DEF Step, GetLocked, GetExpire, GetReturn, PutWrite, PutStoreSeq,
         EvictBegin, ScanEntry, Evict, Goto, Return
    <3>3. Step(p) => GetExpire(p)
      BY <2>1 DEF Step, GetLocked, GetReturn, PutWrite, PutStoreSeq,
         EvictBegin, ScanEntry, Evict
    <3>4. ~Tick /\ ~Rest
      BY <2>1 DEF Tick, Rest, vars
    <3>5. \A r \in Procs, j \in Ids : ~Remove(r, j) /\ ~GetLookup(r, j)
      BY <2>1, <3>1 DEF Remove, GetLookup, Call, Goto, args
    <3>6. \A r \in Procs, j \in Ids, v \in Vals : ~PutInsert(r, j, v)
      BY <2>1, <3>1 DEF PutInsert, Call, Goto
    <3>7. QED
      BY <1>2, <2>1, <3>2, <3>3, <3>4, <3>5, <3>6 DEF Next
  <2>3. entries' = ExpireEntry(p) /\ Expired(ptr[p]) /\ ~Expired(entries[i])
    BY <1>2, <2>1, <2>2 DEF GetExpire, ExpireInv, Live
  <2>4. QED
    BY <2>3, <1>2 DEF ExpireEntry, SInv, IInv, TypeOK
<1>3. SInv /\ ExpireInv /\ [Next]_vars
        => [\A p \in Procs, i \in Ids :
              ExpiryDone(p) /\ Live(i) => entries'[i] = entries[i]]_vars
  BY <1>2
<1>4. QED
  BY InitSInv, NextSInv, NextExpireInv, <1>1, <1>3, PTL DEF Spec, LiveEntrySurvivesGet

-----------------------------------------------------------------------------
(***************************************************************************)
(* Store implements RecordMap when calls for one id do not overlap.        *)
(***************************************************************************)
Busy == {p \in Procs : pc[p] # "idle"}

\* Goroutines in a call never share an id or an entry.
SerialInv ==
    /\ \A p \in Procs \ Busy : id[p] = NoId /\ ptr[p] = NoCell
    /\ \A p, q \in Busy : p # q => id[p] # id[q] /\ ptr[p] # ptr[q]

\* The map leads from the id of a call to the entry of the call, or nowhere once
\* that was pushed out; from no other id does it lead there.
OwnEntryInv ==
    \A p \in Busy : /\ entries[id[p]] \in {ptr[p], NoCell}
                    /\ \A i \in Ids : entries[i] = ptr[p] => i = id[p]

\* The zero record is seen by nobody but the Put that is about to replace it.
WrittenInv ==
    /\ \A p \in Busy : pc[p] \in GetPC => val[ptr[p]] \in Vals
    /\ \A p \in Busy : pc[p] = "putLock" => new[p] \in Vals
    /\ \A i \in Stored :
          val[entries[i]] \in Vals \/ \E p \in Busy : pc[p] = "putLock" /\ id[p] = i

MapInv == SInv /\ ExpireInv /\ SerialInv /\ OwnEntryInv /\ WrittenInv

\* What is used of the types.
LEMMA MapTypes ==
    ASSUME MapInv
    PROVE  /\ entries \in [Ids -> Cells \cup {NoCell}] /\ now \in Nat
           /\ val \in [Cells -> Vals \cup {ZeroRec}] /\ lastUsed \in [Cells -> Int]
           /\ DOMAIN pc = Procs /\ DOMAIN id = Procs /\ DOMAIN ptr = Procs /\ DOMAIN new = Procs
           /\ \A p \in Busy : id[p] \in Ids /\ ptr[p] \in Cells /\ pc[p] \in Labels
           /\ \A i \in Ids : entries[i] # NoCell => i \in Stored /\ entries[i] \in Cells
           /\ Busy \subseteq Procs /\ NoId \notin Ids /\ NoCell \notin Cells
           /\ NoCell \notin Vals /\ ZeroRec \notin Vals /\ NoCell # ZeroRec
  BY StoreAssumption DEF MapInv, SInv, IInv, TypeOK, CallInv, Busy, Stored

LEMMA InitMapInv == Init => MapInv
  BY InitSInv DEF Init, MapInv, ExpireInv, SerialInv, OwnEntryInv, WrittenInv, Busy, Stored

\* A goroutine that goes on with its call, and one that returns.
LEMMA ReturnKeeps ==
    ASSUME MapInv, NEW p \in Busy, Return(p), UNCHANGED val,
           NEW i \in Ids \cup {NoId},
           \A j \in Ids \ {i} : entries'[j] = entries[j],
           i \in Ids => entries'[i] = NoCell, entries' \in [Ids -> Cells \cup {NoCell}],
           pc[p] # "putLock"
    PROVE  SerialInv' /\ OwnEntryInv' /\ WrittenInv'
<1>1. Busy' = Busy \ {p} /\ pc'[p] = "idle" /\ id'[p] = NoId /\ ptr'[p] = NoCell
  BY MapTypes DEF Return, Busy
<1>2. \A q \in Procs \ {p} : /\ pc'[q] = pc[q] /\ id'[q] = id[q] /\ ptr'[q] = ptr[q]
                             /\ new'[q] = new[q]
  BY MapTypes DEF Return
<1>3. Stored' \subseteq Stored /\ \A j \in Stored' : entries'[j] = entries[j]
  BY MapTypes DEF Stored
<1>4. SerialInv'
  BY <1>1, <1>2, MapTypes DEF MapInv, SerialInv
<1>5. OwnEntryInv'
  BY <1>1, <1>2, MapTypes DEF MapInv, OwnEntryInv
<1>6. WrittenInv'
  BY <1>1, <1>2, <1>3, MapTypes DEF MapInv, WrittenInv
<1>7. QED
  BY <1>4, <1>5, <1>6

LEMMA GoOnKeeps ==
    ASSUME MapInv, NEW p \in Busy, NEW label \in Labels \ {"idle", "putLock"}, Goto(p, label),
           UNCHANGED <<entries, id, ptr, new>>,
           \/ UNCHANGED val /\ pc[p] # "putLock"
           \/ pc[p] = "putLock" /\ val' = [val EXCEPT ![ptr[p]] = new[p]],
           label \in GetPC => pc[p] \in GetPC
    PROVE  SerialInv' /\ OwnEntryInv' /\ WrittenInv'
<1>1. /\ Busy' = Busy /\ pc'[p] = label /\ \A q \in Procs \ {p} : pc'[q] = pc[q]
      /\ Stored' = Stored
  BY MapTypes DEF Goto, Busy, Stored
<1>2. SerialInv'
  BY <1>1 DEF MapInv, SerialInv
<1>3. OwnEntryInv'
  BY <1>1 DEF MapInv, OwnEntryInv
<1>4. CASE UNCHANGED val /\ pc[p] # "putLock"
  <2>1. \A q \in Busy : pc'[q] \in GetPC => val'[ptr'[q]] \in Vals
    BY <1>1, <1>4 DEF MapInv, WrittenInv, Busy
  <2>2. \A q \in Busy : pc'[q] = "putLock" => new'[q] \in Vals
    BY <1>1 DEF MapInv, WrittenInv, Busy
  <2>3. ASSUME NEW i \in Stored
        PROVE  \/ val'[entries'[i]] \in Vals
               \/ \E q \in Busy : pc'[q] = "putLock" /\ id'[q] = i
    <3>1. ASSUME NEW q \in Busy, pc[q] = "putLock" PROVE pc'[q] = "putLock"
      BY <1>1, <1>4, <3>1 DEF Busy
    <3>2. QED
      BY <1>4, <3>1 DEF MapInv, WrittenInv
  <2>4. QED
    BY <1>1, <1>2, <1>3, <2>1, <2>2, <2>3 DEF WrittenInv
<1>5. CASE pc[p] = "putLock" /\ val' = [val EXCEPT ![ptr[p]] = new[p]]
  <2>1. /\ new[p] \in Vals /\ pc[p] \notin GetPC /\ val'[ptr[p]] = new[p]
        /\ \A c \in Cells \ {ptr[p]} : val'[c] = val[c]
    BY <1>5, MapTypes DEF MapInv, WrittenInv, GetPC
  <2>2. \A q \in Busy \ {p} : ptr[q] \in Cells /\ ptr[q] # ptr[p]
    BY MapTypes DEF MapInv, SerialInv
  <2>3. \A i \in Stored : entries[i] = ptr[p] \/ (entries[i] \in Cells \ {ptr[p]} /\ i # id[p])
    BY MapTypes DEF MapInv, OwnEntryInv, Stored
  <2>4. ASSUME NEW q \in Busy, pc'[q] \in GetPC PROVE val'[ptr'[q]] \in Vals
    <3>1. q # p
      BY <1>1, <2>1, <2>4
    <3>2. pc'[q] = pc[q] /\ val'[ptr[q]] = val[ptr[q]]
      BY <1>1, <2>1, <2>2, <3>1 DEF Busy
    <3>3. QED
      BY <2>4, <3>2 DEF MapInv, WrittenInv
  <2>5. \A q \in Busy : pc'[q] = "putLock" => new'[q] \in Vals
    BY <1>1 DEF MapInv, WrittenInv, Busy
  <2>6. ASSUME NEW i \in Stored
        PROVE  \/ val'[entries'[i]] \in Vals
               \/ \E q \in Busy : pc'[q] = "putLock" /\ id'[q] = i
    <3>1. CASE entries[i] = ptr[p]
      BY <2>1, <3>1
    <3>2. CASE entries[i] \in Cells \ {ptr[p]} /\ i # id[p]
      <4>1. val'[entries'[i]] = val[entries[i]]
        BY <2>1, <3>2
      <4>2. ASSUME NEW q \in Busy, pc[q] = "putLock", id[q] = i PROVE pc'[q] = "putLock"
        BY <1>1, <3>2, <4>2 DEF Busy
      <4>3. QED
        BY <4>1, <4>2 DEF MapInv, WrittenInv
    <3>3. QED
      BY <2>3, <3>1, <3>2
  <2>7. QED
    BY <1>1, <1>2, <1>3, <2>4, <2>5, <2>6 DEF WrittenInv
<1>6. QED
  BY <1>4, <1>5

LEMMA GetLookupKeeps ==
    ASSUME CallersSerialized, MapInv, NEW p \in Procs, NEW i \in Ids, GetLookup(p, i)
    PROVE  SerialInv' /\ OwnEntryInv' /\ WrittenInv'
<1>1. CASE entries[i] = NoCell
  BY <1>1 DEF GetLookup, args, heap, MapInv, SerialInv, OwnEntryInv, WrittenInv, Busy, Stored
<1>2. CASE entries[i] # NoCell
  <2>1. /\ p \notin Busy /\ Busy' = Busy \cup {p} /\ pc'[p] = "getLock"
        /\ id'[p] = i /\ ptr'[p] = entries[i] /\ \A q \in Procs : id[q] # i
    BY <1>2, MapTypes DEF GetLookup, Call, Goto, Busy
  <2>2. \A q \in Procs \ {p} : pc'[q] = pc[q] /\ id'[q] = id[q] /\ ptr'[q] = ptr[q]
    BY <1>2, MapTypes DEF GetLookup, Goto
  <2>3. UNCHANGED <<entries, val, new>> /\ Stored' = Stored
    BY <1>2 DEF GetLookup, heap, Stored
  <2>4. \A q \in Busy : entries[i] # ptr[q]
    BY <2>1, MapTypes DEF MapInv, OwnEntryInv
  <2>5. SerialInv'
    BY <2>1, <2>2, <2>4, MapTypes DEF MapInv, SerialInv
  <2>6. OwnEntryInv'
    <3>1. \A j \in Ids : entries[j] = entries[i] => j = i
      BY <1>2, MapTypes DEF MapInv, SInv, EntriesInjective
    <3>2. QED
      BY <2>1, <2>2, <2>3, <3>1, MapTypes DEF MapInv, OwnEntryInv
  <2>7. val[entries[i]] \in Vals
    BY <1>2, <2>1, MapTypes DEF MapInv, WrittenInv
  <2>8. WrittenInv'
    BY <2>1, <2>2, <2>3, <2>7, MapTypes DEF MapInv, WrittenInv, GetPC
  <2>9. QED
    BY <2>5, <2>6, <2>8
<1>3. QED
  BY <1>1, <1>2

LEMMA PutInsertKeeps ==
    ASSUME CallersSerialized, MapInv, NEW p \in Procs, NEW i \in Ids, NEW v \in Vals,
           PutInsert(p, i, v)
    PROVE  SerialInv' /\ OwnEntryInv' /\ WrittenInv'
<1>1. /\ p \notin Busy /\ Busy' = Busy \cup {p} /\ pc'[p] = "putLock"
      /\ id'[p] = i /\ new'[p] = v /\ \A q \in Procs : id[q] # i
  BY MapTypes DEF PutInsert, Call, Goto, Busy
<1>2. \A q \in Procs \ {p} : /\ pc'[q] = pc[q] /\ id'[q] = id[q] /\ ptr'[q] = ptr[q]
                             /\ new'[q] = new[q]
  BY MapTypes DEF PutInsert, Goto
<1>3. CASE entries[i] # NoCell
  <2>1. ptr'[p] = entries[i] /\ UNCHANGED <<entries, val>> /\ Stored' = Stored
    BY <1>3, MapTypes DEF PutInsert, Stored
  <2>2. \A q \in Busy : entries[i] # ptr[q]
    BY <1>1, MapTypes DEF MapInv, OwnEntryInv
  <2>3. SerialInv'
    BY <1>1, <1>2, <2>1, <2>2, MapTypes DEF MapInv, SerialInv
  <2>4. OwnEntryInv'
    <3>1. \A j \in Ids : entries[j] = entries[i] => j = i
      BY <1>3, MapTypes DEF MapInv, SInv, EntriesInjective
    <3>2. QED
      BY <1>1, <1>2, <2>1, <3>1, MapTypes DEF MapInv, OwnEntryInv
  <2>5. WrittenInv'
    BY <1>1, <1>2, <2>1, MapTypes DEF MapInv, WrittenInv, GetPC
  <2>6. QED
    BY <2>3, <2>4, <2>5
<1>4. CASE entries[i] = NoCell
  <2>1. PICK c \in Garbage : /\ ptr' = [ptr EXCEPT ![p] = c]
                             /\ entries' = [entries EXCEPT ![i] = c]
                             /\ val' = [val EXCEPT ![c] = ZeroRec]
    BY <1>4 DEF PutInsert
  <2>2. /\ c \in Cells /\ c # NoCell /\ ptr'[p] = c /\ entries'[i] = c
        /\ (\A j \in Ids : entries[j] # c) /\ (\A q \in Procs : ptr[q] # c)
        /\ (\A j \in Ids \ {i} : entries'[j] = entries[j])
        /\ \A d \in Cells \ {c} : val'[d] = val[d]
    BY <2>1, MapTypes DEF Garbage
  <2>3. Stored' = Stored \cup {i}
    BY <2>2, MapTypes DEF Stored
  <2>4. SerialInv'
    BY <1>1, <1>2, <2>2, MapTypes DEF MapInv, SerialInv
  <2>5. OwnEntryInv'
    BY <1>1, <1>2, <2>2, MapTypes DEF MapInv, OwnEntryInv
  <2>6. WrittenInv'
    <3>1. \A q \in Busy : ptr'[q] = ptr[q] /\ val'[ptr[q]] = val[ptr[q]]
      BY <1>1, <1>2, <2>2, MapTypes
    <3>2. \A j \in Stored \ {i} : entries'[j] = entries[j] /\ val'[entries[j]] = val[entries[j]]
      BY <2>2, MapTypes DEF Stored
    <3>3. QED
      BY <1>1, <1>2, <2>3, <3>1, <3>2, MapTypes DEF MapInv, WrittenInv, GetPC
  <2>7. QED
    BY <2>4, <2>5, <2>6
<1>5. QED
  BY <1>3, <1>4

LEMMA NextMapInv == CallersSerialized /\ MapInv /\ [Next]_vars => MapInv'
<1> SUFFICES ASSUME CallersSerialized, MapInv, [Next]_vars PROVE MapInv'
  OBVIOUS
<1>1. SInv' /\ ExpireInv'
  BY NextSInv, NextExpireInv DEF MapInv
<1>2. CASE UNCHANGED vars \/ Tick \/ Rest
  <2>1. UNCHANGED <<entries, pc, id, ptr, new, val>>
    BY <1>2 DEF vars, Tick, Rest, heap, args
  <2>2. SerialInv' /\ OwnEntryInv' /\ WrittenInv'
    BY <2>1 DEF MapInv, SerialInv, OwnEntryInv, WrittenInv, Busy, Stored
  <2>3. QED
    BY <1>1, <2>2 DEF MapInv
<1>3. ASSUME NEW p \in Procs, Step(p) PROVE SerialInv' /\ OwnEntryInv' /\ WrittenInv'
  <2>1. p \in Busy
    BY <1>3 DEF Step, GetLocked, GetExpire, GetReturn, PutWrite, PutStoreSeq,
                EvictBegin, ScanEntry, Evict, Busy
  <2>2. CASE GetLocked(p)
    <3>1. \/ Goto(p, "getExpire") \/ Goto(p, "getStoreSeq")
      BY <2>2 DEF GetLocked
    <3>2. UNCHANGED <<entries, id, ptr, new, val>> /\ pc[p] = "getLock"
      BY <2>2 DEF GetLocked
    <3>3. {"getExpire", "getStoreSeq"} \subseteq Labels \ {"idle", "putLock"} /\ pc[p] \in GetPC
      BY <3>2 DEF Labels, GetPC
    <3>4. QED
      BY <2>1, <3>1, <3>2, <3>3, GoOnKeeps
  <2>3. CASE PutWrite(p)
    <3>1. /\ Goto(p, "putStoreSeq") /\ UNCHANGED <<entries, id, ptr, new>>
          /\ pc[p] = "putLock" /\ val' = [val EXCEPT ![ptr[p]] = new[p]]
      BY <2>3 DEF PutWrite
    <3>2. "putStoreSeq" \in Labels \ {"idle", "putLock"} /\ "putStoreSeq" \notin GetPC
      BY DEF Labels, GetPC, PutPC
    <3>3. QED
      BY <2>1, <3>1, <3>2, GoOnKeeps
  <2>4. CASE PutStoreSeq(p) \/ (EvictBegin(p) /\ ~Fits)
    <3>1. \/ Goto(p, "evict") \/ Goto(p, "scan")
      BY <2>4 DEF PutStoreSeq, EvictBegin
    <3>2. UNCHANGED <<entries, id, ptr, new, val>> /\ pc[p] # "putLock"
      BY <2>4 DEF PutStoreSeq, EvictBegin, args
    <3>3. {"evict", "scan"} \subseteq Labels \ {"idle", "putLock"} /\ "evict" \notin GetPC
          /\ "scan" \notin GetPC
      BY DEF Labels, GetPC, PutPC
    <3>4. QED
      BY <2>1, <3>1, <3>2, <3>3, GoOnKeeps
  <2>5. CASE ScanEntry(p)
    BY <2>5 DEF ScanEntry, heap, args, MapInv, SerialInv, OwnEntryInv, WrittenInv, Busy, Stored
  <2>6. CASE GetReturn(p) \/ (EvictBegin(p) /\ Fits)
    <3>1. Return(p) /\ UNCHANGED <<entries, val>> /\ pc[p] # "putLock"
      BY <2>6 DEF GetReturn, EvictBegin
    <3>2. QED
      BY <2>1, <3>1, ReturnKeeps, MapTypes
  <2>7. CASE GetExpire(p)
    <3>1. Return(p) /\ UNCHANGED val /\ pc[p] # "putLock" /\ entries' = ExpireEntry(p)
      BY <2>7 DEF GetExpire
    <3>2. id[p] \in Ids /\ entries' = [entries EXCEPT ![id[p]] = NoCell]
      BY <2>1, <3>1, MapTypes DEF ExpireEntry, MapInv, OwnEntryInv
    <3>3. QED
      BY <2>1, <3>1, <3>2, ReturnKeeps, MapTypes
  <2>8. CASE Evict(p)
    <3>1. Return(p) /\ UNCHANGED val /\ pc[p] # "putLock"
          /\ entries' = [entries EXCEPT ![oldest] = NoCell]
      BY <2>8 DEF Evict
    <3>2. oldest \in Ids \cup {NoId}
      BY DEF MapInv, SInv, IInv, TypeOK
    <3>3. QED
      BY <2>1, <3>1, <3>2, ReturnKeeps, MapTypes
  <2>9. QED
    BY <1>3, <2>2, <2>3, <2>4, <2>5, <2>6, <2>7, <2>8 DEF Step
<1>4. QED
  BY <1>1, <1>2, <1>3, GetLookupKeeps, PutInsertKeeps DEF Next, Remove, MapInv

\* The read that a goroutine is at, and what of it a step of another one may change.
Reads(p) ==
    IF pc[p] \in {"getLock", "getExpire"} THEN RM!Asked(id[p], val[ptr[p]])
    ELSE IF pc[p] = "getStoreSeq" THEN RM!Found(id[p], val[ptr[p]]) ELSE RM!NoCall

LEMMA CallIsReads ==
    /\ call = [p \in Procs |-> Reads(p)] /\ call' = [p \in Procs |-> Reads(p)']
  BY DEF call, Reads, RM!Asked, RM!Found, RM!NoCall

LEMMA OneRead ==
    ASSUME MapInv, NEW p \in Procs,
           \A q \in Procs \ {p} : pc'[q] = pc[q] /\ id'[q] = id[q] /\ ptr'[q] = ptr[q],
           \A q \in Busy \ {p} : val'[ptr[q]] = val[ptr[q]]
    PROVE  call' = [call EXCEPT ![p] = Reads(p)']
<1>1. ASSUME NEW q \in Procs \ {p} PROVE Reads(q)' = Reads(q)
  <2>1. CASE q \in Busy
    BY <2>1 DEF Reads
  <2>2. CASE q \notin Busy
    BY <2>2 DEF Reads, Busy
  <2>3. QED
    BY <2>1, <2>2
<1>2. QED
  BY <1>1, CallIsReads

LEMMA SameContent ==
    ASSUME MapInv, UNCHANGED entries,
           \A i \in Stored : val'[entries[i]] = val[entries[i]]
                             /\ lastUsed'[entries[i]] = lastUsed[entries[i]]
    PROVE  UNCHANGED <<content, used>>
<1>1. UNCHANGED content
  BY DEF content, Stored
<1>2. \A i \in Ids : content[i] \in Vals => i \in Stored
  BY MapTypes DEF content, Stored
<1>3. QED
  BY <1>1, <1>2 DEF used

LEMMA ContentIs ==
    ASSUME MapInv
    PROVE  /\ RM!Stored = Stored
           /\ \A i \in Ids : content[i] = IF i \in Stored THEN val[entries[i]] ELSE NoCell
           /\ \A i \in Ids : used[i] = IF content[i] \in Vals THEN lastUsed[entries[i]] ELSE 0
           /\ content \in [Ids -> Vals \cup {ZeroRec, NoCell}]
<1>1. \A i \in Ids : content[i] = IF i \in Stored THEN val[entries[i]] ELSE NoCell
  BY MapTypes DEF content, Stored
<1>2. \A i \in Stored : val[entries[i]] \in Vals \cup {ZeroRec}
  BY MapTypes DEF Stored
<1>3. RM!Stored = Stored
  BY <1>1, <1>2, MapTypes DEF RM!Stored, Stored
<1>4. content \in [Ids -> Vals \cup {ZeroRec, NoCell}]
  BY <1>1, <1>2 DEF content
<1>5. QED
  BY <1>1, <1>3, <1>4 DEF used

\* An entry taken out of the map, by a Get or by the eviction of a Put.
LEMMA TakenOut ==
    ASSUME MapInv, NEW i \in Ids, entries' = [entries EXCEPT ![i] = NoCell],
           UNCHANGED <<val, lastUsed>>
    PROVE  content' = [content EXCEPT ![i] = NoCell] /\ used' = [used EXCEPT ![i] = 0]
<1>1. content' = [content EXCEPT ![i] = NoCell]
  BY MapTypes DEF content
<1>2. \A j \in Ids \ {i} : entries'[j] = entries[j] /\ content'[j] = content[j]
  BY <1>1, MapTypes DEF content
<1>3. content'[i] \notin Vals
  BY <1>1, MapTypes DEF content
<1>4. used' = [used EXCEPT ![i] = 0]
  <2>1. used'[i] = 0
    BY <1>3 DEF used
  <2>2. \A j \in Ids \ {i} : used'[j] = used[j]
    BY <1>2 DEF used
  <2>3. QED
    BY <2>1, <2>2 DEF used
<1>5. QED
  BY <1>1, <1>4

LEMMA GetRefines ==
    ASSUME CallersSerialized, MapInv, NEW p \in Procs, NEW i \in Ids, GetLookup(p, i)
    PROVE  RM!Ask(p, i) \/ UNCHANGED RM!vars
<1>1. UNCHANGED <<now, entries, val, lastUsed>>
  BY DEF GetLookup, heap
<1>2. UNCHANGED <<content, used>>
  BY <1>1, SameContent
<1>3. CASE entries[i] = NoCell
  BY <1>1, <1>2, <1>3 DEF GetLookup, args, call, RM!vars
<1>4. CASE entries[i] # NoCell
  <2>1. /\ pc[p] = "idle" /\ pc'[p] = "getLock" /\ id'[p] = i /\ ptr'[p] = entries[i]
        /\ \A q \in Procs : id[q] # i
        /\ \A q \in Procs \ {p} : pc'[q] = pc[q] /\ id'[q] = id[q] /\ ptr'[q] = ptr[q]
    BY <1>4, MapTypes DEF GetLookup, Call, Goto
  <2>2. content[i] = val[entries[i]] /\ content[i] \in Vals
    BY <1>4, <2>1, MapTypes, ContentIs DEF MapInv, WrittenInv
  <2>3. call[p] = RM!NoCall
    BY <2>1, CallIsReads DEF Reads
  <2>4. call' = [call EXCEPT ![p] = RM!Asked(i, content[i])]
    BY <1>1, <2>1, <2>2, OneRead DEF Reads
  <2>5. QED
    BY <1>1, <1>2, <2>2, <2>3, <2>4 DEF RM!Ask
<1>5. QED
  BY <1>3, <1>4

LEMMA LockedRefines ==
    ASSUME MapInv, NEW p \in Procs, GetLocked(p)
    PROVE  RM!Hit(p, id[p], val[ptr[p]]) \/ UNCHANGED RM!vars
<1>1. /\ p \in Busy /\ UNCHANGED <<now, entries, val, id, ptr>> /\ pc[p] = "getLock"
      /\ \A q \in Procs \ {p} : pc'[q] = pc[q]
  BY MapTypes DEF GetLocked, Goto, Busy
<1>2. call' = [call EXCEPT ![p] = Reads(p)'] /\ call[p] = RM!Asked(id[p], val[ptr[p]])
  BY <1>1, OneRead, CallIsReads DEF Reads
<1>3. CASE Expired(ptr[p])
  <2>1. UNCHANGED lastUsed /\ pc'[p] = "getExpire"
    BY <1>1, <1>3, MapTypes DEF GetLocked, Goto
  <2>2. Reads(p)' = Reads(p) /\ call = [q \in Procs |-> Reads(q)]
    BY <1>1, <2>1, CallIsReads DEF Reads
  <2>3. UNCHANGED call
    BY <1>2, <2>2
  <2>4. QED
    BY <1>1, <2>1, <2>3, SameContent DEF RM!vars
<1>4. CASE ~Expired(ptr[p])
  <2>1. lastUsed' = [lastUsed EXCEPT ![ptr[p]] = now] /\ pc'[p] = "getStoreSeq"
    BY <1>1, <1>4, MapTypes DEF GetLocked, Goto
  <2>2. call' = [call EXCEPT ![p] = RM!Found(id[p], val[ptr[p]])]
    BY <1>1, <1>2, <2>1 DEF Reads
  <2>3. UNCHANGED content
    BY <1>1 DEF content
  <2>4. CASE entries[id[p]] = NoCell
    <3>1. \A i \in Stored : entries[i] # ptr[p] /\ entries[i] \in Cells
      BY <1>1, <2>4, MapTypes DEF MapInv, OwnEntryInv, Stored
    <3>2. UNCHANGED used
      BY <1>1, <2>1, <3>1, SameContent, MapTypes
    <3>3. content[id[p]] = NoCell
      BY <1>1, <2>4, MapTypes DEF content
    <3>4. QED
      BY <1>1, <1>2, <2>2, <2>3, <3>2, <3>3 DEF RM!Hit
  <2>5. CASE entries[id[p]] = ptr[p]
    <3>1. /\ id[p] \in Ids /\ ptr[p] \in Cells /\ id[p] \in Stored
          /\ content[id[p]] = val[ptr[p]] /\ val[ptr[p]] \in Vals
      BY <1>1, <2>5, MapTypes, ContentIs DEF MapInv, WrittenInv, GetPC
    <3>2. used[id[p]] = lastUsed[ptr[p]] /\ ~RM!Stale(id[p])
      BY <1>4, <2>5, <3>1, ContentIs DEF Expired, RM!Stale
    <3>3. \A i \in Ids \ {id[p]} : entries[i] # ptr[p]
      BY <1>1, <2>5 DEF MapInv, OwnEntryInv
    <3>4. used' = [used EXCEPT ![id[p]] = now]
      <4>1. used'[id[p]] = now
        BY <1>1, <2>1, <2>3, <2>5, <3>1, MapTypes DEF used
      <4>2. \A i \in Ids \ {id[p]} : content[i] \in Vals => entries[i] \in Cells \ {ptr[p]}
        BY <3>3, MapTypes DEF content
      <4>3. \A i \in Ids \ {id[p]} : used'[i] = used[i]
        BY <1>1, <2>1, <2>3, <4>2, MapTypes DEF used
      <4>4. QED
        BY <4>1, <4>3 DEF used
    <3>5. QED
      BY <1>1, <1>2, <2>2, <2>3, <3>1, <3>2, <3>4 DEF RM!Hit
  <2>6. QED
    BY <1>1, <2>4, <2>5 DEF MapInv, OwnEntryInv
<1>5. QED
  BY <1>3, <1>4

LEMMA ExpireRefines ==
    ASSUME MapInv, NEW p \in Procs, GetExpire(p)
    PROVE  RM!Miss(p, id[p], val[ptr[p]])
<1>1. /\ p \in Busy /\ UNCHANGED <<now, val, lastUsed>> /\ pc[p] = "getExpire" /\ Return(p)
      /\ id[p] \in Ids /\ ptr[p] \in Cells
  BY MapTypes DEF GetExpire, Busy
<1>2. entries' = [entries EXCEPT ![id[p]] = NoCell]
  BY <1>1, MapTypes DEF GetExpire, ExpireEntry, MapInv, OwnEntryInv
<1>3. content' = [content EXCEPT ![id[p]] = NoCell] /\ used' = [used EXCEPT ![id[p]] = 0]
  BY <1>1, <1>2, TakenOut
<1>4. call[p] = RM!Asked(id[p], val[ptr[p]])
  BY <1>1, CallIsReads DEF Reads
<1>5. call' = [call EXCEPT ![p] = RM!NoCall]
  BY <1>1, OneRead, MapTypes DEF Return, Reads
<1>6. CASE entries[id[p]] = NoCell
  <2>1. content[id[p]] = NoCell
    BY <1>1, <1>6 DEF content
  <2>2. QED
    BY <1>1, <1>3, <1>4, <1>5, <2>1 DEF RM!Miss
<1>7. CASE entries[id[p]] = ptr[p]
  <2>1. content[id[p]] = val[ptr[p]] /\ content[id[p]] \in Vals
    BY <1>1, <1>7, MapTypes DEF content, MapInv, WrittenInv, GetPC
  <2>2. used[id[p]] = lastUsed[ptr[p]]
    BY <1>1, <1>7, <2>1 DEF used
  <2>3. RM!Stale(id[p])
    BY <1>1, <2>2 DEF RM!Stale, MapInv, ExpireInv, Expired
  <2>4. QED
    BY <1>1, <1>3, <1>4, <1>5, <2>1, <2>3 DEF RM!Miss
<1>8. QED
  BY <1>1, <1>6, <1>7 DEF MapInv, OwnEntryInv

LEMMA ReturnRefines ==
    ASSUME MapInv, NEW p \in Procs, GetReturn(p)
    PROVE  RM!Answer(p, id[p], val[ptr[p]])
<1>1. /\ UNCHANGED <<now, entries, val, lastUsed>> /\ pc[p] = "getStoreSeq" /\ Return(p)
  BY DEF GetReturn
<1>2. UNCHANGED <<content, used>>
  BY <1>1, SameContent
<1>3. call[p] = RM!Found(id[p], val[ptr[p]])
  BY <1>1, CallIsReads DEF Reads
<1>4. call' = [call EXCEPT ![p] = RM!NoCall]
  BY <1>1, OneRead, MapTypes DEF Return, Reads
<1>5. QED
  BY <1>1, <1>2, <1>3, <1>4 DEF RM!Answer

\* The steps of a Put leave the reads alone.
LEMMA PutKeepsReads ==
    ASSUME MapInv, NEW p \in Procs,
           pc[p] \notin GetPC, pc'[p] \notin GetPC,
           \A q \in Procs \ {p} : pc'[q] = pc[q] /\ id'[q] = id[q] /\ ptr'[q] = ptr[q],
           \A q \in Busy \ {p} : val'[ptr[q]] = val[ptr[q]]
    PROVE  UNCHANGED call
<1>1. call' = [call EXCEPT ![p] = Reads(p)']
  BY OneRead
<1>2. Reads(p) = RM!NoCall /\ Reads(p)' = RM!NoCall
  BY DEF Reads, GetPC
<1>3. QED
  BY <1>1, <1>2, CallIsReads

LEMMA InsertRefines ==
    ASSUME MapInv, NEW p \in Procs, NEW i \in Ids, NEW v \in Vals, PutInsert(p, i, v)
    PROVE  RM!Claim(i) \/ UNCHANGED RM!vars
<1>1. /\ UNCHANGED now /\ pc[p] \notin GetPC /\ pc'[p] \notin GetPC
      /\ \A q \in Procs \ {p} : pc'[q] = pc[q] /\ id'[q] = id[q] /\ ptr'[q] = ptr[q]
  BY MapTypes DEF PutInsert, Call, Goto, GetPC
<1>2. CASE entries[i] # NoCell
  <2>1. UNCHANGED <<entries, val, lastUsed>>
    BY <1>2 DEF PutInsert
  <2>2. QED
    BY <1>1, <2>1, SameContent, PutKeepsReads DEF RM!vars
<1>3. CASE entries[i] = NoCell
  <2>1. PICK c \in Garbage : /\ entries' = [entries EXCEPT ![i] = c]
                             /\ val' = [val EXCEPT ![c] = ZeroRec]
                             /\ lastUsed' = [lastUsed EXCEPT ![c] = ZeroTime]
    BY <1>3 DEF PutInsert
  <2>2. /\ c \in Cells /\ c # NoCell
        /\ (\A j \in Ids : entries[j] # c) /\ (\A q \in Procs : ptr[q] # c)
    BY MapTypes DEF Garbage
  <2>3. /\ entries'[i] = c /\ val'[c] = ZeroRec
        /\ \A j \in Ids \ {i} : entries'[j] = entries[j]
        /\ \A d \in Cells \ {c} : val'[d] = val[d] /\ lastUsed'[d] = lastUsed[d]
    BY <2>1, <2>2, MapTypes
  <2>4. UNCHANGED call
    BY <1>1, <2>2, <2>3, PutKeepsReads, MapTypes
  <2>5. content[i] = NoCell
    BY <1>3 DEF content
  <2>6. content' = [content EXCEPT ![i] = ZeroRec]
    <3>1. content'[i] = ZeroRec
      BY <2>2, <2>3 DEF content
    <3>2. \A j \in Ids \ {i} : content'[j] = content[j]
      BY <2>2, <2>3, MapTypes DEF content
    <3>3. QED
      BY <3>1, <3>2 DEF content
  <2>7. UNCHANGED used
    <3>1. used[i] = 0 /\ used'[i] = 0
      BY <2>5, <2>6, MapTypes DEF used, content
    <3>2. \A j \in Ids \ {i} : content'[j] = content[j]
      BY <2>6 DEF content
    <3>3. \A j \in Ids \ {i} : content[j] \in Vals => entries[j] \in Cells \ {c}
      BY <2>2, MapTypes DEF content
    <3>4. \A j \in Ids \ {i} : used'[j] = used[j]
      BY <2>3, <3>2, <3>3 DEF used
    <3>5. QED
      BY <3>1, <3>4 DEF used
  <2>8. QED
    BY <1>1, <2>4, <2>5, <2>6, <2>7 DEF RM!Claim
<1>4. QED
  BY <1>2, <1>3

LEMMA WriteRefines ==
    ASSUME MapInv, NEW p \in Procs, PutWrite(p)
    PROVE  RM!Fill(id[p], new[p]) \/ UNCHANGED RM!vars
<1>1. /\ p \in Busy /\ UNCHANGED <<now, entries, id, ptr>> /\ pc[p] = "putLock"
      /\ pc'[p] = "putStoreSeq" /\ \A q \in Procs \ {p} : pc'[q] = pc[q]
      /\ val' = [val EXCEPT ![ptr[p]] = new[p]]
      /\ lastUsed' = [lastUsed EXCEPT ![ptr[p]] = now]
  BY MapTypes DEF PutWrite, Goto, Busy
<1>2. /\ id[p] \in Ids /\ ptr[p] \in Cells /\ new[p] \in Vals
      /\ val'[ptr[p]] = new[p] /\ lastUsed'[ptr[p]] = now
      /\ \A d \in Cells \ {ptr[p]} : val'[d] = val[d] /\ lastUsed'[d] = lastUsed[d]
  BY <1>1, MapTypes DEF MapInv, WrittenInv
<1>3. UNCHANGED call
  <2>1. \A q \in Busy \ {p} : ptr[q] \in Cells \ {ptr[p]}
    BY <1>1, MapTypes DEF MapInv, SerialInv
  <2>2. pc[p] \notin GetPC /\ pc'[p] \notin GetPC
    BY <1>1 DEF GetPC
  <2>3. QED
    BY <1>1, <1>2, <2>1, <2>2, PutKeepsReads
<1>4. CASE entries[id[p]] = NoCell
  <2>1. \A i \in Stored : entries[i] \in Cells \ {ptr[p]}
    BY <1>1, <1>4, MapTypes DEF MapInv, OwnEntryInv, Stored
  <2>2. QED
    BY <1>1, <1>2, <1>3, <2>1, SameContent DEF RM!vars
<1>5. CASE entries[id[p]] = ptr[p]
  <2>1. \A i \in Ids \ {id[p]} : entries[i] \in (Cells \cup {NoCell}) \ {ptr[p]}
    BY <1>1, <1>5, MapTypes DEF MapInv, OwnEntryInv
  <2>2. content[id[p]] # NoCell
    BY <1>2, <1>5, MapTypes DEF content
  <2>3. content' = [content EXCEPT ![id[p]] = new[p]]
    <3>1. content'[id[p]] = new[p]
      BY <1>1, <1>2, <1>5, MapTypes DEF content
    <3>2. \A i \in Ids \ {id[p]} : content'[i] = content[i]
      BY <1>1, <1>2, <2>1 DEF content
    <3>3. QED
      BY <3>1, <3>2 DEF content
  <2>4. used' = [used EXCEPT ![id[p]] = now]
    <3>1. used'[id[p]] = now
      BY <1>1, <1>2, <1>5, <2>3 DEF used, content
    <3>2. \A i \in Ids \ {id[p]} : content'[i] = content[i]
      BY <2>3 DEF content
    <3>3. \A i \in Ids \ {id[p]} : content[i] \in Vals => entries[i] \in Cells \ {ptr[p]}
      BY <2>1, MapTypes DEF content
    <3>4. \A i \in Ids \ {id[p]} : used'[i] = used[i]
      BY <1>1, <1>2, <3>2, <3>3 DEF used
    <3>5. QED
      BY <3>1, <3>4 DEF used
  <2>5. QED
    BY <1>1, <1>3, <2>2, <2>3, <2>4 DEF RM!Fill
<1>6. QED
  BY <1>1, <1>4, <1>5 DEF MapInv, OwnEntryInv

\* RecordMap counts as Store does.
LEMMA SameCardinality == ASSUME NEW S PROVE RM!Cardinality(S) = Cardinality(S)
  BY DEF RM!Cardinality, Cardinality

LEMMA EvictRefines ==
    ASSUME MapInv, NEW p \in Procs, Evict(p)
    PROVE  RM!PushOut(oldest) /\ oldest \in Ids
<1>1. /\ UNCHANGED <<now, val, lastUsed>> /\ pc[p] = "scan" /\ Return(p)
      /\ entries' = [entries EXCEPT ![oldest] = NoCell] /\ scanned = Stored
  BY DEF Evict
<1>2. Cardinality(Stored) > MaxSize
  BY <1>1, StoreAssumption DEF MapInv, SInv, IInv, MuInv, ScanInv
<1>3. oldest \in Stored
  BY <1>1, <1>2, FS_EmptySet, StoreAssumption DEF MapInv, SInv, IInv, ScanInv
<1>4. oldest \in Ids
  BY <1>3 DEF Stored
<1>5. content' = [content EXCEPT ![oldest] = NoCell] /\ used' = [used EXCEPT ![oldest] = 0]
  BY <1>1, <1>4, TakenOut
<1>6. UNCHANGED call
  BY <1>1, PutKeepsReads, MapTypes DEF Return, GetPC
<1>7. oldest \in RM!Stored /\ Cardinality(RM!Stored) > MaxSize
  BY <1>2, <1>3, ContentIs
<1>8. QED
  BY <1>1, <1>4, <1>5, <1>6, <1>7, SameCardinality DEF RM!PushOut

LEMMA StepRefines == CallersSerialized /\ MapInv /\ [Next]_vars => [RM!Next]_(RM!vars)
<1> SUFFICES ASSUME CallersSerialized, MapInv, [Next]_vars PROVE [RM!Next]_(RM!vars)
  OBVIOUS
<1>1. CASE UNCHANGED vars \/ Rest
  BY <1>1 DEF vars, Rest, heap, args, RM!vars, content, used, call
<1>2. CASE Tick
  <2>1. UNCHANGED <<content, used, call>>
    BY <1>2 DEF Tick, heap, args, content, used, call
  <2>2. QED
    BY <1>2, <2>1 DEF Tick, RM!Tick, RM!Next
<1>3. ASSUME NEW p \in Procs, NEW i \in Ids, GetLookup(p, i) PROVE [RM!Next]_(RM!vars)
  BY <1>3, GetRefines DEF RM!Next
<1>4. ASSUME NEW p \in Procs, NEW i \in Ids, NEW v \in Vals, PutInsert(p, i, v)
      PROVE  [RM!Next]_(RM!vars)
  BY <1>4, InsertRefines DEF RM!Next
<1>5. ASSUME NEW p \in Procs, Step(p) PROVE [RM!Next]_(RM!vars)
  <2>1. id[p] \in Ids /\ (pc[p] \in GetPC => val[ptr[p]] \in Vals)
                      /\ (pc[p] = "putLock" => new[p] \in Vals)
    BY <1>5, MapTypes DEF Step, GetLocked, GetExpire, GetReturn, PutWrite, PutStoreSeq,
                EvictBegin, ScanEntry, Evict, Busy, MapInv, WrittenInv
  <2>2. CASE GetLocked(p) \/ GetExpire(p) \/ GetReturn(p)
    <3>1. pc[p] \in GetPC
      BY <2>2 DEF GetLocked, GetExpire, GetReturn, GetPC
    <3>2. QED
      BY <2>1, <2>2, <3>1, LockedRefines, ExpireRefines, ReturnRefines DEF RM!Next
  <2>3. CASE PutWrite(p)
    <3>1. pc[p] = "putLock"
      BY <2>3 DEF PutWrite
    <3>2. QED
      BY <2>1, <2>3, <3>1, WriteRefines DEF RM!Next
  <2>4. CASE Evict(p)
    BY <2>4, EvictRefines DEF RM!Next
  <2>5. CASE PutStoreSeq(p) \/ EvictBegin(p) \/ ScanEntry(p)
    <3>1. UNCHANGED <<now, entries, val, lastUsed>>
      BY <2>5 DEF PutStoreSeq, EvictBegin, ScanEntry, heap
    <3>2. /\ pc[p] \notin GetPC /\ pc'[p] \notin GetPC
          /\ \A q \in Procs \ {p} : pc'[q] = pc[q] /\ id'[q] = id[q] /\ ptr'[q] = ptr[q]
      BY <2>5, MapTypes DEF PutStoreSeq, EvictBegin, ScanEntry, Return, Goto, args, GetPC
    <3>3. QED
      BY <3>1, <3>2, SameContent, PutKeepsReads DEF RM!vars
  <2>6. QED
    BY <1>5, <2>2, <2>3, <2>4, <2>5 DEF Step
<1>6. QED
  BY <1>1, <1>2, <1>3, <1>4, <1>5 DEF Next, Remove

LEMMA InitRefines == Init => RM!Init
<1> SUFFICES ASSUME Init PROVE RM!Init
  OBVIOUS
<1>1. content = [i \in Ids |-> NoCell]
  BY DEF Init, content
<1>2. used = [i \in Ids |-> 0]
  BY <1>1, StoreAssumption DEF used
<1>3. call = [p \in Procs |-> RM!NoCall]
  BY CallIsReads DEF Init, Reads
<1>4. QED
  BY <1>1, <1>2, <1>3 DEF Init, RM!Init

\* Callers that never overlap on one id, such as Service.Process, may take the store
\* for a plain map: a read gets the record last stored or none, an expired record is
\* never read, one that is used or fits is not lost (store.go:82-177).
THEOREM Refinement == ASSUME CallersSerialized PROVE Spec => ImplementsRecordMap
<1>1. MapInv /\ [Next]_vars => MapInv' /\ [RM!Next]_(RM!vars)
  BY NextMapInv, StepRefines
<1>2. QED
  BY InitMapInv, InitRefines, <1>1, PTL DEF Spec, ImplementsRecordMap, RM!Spec

=============================================================================
