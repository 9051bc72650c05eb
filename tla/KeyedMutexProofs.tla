-------------------------- MODULE KeyedMutexProofs --------------------------
(***************************************************************************)
(* Proofs about KeyedMutex for every set of goroutines (finite), keys and  *)
(* lock cells: type correctness, mutual exclusion, Unlock finds its own    *)
(* lock object, the map of locks does not leak, and the refinement of      *)
(* KeyLocks.  All of them rest on one inductive invariant, IInv.           *)
(***************************************************************************)
EXTENDS KeyedMutex, FiniteSetTheorems, TLAPS

\* k.mu is held exactly by the goroutine that runs one of the two sections.
MuInv == \A p \in Procs : pc[p] \in {"lookup", "release"} <=> mu = p

\* A goroutine in a call has a key; only a counted one has a lock object.
CallInv ==
    /\ \A p \in Procs : pc[p] # "idle" => key[p] \in Keys
    /\ \A p \in Procs : pc[p] \notin Counted => ptr[p] = NoLock

\* Different keys never share a lock object.
MapInjective == \A j, k \in Keys : m[j] = m[k] /\ m[j] # NoLock => j = k

\* The owner of a lock object is a goroutine inside it.
OwnerInv ==
    \A l \in Locks : owner[l] # NoProc
        => pc[owner[l]] \in Inside /\ ptr[owner[l]] = l

IInv ==
    /\ TypeOK
    /\ MuInv
    /\ CallInv
    /\ MapInjective
    /\ OwnerInv
    /\ UnlockFindsOwnLock
    /\ RefsCountUsers

-----------------------------------------------------------------------------
\* The users of a key are finitely many, so they can be counted.
LEMMA UsersFinite ==
    ASSUME NEW k \in Keys
    PROVE  IsFiniteSet(Users(k)) /\ Cardinality(Users(k)) \in Nat
<1>1. Users(k) \in SUBSET Procs
  BY DEF Users
<1>2. IsFiniteSet(Users(k))
  BY <1>1, KMAssumption, FS_Subset
<1>3. QED
  BY <1>2, FS_CardinalityType

\* No goroutine in a call, an empty map: the invariant holds at the start.
LEMMA InitIInv == Init => IInv
BY KMAssumption DEF Init, IInv, TypeOK, MuInv, CallInv, MapInjective, OwnerInv,
     UnlockFindsOwnLock, RefsCountUsers, Users, PC, Counted, Inside

\* Lock touches neither the map nor a lock object.
LEMMA LockIInv ==
    ASSUME NEW p \in Procs, NEW k \in Keys, IInv, Lock(p, k)
    PROVE  IInv'
<1> USE KMAssumption DEF IInv
<1>1. TypeOK'
  BY DEF TypeOK, Lock, PC
<1>2. MuInv'
  BY DEF TypeOK, MuInv, Lock
<1>3. CallInv' /\ MapInjective' /\ OwnerInv' /\ UnlockFindsOwnLock'
  BY DEF TypeOK, CallInv, MapInjective, OwnerInv, UnlockFindsOwnLock, Lock, Counted, Inside
<1>4. \A j \in Keys : Users(j)' = Users(j)
  BY DEF TypeOK, Users, Lock, Counted
<1>5. RefsCountUsers'
  BY <1>4 DEF RefsCountUsers, Lock
<1>6. QED
  BY <1>1, <1>2, <1>3, <1>5

\* Registering counts the goroutine on the object its key leads to.
LEMMA RegisterIInv ==
    ASSUME NEW p \in Procs, IInv, Register(p)
    PROVE  IInv'
<1> USE KMAssumption DEF IInv
<1>0. PICK k \in Keys : k = key[p]
  BY DEF TypeOK, CallInv, Register
<1>1. PICK l \in LockFor(k) :
          /\ refs' = RefsAfterRegister(l, k)
          /\ m' = [m EXCEPT ![k] = l]
          /\ ptr' = [ptr EXCEPT ![p] = l]
  BY <1>0 DEF Register
<1>2. /\ k = key[p]
      /\ l \in Locks
      /\ m[k] # NoLock => l = m[k]
      /\ m[k] = NoLock => (\A j \in Keys : m[j] # l) /\ (\A q \in Procs : ptr[q] # l)
      /\ pc[p] = "lookup" /\ mu' = NoProc /\ pc' = [pc EXCEPT ![p] = "waiting"]
      /\ owner' = owner /\ key' = key
  BY <1>0 DEF TypeOK, CallInv, Register, LockFor, Garbage
<1>3. TypeOK'
  BY <1>1, <1>2 DEF TypeOK, RefsAfterRegister, PC
<1>4. MuInv'
  BY <1>2 DEF TypeOK, MuInv
<1>5. CallInv' /\ MapInjective' /\ OwnerInv'
  BY <1>1, <1>2 DEF TypeOK, CallInv, MapInjective, OwnerInv, Counted, Inside
<1>6. UnlockFindsOwnLock'
  <2>1. \A q \in Procs : pc[q] \in Counted => m'[key[q]] = m[key[q]]
    BY <1>1, <1>2 DEF TypeOK, UnlockFindsOwnLock, CallInv, Counted
  <2>2. QED
    BY <1>1, <1>2, <2>1 DEF TypeOK, UnlockFindsOwnLock, CallInv, Counted, Inside
<1>7. RefsCountUsers'
  <2> SUFFICES ASSUME NEW j \in Keys
               PROVE  IF m'[j] = NoLock THEN Users(j)' = {}
                      ELSE Users(j)' # {} /\ refs'[m'[j]] = Cardinality(Users(j)')
    BY DEF RefsCountUsers
  <2>1. CASE j = k
    <3>1. Users(k)' = Users(k) \cup {p} /\ p \notin Users(k)
      BY <1>2 DEF TypeOK, Users, Counted
    <3>2. Cardinality(Users(k)') = Cardinality(Users(k)) + 1
      <4>1. IsFiniteSet(Users(k))
        BY UsersFinite, <1>2
      <4>2. QED
        BY <3>1, <4>1, FS_AddElement
    <3>3. refs'[m'[k]] = Cardinality(Users(k)')
      <4>1. m'[k] = l
        BY <1>1, <1>2 DEF TypeOK
      <4>2. CASE m[k] = NoLock
        <5>1. Cardinality(Users(k)) = 0
          BY <4>2, FS_EmptySet DEF RefsCountUsers
        <5>2. refs'[l] = 1
          BY <4>2, <1>1, <1>2 DEF TypeOK, RefsAfterRegister
        <5>3. QED
          BY <4>1, <5>1, <5>2, <3>2
      <4>3. CASE m[k] # NoLock
        BY <4>1, <4>3, <3>2, <1>1, <1>2 DEF TypeOK, RefsAfterRegister, RefsCountUsers
      <4>4. QED
        BY <4>2, <4>3
    <3>4. QED
      BY <2>1, <3>1, <3>3, <1>1, <1>2 DEF TypeOK
  <2>2. CASE j # k
    <3>1. Users(j)' = Users(j)
      BY <2>2, <1>2 DEF TypeOK, Users, Counted
    <3>2. m'[j] = m[j] /\ (m[j] # NoLock => m[j] # l)
      BY <2>2, <1>1, <1>2 DEF TypeOK, MapInjective
    <3>3. m[j] # NoLock => refs'[m[j]] = refs[m[j]]
      BY <3>2, <1>1, <1>2 DEF TypeOK, RefsAfterRegister
    <3>4. QED
      BY <3>1, <3>2, <3>3 DEF RefsCountUsers
  <2>3. QED
    BY <2>1, <2>2
<1>8. QED
  BY <1>3, <1>4, <1>5, <1>6, <1>7

\* Entering a free lock object.
LEMMA AcquireIInv ==
    ASSUME NEW p \in Procs, IInv, Acquire(p)
    PROVE  IInv'
<1> USE KMAssumption DEF IInv
<1>1. TypeOK' /\ MuInv' /\ CallInv' /\ MapInjective'
  BY DEF TypeOK, MuInv, CallInv, MapInjective, Acquire, UnlockFindsOwnLock, PC, Counted
<1>2. OwnerInv' /\ UnlockFindsOwnLock'
  BY DEF TypeOK, OwnerInv, UnlockFindsOwnLock, Acquire, Counted, Inside
<1>3. \A j \in Keys : Users(j)' = Users(j)
  BY DEF TypeOK, Users, Acquire, Counted
<1>4. RefsCountUsers'
  BY <1>3 DEF RefsCountUsers, Acquire
<1>5. QED
  BY <1>1, <1>2, <1>4

\* Locking k.mu again, with the map and the lock objects unchanged.
LEMMA UnlockIInv ==
    ASSUME NEW p \in Procs, IInv, Unlock(p)
    PROVE  IInv'
<1> USE KMAssumption DEF IInv
<1>1. TypeOK' /\ MuInv' /\ CallInv' /\ MapInjective'
  BY DEF TypeOK, MuInv, CallInv, MapInjective, Unlock, PC, Counted
<1>2. OwnerInv' /\ UnlockFindsOwnLock'
  BY DEF TypeOK, OwnerInv, UnlockFindsOwnLock, Unlock, Counted, Inside
<1>3. \A j \in Keys : Users(j)' = Users(j)
  BY DEF TypeOK, Users, Unlock, Counted
<1>4. RefsCountUsers'
  BY <1>3 DEF RefsCountUsers, Unlock
<1>5. QED
  BY <1>1, <1>2, <1>4

\* Releasing uncounts the goroutine, and the entry goes with its last user.
LEMMA ReleaseIInv ==
    ASSUME NEW p \in Procs, IInv, Release(p)
    PROVE  IInv'
<1> USE KMAssumption DEF IInv
<1>0. PICK k \in Keys, l \in Locks : k = key[p] /\ l = m[k]
  BY DEF TypeOK, Release, CallInv, UnlockFindsOwnLock, Counted
<1>1. /\ pc[p] = "release" /\ k = key[p] /\ l = m[k] /\ l # NoLock
      /\ ptr[p] = l /\ owner[l] = p /\ p \in Users(k)
  BY <1>0 DEF TypeOK, Release, CallInv, UnlockFindsOwnLock, Users, Counted, Inside
<1>2. /\ mu' = NoProc
      /\ refs' = [refs EXCEPT ![l] = @ - 1]
      /\ m' = IF refs[l] = 1 THEN [m EXCEPT ![k] = NoLock] ELSE m
      /\ owner' = [owner EXCEPT ![l] = NoProc]
      /\ pc' = [pc EXCEPT ![p] = "idle"]
      /\ key' = [key EXCEPT ![p] = NoKey]
      /\ ptr' = [ptr EXCEPT ![p] = NoLock]
  BY <1>1 DEF Release, LastUser, OwnerAfterRelease
<1>3. /\ Users(k)' = Users(k) \ {p}
      /\ Cardinality(Users(k)') = Cardinality(Users(k)) - 1
      /\ refs[l] = Cardinality(Users(k))
      /\ IsFiniteSet(Users(k)')
  <2>1. Users(k)' = Users(k) \ {p}
    BY <1>1, <1>2 DEF TypeOK, Users, Counted
  <2>2. QED
    BY <2>1, <1>1, UsersFinite, FS_RemoveElement DEF RefsCountUsers
<1>4. refs[l] = 1 <=> Users(k)' = {}
  <2>1. Cardinality(Users(k)) \in Nat
    BY <1>1, UsersFinite
  <2>2. Cardinality(Users(k)') = 0 <=> Users(k)' = {}
    BY <1>3, FS_EmptySet
  <2>3. QED
    BY <1>3, <2>1, <2>2
<1>5. \A q \in Procs : q # p /\ pc[q] \in Counted /\ key[q] = k => refs[l] # 1
  BY <1>3, <1>4 DEF Users
<1>6. TypeOK'
  <2>1. refs[l] - 1 \in Nat
    BY <1>1, <1>3, <1>4, UsersFinite, FS_EmptySet DEF TypeOK, RefsCountUsers
  <2>2. QED
    BY <2>1, <1>1, <1>2 DEF TypeOK, PC
<1>7. MuInv' /\ CallInv' /\ MapInjective'
  BY <1>1, <1>2 DEF TypeOK, MuInv, CallInv, MapInjective, Counted
<1>8. OwnerInv'
  BY <1>1, <1>2 DEF TypeOK, OwnerInv, Inside
<1>9. UnlockFindsOwnLock'
  <2>1. \A q \in Procs : q # p /\ pc[q] \in Counted => m'[key[q]] = m[key[q]]
    BY <1>1, <1>2, <1>5 DEF TypeOK, CallInv, Counted
  <2>2. \A q \in Procs : q # p /\ pc[q] \in Inside => ptr[q] # l
    BY <1>1 DEF UnlockFindsOwnLock, Inside, Counted
  <2>3. QED
    BY <1>1, <1>2, <2>1, <2>2 DEF TypeOK, UnlockFindsOwnLock, Counted, Inside
<1>10. RefsCountUsers'
  <2> SUFFICES ASSUME NEW j \in Keys
               PROVE  IF m'[j] = NoLock THEN Users(j)' = {}
                      ELSE Users(j)' # {} /\ refs'[m'[j]] = Cardinality(Users(j)')
    BY DEF RefsCountUsers
  <2>1. CASE j = k
    BY <2>1, <1>1, <1>2, <1>3, <1>4 DEF TypeOK
  <2>2. CASE j # k
    <3>1. Users(j)' = Users(j)
      BY <2>2, <1>1, <1>2 DEF TypeOK, Users, Counted
    <3>2. m'[j] = m[j] /\ (m[j] # NoLock => m[j] # l)
      BY <2>2, <1>1, <1>2 DEF TypeOK, MapInjective
    <3>3. m[j] # NoLock => refs'[m[j]] = refs[m[j]]
      BY <3>2, <1>1, <1>2 DEF TypeOK
    <3>4. QED
      BY <3>1, <3>2, <3>3 DEF RefsCountUsers
  <2>3. QED
    BY <2>1, <2>2
<1>11. QED
  BY <1>6, <1>7, <1>8, <1>9, <1>10

\* The invariant is inductive: one lemma per action, and stuttering.
LEMMA NextIInv == IInv /\ [Next]_vars => IInv'
<1> SUFFICES ASSUME IInv, [Next]_vars PROVE IInv'
  OBVIOUS
<1>1. CASE UNCHANGED vars
  <2>1. \A j \in Keys : Users(j)' = Users(j)
    BY <1>1 DEF vars, Users
  <2>2. RefsCountUsers'
    BY <1>1, <2>1 DEF vars, IInv, RefsCountUsers
  <2>3. QED
    BY <1>1, <2>2 DEF vars, IInv, TypeOK, MuInv, CallInv, MapInjective, OwnerInv, UnlockFindsOwnLock
<1>2. ASSUME NEW p \in Procs, NEW k \in Keys, Lock(p, k) PROVE IInv'
  BY <1>2, LockIInv
<1>3. ASSUME NEW p \in Procs, Register(p) PROVE IInv'
  BY <1>3, RegisterIInv
<1>4. ASSUME NEW p \in Procs, Acquire(p) PROVE IInv'
  BY <1>4, AcquireIInv
<1>5. ASSUME NEW p \in Procs, Unlock(p) PROVE IInv'
  BY <1>5, UnlockIInv
<1>6. ASSUME NEW p \in Procs, Release(p) PROVE IInv'
  BY <1>6, ReleaseIInv
<1>7. QED
  BY <1>1, <1>2, <1>3, <1>4, <1>5, <1>6 DEF Next

\* The inductive invariant holds in every reachable state.
THEOREM IInvHolds == Spec => []IInv
<1>1. QED
  BY InitIInv, NextIInv, PTL DEF Spec

\* Every variable keeps the type its Go counterpart has; in particular no
\* reference count of a lock object goes below zero.
THEOREM TypeOKHolds == Spec => []TypeOK
<1>1. IInv => TypeOK
  BY DEF IInv
<1>2. QED
  BY <1>1, IInvHolds, PTL

\* Two goroutines never are inside the section of one key (keyedmutex.go:5-7).
THEOREM MutualExclusionHolds == Spec => []MutualExclusion
<1>1. IInv => MutualExclusion
  BY DEF IInv, MutualExclusion, UnlockFindsOwnLock, Inside, Counted
<1>2. QED
  BY <1>1, IInvHolds, PTL

\* Unlock never panics and never unlocks an object it is not inside of
\* (keyedmutex.go:36-48).
THEOREM UnlockFindsOwnLockHolds == Spec => []UnlockFindsOwnLock
<1>1. IInv => UnlockFindsOwnLock
  BY DEF IInv
<1>2. QED
  BY <1>1, IInvHolds, PTL

\* The map holds an object exactly for the keys in use, counted exactly
\* (keyedmutex.go:25-30 and 43-46).
THEOREM RefsCountUsersHolds == Spec => []RefsCountUsers
<1>1. IInv => RefsCountUsers
  BY DEF IInv
<1>2. QED
  BY <1>1, IInvHolds, PTL

-----------------------------------------------------------------------------
\* Every step of the counted-lock map is a step of plain per-key locks or
\* leaves them unchanged.
LEMMA StepRefines == IInv /\ [Next]_vars => [KL!Next]_(KL!vars)
<1> SUFFICES ASSUME IInv, [Next]_vars PROVE [KL!Next]_(KL!vars)
  OBVIOUS
<1> USE KMAssumption DEF IInv
<1>1. CASE UNCHANGED vars
  BY <1>1 DEF vars, KL!vars, askedPairs, heldPairs
<1>2. ASSUME NEW p \in Procs, NEW k \in Keys, Lock(p, k) PROVE KL!Ask(p, k)
  <2>1. \A j \in Keys : <<p, j>> \notin askedPairs \cup heldPairs
    BY <1>2 DEF Lock, askedPairs, heldPairs, Inside
  <2>2. askedPairs' = askedPairs \cup {<<p, k>>}
    BY <1>2 DEF TypeOK, Lock, askedPairs
  <2>3. heldPairs' = heldPairs
    BY <1>2 DEF TypeOK, Lock, heldPairs, Inside
  <2>4. QED
    BY <2>1, <2>2, <2>3 DEF KL!Ask
<1>3. ASSUME NEW p \in Procs, Register(p) PROVE UNCHANGED KL!vars
  <2>1. askedPairs' = askedPairs
    BY <1>3 DEF TypeOK, Register, askedPairs
  <2>2. heldPairs' = heldPairs
    BY <1>3 DEF TypeOK, Register, heldPairs, Inside
  <2>3. QED
    BY <2>1, <2>2 DEF KL!vars
<1>4. ASSUME NEW p \in Procs, Acquire(p) PROVE KL!Grant(p, key[p])
  <2>1. \A q \in Procs : <<q, key[p]>> \notin heldPairs
    BY <1>4 DEF TypeOK, Acquire, heldPairs, Inside, Counted, UnlockFindsOwnLock
  <2>2. <<p, key[p]>> \in askedPairs
    BY <1>4 DEF Acquire, askedPairs
  <2>3. askedPairs' = askedPairs \ {<<p, key[p]>>}
    BY <1>4 DEF TypeOK, Acquire, askedPairs
  <2>4. heldPairs' = heldPairs \cup {<<p, key[p]>>}
    BY <1>4 DEF TypeOK, Acquire, heldPairs, Inside
  <2>5. QED
    BY <2>1, <2>2, <2>3, <2>4 DEF KL!Grant
<1>5. ASSUME NEW p \in Procs, Unlock(p) PROVE UNCHANGED KL!vars
  <2>1. askedPairs' = askedPairs
    BY <1>5 DEF TypeOK, Unlock, askedPairs
  <2>2. heldPairs' = heldPairs
    BY <1>5 DEF TypeOK, Unlock, heldPairs, Inside
  <2>3. QED
    BY <2>1, <2>2 DEF KL!vars
<1>6. ASSUME NEW p \in Procs, Release(p) PROVE KL!Free(p, key[p])
  <2>1. /\ pc[p] = "release"
        /\ pc' = [pc EXCEPT ![p] = "idle"]
        /\ key' = [key EXCEPT ![p] = NoKey]
    BY <1>6 DEF TypeOK, Release, CallInv, UnlockFindsOwnLock, Counted
  <2>2. <<p, key[p]>> \in heldPairs
    BY <2>1 DEF heldPairs, Inside
  <2>3. heldPairs' = heldPairs \ {<<p, key[p]>>}
    BY <2>1 DEF TypeOK, heldPairs, Inside
  <2>4. askedPairs' = askedPairs
    BY <2>1 DEF TypeOK, askedPairs
  <2>5. QED
    BY <2>2, <2>3, <2>4 DEF KL!Free
<1>7. \A p \in Procs : pc[p] # "idle" => key[p] \in Keys
  BY DEF CallInv
<1>8. QED
  BY <1>1, <1>2, <1>3, <1>4, <1>5, <1>6, <1>7 DEF Next, KL!Next, Acquire, Release

\* The map of counted lock objects implements plain per-key locks: whatever
\* Service.Process relies on in KeyLocks it gets from keyedmutex.go.
THEOREM Refinement == Spec => ImplementsKeyLocks
<1>1. Init => KL!Init
  BY DEF Init, KL!Init, askedPairs, heldPairs, Inside
<1>2. QED
  BY <1>1, StepRefines, IInvHolds, PTL DEF Spec, ImplementsKeyLocks, KL!Spec

=============================================================================
