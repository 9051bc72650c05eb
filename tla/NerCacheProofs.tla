--------------------------- MODULE NerCacheProofs ---------------------------
(***************************************************************************)
(* The NER cache, for any numbers of goroutines, texts, entries and        *)
(* flights.  First the flights: each has one leader, and nobody waits for  *)
(* a flight without one (FInv).  Then the results: they reach those who    *)
(* asked for them, and the cache returns no stale ones (RInv).  Then the   *)
(* limits (BInv), and last the types.                                      *)
(***************************************************************************)
EXTENDS NerCache, FiniteSetTheorems, WellFoundedInduction, TLAPS

\* The positions of a leader that has not published yet.
Publishing == {"compute", "publish"}

\* The part of the types that the argument needs.
FlightTypes ==
    /\ flights \in Nat
    /\ inflight \in [Texts -> 0 .. flights]
    /\ pc \in [Procs -> Labels]
    /\ text \in [Procs -> Texts \cup {NoText}]
    /\ flight \in [Procs -> 0 .. flights]
    /\ \A p \in Procs : pc[p] # "idle" => text[p] \in Texts
    /\ \A p \in Procs : pc[p] \in Publishing => flight[p] # 0

\* A leader leads what is in flight for its text until it publishes.
LeaderInv == \A p \in Procs : pc[p] \in Publishing => inflight[text[p]] = flight[p]

\* No text is in flight without a leader.
ManagedInv ==
    \A t \in Texts : inflight[t] # 0 =>
        \E p \in Procs : pc[p] \in Publishing /\ text[p] = t

\* No two leaders share a flight, even when one of them has published.
UniqueInv ==
    \A p, q \in Procs :
        pc[p] \in Leading /\ pc[q] \in Leading /\ flight[p] = flight[q] => p = q

FInv == FlightTypes /\ LeaderInv /\ ManagedInv /\ UniqueInv /\ FollowersHaveALeader

-----------------------------------------------------------------------------
\* Nothing is in flight at the start.
LEMMA InitFInv == Init => FInv
BY NerCacheAssumption DEF Init, FInv, FlightTypes, LeaderInv, ManagedInv, UniqueInv,
     FollowersHaveALeader, Labels, Leading, Following, Publishing

\* A call of Get, a hit, and the end of a call that leads nothing leave the flights
\* and their leaders alone.
LEMMA BystanderFInv ==
    ASSUME FInv, NEW p \in Procs,
           pc[p] \notin Leading, pc' \in [Procs -> Labels],
           pc'[p] \in {"idle", "lock"},
           pc'[p] # "idle" => text'[p] \in Texts,
           text' \in [Procs -> Texts \cup {NoText}],
           flight' \in [Procs -> 0 .. flights],
           \A q \in Procs \ {p} : pc'[q] = pc[q] /\ text'[q] = text[q] /\ flight'[q] = flight[q],
           UNCHANGED <<inflight, flights>>
    PROVE  FInv'
<1> USE DEF FInv, Leading, Publishing
<1>1. FlightTypes'
  BY DEF FlightTypes
<1>2. LeaderInv' /\ UniqueInv'
  BY DEF LeaderInv, UniqueInv
<1>3. ManagedInv'
  BY DEF ManagedInv
<1>4. FollowersHaveALeader'
  BY DEF FollowersHaveALeader
<1>5. QED
  BY <1>1, <1>2, <1>3, <1>4

\* Get, Hit, Refuse, Follow and Abandon are steps of bystanders.
LEMMA OutsideFInv ==
    ASSUME FInv, NEW p \in Procs,
           \/ \E t \in Texts : Get(p, t)
           \/ Hit(p) \/ Refuse(p) \/ Follow(p) \/ Abandon(p)
    PROVE  FInv'
<1> USE DEF FInv, FlightTypes, Labels, Leading, Following
<1>1. pc[p] \notin Leading
  BY DEF Get, Hit, Refuse, Follow, Abandon, Valid, Missing
<1>2. CASE \E t \in Texts : Get(p, t)
  BY <1>1, <1>2, BystanderFInv DEF Get
<1>3. CASE Hit(p) \/ Refuse(p) \/ Follow(p) \/ Abandon(p)
  <2>1. UNCHANGED <<inflight, flights>> /\ Return(p)
    BY <1>3 DEF Hit, Refuse, Follow, Abandon
  <2>2. QED
    BY <1>1, <2>1, BystanderFInv DEF Return
<1>4. QED
  BY <1>2, <1>3

\* Who joins a flight finds its leader at work.
LEMMA JoinFInv == ASSUME FInv, NEW p \in Procs, Join(p) PROVE FInv'
<1> USE DEF FInv, Leading, Publishing
<1>0. PICK t \in Texts : t = text[p] /\ inflight[t] # 0
  BY DEF Join, Missing, InFlight, FlightTypes
<1>1. FlightTypes'
  BY <1>0 DEF FlightTypes, Join, Labels, Following
<1>2. LeaderInv' /\ UniqueInv'
  BY DEF LeaderInv, UniqueInv, Join, Missing, FlightTypes
<1>3. ManagedInv'
  BY DEF ManagedInv, Join, Missing, FlightTypes
<1>4. PICK q \in Procs : pc[q] \in Publishing /\ flight[q] = inflight[t]
  BY <1>0 DEF ManagedInv, LeaderInv
<1>5. FollowersHaveALeader'
  <2> SUFFICES ASSUME NEW r \in Procs, pc'[r] = "wait"
               PROVE  \E l \in Procs : pc'[l] \in Leading /\ flight'[l] = flight'[r]
    BY DEF FollowersHaveALeader
  <2>1. \A l \in Procs : pc[l] \in Leading =>
            pc'[l] \in Leading /\ flight'[l] = flight[l]
    BY DEF Join, Missing, FlightTypes
  <2>2. CASE r = p
    BY <1>0, <1>4, <2>1, <2>2 DEF Join, FlightTypes
  <2>3. CASE r # p
    BY <2>1, <2>3 DEF FollowersHaveALeader, Join, FlightTypes
  <2>4. QED
    BY <2>2, <2>3
<1>6. QED
  BY <1>1, <1>2, <1>3, <1>5

\* A new flight has a new number, and a text that is not in flight has no leader.
LEMMA LeadFInv == ASSUME FInv, NEW p \in Procs, Lead(p) PROVE FInv'
<1> USE DEF FInv, Leading, Publishing
<1>0. PICK t \in Texts : t = text[p] /\ inflight[t] = 0 /\ pc[p] = "lock"
  BY DEF Lead, Missing, InFlight, FlightTypes
<1>1. /\ inflight' = [inflight EXCEPT ![t] = flights + 1]
      /\ flight' = [flight EXCEPT ![p] = flights + 1]
      /\ flights' = flights + 1
      /\ pc' = [pc EXCEPT ![p] = "compute"]
      /\ text' = text
  BY <1>0 DEF Lead
<1>2. FlightTypes'
  BY <1>0, <1>1 DEF FlightTypes, Labels, Leading
<1>3. \A q \in Procs : pc[q] \in Publishing => text[q] # t
  BY <1>0 DEF LeaderInv, FlightTypes
<1>4. LeaderInv' /\ UniqueInv'
  BY <1>0, <1>1, <1>3 DEF LeaderInv, UniqueInv, FlightTypes
<1>5. ManagedInv'
  BY <1>0, <1>1 DEF ManagedInv, FlightTypes
<1>6. FollowersHaveALeader'
  <2>1. \A q \in Procs : pc[q] \in Leading \cup {"wait"} => q # p
    BY <1>0
  <2>2. QED
    BY <1>1, <2>1 DEF FollowersHaveALeader, FlightTypes
<1>7. QED
  BY <1>2, <1>4, <1>5, <1>6

\* Whatever becomes of fn, its leader goes on to publish.
LEMMA ComputedFInv ==
    ASSUME FInv, NEW p \in Procs, Compute(p) \/ ComputeFails(p) \/ ComputePanics(p)
    PROVE  FInv'
<1> USE DEF FInv, Leading, Publishing, FlightTypes
<1>1. /\ pc[p] = "compute" /\ pc' = [pc EXCEPT ![p] = "publish"]
      /\ UNCHANGED <<inflight, text, flight, flights>>
  BY DEF Compute, ComputeFails, ComputePanics, Computed
<1>2. FlightTypes'
  BY <1>1 DEF Labels
<1>3. LeaderInv' /\ UniqueInv'
  BY <1>1 DEF LeaderInv, UniqueInv
<1>4. ManagedInv'
  BY <1>1 DEF ManagedInv
<1>5. FollowersHaveALeader'
  BY <1>1 DEF FollowersHaveALeader
<1>6. QED
  BY <1>2, <1>3, <1>4, <1>5

\* Publishing ends a text's only flight.
LEMMA PublishFInv == ASSUME FInv, NEW p \in Procs, Publish(p) PROVE FInv'
<1> USE DEF FInv, Leading, Publishing, FlightTypes
<1>0. PICK t \in Texts : t = text[p]
  BY DEF Publish
<1>1. /\ pc[p] = "publish" /\ pc' = [pc EXCEPT ![p] = "land"]
      /\ inflight' = [inflight EXCEPT ![t] = 0]
      /\ UNCHANGED <<text, flight, flights>>
  BY <1>0 DEF Publish, local
<1>2. FlightTypes'
  BY <1>1 DEF Labels
<1>3. \A q \in Procs \ {p} : pc[q] \in Publishing => text[q] # t
  BY <1>0, <1>1 DEF LeaderInv, UniqueInv
<1>4. LeaderInv' /\ UniqueInv'
  BY <1>1, <1>3 DEF LeaderInv, UniqueInv
<1>5. ManagedInv'
  BY <1>0, <1>1, <1>3 DEF ManagedInv
<1>6. FollowersHaveALeader'
  BY <1>1 DEF FollowersHaveALeader
<1>7. QED
  BY <1>2, <1>4, <1>5, <1>6

\* Landing takes the leader and all its followers away together.
LEMMA LandFInv == ASSUME FInv, NEW p \in Procs, Land(p) PROVE FInv'
<1> USE DEF FInv, Leading, Publishing, FlightTypes
<1>1. /\ pc[p] = "land" /\ pc'[p] = "idle"
      /\ \A q \in Procs \ {p} : pc'[q] = IF q \in Followers(p) THEN "landed" ELSE pc[q]
      /\ \A q \in Procs \ {p} : text'[q] = text[q] /\ flight'[q] = flight[q]
      /\ UNCHANGED <<inflight, flights>>
  BY DEF Land
<1>2. \A q \in Followers(p) : q \in Procs /\ pc[q] = "wait" /\ flight[q] = flight[p]
  BY DEF Followers
<1>3. FlightTypes'
  <2>1. pc' \in [Procs -> Labels] /\ text' \in [Procs -> Texts \cup {NoText}]
    BY DEF Land, Labels, Following
  <2>2. flight' \in [Procs -> 0 .. flights]
    BY DEF Land
  <2>3. QED
    BY <1>1, <1>2, <2>1, <2>2
<1>4. \A q \in Procs : (pc'[q] \in Leading => q # p /\ pc'[q] = pc[q])
                       /\ (pc[q] \in Leading /\ q # p => pc'[q] = pc[q])
  BY <1>1, <1>2
<1>5. LeaderInv' /\ UniqueInv'
  BY <1>1, <1>4 DEF LeaderInv, UniqueInv
<1>6. ManagedInv'
  BY <1>1, <1>4 DEF ManagedInv
<1>7. FollowersHaveALeader'
  <2> SUFFICES ASSUME NEW r \in Procs, pc'[r] = "wait"
               PROVE  \E l \in Procs : pc'[l] \in Leading /\ flight'[l] = flight'[r]
    BY DEF FollowersHaveALeader
  <2>1. r # p /\ pc[r] = "wait" /\ flight[r] # flight[p] /\ flight'[r] = flight[r]
    BY <1>1 DEF Followers
  <2>2. PICK l \in Procs : pc[l] \in Leading /\ flight[l] = flight[r]
    BY <2>1 DEF FollowersHaveALeader
  <2>3. QED
    BY <1>1, <1>4, <2>1, <2>2
<1>8. QED
  BY <1>3, <1>5, <1>6, <1>7

\* Every step of every goroutine keeps the invariant.
LEMMA NextFInv == FInv /\ [Next]_vars => FInv'
<1> SUFFICES ASSUME FInv, [Next]_vars PROVE FInv'
  OBVIOUS
<1>1. CASE UNCHANGED vars \/ Tick \/ Rest
  BY <1>1 DEF vars, local, Tick, Rest, FInv, FlightTypes, LeaderInv, ManagedInv, UniqueInv,
     FollowersHaveALeader
<1>2. ASSUME NEW p \in Procs, (\E t \in Texts : Get(p, t)) \/ Step(p) \/ Abandon(p)
      PROVE  FInv'
  BY <1>2, OutsideFInv, JoinFInv, LeadFInv, ComputedFInv, PublishFInv, LandFInv DEF Step
<1>3. QED
  BY <1>1, <1>2 DEF Next

\* The flights table and its leaders, at all times.
THEOREM FInvHolds == Spec => []FInv
<1>1. QED
  BY InitFInv, NextFInv, PTL DEF Spec

\* Whoever waits has a leader that will land its flight, whether the detection
\* returned, failed or panicked (cache.go:135-144, 155-168, 173-181).
THEOREM FollowersHaveALeaderHolds == Spec => []FollowersHaveALeader
<1>1. FInv => FollowersHaveALeader
  BY DEF FInv
<1>2. QED
  BY <1>1, FInvHolds, PTL

\* A text in flight has exactly one leader, which leads that flight: overlapping
\* requests for a text run one detection (cache.go:118-119, 149-158).
THEOREM FlightHasOneLeaderHolds == Spec => []FlightHasOneLeader
<1>1. ASSUME FInv, NEW t \in Texts
      PROVE  LET L == {p \in Procs : pc[p] \in {"compute", "publish"} /\ text[p] = t}
             IN  /\ Cardinality(L) = IF t \in InFlight THEN 1 ELSE 0
                 /\ \A p \in L : flight[p] = inflight[t]
  <2> DEFINE L == {p \in Procs : pc[p] \in {"compute", "publish"} /\ text[p] = t}
  <2>1. \A p \in L : flight[p] = inflight[t] /\ flight[p] # 0
    BY <1>1 DEF FInv, FlightTypes, LeaderInv, Publishing
  <2>2. \A p, q \in L : p = q
    BY <1>1, <2>1 DEF FInv, UniqueInv, Leading
  <2>3. CASE t \in InFlight
    <3>1. PICK p \in Procs : p \in L
      BY <1>1, <2>3 DEF FInv, ManagedInv, InFlight, Publishing
    <3>2. L = {p}
      BY <2>2, <3>1
    <3>3. Cardinality(L) = 1
      BY <3>2, FS_Singleton
    <3>4. QED
      BY <2>1, <2>3, <3>3
  <2>4. CASE t \notin InFlight
    <3>1. L = {}
      BY <2>1, <2>4 DEF InFlight
    <3>2. Cardinality(L) = 0
      BY <3>1, FS_EmptySet
    <3>3. QED
      BY <2>1, <2>4, <3>2
  <2>5. QED
    BY <2>3, <2>4
<1>2. FInv => FlightHasOneLeader
  BY <1>1 DEF FlightHasOneLeader
<1>3. QED
  BY <1>2, FInvHolds, PTL

-----------------------------------------------------------------------------
Results == [ok : {TRUE}, flight : Nat, text : Texts, asked : Nat]
           \cup [ok : {FALSE}, flight : Nat]
Entries == [result : Results, expiresAt : Nat, seq : Nat]

DataTypes ==
    /\ now \in Nat /\ seq \in Nat /\ calls \in Nat
    /\ entries \in [Texts -> Entries \cup {NoEntry}]
    /\ result \in [Procs -> Results]
    /\ start \in [Procs -> 0 .. now]

\* r is what flight n found for text t, or an error of that flight.
Of(r, n, t) == r.flight = n /\ (r.ok = TRUE => r.text = t)

\* What is cached was found for its text, and expires TTL after it was asked for.
EntryInv ==
    \A t \in Texts : entries[t] # NoEntry =>
        LET e == entries[t]
        IN  /\ e.result.ok = TRUE /\ e.result.text = t /\ e.result.flight \in 0 .. flights
            /\ e.result.asked \in 0 .. now /\ e.expiresAt = e.result.asked + TTL
            /\ e.seq \in 1 .. seq

\* What a leader is about to publish and to land.
LeaderResultInv ==
    \A p \in Procs : pc[p] \in {"publish", "land"} =>
        /\ Of(result[p], flight[p], text[p])
        /\ result[p].ok = TRUE => result[p].asked = start[p]

\* What a follower is about to return.
FollowerResultInv ==
    \A p \in Procs : pc[p] = "landed" => Of(result[p], flight[p], text[p])

\* A follower waits for a flight of its own text.
SameTextInv ==
    \A p, q \in Procs :
        pc[p] \in Leading /\ pc[q] = "wait" /\ flight[p] = flight[q] => text[p] = text[q]

RInv == FInv /\ DataTypes /\ EntryInv /\ LeaderResultInv /\ FollowerResultInv /\ SameTextInv

\* There are no results at the start.
LEMMA InitRInv == Init => RInv
<1> SUFFICES ASSUME Init PROVE RInv
  OBVIOUS
<1>1. Failed(0) \in Results
  BY DEF Failed, Results
<1>2. DataTypes
  BY <1>1 DEF Init, DataTypes, Nothing
<1>3. EntryInv /\ LeaderResultInv /\ FollowerResultInv /\ SameTextInv
  BY DEF Init, EntryInv, LeaderResultInv, FollowerResultInv, SameTextInv, Leading
<1>4. QED
  BY <1>2, <1>3, InitFInv DEF RInv

\* Errors are results, and so is what is found for a text that was asked for.
LEMMA ResultTypes ==
    /\ \A n \in Nat : Failed(n) \in Results /\ Failed(n).flight = n /\ Failed(n).ok = FALSE
    /\ \A n, s \in Nat, t \in Texts :
          /\ Found(n, t, s) \in Results
          /\ Found(n, t, s).flight = n /\ Found(n, t, s).ok = TRUE
          /\ Found(n, t, s).text = t /\ Found(n, t, s).asked = s
BY DEF Failed, Found, Results

\* Deleting entries, the end of a call and the passing of time keep the data in
\* order, as long as nobody gets a result or joins a flight.
LEMMA QuietRInv ==
    ASSUME RInv, FInv',
           now' \in Nat, now <= now', calls' \in Nat, flights <= flights',
           seq' = seq,
           entries' \in [Texts -> Entries \cup {NoEntry}],
           \A t \in Texts : entries'[t] \in {entries[t], NoEntry},
           result' \in [Procs -> Results],
           start' \in [Procs -> 0 .. now'],
           \A p \in Procs :
              \/ pc'[p] \in {"idle", "lock"}
              \/ /\ pc'[p] \in {pc[p], "compute"}
                 /\ text'[p] = text[p]
                 /\ flight'[p] = flight[p] \/ pc'[p] = "compute"
                 /\ result'[p] = result[p] /\ start'[p] = start[p],
           SameTextInv'
    PROVE  RInv'
<1>1. DataTypes'
  BY DEF RInv, DataTypes
<1>2. EntryInv'
  <2> SUFFICES ASSUME NEW t \in Texts, entries'[t] # NoEntry
               PROVE  LET e == entries'[t]
                      IN  /\ e.result.ok = TRUE /\ e.result.text = t
                          /\ e.result.flight \in 0 .. flights' /\ e.result.asked \in 0 .. now'
                          /\ e.expiresAt = e.result.asked + TTL /\ e.seq \in 1 .. seq'
    BY DEF EntryInv
  <2>1. entries'[t] = entries[t]
    OBVIOUS
  <2>2. flights \in Nat /\ flights' \in Nat /\ now \in Nat
    BY DEF RInv, DataTypes, FInv, FlightTypes
  <2>3. QED
    BY <2>1, <2>2 DEF RInv, EntryInv
<1>3. LeaderResultInv' /\ FollowerResultInv'
  BY DEF RInv, LeaderResultInv, FollowerResultInv, Of
<1>4. QED
  BY <1>1, <1>2, <1>3 DEF RInv

\* Steps that give nobody a result and make nobody follow.
LEMMA QuietSteps ==
    ASSUME RInv, FInv',
           NEW p \in Procs,
           \/ \E t \in Texts : Get(p, t)
           \/ Hit(p) \/ Refuse(p) \/ Follow(p) \/ Abandon(p)
    PROVE  RInv'
<1> USE DEF RInv, FInv, FlightTypes, DataTypes
<1>1. /\ now' = now /\ seq' = seq /\ flights' = flights /\ calls' \in Nat
      /\ \A q \in Procs \ {p} : /\ pc'[q] = pc[q] /\ text'[q] = text[q]
                                /\ flight'[q] = flight[q] /\ result'[q] = result[q]
                                /\ start'[q] = start[q]
      /\ pc'[p] \in {"idle", "lock"}
  BY DEF Get, Hit, Refuse, Follow, Abandon, Return
<1>2. entries' = entries \/ DeleteExpired(p)
  BY DEF Get, Hit, Refuse, Follow, Abandon
<1>3. /\ entries' \in [Texts -> Entries \cup {NoEntry}]
      /\ \A t \in Texts : entries'[t] \in {entries[t], NoEntry}
  BY <1>2 DEF DeleteExpired
<1>4. Nothing \in Results /\ 0 \in 0 .. now
  BY ResultTypes DEF Nothing
<1>5. result' \in [Procs -> Results] /\ start' \in [Procs -> 0 .. now]
  BY <1>4 DEF Get, Hit, Refuse, Follow, Abandon, Return
<1>6. SameTextInv'
  BY <1>1 DEF SameTextInv, Leading
<1>7. QED
  BY <1>1, <1>3, <1>5, <1>6, QuietRInv

\* A new flight has no followers yet.
LEMMA LeadRInv == ASSUME RInv, FInv', NEW p \in Procs, Lead(p) PROVE RInv'
<1> USE DEF RInv, FInv, FlightTypes, DataTypes
<1>1. /\ now' = now /\ seq' = seq /\ flights' = flights + 1 /\ calls' = calls
      /\ result' = result /\ start' = start /\ text' = text
      /\ pc' = [pc EXCEPT ![p] = "compute"]
      /\ flight' = [flight EXCEPT ![p] = flights + 1]
  BY DEF Lead
<1>2. /\ entries' \in [Texts -> Entries \cup {NoEntry}]
      /\ \A t \in Texts : entries'[t] \in {entries[t], NoEntry}
  BY DEF Lead, DeleteExpired
<1>3. SameTextInv'
  BY <1>1 DEF SameTextInv, Leading
<1>4. QED
  BY <1>1, <1>2, <1>3, QuietRInv

\* The flight that a follower joins is led by a goroutine with the same text.
LEMMA JoinRInv == ASSUME RInv, FInv', NEW p \in Procs, Join(p) PROVE RInv'
<1> USE DEF RInv, FInv, FlightTypes, DataTypes
<1>1. /\ now' = now /\ seq' = seq /\ flights' = flights /\ calls' = calls
      /\ result' = result /\ start' = start /\ text' = text
      /\ pc[p] = "lock" /\ text[p] \in Texts /\ inflight[text[p]] # 0
      /\ pc' = [pc EXCEPT ![p] = "wait"]
      /\ flight' = [flight EXCEPT ![p] = inflight[text[p]]]
  BY DEF Join, Missing, InFlight
<1>2. /\ entries' \in [Texts -> Entries \cup {NoEntry}]
      /\ \A t \in Texts : entries'[t] \in {entries[t], NoEntry}
  BY DEF Join, DeleteExpired
<1>3. \A l \in Procs : pc[l] \in Leading /\ flight[l] = inflight[text[p]] => text[l] = text[p]
  BY <1>1 DEF ManagedInv, LeaderInv, UniqueInv, Publishing, Leading
<1>4. SameTextInv'
  BY <1>1, <1>3 DEF SameTextInv, Leading
<1>5. DataTypes'
  BY <1>1, <1>2
<1>6. EntryInv'
  BY <1>1, <1>2 DEF EntryInv
<1>7. LeaderResultInv' /\ FollowerResultInv'
  BY <1>1 DEF LeaderResultInv, FollowerResultInv, Of
<1>8. QED
  BY <1>4, <1>5, <1>6, <1>7

\* fn's result is for the leader's text, or an error.
LEMMA ComputedRInv ==
    ASSUME RInv, FInv', NEW p \in Procs,
           Compute(p) \/ ComputeFails(p) \/ ComputePanics(p)
    PROVE  RInv'
<1> USE DEF RInv, FInv, FlightTypes, DataTypes
<1>1. PICK r \in Results :
         /\ Of(r, flight[p], text[p]) /\ (r.ok = TRUE => r.asked = start[p])
         /\ Computed(p, r)
  <2>1. flight[p] \in Nat /\ start[p] \in Nat
    OBVIOUS
  <2>2. text[p] \in Texts
    BY DEF Compute, ComputeFails, ComputePanics, Computed
  <2>3. QED
    <3>1. CASE Compute(p)
      <4> DEFINE r == Found(flight[p], text[p], start[p])
      <4>1. /\ r \in Results /\ Of(r, flight[p], text[p])
            /\ r.ok = TRUE => r.asked = start[p]
        BY <2>1, <2>2, ResultTypes DEF Of
      <4>2. Computed(p, r)
        BY <3>1 DEF Compute
      <4>3. QED
        BY <4>1, <4>2
    <3>2. CASE ComputeFails(p) \/ ComputePanics(p)
      <4>1. Failed(flight[p]) \in Results /\ Of(Failed(flight[p]), flight[p], text[p])
        BY <2>1, ResultTypes DEF Of
      <4>2. Computed(p, Failed(flight[p])) /\ Failed(flight[p]).ok = FALSE
        BY <2>1, <3>2, ResultTypes DEF ComputeFails, ComputePanics
      <4>3. QED
        BY <4>1, <4>2
    <3>3. QED
      BY <3>1, <3>2
<1>2. /\ pc[p] = "compute" /\ pc' = [pc EXCEPT ![p] = "publish"]
      /\ result' = [result EXCEPT ![p] = r]
      /\ UNCHANGED <<now, entries, seq, text, start, flight, calls, flights>>
  BY <1>1 DEF Computed
<1>3. DataTypes'
  BY <1>2
<1>4. EntryInv'
  BY <1>2 DEF EntryInv
<1>5. LeaderResultInv' /\ FollowerResultInv'
  BY <1>1, <1>2 DEF LeaderResultInv, FollowerResultInv, Of
<1>6. SameTextInv'
  BY <1>2 DEF SameTextInv, Leading
<1>7. QED
  BY <1>3, <1>4, <1>5, <1>6

\* Insertion adds the new entry and removes others, nothing else.
LEMMA InsertGives ==
    ASSUME NEW p \in Procs, DataTypes, text[p] \in Texts,
           NewEntry(p) \in Entries
    PROVE  /\ Insert(p) \in [Texts -> Entries \cup {NoEntry}]
           /\ \A t \in Texts : \/ Insert(p)[t] \in {entries[t], NoEntry}
                               \/ t = text[p] /\ Insert(p)[t] = NewEntry(p)
<1> DEFINE all == [entries EXCEPT ![text[p]] = NewEntry(p)]
<1>1. /\ all \in [Texts -> Entries \cup {NoEntry}]
      /\ \A t \in Texts : all[t] = IF t = text[p] THEN NewEntry(p) ELSE entries[t]
  BY DEF DataTypes
<1> HIDE DEF all
<1>2. \/ Insert(p) = all
      \/ \E Kept \in SUBSET Texts :
            Insert(p) = [t \in Texts |-> IF t \in Kept THEN all[t] ELSE NoEntry]
  BY DEF Insert, all
<1>3. QED
  BY <1>1, <1>2

\* A published result keeps its age: the entry expires TTL after the request.
LEMMA PublishRInv == ASSUME RInv, FInv', NEW p \in Procs, Publish(p) PROVE RInv'
<1> USE DEF RInv, FInv, FlightTypes
<1>1. /\ pc[p] = "publish" /\ text[p] \in Texts /\ pc' = [pc EXCEPT ![p] = "land"]
      /\ UNCHANGED <<now, text, start, flight, result, calls, flights>>
  BY DEF Publish, local
<1>2. /\ now \in Nat /\ seq \in Nat /\ start[p] \in 0 .. now /\ result[p] \in Results
      /\ TTL \in Nat /\ flights \in Nat /\ flight[p] \in 0 .. flights
  BY NerCacheAssumption DEF DataTypes
<1>3. CASE UNCHANGED <<entries, seq>>
  <2>1. DataTypes'
    BY <1>1, <1>3 DEF DataTypes
  <2>2. EntryInv'
    BY <1>1, <1>3 DEF EntryInv
  <2>3. LeaderResultInv' /\ FollowerResultInv'
    BY <1>1 DEF LeaderResultInv, FollowerResultInv, Of
  <2>4. SameTextInv'
    BY <1>1 DEF SameTextInv, Leading
  <2>5. QED
    BY <2>1, <2>2, <2>3, <2>4
<1>4. CASE result[p].ok = TRUE /\ entries' = Insert(p) /\ seq' = seq + 1
  <2>1. /\ NewEntry(p) \in Entries
        /\ NewEntry(p).result = result[p] /\ NewEntry(p).expiresAt = start[p] + TTL
        /\ NewEntry(p).seq = seq + 1
    BY <1>2 DEF NewEntry, Entries, Lifetime
  <2>2. /\ result[p].text = text[p] /\ result[p].flight = flight[p]
        /\ result[p].asked = start[p]
    BY <1>1, <1>4 DEF LeaderResultInv, Of
  <2>3. /\ entries' \in [Texts -> Entries \cup {NoEntry}]
        /\ \A t \in Texts : \/ entries'[t] \in {entries[t], NoEntry}
                            \/ t = text[p] /\ entries'[t] = NewEntry(p)
    BY <1>1, <1>4, <2>1, InsertGives
  <2>4. DataTypes'
    BY <1>1, <1>4, <2>3 DEF DataTypes
  <2>5. EntryInv'
    <3> SUFFICES ASSUME NEW t \in Texts, entries'[t] # NoEntry
                 PROVE  LET e == entries'[t]
                        IN  /\ e.result.ok = TRUE /\ e.result.text = t
                            /\ e.result.flight \in 0 .. flights' /\ e.result.asked \in 0 .. now'
                            /\ e.expiresAt = e.result.asked + TTL /\ e.seq \in 1 .. seq'
      BY DEF EntryInv
    <3>1. CASE entries'[t] = entries[t]
      BY <1>1, <1>2, <1>4, <3>1 DEF EntryInv
    <3>2. CASE t = text[p] /\ entries'[t] = NewEntry(p)
      BY <1>1, <1>2, <1>4, <2>1, <2>2, <3>2
    <3>3. QED
      BY <2>3, <3>1, <3>2
  <2>6. LeaderResultInv' /\ FollowerResultInv'
    BY <1>1 DEF LeaderResultInv, FollowerResultInv, Of
  <2>7. SameTextInv'
    BY <1>1 DEF SameTextInv, Leading
  <2>8. QED
    BY <2>4, <2>5, <2>6, <2>7
<1>5. result[p].ok \in BOOLEAN
  BY <1>2 DEF Results
<1>6. QED
  BY <1>3, <1>4, <1>5 DEF Publish

\* Those who wait for a flight get its result, which is for their text.
LEMMA LandRInv == ASSUME RInv, FInv', NEW p \in Procs, Land(p) PROVE RInv'
<1> USE DEF RInv, FInv, FlightTypes
<1>1. /\ pc[p] = "land"
      /\ pc' = [q \in Procs |-> IF q = p THEN "idle"
                                ELSE IF q \in Followers(p) THEN "landed" ELSE pc[q]]
      /\ result' = [q \in Procs |-> IF q = p THEN Nothing
                                    ELSE IF q \in Followers(p) THEN result[p] ELSE result[q]]
      /\ text' = [text EXCEPT ![p] = NoText] /\ start' = [start EXCEPT ![p] = 0]
      /\ flight' = [flight EXCEPT ![p] = 0]
      /\ UNCHANGED <<now, entries, seq, calls, flights>>
  BY DEF Land
<1>2. \A q \in Followers(p) :
         q \in Procs /\ pc[q] = "wait" /\ flight[q] = flight[p] /\ text[q] = text[p]
  BY <1>1 DEF Followers, SameTextInv, Leading
<1>3. DataTypes'
  <2>1. Nothing \in Results /\ now \in Nat
    BY ResultTypes DEF Nothing, DataTypes
  <2>2. QED
    BY <1>1, <2>1 DEF DataTypes
<1>4. EntryInv'
  BY <1>1 DEF EntryInv
<1>5. Of(result[p], flight[p], text[p])
  BY <1>1 DEF LeaderResultInv
<1>6. LeaderResultInv'
  BY <1>1, <1>2 DEF LeaderResultInv, Of
<1>7. FollowerResultInv'
  BY <1>1, <1>2, <1>5 DEF FollowerResultInv, Of
<1>8. SameTextInv'
  BY <1>1 DEF SameTextInv, Leading
<1>9. QED
  BY <1>3, <1>4, <1>6, <1>7, <1>8

\* Every step keeps the invariant.
LEMMA NextRInv == RInv /\ [Next]_vars => RInv'
<1> SUFFICES ASSUME RInv, [Next]_vars PROVE RInv'
  OBVIOUS
<1>1. FInv'
  BY NextFInv DEF RInv
<1>2. CASE UNCHANGED vars \/ Tick \/ Rest
  <2>1. /\ now' \in {now, now + 1}
        /\ UNCHANGED <<entries, inflight, seq, pc, text, start, flight, result, calls, flights>>
    BY <1>2 DEF vars, local, Tick, Rest
  <2>2. now' \in Nat /\ now <= now' /\ start' \in [Procs -> 0 .. now']
    BY <2>1 DEF RInv, DataTypes
  <2>3. SameTextInv' /\ flights <= flights'
    BY <2>1 DEF RInv, SameTextInv, FInv, FlightTypes
  <2>4. QED
    BY <1>1, <2>1, <2>2, <2>3, QuietRInv DEF RInv, DataTypes
<1>3. ASSUME NEW p \in Procs, (\E t \in Texts : Get(p, t)) \/ Step(p) \/ Abandon(p)
      PROVE  RInv'
  BY <1>1, <1>3, QuietSteps, JoinRInv, LeadRInv, ComputedRInv, PublishRInv, LandRInv DEF Step
<1>4. QED
  BY <1>2, <1>3 DEF Next

\* Flights and data of the cache, at all times.
THEOREM RInvHolds == Spec => []RInv
<1>1. QED
  BY InitRInv, NextRInv, PTL DEF Spec

\* A follower returns what its own flight found for its own text, although another
\* flight for that text may have started since (cache.go:157-168).
THEOREM FollowersGetTheirFlightHolds == Spec => []FollowersGetTheirFlight
<1>1. RInv => FollowersGetTheirFlight
  <2> SUFFICES ASSUME RInv, NEW p \in Procs, pc[p] = "landed"
               PROVE  result[p].flight = flight[p] /\ (result[p].ok => result[p].text = text[p])
    BY DEF FollowersGetTheirFlight
  <2>1. result[p].flight = flight[p] /\ (result[p].ok = TRUE => result[p].text = text[p])
    BY DEF RInv, FollowerResultInv, Of
  <2>2. result[p].ok \in BOOLEAN
    BY DEF RInv, DataTypes, Results
  <2>3. QED
    BY <2>1, <2>2
<1>2. QED
  BY <1>1, RInvHolds, PTL

\* A reader gets its own text's result, asked for less than TTL before it came
\* (cache.go:122, 127, 194).
THEOREM HitIsFreshHolds == Spec => []HitIsFresh
<1>1. RInv => HitIsFresh
  <2> SUFFICES ASSUME RInv, NEW p \in Procs, Valid(p)
               PROVE  LET r == entries[text[p]].result
                      IN  r.text = text[p] /\ start[p] - r.asked < TTL
    BY DEF HitIsFresh
  <2>1. PICK t \in Texts : t = text[p] /\ entries[t] # NoEntry
                           /\ ~(entries[t].expiresAt <= start[p])
    BY DEF Valid, Cached, Expired
  <2>2. /\ entries[t].result.text = t /\ entries[t].result.asked \in 0 .. now
        /\ entries[t].expiresAt = entries[t].result.asked + TTL
    BY <2>1 DEF RInv, EntryInv
  <2>3. start[p] \in 0 .. now /\ now \in Nat /\ TTL \in Nat
    BY NerCacheAssumption DEF RInv, DataTypes
  <2>4. QED
    BY <2>1, <2>2, <2>3
<1>2. QED
  BY <1>1, RInvHolds, PTL

-----------------------------------------------------------------------------
\* No two entries were inserted at the same time.
InsertionOrderInv ==
    \A t, u \in Texts :
        entries[t] # NoEntry /\ entries[u] # NoEntry /\ entries[t].seq = entries[u].seq => t = u

BInv == RInv /\ InsertionOrderInv /\ Bounded

\* A finite set of numbered elements in which each has fewer than n elements above
\* it has n elements at most.
LEMMA FewAboveEach ==
    ASSUME NEW S, IsFiniteSet(S), NEW num \in [S -> Nat], NEW n \in Nat \ {0},
           \A x, y \in S : num[x] = num[y] => x = y,
           \A x \in S : Cardinality({y \in S : num[y] > num[x]}) < n
    PROVE  Cardinality(S) <= n
<1>1. CASE S = {}
  BY <1>1, FS_EmptySet
<1>2. CASE S # {}
  <2> DEFINE Numbers == {num[x] : x \in S}
  <2>1. PICK k \in Numbers : \A m \in Numbers : k <= m
    <3> HIDE DEF Numbers
    <3>1. Numbers \subseteq Nat /\ Numbers # {}
      BY <1>2 DEF Numbers
    <3>2. PICK k \in Numbers : \A m \in Numbers : ~(<<m, k>> \in OpToRel(<, Nat))
      BY <3>1, NatLessThanWellFounded, WFMin
    <3>3. \A m \in Numbers : ~(m < k)
      BY <3>1, <3>2 DEF OpToRel
    <3>4. QED
      BY <3>1, <3>3
  <2>2. PICK x \in S : k = num[x]
    OBVIOUS
  <2>3. \A y \in S \ {x} : num[y] > num[x]
    <3> SUFFICES ASSUME NEW y \in S \ {x} PROVE num[y] > num[x]
      OBVIOUS
    <3>1. num[y] \in Numbers /\ num[y] # num[x] /\ num[y] \in Nat /\ num[x] \in Nat
      OBVIOUS
    <3>2. QED
      BY <2>1, <2>2, <3>1
  <2>4. S \ {x} = {y \in S : num[y] > num[x]}
    BY <2>3
  <2>5. Cardinality(S \ {x}) < n /\ Cardinality(S \ {x}) = Cardinality(S) - 1
    BY <2>4, FS_RemoveElement
  <2>6. Cardinality(S) \in Nat
    BY FS_CardinalityType
  <2>7. QED
    BY <2>5, <2>6
<1>3. QED
  BY <1>1, <1>2

\* The set of texts that a subset of the cached ones makes is no larger.
LEMMA FewerAreFewer ==
    ASSUME NEW S, NEW T \in SUBSET Texts, S \subseteq T, NEW n \in Nat, Cardinality(T) <= n
    PROVE  Cardinality(S) <= n
<1>1. IsFiniteSet(T)
  BY NerCacheAssumption, FS_Subset
<1>2. Cardinality(S) <= Cardinality(T) /\ IsFiniteSet(S)
  BY <1>1, FS_Subset
<1>3. Cardinality(S) \in Nat /\ Cardinality(T) \in Nat
  BY <1>1, <1>2, FS_CardinalityType
<1>4. QED
  BY <1>2, <1>3

\* insertLocked keeps the size limit, for it evicts until the limit is kept.
LEMMA InsertFits ==
    ASSUME BInv, NEW p \in Procs, text[p] \in Texts, NewEntry(p) \in Entries,
           NewEntry(p).seq = seq + 1
    PROVE  Cardinality({t \in Texts : Insert(p)[t] # NoEntry}) <= MaxSize
<1> DEFINE all == [entries EXCEPT ![text[p]] = NewEntry(p)]
           There == {t \in Texts : all[t] # NoEntry}
           Live == {t \in There : ~Expired(all[t], start[p])}
           Kept == {t \in Live : Cardinality({u \in Live : Outlives(all[u], all[t])}) < MaxSize}
<1>1. /\ all \in [Texts -> Entries \cup {NoEntry}]
      /\ \A t \in Texts : all[t] = IF t = text[p] THEN NewEntry(p) ELSE entries[t]
  BY DEF BInv, RInv, DataTypes
<1>2. \A t, u \in There : all[t].seq = all[u].seq => t = u
  <2>1. \A t \in Texts : entries[t] # NoEntry => entries[t].seq \in 1 .. seq
    BY DEF BInv, RInv, EntryInv
  <2>2. seq \in Nat
    BY DEF BInv, RInv, DataTypes
  <2>3. QED
    BY <1>1, <2>1, <2>2 DEF BInv, InsertionOrderInv
<1>3. \A t \in There : all[t].seq \in Nat
  BY <1>1 DEF Entries
<1> HIDE DEF all
<1>4. \A t \in Kept : Cardinality({u \in Live : Outlives(all[u], all[t])}) < MaxSize
  <2> HIDE DEF Live
  <2> QED OBVIOUS
<1>5. CASE Cardinality(There) <= MaxSize
  <2>1. Insert(p) = all
    BY <1>5 DEF Insert, all
  <2>2. QED
    BY <1>5, <2>1
<1>6. CASE ~(Cardinality(There) <= MaxSize)
  <2>1. Insert(p) = [t \in Texts |-> IF t \in Kept THEN all[t] ELSE NoEntry]
    BY <1>6 DEF Insert, all
  <2>2. IsFiniteSet(Live) /\ IsFiniteSet(Kept) /\ Live \subseteq Texts
    BY NerCacheAssumption, FS_Subset
  <2>3. PICK num \in [Kept -> Nat] : \A t \in Kept : num[t] = all[t].seq
    <3>1. [t \in Kept |-> all[t].seq] \in [Kept -> Nat]
      BY <1>3
    <3>2. QED
      BY <3>1
  <2>4. \A t, u \in Kept : num[t] = num[u] => t = u
    BY <1>2, <2>3
  <2>5. ASSUME NEW t \in Kept
        PROVE  Cardinality({u \in Kept : num[u] > num[t]}) < MaxSize
    <3> DEFINE A == {u \in Kept : num[u] > num[t]}
               B == {u \in Live : Outlives(all[u], all[t])}
    <3>1. A \subseteq B
      BY <2>3 DEF Outlives
    <3>2. IsFiniteSet(B) /\ B \subseteq Live
      BY <2>2, FS_Subset
    <3>3. IsFiniteSet(A) /\ Cardinality(A) <= Cardinality(B)
      <4> HIDE DEF A, B
      <4> QED BY <3>1, <3>2, FS_Subset
    <3>4. Cardinality(B) < MaxSize
      <4> HIDE DEF Kept, Live
      <4> QED BY <1>4
    <3>5. Cardinality(A) \in Nat /\ Cardinality(B) \in Nat /\ MaxSize \in Nat
      BY <3>2, <3>3, FS_CardinalityType, NerCacheAssumption
    <3>6. QED
      BY <3>3, <3>4, <3>5
  <2> HIDE DEF Kept
  <2>6. Cardinality(Kept) <= MaxSize
    BY <2>2, <2>4, <2>5, FewAboveEach, NerCacheAssumption
  <2>7. {t \in Texts : Insert(p)[t] # NoEntry} \in SUBSET Kept
    BY <2>1
  <2>8. Kept \in SUBSET Texts
    BY <2>2 DEF Kept
  <2>9. QED
    BY <2>6, <2>7, <2>8, FewerAreFewer, NerCacheAssumption
<1>7. QED
  BY <1>5, <1>6

\* Fewer entries and the same flights keep the limits.
LEMMA DeletionBInv ==
    ASSUME BInv, RInv', UNCHANGED inflight,
           \A t \in Texts : entries'[t] \in {entries[t], NoEntry}
    PROVE  BInv'
<1>1. InsertionOrderInv'
  BY DEF BInv, InsertionOrderInv
<1>2. Cached' \subseteq Cached /\ Cached \in SUBSET Texts
  BY DEF Cached
<1>3. Cardinality(Cached') <= MaxSize
  BY <1>2, FewerAreFewer, NerCacheAssumption DEF BInv, Bounded
<1>4. InFlight' = InFlight
  BY DEF InFlight
<1>5. QED
  BY <1>1, <1>3, <1>4 DEF BInv, Bounded

\* A new flight finds room.
LEMMA LeadBInv == ASSUME BInv, RInv', NEW p \in Procs, Lead(p) PROVE BInv'
<1>1. \A t \in Texts : entries'[t] \in {entries[t], NoEntry}
  BY DEF Lead, DeleteExpired, BInv, RInv, DataTypes
<1>2. InsertionOrderInv'
  BY <1>1 DEF BInv, InsertionOrderInv
<1>3. Cached' \subseteq Cached /\ Cached \in SUBSET Texts
  BY <1>1 DEF Cached
<1>4. Cardinality(Cached') <= MaxSize
  BY <1>3, FewerAreFewer, NerCacheAssumption DEF BInv, Bounded
<1>5. IsFiniteSet(InFlight) /\ Cardinality(InFlight) \in Nat
  BY NerCacheAssumption, FS_Subset, FS_CardinalityType DEF InFlight
<1>6. InFlight' = InFlight \cup {text[p]}
  BY DEF Lead, InFlight, BInv, RInv, FInv, FlightTypes, Missing
<1>7. Cardinality(InFlight) < MaxInflight
  BY <1>5, NerCacheAssumption DEF Lead, Full
<1>8. Cardinality(InFlight') <= MaxInflight
  <2>1. \A S, x : IsFiniteSet(S) =>
            Cardinality(S \cup {x}) \in {Cardinality(S), Cardinality(S) + 1}
    BY FS_AddElement
  <2>2. Cardinality(InFlight') \in {Cardinality(InFlight), Cardinality(InFlight) + 1}
    BY <1>5, <1>6, <2>1
  <2>3. QED
    BY <1>5, <1>7, <2>2, NerCacheAssumption
<1>9. QED
  BY <1>2, <1>4, <1>8 DEF BInv, Bounded

\* A new entry is numbered beyond the others, and makes others go if need be.
LEMMA PublishBInv == ASSUME BInv, RInv', NEW p \in Procs, Publish(p) PROVE BInv'
<1> USE DEF BInv
<1>1. pc[p] = "publish" /\ text[p] \in Texts /\ inflight' = [inflight EXCEPT ![text[p]] = 0]
  BY DEF Publish, RInv, FInv, FlightTypes
<1>2. Cardinality(InFlight') <= MaxInflight
  <2>1. InFlight' \subseteq InFlight /\ InFlight \in SUBSET Texts
    BY <1>1 DEF InFlight, RInv, FInv, FlightTypes
  <2>2. QED
    BY <2>1, FewerAreFewer, NerCacheAssumption DEF Bounded
<1>3. CASE UNCHANGED <<entries, seq>>
  <2>1. InsertionOrderInv'
    BY <1>3 DEF InsertionOrderInv
  <2>2. Cardinality(Cached') <= MaxSize
    BY <1>3 DEF Bounded, Cached
  <2>3. QED
    BY <1>2, <2>1, <2>2 DEF Bounded
<1>4. CASE entries' = Insert(p) /\ seq' = seq + 1
  <2>1. /\ now \in Nat /\ seq \in Nat /\ start[p] \in 0 .. now /\ result[p] \in Results
        /\ TTL \in Nat
    BY NerCacheAssumption DEF RInv, DataTypes
  <2>2. NewEntry(p) \in Entries /\ NewEntry(p).seq = seq + 1
    BY <2>1 DEF NewEntry, Entries, Lifetime
  <2>3. \A t \in Texts : \/ entries'[t] \in {entries[t], NoEntry}
                         \/ t = text[p] /\ entries'[t] = NewEntry(p)
    BY <1>1, <1>4, <2>2, InsertGives DEF RInv
  <2>4. \A t \in Texts : entries[t] # NoEntry => entries[t].seq \in 1 .. seq
    BY DEF RInv, EntryInv
  <2>5. InsertionOrderInv'
    BY <2>1, <2>2, <2>3, <2>4 DEF InsertionOrderInv
  <2>6. Cardinality(Cached') <= MaxSize
    BY <1>1, <1>4, <2>2, InsertFits DEF Cached
  <2>7. QED
    BY <1>2, <2>5, <2>6 DEF Bounded
<1>5. QED
  BY <1>3, <1>4 DEF Publish

\* The cache starts empty.
LEMMA InitBInv == Init => BInv
<1> SUFFICES ASSUME Init PROVE BInv
  OBVIOUS
<1>1. InFlight = {} /\ Cached = {} /\ InsertionOrderInv
  BY DEF Init, InFlight, Cached, InsertionOrderInv
<1>2. Bounded
  BY <1>1, FS_EmptySet, NerCacheAssumption DEF Bounded
<1>3. QED
  BY <1>1, <1>2, InitRInv DEF BInv

\* Every step keeps the limits.
LEMMA NextBInv == BInv /\ [Next]_vars => BInv'
<1> SUFFICES ASSUME BInv, [Next]_vars PROVE BInv'
  OBVIOUS
<1>1. RInv'
  BY NextRInv DEF BInv
<1>2. CASE UNCHANGED vars \/ Tick \/ Rest
  <2>1. UNCHANGED <<inflight, entries>>
    BY <1>2 DEF vars, Tick, Rest
  <2>2. QED
    BY <1>1, <2>1, DeletionBInv
<1>3. ASSUME NEW p \in Procs, (\E t \in Texts : Get(p, t)) \/ Step(p) \/ Abandon(p)
      PROVE  BInv'
  <2>1. CASE Lead(p) \/ Publish(p)
    BY <1>1, <2>1, LeadBInv, PublishBInv
  <2>2. CASE ~(Lead(p) \/ Publish(p))
    <3>1. UNCHANGED inflight
      BY <1>3, <2>2 DEF Step, Get, Hit, Join, Refuse, Compute, ComputeFails, ComputePanics,
         Computed, Land, Follow, Abandon
    <3>2. entries' = entries \/ DeleteExpired(p)
      BY <1>3, <2>2 DEF Step, Get, Hit, Join, Refuse, Compute, ComputeFails, ComputePanics,
         Computed, Land, Follow, Abandon
    <3>3. \A t \in Texts : entries'[t] \in {entries[t], NoEntry}
      BY <3>2 DEF DeleteExpired, BInv, RInv, DataTypes
    <3>4. QED
      BY <1>1, <3>1, <3>3, DeletionBInv
  <2>3. QED
    BY <2>1, <2>2
<1>4. QED
  BY <1>2, <1>3 DEF Next

\* The inductive invariant with the limits.
THEOREM BInvHolds == Spec => []BInv
  BY InitBInv, NextBInv, PTL DEF Spec

\* No more texts in flight and no more entries than the limits allow
\* (cache.go:33-41, 145, 183-218).
THEOREM BoundedHolds == Spec => []Bounded
<1>1. BInv => Bounded
  BY DEF BInv
<1>2. QED
  BY <1>1, BInvHolds, PTL

-----------------------------------------------------------------------------
\* If some element of a finite set of numbered ones has n or more above it, those
\* with fewer are n or more, and all above it.
LEMMA ManyAreAbove ==
    ASSUME NEW S, IsFiniteSet(S), NEW num \in [S -> Nat], NEW n \in Nat \ {0},
           NEW K, K = {x \in S : Cardinality({y \in S : num[y] > num[x]}) < n},
           NEW t \in S \ K
    PROVE  Cardinality(K) >= n /\ \A x \in K : num[x] > num[t]
<1> DEFINE Above(x) == {y \in S : num[y] > num[x]}
<1>1. \A x \in S : IsFiniteSet(Above(x)) /\ Cardinality(Above(x)) \in Nat
  BY FS_Subset, FS_CardinalityType
<1>2. \A x \in S : x \in K <=> Cardinality(Above(x)) < n
  OBVIOUS
<1>3. ASSUME NEW x \in K, ~(num[x] > num[t]) PROVE FALSE
  <2>1. x \in S /\ num[x] <= num[t]
    BY <1>3
  <2>2. Above(t) \subseteq Above(x)
    BY <2>1
  <2>3. Cardinality(Above(t)) <= Cardinality(Above(x))
    <3> HIDE DEF Above
    <3> QED BY <1>1, <2>1, <2>2, FS_Subset
  <2> HIDE DEF Above
  <2>4. QED
    BY <1>1, <1>2, <2>1, <2>3
<1>4. PICK x \in S \ K : \A y \in S \ K : Cardinality(Above(x)) <= Cardinality(Above(y))
  <2> DEFINE Counts == {Cardinality(Above(y)) : y \in S \ K}
  <2> HIDE DEF Above
  <2>1. PICK k \in Counts : \A m \in Counts : k <= m
    <3>1. Counts \subseteq Nat /\ Counts # {}
      BY <1>1
    <3> HIDE DEF Counts
    <3>2. PICK k \in Counts : \A m \in Counts : ~(<<m, k>> \in OpToRel(<, Nat))
      BY <3>1, NatLessThanWellFounded, WFMin
    <3>3. \A m \in Counts : ~(m < k)
      BY <3>1, <3>2 DEF OpToRel
    <3>4. QED
      BY <3>1, <3>3
  <2>2. PICK x \in S \ K : k = Cardinality(Above(x))
    BY <2>1
  <2>3. \A y \in S \ K : Cardinality(Above(y)) \in Counts
    OBVIOUS
  <2> HIDE DEF Counts
  <2>4. QED
    BY <2>1, <2>2, <2>3
<1>5. ASSUME NEW y \in Above(x), y \notin K PROVE FALSE
  <2>1. y \in S /\ Above(y) \subseteq Above(x) \ {y}
    BY <1>5
  <2>2. y \in Above(x)
    BY <1>5
  <2> HIDE DEF Above
  <2>3. IsFiniteSet(Above(x) \ {y}) /\ Cardinality(Above(x) \ {y}) = Cardinality(Above(x)) - 1
    BY <1>1, <2>2, FS_RemoveElement
  <2>4. Cardinality(Above(y)) <= Cardinality(Above(x) \ {y})
    BY <2>1, <2>3, FS_Subset
  <2>5. QED
    BY <1>1, <1>4, <1>5, <2>1, <2>3, <2>4
<1>6. Above(x) \subseteq K /\ IsFiniteSet(K)
  BY <1>5, FS_Subset
<1>7. QED
  <2> HIDE DEF Above
  <2>1. Cardinality(Above(x)) <= Cardinality(K)
    BY <1>6, FS_Subset
  <2>2. Cardinality(K) \in Nat /\ Cardinality(Above(x)) \in Nat /\ ~(Cardinality(Above(x)) < n)
    BY <1>1, <1>2, <1>6, FS_CardinalityType
  <2>3. QED
    BY <1>3, <2>1, <2>2

\* Whom an insertion makes go, and who stays.
LEMMA InsertEvictsOldest ==
    ASSUME BInv, NEW p \in Procs, text[p] \in Texts, NewEntry(p) \in Entries,
           NewEntry(p).seq = seq + 1, ~Expired(NewEntry(p), start[p]), NewEntry(p) # NoEntry
    PROVE  LET Left == {u \in Texts : Insert(p)[u] # NoEntry} IN
           /\ \A t \in Cached :
                 ~Expired(entries[t], start[p]) /\ t \notin Left =>
                    /\ Cardinality(Left) = MaxSize
                    /\ \A u \in Left : Insert(p)[u].seq > entries[t].seq
           /\ text[p] \in Left /\ Insert(p)[text[p]] = NewEntry(p)
<1> DEFINE all == [entries EXCEPT ![text[p]] = NewEntry(p)]
           There == {t \in Texts : all[t] # NoEntry}
           Live == {t \in There : ~Expired(all[t], start[p])}
           Kept == {t \in Live : Cardinality({u \in Live : Outlives(all[u], all[t])}) < MaxSize}
           Left == {u \in Texts : Insert(p)[u] # NoEntry}
<1>1. /\ all \in [Texts -> Entries \cup {NoEntry}]
      /\ \A t \in Texts : all[t] = IF t = text[p] THEN NewEntry(p) ELSE entries[t]
  BY DEF BInv, RInv, DataTypes
<1>2. \A t \in There : all[t].seq \in Nat /\ all[t].seq <= seq + 1 /\ seq \in Nat
  <2>1. \A t \in Texts : entries[t] # NoEntry => entries[t].seq \in 1 .. seq
    BY DEF BInv, RInv, EntryInv
  <2>2. seq \in Nat
    BY DEF BInv, RInv, DataTypes
  <2>3. QED
    BY <1>1, <2>1, <2>2
<1> HIDE DEF all
<1>3. text[p] \in Live /\ all[text[p]] = NewEntry(p)
  BY <1>1
<1>4. CASE Cardinality(There) <= MaxSize
  <2>1. Insert(p) = all
    BY <1>4 DEF Insert, all
  <2>2. Cached \subseteq Left
    BY <1>1, <1>3, <2>1 DEF Cached
  <2>3. QED
    BY <1>3, <2>1, <2>2
<1>5. CASE ~(Cardinality(There) <= MaxSize)
  <2>1. Insert(p) = [t \in Texts |-> IF t \in Kept THEN all[t] ELSE NoEntry]
    BY <1>5 DEF Insert, all
  <2>2. IsFiniteSet(Live) /\ Live \subseteq Texts
    BY NerCacheAssumption, FS_Subset
  <2>3. Left = Kept /\ \A t \in Kept : Insert(p)[t] = all[t]
    BY <2>1
  <2>4. text[p] \in Kept
    <3>1. {u \in Live : Outlives(all[u], all[text[p]])} = {}
      BY <1>2, <1>3 DEF Outlives
    <3>2. QED
      BY <1>3, <3>1, FS_EmptySet, NerCacheAssumption
  <2>5. ASSUME NEW t \in Cached, ~Expired(entries[t], start[p]), t \notin Left
        PROVE  /\ Cardinality(Left) = MaxSize
               /\ \A u \in Left : Insert(p)[u].seq > entries[t].seq
    <3>1. t \in Texts /\ t # text[p] /\ all[t] = entries[t] /\ t \in Live \ Kept
      BY <1>1, <2>3, <2>4, <2>5 DEF Cached
    <3>2. PICK num \in [Live -> Nat] : \A x \in Live : num[x] = all[x].seq
      <4>1. [x \in Live |-> all[x].seq] \in [Live -> Nat]
        BY <1>2
      <4>2. QED
        BY <4>1
    <3>3. Kept = {x \in Live : Cardinality({y \in Live : num[y] > num[x]}) < MaxSize}
      <4>1. \A x \in Live : {u \in Live : Outlives(all[u], all[x])} = {y \in Live : num[y] > num[x]}
        BY <3>2 DEF Outlives
      <4> HIDE DEF Live
      <4>2. QED
        BY <4>1
    <3> HIDE DEF Kept, Live
    <3>4. Cardinality(Kept) >= MaxSize /\ \A x \in Kept : num[x] > num[t]
      <4>1. MaxSize \in Nat \ {0}
        BY NerCacheAssumption
      <4>2. QED
        BY <2>2, <3>1, <3>2, <3>3, <4>1, ManyAreAbove
    <3>5. Kept \subseteq Live
      BY DEF Kept
    <3>6. Cardinality(Kept) <= MaxSize
      BY <2>3, InsertFits
    <3>7. Cardinality(Kept) \in Nat
      BY <2>2, <3>5, FS_Subset, FS_CardinalityType
    <3> HIDE DEF Left
    <3>8. Cardinality(Left) = MaxSize
      BY <2>3, <3>4, <3>6, <3>7, NerCacheAssumption
    <3>9. \A u \in Left : Insert(p)[u].seq > entries[t].seq
      BY <2>3, <3>1, <3>2, <3>4, <3>5
    <3>10. QED
      BY <3>8, <3>9
  <2>6. QED
    BY <1>3, <2>3, <2>4, <2>5
<1>6. QED
  BY <1>4, <1>5

\* An entry that has not expired goes only from a full cache, to younger ones, and
\* no leader evicts its own (cache.go:183-218).
THEOREM OldestGoFirstHolds == Spec => OldestGoFirst
<1> DEFINE Left == {u \in Texts : entries'[u] # NoEntry}
           OldestGo ==
              /\ \A t \in Cached :
                    ~Expired(entries[t], now) /\ t \notin Left =>
                       /\ Cardinality(Left) = MaxSize
                       /\ \A u \in Left : entries'[u].seq > entries[t].seq
              /\ seq' > seq => \E u \in Left : entries'[u].seq = seq'
<1>1. ASSUME BInv, [Next]_vars PROVE OldestGo
  <2>1. seq \in Nat
    BY <1>1 DEF BInv, RInv, DataTypes
  <2>2. CASE UNCHANGED <<entries, seq>>
    BY <2>1, <2>2 DEF Cached
  <2>3. ASSUME NEW p \in Procs, Join(p) \/ Refuse(p) \/ Lead(p) PROVE OldestGo
    <3>1. /\ seq' = seq /\ Missing(p) /\ DeleteExpired(p) /\ entries \in [Texts -> Entries \cup {NoEntry}]
          /\ start[p] \in 0 .. now /\ now \in Nat
      BY <1>1, <2>3 DEF Join, Refuse, Lead, BInv, RInv, DataTypes
    <3>2. \A t \in Cached : t \notin Left => t = text[p]
      BY <3>1 DEF DeleteExpired, Cached
    <3>3. ASSUME NEW t \in Cached, t = text[p] PROVE Expired(entries[t], now)
      <4>1. entries[t].expiresAt <= start[p] /\ entries[t].expiresAt \in Nat
        BY <3>1, <3>3 DEF Missing, Valid, Expired, Cached, Entries
      <4>2. QED
        BY <3>1, <4>1 DEF Expired
    <3>4. QED
      BY <2>1, <3>1, <3>2, <3>3
  <2>4. ASSUME NEW p \in Procs, Publish(p), ~UNCHANGED <<entries, seq>> PROVE OldestGo
    <3>1. entries' = Insert(p) /\ seq' = seq + 1 /\ text[p] \in Texts /\ result[p].ok = TRUE
      BY <1>1, <2>4 DEF Publish, BInv, RInv, FInv, FlightTypes, DataTypes, Results
    <3>2. /\ now \in Nat /\ start[p] \in 0 .. now /\ result[p] \in Results /\ TTL \in Nat \ {0}
      BY <1>1, NerCacheAssumption DEF BInv, RInv, DataTypes
    <3>3. /\ NewEntry(p) \in Entries /\ NewEntry(p).seq = seq + 1
          /\ ~Expired(NewEntry(p), start[p])
      BY <2>1, <3>2 DEF NewEntry, Entries, Lifetime, Expired
    <3>4. NewEntry(p) # NoEntry
      <4>1. result[p] \in [ok : {TRUE}, flight : Nat, text : Texts, asked : Nat]
        BY <3>1, <3>2 DEF Results
      <4>2. start[p] + TTL \in Nat /\ seq + 1 \in Nat
        BY <2>1, <3>2
      <4>3. NewEntry(p) \in [result : [ok : {TRUE}, flight : Nat, text : Texts, asked : Nat],
                             expiresAt : Nat, seq : Nat]
        BY <4>1, <4>2 DEF NewEntry, Lifetime
      <4>4. QED
        BY <4>3, NoEntryAssumption
    <3>5. \A t \in Cached : ~Expired(entries[t], now) => ~Expired(entries[t], start[p])
      <4>1. \A t \in Cached : entries[t].expiresAt \in Nat
        BY <1>1 DEF BInv, RInv, DataTypes, Cached, Entries
      <4>2. QED
        BY <3>2, <4>1 DEF Expired
    <3>6. /\ \A t \in Cached :
                ~Expired(entries[t], start[p]) /\ t \notin Left =>
                   /\ Cardinality(Left) = MaxSize
                   /\ \A u \in Left : entries'[u].seq > entries[t].seq
          /\ text[p] \in Left /\ entries'[text[p]] = NewEntry(p)
      BY <1>1, <3>1, <3>3, <3>4, InsertEvictsOldest
    <3>7. QED
      BY <3>1, <3>3, <3>5, <3>6
  <2>5. QED
    BY <1>1, <2>2, <2>3, <2>4
       DEF Next, Step, Tick, Rest, vars, Get, Hit, Compute, ComputeFails, ComputePanics,
           Computed, Land, Follow, Abandon
<1>2. BInv /\ [Next]_vars => [OldestGo]_vars
  BY <1>1
<1>3. QED
  BY BInvHolds, <1>2, PTL DEF Spec, OldestGoFirst

-----------------------------------------------------------------------------
\* What a goroutine keeps from one step to the next: it has a text while it is in a
\* call, a flight while it leads or follows one, and a result that exists.
CallInv ==
    \A p \in Procs :
        /\ pc[p] = "idle" <=> text[p] = NoText
        /\ pc[p] \in Leading \cup Following <=> flight[p] # 0
        /\ result[p].flight \in 0 .. flights
        /\ result[p].ok = TRUE => result[p].asked \in 0 .. now

\* Every step of a call keeps its fields together.
LEMMA NextCallInv == RInv /\ RInv' /\ CallInv /\ [Next]_vars => CallInv'
<1> SUFFICES ASSUME RInv, RInv', CallInv, [Next]_vars PROVE CallInv'
  OBVIOUS
<1> USE DEF CallInv, RInv, FInv, FlightTypes, DataTypes, Leading, Following
<1>1. /\ Nothing.flight = 0 /\ Nothing.ok = FALSE
      /\ \A n \in Nat : Failed(n).flight = n /\ Failed(n).ok = FALSE
      /\ NoText \notin Texts
  BY ResultTypes, NerCacheAssumption DEF Nothing
<1>2. CASE UNCHANGED vars \/ Tick \/ Rest
  <2>1. /\ now' \in {now, now + 1}
        /\ UNCHANGED <<pc, text, flight, result, flights>>
    BY <1>2 DEF vars, local, Tick, Rest
  <2>2. QED
    BY <2>1
<1>3. ASSUME NEW p \in Procs, NEW t \in Texts, Get(p, t) PROVE CallInv'
  BY <1>1, <1>3 DEF Get
<1>4. ASSUME NEW p \in Procs, Hit(p) \/ Refuse(p) \/ Follow(p) \/ Abandon(p) PROVE CallInv'
  <2>1. Return(p) /\ UNCHANGED <<now, flights>>
    BY <1>4 DEF Hit, Refuse, Follow, Abandon
  <2>2. QED
    BY <1>1, <2>1 DEF Return
<1>5. ASSUME NEW p \in Procs, Join(p) PROVE CallInv'
  BY <1>5 DEF Join, Missing, InFlight
<1>6. ASSUME NEW p \in Procs, Lead(p) PROVE CallInv'
  BY <1>6 DEF Lead, Missing
<1>7. ASSUME NEW p \in Procs, Compute(p) \/ ComputeFails(p) \/ ComputePanics(p) PROVE CallInv'
  <2>1. PICK r : /\ r.flight = flight[p] /\ (r.ok = TRUE => r.asked = start[p])
                 /\ Computed(p, r)
    <3>1. flight[p] \in Nat /\ start[p] \in Nat /\ text[p] \in Texts
      BY <1>7 DEF Compute, ComputeFails, ComputePanics, Computed
    <3>2. CASE Compute(p)
      <4> DEFINE r == Found(flight[p], text[p], start[p])
      <4>1. r.flight = flight[p] /\ r.asked = start[p]
        BY <3>1, ResultTypes
      <4>2. Computed(p, r)
        BY <3>2 DEF Compute
      <4>3. QED
        BY <4>1, <4>2
    <3>3. CASE ComputeFails(p) \/ ComputePanics(p)
      <4> DEFINE r == Failed(flight[p])
      <4>1. r.flight = flight[p] /\ r.ok = FALSE
        BY <1>1, <3>1
      <4>2. Computed(p, r)
        BY <3>3 DEF ComputeFails, ComputePanics
      <4>3. QED
        BY <4>1, <4>2
    <3>4. QED
      BY <1>7, <3>2, <3>3
  <2>2. QED
    BY <2>1 DEF Computed
<1>8. ASSUME NEW p \in Procs, Publish(p) PROVE CallInv'
  BY <1>8 DEF Publish, local
<1>9. ASSUME NEW p \in Procs, Land(p) PROVE CallInv'
  <2>1. \A q \in Followers(p) : q \in Procs /\ pc[q] = "wait"
    BY DEF Followers
  <2>2. QED
    BY <1>1, <1>9, <2>1 DEF Land
<1>10. QED
  BY <1>2, <1>3, <1>4, <1>5, <1>6, <1>7, <1>8, <1>9 DEF Next, Step

\* Type correctness: among others, only results that are not errors are cached, and
\* a goroutine belongs to a flight exactly while it leads or follows one.
THEOREM TypeOKHolds == Spec => []TypeOK
<1>1. Init => RInv /\ CallInv
  <2>1. Init => CallInv
    BY NerCacheAssumption, ResultTypes DEF Init, CallInv, Nothing, Leading, Following
  <2>2. QED
    BY <2>1, InitRInv
<1>2. RInv /\ CallInv /\ [Next]_vars => (RInv /\ CallInv)'
  BY NextRInv, NextCallInv
<1>3. RInv /\ CallInv => TypeOK
  <2> SUFFICES ASSUME RInv, CallInv PROVE TypeOK
    OBVIOUS
  <2>1. \A p \in Procs : IsResult(result[p])
    <3>1. \A p \in Procs : result[p].ok \in BOOLEAN /\ result[p].flight \in 0 .. flights
      BY DEF RInv, DataTypes, Results, CallInv
    <3>2. \A p \in Procs : result[p].ok = TRUE => result[p].text \in Texts /\ result[p].asked \in 0 .. now
      BY DEF RInv, DataTypes, Results, CallInv
    <3>3. QED
      BY <3>1, <3>2 DEF IsResult
  <2>2. \A t \in Cached : /\ entries[t].result.ok /\ IsResult(entries[t].result)
                          /\ entries[t].expiresAt \in Nat /\ entries[t].seq \in 1 .. seq
    BY NerCacheAssumption DEF RInv, DataTypes, EntryInv, Cached, IsResult
  <2>3. QED
    BY <2>1, <2>2 DEF TypeOK, RInv, FInv, FlightTypes, DataTypes, CallInv
<1>4. QED
  BY <1>1, <1>2, <1>3, PTL DEF Spec

=============================================================================
