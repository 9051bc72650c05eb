------------------------------ MODULE NerCache ------------------------------
(***************************************************************************)
(* internal/ner/cache.go: the cache of detection results in front of the   *)
(* NER model.  Requests for one text that overlap are coalesced: one of    *)
(* them, the leader, runs the detection outside the lock, the others wait  *)
(* for its flight.  There are limits on the entries, on their age and on   *)
(* the number of flights.                                                  *)
(*                                                                         *)
(*   Get          the time is read, before c.mu is taken                   *)
(*   Hit, Join, Refuse, Lead                                               *)
(*                the first section under c.mu, by what it finds           *)
(*   Compute, ComputeFails, ComputePanics                                  *)
(*                fn, outside the lock                                     *)
(*   Publish      the second section under c.mu                            *)
(*   Land         the flight gets its result, its channel is closed        *)
(*   Follow, Abandon                                                       *)
(*                the select of a follower                                 *)
(*                                                                         *)
(* A text stands for its key (a hash).  Flights are numbered; a flight's   *)
(* fields are read by its followers only, so Land hands them the result.   *)
(***************************************************************************)
EXTENDS Integers, FiniteSets

CONSTANTS Procs, Texts, NoText, NoEntry,
          TTL, MaxSize, MaxInflight,   \* positive by NewCache
          MaxTime, MaxCalls            \* bounds

ASSUME NerCacheAssumption ==
    /\ IsFiniteSet(Procs) /\ IsFiniteSet(Texts) /\ NoText \notin Texts
    /\ TTL \in Nat \ {0} /\ MaxSize \in Nat \ {0} /\ MaxInflight \in Nat \ {0}
    /\ MaxTime \in Nat /\ MaxCalls \in Nat

ASSUME NoEntryAssumption ==
    NoEntry \notin [result : [ok : {TRUE}, flight : Nat, text : Texts, asked : Nat],
                    expiresAt : Nat, seq : Nat]

VARIABLES now,
          entries,    \* text -> [result, expiresAt, seq], or NoEntry
          inflight,   \* text -> flight, 0 if there is none
          seq,        \* c.seq
          pc, text, start,   \* per goroutine: position, key, now
          flight,     \* per goroutine: the flight it leads or follows
          result,     \* per goroutine: the flight's result, once it has it
          calls, flights  \* numbers of calls and of flights so far

local == <<text, start, flight, result>>
vars == <<now, entries, inflight, seq, pc, local, calls, flights>>

\* Results: what flight n found for text t, asked for at time s; or an error.
Found(n, t, s) == [ok |-> TRUE, flight |-> n, text |-> t, asked |-> s]
Failed(n) == [ok |-> FALSE, flight |-> n]
Nothing == Failed(0)
IsResult(r) == r.flight \in 0 .. flights /\ (r.ok => r.text \in Texts /\ r.asked \in 0 .. now)

Cached == {t \in Texts : entries[t] # NoEntry}
InFlight == {t \in Texts : inflight[t] # 0}

Leading == {"compute", "publish", "land"}
Following == {"wait", "landed"}
Labels == {"idle", "lock"} \cup Leading \cup Following

TypeOK ==
    /\ now \in Nat /\ seq \in Nat /\ flights \in Nat /\ calls \in Nat
    /\ \A t \in Cached : /\ entries[t].result.ok /\ IsResult(entries[t].result)
                         /\ entries[t].expiresAt \in Nat /\ entries[t].seq \in 1 .. seq
    /\ inflight \in [Texts -> 0 .. flights]
    /\ pc \in [Procs -> Labels]
    /\ text \in [Procs -> Texts \cup {NoText}] /\ start \in [Procs -> 0 .. now]
    /\ flight \in [Procs -> 0 .. flights]
    /\ \A p \in Procs : /\ IsResult(result[p])
                        /\ pc[p] = "idle" <=> text[p] = NoText
                        /\ pc[p] \in Leading \cup Following <=> flight[p] # 0

Init ==
    /\ now = 0
    /\ entries = [t \in Texts |-> NoEntry]
    /\ inflight = [t \in Texts |-> 0]
    /\ seq = 0
    /\ pc = [p \in Procs |-> "idle"]
    /\ text = [p \in Procs |-> NoText]
    /\ start = [p \in Procs |-> 0]
    /\ flight = [p \in Procs |-> 0]
    /\ result = [p \in Procs |-> Nothing]
    /\ calls = 0 /\ flights = 0
-----------------------------------------------------------------------------
Tick ==
    /\ now < MaxTime
    /\ now' = now + 1
    /\ UNCHANGED <<entries, inflight, seq, pc, local, calls, flights>>

\* now := time.Now(), before c.mu.Lock().
Get(p, t) ==
    /\ pc[p] = "idle" /\ calls < MaxCalls
    /\ calls' = calls + 1
    /\ pc' = [pc EXCEPT ![p] = "lock"]
    /\ text' = [text EXCEPT ![p] = t]
    /\ start' = [start EXCEPT ![p] = now]
    /\ UNCHANGED <<now, entries, inflight, seq, flight, result, flights>>

\* The call returns.
Return(p) ==
    /\ pc' = [pc EXCEPT ![p] = "idle"]
    /\ text' = [text EXCEPT ![p] = NoText]
    /\ start' = [start EXCEPT ![p] = 0]
    /\ flight' = [flight EXCEPT ![p] = 0]
    /\ result' = [result EXCEPT ![p] = Nothing]

Expired(e, time) == e.expiresAt <= time

\* What the first section may find: a valid entry, or else a flight, or else
\* room for one.
Valid(p) == pc[p] = "lock" /\ text[p] \in Cached /\ ~Expired(entries[text[p]], start[p])
Missing(p) == pc[p] = "lock" /\ ~Valid(p)

\* An expired entry is deleted, whatever comes next.
DeleteExpired(p) == entries' = [entries EXCEPT ![text[p]] = NoEntry]

\* The fragments of the entry are returned.
Hit(p) ==
    /\ Valid(p)
    /\ Return(p)
    /\ UNCHANGED <<now, entries, inflight, seq, calls, flights>>

\* The text is being computed: wait for that flight.
Join(p) ==
    /\ Missing(p) /\ text[p] \in InFlight
    /\ DeleteExpired(p)
    /\ pc' = [pc EXCEPT ![p] = "wait"]
    /\ flight' = [flight EXCEPT ![p] = inflight[text[p]]]
    /\ UNCHANGED <<now, inflight, seq, text, start, result, calls, flights>>

FullBeyond == Cardinality(InFlight) > MaxInflight
Full == Cardinality(InFlight) >= MaxInflight

\* ErrTooManyInflight.
Refuse(p) ==
    /\ Missing(p) /\ text[p] \notin InFlight
    /\ Full
    /\ DeleteExpired(p)
    /\ Return(p)
    /\ UNCHANGED <<now, inflight, seq, calls, flights>>

Lead(p) ==
    /\ Missing(p) /\ text[p] \notin InFlight
    /\ ~Full
    /\ DeleteExpired(p)
    /\ inflight' = [inflight EXCEPT ![text[p]] = flights + 1]
    /\ flight' = [flight EXCEPT ![p] = flights + 1]
    /\ flights' = flights + 1
    /\ pc' = [pc EXCEPT ![p] = "compute"]
    /\ UNCHANGED <<now, seq, text, start, result, calls>>
-----------------------------------------------------------------------------
\* fn returns r.
Computed(p, r) ==
    /\ pc[p] = "compute"
    /\ pc' = [pc EXCEPT ![p] = "publish"]
    /\ result' = [result EXCEPT ![p] = r]
    /\ UNCHANGED <<now, entries, inflight, seq, text, start, flight, calls, flights>>

Compute(p) == Computed(p, Found(flight[p], text[p], start[p]))

\* An error of the model or of the network, or the end of the leader's context.
ComputeFails(p) == Computed(p, Failed(flight[p]))

\* A panic in fn is turned into an error.
PanicEscapes(p) ==
    /\ pc[p] = "compute"
    /\ Return(p)
    /\ UNCHANGED <<now, entries, inflight, seq, calls, flights>>
ComputePanics(p) == Computed(p, Failed(flight[p]))

\* insertLocked: the new entry; beyond the size limit the expired entries go,
\* then the oldest ones.  Times are compared with the start of this request.
LifetimeFromNow(p) == now + TTL
Lifetime(p) == start[p] + TTL
NewEntry(p) == [result |-> result[p], expiresAt |-> Lifetime(p), seq |-> seq + 1]

OutlivesYounger(e, f) == e.seq < f.seq
Outlives(e, f) == e.seq > f.seq

Insert(p) ==
    LET all == [entries EXCEPT ![text[p]] = NewEntry(p)]
        There == {t \in Texts : all[t] # NoEntry}
        Live == {t \in There : ~Expired(all[t], start[p])}
        Kept == {t \in Live : Cardinality({u \in Live : Outlives(all[u], all[t])}) < MaxSize}
    IN  IF Cardinality(There) <= MaxSize THEN all
        ELSE [t \in Texts |-> IF t \in Kept THEN all[t] ELSE NoEntry]

\* Errors are not cached, and results that are too large need not be.
Publish(p) ==
    /\ pc[p] = "publish"
    /\ inflight' = [inflight EXCEPT ![text[p]] = 0]
    /\ \/ /\ result[p].ok
          /\ entries' = Insert(p)
          /\ seq' = seq + 1
       \/ UNCHANGED <<entries, seq>>
    /\ pc' = [pc EXCEPT ![p] = "land"]
    /\ UNCHANGED <<now, local, calls, flights>>

\* Those whom the closing of p's channel wakes up.
FollowersOfText(p) == {q \in Procs : pc[q] = "wait" /\ text[q] = text[p]}
Followers(p) == {q \in Procs : pc[q] = "wait" /\ flight[q] = flight[p]}

\* fl.frags and fl.err are set, then fl.done is closed: every follower of the
\* flight can read them.  The leader returns its result.
Land(p) ==
    /\ pc[p] = "land"
    /\ pc' = [q \in Procs |-> IF q = p THEN "idle"
                              ELSE IF q \in Followers(p) THEN "landed" ELSE pc[q]]
    /\ result' = [q \in Procs |-> IF q = p THEN Nothing
                                  ELSE IF q \in Followers(p) THEN result[p] ELSE result[q]]
    /\ text' = [text EXCEPT ![p] = NoText]
    /\ start' = [start EXCEPT ![p] = 0]
    /\ flight' = [flight EXCEPT ![p] = 0]
    /\ UNCHANGED <<now, entries, inflight, seq, calls, flights>>

\* The follower returns the flight's result, be it an error.
Follow(p) ==
    /\ pc[p] = "landed"
    /\ Return(p)
    /\ UNCHANGED <<now, entries, inflight, seq, calls, flights>>

\* The follower's own context ends, perhaps when the flight has landed already.
Abandon(p) ==
    /\ pc[p] \in Following
    /\ Return(p)
    /\ UNCHANGED <<now, entries, inflight, seq, calls, flights>>

\* No more calls (the bound MaxCalls).
Rest == calls = MaxCalls /\ UNCHANGED vars

Step(p) ==
    \/ Hit(p) \/ Join(p) \/ Refuse(p) \/ Lead(p)
    \/ Compute(p) \/ ComputeFails(p) \/ ComputePanics(p)
    \/ Publish(p) \/ Land(p) \/ Follow(p)

Next ==
    \/ Tick
    \/ \E p \in Procs :
          \/ \E t \in Texts : Get(p, t)
          \/ Step(p)
          \/ Abandon(p)
    \/ Rest

Spec == Init /\ [][Next]_vars

-----------------------------------------------------------------------------
\* Each text in flight has exactly one leader that has yet to publish, and it
\* leads that very flight: no detection is run twice at a time, and no slot of
\* the table leaks, whether fn returns, fails or panics (cache.go:155-162, 173-181).
FlightHasOneLeader ==
    \A t \in Texts :
        LET Leaders == {p \in Procs : pc[p] \in {"compute", "publish"} /\ text[p] = t}
        IN  /\ Cardinality(Leaders) = IF t \in InFlight THEN 1 ELSE 0
            /\ \A p \in Leaders : flight[p] = inflight[t]

\* The two limits: on distinct texts in flight (cache.go:39-41) and on entries
\* (cache.go:33-34).
Bounded == Cardinality(InFlight) <= MaxInflight /\ Cardinality(Cached) <= MaxSize

\* What a follower is about to return was computed by the flight it joined and
\* for its text, even if a later flight for that text has taken off before the
\* first one landed (cache.go:157-168).
FollowersGetTheirFlight ==
    \A p \in Procs : pc[p] = "landed" =>
        result[p].flight = flight[p] /\ (result[p].ok => result[p].text = text[p])

\* What a reader is about to get from the cache belongs to its text and was asked
\* for less than TTL before the reader came, although the detection itself may
\* have taken longer than TTL (cache.go:122, 127, 194).
HitIsFresh ==
    \A p \in Procs : Valid(p) =>
        LET r == entries[text[p]].result
        IN  r.text = text[p] /\ start[p] - r.asked < TTL

\* An entry that has not expired goes only when the cache is full of younger
\* ones, and a leader never evicts what it has just inserted (cache.go:183-185).
OldestGoFirst ==
    [][LET Left == {u \in Texts : entries'[u] # NoEntry} IN
       /\ \A t \in Cached :
             ~Expired(entries[t], now) /\ t \notin Left =>
                /\ Cardinality(Left) = MaxSize
                /\ \A u \in Left : entries'[u].seq > entries[t].seq
       /\ seq' > seq => \E u \in Left : entries'[u].seq = seq']_vars

\* Nobody waits for ever: a follower's flight has a leader that has yet to land,
\* whether fn returns, fails or panics.  The leader's steps wait for nobody, so
\* that every call returns (cache.go:135-144, 155-168, 173-181).
FollowersHaveALeader ==
    \A p \in Procs : pc[p] = "wait" =>
        \E q \in Procs : pc[q] \in Leading /\ flight[q] = flight[p]

=============================================================================
