----------------------------- MODULE RecordMap -----------------------------
(***************************************************************************)
(* What internal/store/store.go promises callers that are serialised per   *)
(* payload id: a map from ids to records in which                          *)
(*                                                                         *)
(*   - a read answers with the record that was stored, never with another  *)
(*     one and never with a half-written one;                              *)
(*   - a record disappears only when it has not been used for more than    *)
(*     TTL, or when more than MaxSize records are stored;                  *)
(*   - a read that finds the record counts as a use.                       *)
(*                                                                         *)
(* There are no entries on a heap, no locks and no sequence numbers here:  *)
(* those belong to Store, which implements this specification.             *)
(***************************************************************************)
EXTENDS Integers, FiniteSets

CONSTANTS Procs, Ids, Vals, ZeroRec, Absent, TTL, MaxSize

VARIABLES now,       \* the clock
          content,   \* id -> record, Absent, or ZeroRec while a Put is filling it
          used,      \* id -> time of the record's last use, 0 if there is none
          call       \* goroutine -> the read in progress

vars == <<now, content, used, call>>

NoCall == [at |-> "none"]
Asked(i, v) == [at |-> "asked", id |-> i, val |-> v]
Found(i, v) == [at |-> "found", id |-> i, val |-> v]

Stored == {i \in Ids : content[i] # Absent}
Stale(i) == now - used[i] > TTL

Init ==
    /\ now = 0
    /\ content = [i \in Ids |-> Absent]
    /\ used = [i \in Ids |-> 0]
    /\ call = [p \in Procs |-> NoCall]

Tick == now' = now + 1 /\ UNCHANGED <<content, used, call>>

\* A read of a stored record starts.
Ask(p, i) ==
    /\ call[p] = NoCall
    /\ content[i] \in Vals
    /\ call' = [call EXCEPT ![p] = Asked(i, content[i])]
    /\ UNCHANGED <<now, content, used>>

\* The read finds its record, which counts as a use of the record unless it
\* has been pushed out by then.
Hit(p, i, v) ==
    /\ call[p] = Asked(i, v)
    /\ call' = [call EXCEPT ![p] = Found(i, v)]
    /\ \/ content[i] = Absent /\ UNCHANGED used
       \/ content[i] = v /\ ~Stale(i) /\ used' = [used EXCEPT ![i] = now]
    /\ UNCHANGED <<now, content>>

Answer(p, i, v) ==
    /\ call[p] = Found(i, v)
    /\ call' = [call EXCEPT ![p] = NoCall]
    /\ UNCHANGED <<now, content, used>>

\* The read ends without a record: it has been pushed out, or it is stale and
\* removed by the way.
Miss(p, i, v) ==
    /\ call[p] = Asked(i, v)
    /\ call' = [call EXCEPT ![p] = NoCall]
    /\ content[i] = Absent \/ (content[i] = v /\ Stale(i))
    /\ content' = [content EXCEPT ![i] = Absent]
    /\ used' = [used EXCEPT ![i] = 0]
    /\ UNCHANGED now

\* A Put claims room for its record, then fills it in.
Claim(i) ==
    /\ content[i] = Absent
    /\ content' = [content EXCEPT ![i] = ZeroRec]
    /\ UNCHANGED <<now, used, call>>

Fill(i, v) ==
    /\ content[i] # Absent
    /\ content' = [content EXCEPT ![i] = v]
    /\ used' = [used EXCEPT ![i] = now]
    /\ UNCHANGED <<now, call>>

\* More records than the limit: one goes.
PushOut(i) ==
    /\ i \in Stored
    /\ Cardinality(Stored) > MaxSize
    /\ content' = [content EXCEPT ![i] = Absent]
    /\ used' = [used EXCEPT ![i] = 0]
    /\ UNCHANGED <<now, call>>

Next ==
    \/ Tick
    \/ \E i \in Ids : Claim(i) \/ PushOut(i)
    \/ \E i \in Ids, v \in Vals : Fill(i, v)
    \/ \E p \in Procs, i \in Ids :
          \/ Ask(p, i)
          \/ \E v \in Vals : Hit(p, i, v) \/ Answer(p, i, v) \/ Miss(p, i, v)

Spec == Init /\ [][Next]_vars

=============================================================================
