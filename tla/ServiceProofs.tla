--------------------------- MODULE ServiceProofs ---------------------------
(***************************************************************************)
(* Proofs about Service, for any clients, policies, texts and detectors:   *)
(* the lock keeps others away from a record between the decision made on   *)
(* it and the Put, and repeated originals get the mask that is stored.     *)
(***************************************************************************)
EXTENDS Service, MaskingProofs

Inside == {"lookup", "detect", "reply"}

\* A goroutine inside holds the lock of its key, and nobody else does.
LockInv ==
    /\ DOMAIN pc = Procs /\ DOMAIN req = Procs /\ DOMAIN records = Keys
    /\ \A p \in Procs : pc[p] \in Inside \cup {"enter"} => KeyOf(p) \in Keys
    /\ \A p \in Procs : pc[p] \in Inside => <<p, KeyOf(p)>> \in held
    /\ \A p, q \in Procs, k \in Keys : <<p, k>> \in held /\ <<q, k>> \in held => p = q

IInv == LockInv /\ DecisionStillHolds

LEMMA InitIInv == Init => IInv
  BY DEF Init, IInv, LockInv, DecisionStillHolds, Inside, KL!Init

LEMMA RequestKeeps == ASSUME IInv, NEW p \in Procs, Request(p) PROVE IInv'
<1>1. CASE UNCHANGED <<locks, pc, req>>
  BY <1>1 DEF Request, IInv, LockInv, DecisionStillHolds, KeyOf, locks, IsNewText
<1>2. ASSUME NEW c \in Consumers, NEW i \in Ids, NEW t,
             KL!Ask(p, ScopedPayloadID(c, i)),
             req' = [req EXCEPT ![p] = [consumer |-> c, id |-> i, payload |-> t]],
             pc' = [pc EXCEPT ![p] = "enter"]
      PROVE  IInv'
  <2>1. UNCHANGED <<records, held>>
    BY <1>2 DEF Request, KL!Ask
  <2>2. KeyOf(p)' = <<c, i>> /\ <<c, i>> \in Keys
    BY <1>2 DEF KeyOf, ScopedPayloadID, IInv, LockInv, Keys
  <2>3. \A q \in Procs \ {p} : KeyOf(q)' = KeyOf(q) /\ pc'[q] = pc[q] /\ req'[q] = req[q]
    BY <1>2 DEF KeyOf, IInv, LockInv
  <2>4. pc'[p] = "enter"
    BY <1>2 DEF IInv, LockInv
  <2>5. LockInv'
    BY <1>2, <2>1, <2>2, <2>3, <2>4 DEF IInv, LockInv, Inside
  <2>6. DecisionStillHolds'
    BY <2>1, <2>3, <2>4 DEF IInv, DecisionStillHolds, IsNewText
  <2>7. QED
    BY <2>5, <2>6 DEF IInv
<1>3. QED
  BY <1>1, <1>2, SMTT(30) DEF Request

LEMMA EnterKeeps == ASSUME IInv, NEW p \in Procs, Enter(p) PROVE IInv'
<1>1. \A q \in Procs : KeyOf(q)' = KeyOf(q)
  BY DEF Enter, KeyOf
<1>2. UNCHANGED <<records, req>> /\ held' = held \cup {<<p, KeyOf(p)>>}
  BY DEF Enter, KL!Grant
<1>3. \A q \in Procs : <<q, KeyOf(p)>> \notin held
  BY DEF Enter, KL!Grant
<1>4. LockInv'
  BY <1>1, <1>2, <1>3 DEF Enter, IInv, LockInv, Inside
<1>5. DecisionStillHolds'
  BY <1>1, <1>2 DEF Enter, IInv, LockInv, DecisionStillHolds, IsNewText
<1>6. QED
  BY <1>4, <1>5 DEF IInv

LEMMA LookupKeeps == ASSUME IInv, NEW p \in Procs, Lookup(p) PROVE IInv'
<1>1. \A q \in Procs : KeyOf(q)' = KeyOf(q)
  BY DEF Lookup, KeyOf
<1>2. UNCHANGED <<records, req, held>>
  BY DEF Lookup, locks
<1>3. /\ DOMAIN pc' = Procs /\ \A q \in Procs \ {p} : pc'[q] = pc[q]
      /\ pc[p] = "lookup" /\ pc'[p] \in {"detect", "reply"}
      /\ pc'[p] = "detect" =>
            records[KeyOf(p)] = NoRecord \/ IsNewText(records[KeyOf(p)], req[p].payload)
  BY DEF Lookup, Answer, IInv, LockInv
<1>4. LockInv'
  BY <1>1, <1>2, <1>3 DEF IInv, LockInv, Inside
<1>5. DecisionStillHolds'
  BY <1>1, <1>2, <1>3 DEF IInv, DecisionStillHolds, IsNewText
<1>6. QED
  BY <1>4, <1>5 DEF IInv

\* Nobody else can be at work on the record that p stores.
LEMMA DetectedKeeps == ASSUME IInv, NEW p \in Procs, Detected(p) PROVE IInv'
<1>1. \A q \in Procs : KeyOf(q)' = KeyOf(q)
  BY DEF Detected, KeyOf
<1>2. UNCHANGED <<req, held>>
  BY DEF Detected, locks
<1>3. /\ DOMAIN pc' = Procs /\ \A q \in Procs \ {p} : pc'[q] = pc[q]
      /\ pc[p] = "detect" /\ pc'[p] = "reply"
  BY DEF Detected, Answer, IInv, LockInv
<1>4. DOMAIN records' = Keys /\ \A k \in Keys \ {KeyOf(p)} : records'[k] = records[k]
  BY DEF Detected, IInv, LockInv
<1>5. LockInv'
  BY <1>1, <1>2, <1>3, <1>4 DEF IInv, LockInv, Inside
<1>6. ASSUME NEW q \in Procs, pc'[q] = "detect"
      PROVE  q # p /\ KeyOf(q) \in Keys /\ KeyOf(q) # KeyOf(p)
  BY <1>3, <1>6 DEF IInv, LockInv, Inside
<1>7. DecisionStillHolds'
  BY <1>1, <1>2, <1>3, <1>4, <1>6 DEF IInv, DecisionStillHolds, IsNewText
<1>8. QED
  BY <1>5, <1>7 DEF IInv

LEMMA ReplyKeeps == ASSUME IInv, NEW p \in Procs, Reply(p) PROVE IInv'
<1>1. \A q \in Procs \ {p} : KeyOf(q)' = KeyOf(q) /\ pc'[q] = pc[q] /\ req'[q] = req[q]
  BY DEF Reply, KeyOf, IInv, LockInv
<1>2. /\ UNCHANGED records /\ held' = held \ {<<p, KeyOf(p)>>}
      /\ DOMAIN pc' = Procs /\ DOMAIN req' = Procs /\ pc'[p] = "idle"
  BY DEF Reply, KL!Free, IInv, LockInv
<1>3. LockInv'
  BY <1>1, <1>2 DEF IInv, LockInv, Inside
<1>4. DecisionStillHolds'
  BY <1>1, <1>2 DEF IInv, DecisionStillHolds, IsNewText
<1>5. QED
  BY <1>3, <1>4 DEF IInv

LEMMA NextIInv == IInv /\ [Next]_vars => IInv'
<1> SUFFICES ASSUME IInv, [Next]_vars PROVE IInv'
  OBVIOUS
<1>1. ASSUME NEW p \in Procs, DetectFails(p) PROVE IInv'
  <2>1. \A q \in Procs : KeyOf(q)' = KeyOf(q)
    BY <1>1 DEF DetectFails, KeyOf
  <2>2. UNCHANGED <<records, req, held>>
    BY <1>1 DEF DetectFails, locks
  <2>3. /\ DOMAIN pc' = Procs /\ \A q \in Procs \ {p} : pc'[q] = pc[q]
        /\ pc[p] = "detect" /\ pc'[p] = "reply"
    BY <1>1, SMTT(30) DEF DetectFails, Answer, IInv, LockInv
  <2>4. QED
    BY <2>1, <2>2, <2>3 DEF IInv, LockInv, Inside, DecisionStillHolds, IsNewText
<1>2. ASSUME NEW k \in Keys, Lose(k) PROVE IInv'
  BY <1>2, SMTT(30) DEF Lose, IInv, LockInv, DecisionStillHolds, KeyOf, locks, IsNewText
<1>3. CASE UNCHANGED vars
  BY <1>3 DEF IInv, LockInv, DecisionStillHolds, KeyOf, locks, vars, IsNewText
<1>4. QED
  BY <1>1, <1>2, <1>3, RequestKeeps, EnterKeeps, LookupKeeps, DetectedKeeps, ReplyKeeps
     DEF Next, Step, Rest

\* The inductive invariant.
THEOREM IInvHolds == Spec => []IInv
  BY InitIInv, NextIInv, PTL DEF Spec

\* What was decided on the record before the detector ran is still right when its
\* result is stored: nobody has stored another record that would have decided
\* otherwise, for any number of overlapping requests (service.go:62-66, 148).
THEOREM DecisionStillHoldsHolds == Spec => []DecisionStillHolds
<1>1. IInv => DecisionStillHolds
  BY DEF IInv
<1>2. QED
  BY IInvHolds, <1>1, PTL

\* A mask handed out for the original that is stored is the stored one, however
\* requests overlap and whatever the detector finds (README.md:141).
THEOREM RepeatGivesSameMaskHolds == Spec => RepeatGivesSameMask
<1>1. ASSUME IInv, [Next]_vars, NEW g \in given' \ given,
             records[g.key] # NoRecord, records[g.key].original = g.original
      PROVE  records[g.key].masked = g.masked
  <2>1. PICK p \in Procs : Lookup(p) \/ Detected(p)
    BY <1>1 DEF Next, Step, Request, Enter, DetectFails, Reply, Lose, Rest, vars
  <2>2. CASE Lookup(p)
    <3>1. g = Pair(p, req[p].payload, records[KeyOf(p)].masked)
      BY <1>1, <2>2 DEF Lookup
    <3>2. QED
      BY <3>1 DEF Pair
  <2>3. CASE Detected(p)
    <3>1. g.key = KeyOf(p) /\ g.original = req[p].payload
      BY <1>1, <2>3 DEF Detected, Pair
    <3>2. IsNewText(records[KeyOf(p)], req[p].payload)
      BY <1>1, <2>3, <3>1 DEF Detected, IInv, DecisionStillHolds
    <3>3. QED
      BY <1>1, <3>1, <3>2, SMTT(30) DEF IsNewText
  <2>4. QED
    BY <2>1, <2>2, <2>3
<1>2. IInv /\ [Next]_vars =>
         [\A g \in given' \ given :
             records[g.key] # NoRecord /\ records[g.key].original = g.original
                => records[g.key].masked = g.masked]_vars
  BY <1>1
<1>3. QED
  BY IInvHolds, <1>2, PTL DEF Spec, RepeatGivesSameMask

-----------------------------------------------------------------------------
\* Which secrets a text shows.
Shows(t, S) == IsText(t) /\ Secrets(t) \subseteq S

LEMMA ShowsIs ==
    ASSUME NEW X, NEW t \in Seq(X), NEW S, \A x \in X : IsSecret(x) => x \in S
    PROVE  Shows(t, S)
<1>1. t \in Seq(Range(t)) /\ Range(t) \subseteq X
  BY InOwnRange
<1>2. \A i \in DOMAIN t : t[i] \in X
  BY <1>1
<1>3. Secrets(t) \subseteq S
  BY <1>2 DEF Secrets
<1>4. QED
  BY <1>1, <1>3 DEF Shows, IsText

LEMMA ShownBy ==
    ASSUME NEW t, NEW S, Shows(t, S)
    PROVE  t \in Seq(Range(t)) /\ \A x \in Range(t) : IsSecret(x) => x \in S
<1>1. t \in Seq(Range(t)) /\ Secrets(t) \subseteq S
  BY DEF Shows, IsText
<1>2. ASSUME NEW i \in DOMAIN t, IsSecret(t[i]) PROVE t[i] \in S
  BY <1>1, <1>2 DEF Secrets
<1>3. QED
  BY <1>1, <1>2, RangeIs

\* What an LLM makes of a text shows nothing new.
LEMMA VersionShows ==
    ASSUME NEW t, NEW S, Shows(t, S), NEW v \in Versions(t)
    PROVE  Shows(v, S)
<1>1. t \in Seq(Range(t)) /\ \A x \in Range(t) : IsSecret(x) => x \in S
  BY ShownBy
<1>2. CASE v = t
  BY <1>2
<1>3. ASSUME NEW i \in DOMAIN t, v = RemoveAt(t, i) PROVE Shows(v, S)
  <2>1. i \in 1 .. Len(t)
    BY <1>1
  <2>2. v \in Seq(Range(t))
    BY <1>1, <1>3, <2>1, Removed DEF IsRemoval
  <2>3. QED
    BY <1>1, <2>2, ShowsIs
<1>4. ASSUME NEW i \in DOMAIN t, v = ReplaceAt(t, i, Cut) PROVE Shows(v, S)
  <2> DEFINE X == Range(t) \cup {Cut}
  <2>1. t \in Seq(X) /\ i \in 1 .. Len(t) /\ Cut \in X
    BY <1>1
  <2>2. \A x \in X : IsSecret(x) => x \in S
    BY <1>1 DEF IsSecret, Cut
  <2> HIDE DEF X
  <2>3. v \in Seq(X)
    BY <1>4, <2>1, ExceptSeq DEF ReplaceAt
  <2>4. QED
    BY <2>2, <2>3, ShowsIs
<1>5. QED
  BY <1>2, <1>3, <1>4 DEF Versions

\* Mask shows nothing new, and its mappings hold parts of the text.
LEMMA MaskShows ==
    ASSUME NEW t, IsText(t), NEW fs \in Seq(SecretSpans(t)), NEW md, NEW nonce,
           NEW m, m = Mask(t, fs, md, nonce)
    PROVE  /\ m.ok /\ Shows(m.text, Secrets(t))
           /\ \A x \in m.mappings : Shows(x[2], Secrets(t))
<1> DEFINE F == SecretSpans(t)  g == Merge(fs)  X == Range(t)
<1>1. t \in Seq(X) /\ DOMAIN t = 1 .. Len(t) /\ Len(t) \in Nat
      /\ \A x \in X : IsSecret(x) => x \in Secrets(t)
  <2>1. \A i \in DOMAIN t : IsSecret(t[i]) => t[i] \in Secrets(t)
    BY DEF Secrets
  <2>2. QED
    BY <2>1, RangeIs DEF IsText
<1>2. Proper(F) /\ \A f \in F : f.end <= Len(t)
  BY <1>1 DEF Proper, SecretSpans
<1> HIDE DEF X, F
<1>3. fs \in Seq(F)
  BY DEF F
<1>4. CASE fs = <<>>
  <2>1. m.ok /\ m.text = t /\ m.mappings = {}
    BY <1>4 DEF Mask
  <2>2. QED
    BY <1>1, <2>1, ShowsIs
<1>5. CASE fs # <<>>
  <2> HIDE DEF g
  <2>1. g \in Seq(F) /\ Walkable(g, Len(t)) /\ m = MaskWith(t, g, md, nonce)
    BY <1>2, <1>3, <1>5, MaskResult DEF g
  <2>2. PICK pieces \in Seq(Seq(Seq(X))) : ArePieces(pieces, t, g)
    BY <2>1, PiecesAre DEF X
  <2> DEFINE Z == X \cup MarksOf(g, md, nonce)
  <2>3. m.text \in Seq(Z)
    BY <1>1, <2>1, <2>2, MaskIs
  <2>4. \A x \in Z : IsSecret(x) => x \in Secrets(t)
    <3>1. \A x \in MarksOf(g, md, nonce) : ~IsSecret(x)
      BY DEF MarksOf, MarkOf, TokenFor, Token, Stars, IsSecret
    <3>2. QED
      BY <1>1, <3>1
  <2> HIDE DEF Z
  <2>5. Shows(m.text, Secrets(t))
    BY <2>3, <2>4, ShowsIs
  <2>6. ASSUME NEW x \in m.mappings PROVE Shows(x[2], Secrets(t))
    <3>1. PICK k \in DOMAIN g : x[2] = Slice(t, g[k].start, g[k].end)
      BY <2>1 DEF MaskWith
    <3>2. k \in 1 .. Len(g)
      BY <2>1
    <3> DEFINE a == g[k].start  e == g[k].end
    <3>3. a \in Nat /\ e \in Nat /\ a < e /\ e <= Len(t)
      BY <2>1, <3>2 DEF Walkable
    <3> HIDE DEF a, e
    <3>4. a \in 0 .. Len(t) /\ e \in a .. Len(t)
      BY <1>1, <3>3
    <3>5. Slice(t, a, e) \in Seq(X)
      BY <1>1, <3>4, SliceIs
    <3>6. x[2] = Slice(t, a, e)
      BY <3>1 DEF a, e
    <3>7. QED
      BY <1>1, <3>5, <3>6, ShowsIs
  <2>7. m.ok
    BY <2>1 DEF MaskWith
  <2>8. QED
    BY <2>5, <2>6, <2>7
<1>6. QED
  BY <1>4, <1>5

\* Restore shows what the payload and the mappings show.
LEMMA RestoreShows ==
    ASSUME NEW a, NEW ms, NEW S, Shows(a, S), \A m \in ms : Shows(m[2], S),
           NEW r, r = Restore(a, ms), r.ok
    PROVE  Shows(r.text, S)
<1> DEFINE X == Range(a) \cup UNION {Range(m[2]) : m \in ms}
           images == [i \in DOMAIN a |-> IF IsToken(a[i]) THEN MappedTo(a[i], ms) ELSE <<a[i]>>]
<1>1. /\ a \in Seq(Range(a)) /\ \A x \in Range(a) : IsSecret(x) => x \in S
  BY ShownBy
<1>2. ASSUME NEW m \in ms PROVE m[2] \in Seq(X) /\ \A x \in Range(m[2]) : IsSecret(x) => x \in S
  BY ShownBy
<1>3. /\ a \in Seq(X) /\ DOMAIN a = 1 .. Len(a) /\ \A x \in X : IsSecret(x) => x \in S
  BY <1>1, <1>2
<1> HIDE DEF X
<1>4. CASE ms = {}
  BY <1>4 DEF Restore, Success
<1>5. CASE ms # {}
  <2>1. /\ \A i \in DOMAIN a : IsToken(a[i]) => Known(a[i], ms)
        /\ r.text = FlattenSeq(images)
    BY <1>5 DEF Restore, Success, Failure
  <2>2. ASSUME NEW i \in 1 .. Len(a)
        PROVE  (IF IsToken(a[i]) THEN MappedTo(a[i], ms) ELSE <<a[i]>>) \in Seq(X)
    <3>1. CASE IsToken(a[i])
      <4>1. PICK m \in ms : m[1] = a[i]
        BY <1>3, <2>1, <3>1 DEF Known
      <4>2. (CHOOSE n \in ms : n[1] = a[i]) \in ms
        BY <4>1
      <4>3. MappedTo(a[i], ms) \in Seq(X)
        BY <1>2, <4>2 DEF MappedTo
      <4>4. QED
        BY <3>1, <4>3
    <3>2. CASE ~IsToken(a[i])
      <4>1. a[i] \in X
        BY <1>3
      <4>2. QED
        BY <3>2, <4>1
    <3>3. QED
      BY <3>1, <3>2
  <2>3. images \in Seq(Seq(X))
    BY <1>3, <2>2
  <2> HIDE DEF images
  <2>4. r.text \in Seq(X)
    BY <2>1, <2>3, FlattenType
  <2>5. QED
    BY <1>3, <2>4, ShowsIs
<1>6. QED
  BY <1>4, <1>5

-----------------------------------------------------------------------------
\* What the texts of clients, requests, records and answers show: the secrets of the
\* consumer's own texts, and an answer to a consumer that may not restore only those of
\* its own request.
RecordShows(rec, S) ==
    /\ Shows(rec.original, S)
    /\ Shows(rec.masked, Secrets(rec.original))
    /\ \A m \in rec.mappings : Shows(m[2], S)

AnswerShows(a, c, payload) ==
    a.ok => /\ Shows(a.text, Owned(c))
            /\ ~RestoreAllowed[c] => Secrets(a.text) \subseteq Secrets(payload)

RequestShows(p) ==
    pc[p] # "idle" =>
        /\ req[p].consumer \in Consumers /\ req[p].id \in Ids
        /\ Shows(req[p].payload, Owned(req[p].consumer))
        /\ pc[p] = "reply" => AnswerShows(res[p], req[p].consumer, req[p].payload)

ShowsInv ==
    /\ DOMAIN pc = Procs /\ DOMAIN req = Procs /\ DOMAIN res = Procs
    /\ DOMAIN records = Keys /\ DOMAIN seen = Consumers
    /\ \A c \in Consumers : \A t \in seen[c] : Shows(t, Owned(c))
    /\ \A p \in Procs : RequestShows(p)
    /\ \A k \in Keys : records[k] # NoRecord => RecordShows(records[k], Owned(k[1]))

LEMMA InitShows == Init => ShowsInv
  BY DEF Init, ShowsInv, RequestShows

\* Whatever a client may send shows only the secrets of its own texts.
LEMMA SendableShows ==
    ASSUME ShowsInv, NEW c \in Consumers, NEW t \in Sendable(c)
    PROVE  Shows(t, Owned(c))
<1>1. CASE t \in Originals[c]
  <2>1. t \in Seq(Range(t))
    BY <1>1, ServiceAssumption
  <2>2. Secrets(t) \subseteq Owned(c)
    BY <1>1 DEF Owned
  <2>3. QED
    BY <2>1, <2>2 DEF Shows, IsText
<1>2. ASSUME NEW d \in Consumers, NEW s \in seen[d], Secrets(s) \subseteq Owned(c),
             t \in Versions(s)
      PROVE  Shows(t, Owned(c))
  <2>1. Shows(s, Owned(c))
    BY <1>2 DEF ShowsInv, Shows
  <2>2. QED
    BY <1>2, <2>1, VersionShows
<1>3. QED
  BY <1>1, <1>2 DEF Sendable

LEMMA RequestShown == ASSUME ShowsInv, NEW p \in Procs, Request(p) PROVE ShowsInv'
<1>1. UNCHANGED <<records, res, seen>>
  BY DEF Request
<1>2. CASE UNCHANGED <<locks, pc, req>>
  BY <1>1, <1>2 DEF ShowsInv, RequestShows
<1>3. ASSUME NEW c \in Consumers, NEW i \in Ids, NEW t \in Sendable(c),
             req' = [req EXCEPT ![p] = [consumer |-> c, id |-> i, payload |-> t]],
             pc' = [pc EXCEPT ![p] = "enter"]
      PROVE  ShowsInv'
  <2>1. Shows(t, Owned(c))
    BY SendableShows
  <2>2. /\ DOMAIN pc' = Procs /\ DOMAIN req' = Procs /\ pc'[p] = "enter"
        /\ req'[p] = [consumer |-> c, id |-> i, payload |-> t]
        /\ \A q \in Procs \ {p} : pc'[q] = pc[q] /\ req'[q] = req[q]
    BY <1>3 DEF ShowsInv
  <2>3. RequestShows(p)'
    BY <2>1, <2>2 DEF RequestShows
  <2>4. \A q \in Procs \ {p} : RequestShows(q)'
    BY <1>1, <2>2 DEF ShowsInv, RequestShows
  <2>5. QED
    BY <1>1, <2>2, <2>3, <2>4 DEF ShowsInv
<1>4. QED
  BY <1>2, <1>3, SMTT(30) DEF Request

\* The answer from a record: the mask shows what the original shows, and the rest is only
\* for consumers that may restore.
LEMMA FromRecordShows ==
    ASSUME NEW c \in Consumers, NEW rec, RecordShows(rec, Owned(c)),
           NEW payload, Shows(payload, Owned(c))
    PROVE  AnswerShows(FromRecord(c, rec, payload), c, payload)
<1> DEFINE r == Restore(payload, rec.mappings)
           a == FromRecord(c, rec, payload)
<1>1. ASSUME NEW x, Shows(x, Owned(c)) PROVE AnswerShows(Restored(c, x), c, payload)
  BY <1>1 DEF Restored, AnswerShows, Success, Error
<1>2. CASE payload = rec.original
  <2>1. a = Success(rec.masked)
    BY <1>2 DEF FromRecord
  <2>2. Shows(rec.masked, Owned(c)) /\ Secrets(rec.masked) \subseteq Secrets(payload)
    BY <1>2 DEF RecordShows, Shows
  <2>3. QED
    BY <2>1, <2>2 DEF AnswerShows, Success
<1>3. CASE payload # rec.original /\ payload = rec.masked
  <2>1. a = Restored(c, rec.original)
    BY <1>3 DEF FromRecord
  <2>2. QED
    BY <1>1, <2>1 DEF RecordShows
<1>4. CASE payload # rec.original /\ payload # rec.masked
  <2>1. a = IF r.ok THEN Restored(c, r.text) ELSE Error("internal")
    BY <1>4 DEF FromRecord
  <2>2. r.ok => Shows(r.text, Owned(c))
    BY RestoreShows DEF RecordShows
  <2> HIDE DEF r
  <2>3. QED
    BY <1>1, <2>1, <2>2 DEF AnswerShows, Error
<1>5. QED
  BY <1>2, <1>3, <1>4

LEMMA LookupShown == ASSUME ShowsInv, NEW p \in Procs, Lookup(p) PROVE ShowsInv'
<1> DEFINE c == req[p].consumer  rec == records[KeyOf(p)]  payload == req[p].payload
<1>1. /\ UNCHANGED <<records, req, seen>> /\ pc[p] = "lookup"
  BY DEF Lookup
<1>2. c \in Consumers /\ req[p].id \in Ids /\ Shows(payload, Owned(c))
  BY <1>1 DEF ShowsInv, RequestShows
<1>3. /\ DOMAIN pc' = Procs /\ DOMAIN res' = Procs
      /\ \A q \in Procs \ {p} : pc'[q] = pc[q] /\ res'[q] = res[q]
  BY DEF Lookup, Answer, ShowsInv
<1>4. \/ pc'[p] = "detect"
      \/ rec # NoRecord /\ res'[p] = FromRecord(c, rec, payload)
  BY DEF Lookup, Answer, ShowsInv
<1>5. KeyOf(p) \in Keys /\ KeyOf(p)[1] = c
  BY <1>2 DEF KeyOf, ScopedPayloadID, Keys
<1>6. rec # NoRecord => AnswerShows(FromRecord(c, rec, payload), c, payload)
  <2>1. rec # NoRecord => RecordShows(rec, Owned(c))
    BY <1>5 DEF ShowsInv
  <2>2. QED
    BY <1>2, <2>1, FromRecordShows
<1>7. RequestShows(p)'
  BY <1>1, <1>2, <1>4, <1>6 DEF RequestShows, AnswerShows
<1>8. \A q \in Procs \ {p} : RequestShows(q)'
  BY <1>1, <1>3 DEF ShowsInv, RequestShows
<1>9. QED
  BY <1>1, <1>3, <1>7, <1>8 DEF ShowsInv

\* The policy's filter leaves some of the fragments.
LEMMA FilterIs ==
    ASSUME NEW F, NEW fs \in Seq(F), NEW types
    PROVE  FilterByPolicy(fs, types) \in Seq(F)
<1> DEFINE seqs == [i \in DOMAIN fs |->
                       IF types = {} \/ fs[i].type \in types THEN <<fs[i]>> ELSE <<>>]
<1>1. DOMAIN fs = 1 .. Len(fs) /\ Len(fs) \in Nat /\ \A i \in 1 .. Len(fs) : <<fs[i]>> \in Seq(F)
  OBVIOUS
<1>2. seqs \in Seq(Seq(F))
  BY <1>1
<1>3. FilterByPolicy(fs, types) = FlattenSeq(seqs)
  BY DEF FilterByPolicy
<1> HIDE DEF seqs
<1>4. QED
  BY <1>2, <1>3, FlattenType

LEMMA DetectedShown == ASSUME ShowsInv, NEW p \in Procs, Detected(p) PROVE ShowsInv'
<1> DEFINE c == req[p].consumer  payload == req[p].payload  S == Secrets(payload)
<1>1. UNCHANGED <<req, seen>> /\ pc[p] = "detect"
  BY DEF Detected
<1>2. c \in Consumers /\ req[p].id \in Ids /\ Shows(payload, Owned(c))
  BY <1>1 DEF ShowsInv, RequestShows
<1>3. PICK fs \in Detections(payload) :
         LET m == Mask(payload, FilterByPolicy(fs, Types[c]), Mode[c], masks) IN
         IF m.ok
         THEN /\ records' = [records EXCEPT ![KeyOf(p)] =
                    [original |-> payload, masked |-> m.text, mappings |-> m.mappings]]
              /\ Answer(p, Success(m.text))
         ELSE Answer(p, Error("internal")) /\ UNCHANGED records
  BY DEF Detected
<1> DEFINE m == Mask(payload, FilterByPolicy(fs, Types[c]), Mode[c], masks)
<1>4. fs \in Seq(SecretSpans(payload))
  BY <1>2 DEF Detections, Shows, IsText
<1>5. FilterByPolicy(fs, Types[c]) \in Seq(SecretSpans(payload))
  BY <1>4, FilterIs
<1>6. m.ok /\ Shows(m.text, S) /\ \A x \in m.mappings : Shows(x[2], S)
  BY <1>2, <1>5, MaskShows DEF Shows
<1> HIDE DEF m
<1>7. /\ records' = [records EXCEPT ![KeyOf(p)] =
              [original |-> payload, masked |-> m.text, mappings |-> m.mappings]]
      /\ Answer(p, Success(m.text))
  BY <1>3, <1>6 DEF m
<1>8. S \subseteq Owned(c) /\ \A x : Shows(x, S) => Shows(x, Owned(c))
  BY <1>2 DEF Shows
<1>9. AnswerShows(Success(m.text), c, payload)
  BY <1>6, <1>8 DEF AnswerShows, Success, Shows
<1>10. RecordShows([original |-> payload, masked |-> m.text, mappings |-> m.mappings], Owned(c))
  BY <1>2, <1>6, <1>8 DEF RecordShows
<1>11. KeyOf(p) \in Keys /\ KeyOf(p)[1] = c
  BY <1>2 DEF KeyOf, ScopedPayloadID, Keys
<1>12. /\ DOMAIN pc' = Procs /\ DOMAIN res' = Procs /\ DOMAIN records' = Keys
       /\ pc'[p] = "reply" /\ res'[p] = Success(m.text)
       /\ \A q \in Procs \ {p} : pc'[q] = pc[q] /\ res'[q] = res[q]
  BY <1>7 DEF Answer, ShowsInv
<1>13. \A k \in Keys : records'[k] # NoRecord => RecordShows(records'[k], Owned(k[1]))
  BY <1>7, <1>10, <1>11 DEF ShowsInv
<1>14. RequestShows(p)'
  BY <1>1, <1>2, <1>9, <1>12 DEF RequestShows, AnswerShows
<1>15. \A q \in Procs \ {p} : RequestShows(q)'
  BY <1>1, <1>12 DEF ShowsInv, RequestShows
<1>16. QED
  BY <1>1, <1>12, <1>13, <1>14, <1>15 DEF ShowsInv

LEMMA ReplyShown == ASSUME ShowsInv, NEW p \in Procs, Reply(p) PROVE ShowsInv'
<1> DEFINE c == req[p].consumer
<1>1. UNCHANGED records /\ pc[p] = "reply"
      /\ seen' = IF res[p].ok THEN [seen EXCEPT ![c] = @ \cup {res[p].text}] ELSE seen
  BY DEF Reply
<1>2. c \in Consumers /\ (res[p].ok => Shows(res[p].text, Owned(c)))
  BY <1>1 DEF ShowsInv, RequestShows, AnswerShows
<1>3. /\ DOMAIN pc' = Procs /\ DOMAIN req' = Procs /\ DOMAIN res' = Procs /\ pc'[p] = "idle"
      /\ \A q \in Procs \ {p} : pc'[q] = pc[q] /\ req'[q] = req[q] /\ res'[q] = res[q]
  BY DEF Reply, ShowsInv
<1>4. DOMAIN seen' = Consumers /\ \A d \in Consumers : \A t \in seen'[d] : Shows(t, Owned(d))
  BY <1>1, <1>2 DEF ShowsInv
<1>5. \A q \in Procs : RequestShows(q)'
  BY <1>3 DEF ShowsInv, RequestShows
<1>6. QED
  BY <1>1, <1>3, <1>4, <1>5 DEF ShowsInv

LEMMA NextShows == ShowsInv /\ [Next]_vars => ShowsInv'
<1> SUFFICES ASSUME ShowsInv, [Next]_vars PROVE ShowsInv'
  OBVIOUS
<1>1. ASSUME NEW p \in Procs, Enter(p) PROVE ShowsInv'
  <2>1. UNCHANGED <<records, req, res, seen>> /\ pc[p] = "enter"
        /\ pc' = [pc EXCEPT ![p] = "lookup"]
    BY <1>1 DEF Enter
  <2>2. DOMAIN pc' = Procs /\ pc'[p] = "lookup" /\ \A q \in Procs \ {p} : pc'[q] = pc[q]
    BY <2>1 DEF ShowsInv
  <2>3. \A q \in Procs : RequestShows(q)'
    BY <2>1, <2>2 DEF ShowsInv, RequestShows
  <2>4. QED
    BY <2>1, <2>2, <2>3 DEF ShowsInv
<1>2. ASSUME NEW p \in Procs, DetectFails(p) PROVE ShowsInv'
  <2>1. UNCHANGED <<records, req, seen>> /\ pc[p] = "detect"
    BY <1>2 DEF DetectFails
  <2>2. /\ DOMAIN pc' = Procs /\ DOMAIN res' = Procs /\ ~res'[p].ok
        /\ \A q \in Procs \ {p} : pc'[q] = pc[q] /\ res'[q] = res[q]
    BY <1>2 DEF DetectFails, Answer, Error, ShowsInv
  <2>3. \A q \in Procs : RequestShows(q)'
    BY <2>1, <2>2 DEF ShowsInv, RequestShows, AnswerShows
  <2>4. QED
    BY <2>1, <2>2, <2>3 DEF ShowsInv
<1>3. ASSUME NEW k \in Keys, Lose(k) PROVE ShowsInv'
  <2>1. UNCHANGED <<pc, req, res, seen>> /\ records' = [records EXCEPT ![k] = NoRecord]
    BY <1>3 DEF Lose
  <2>2. DOMAIN records' = Keys /\ \A l \in Keys : records'[l] \in {NoRecord, records[l]}
    BY <2>1 DEF ShowsInv
  <2>3. QED
    BY <2>1, <2>2 DEF ShowsInv, RequestShows
<1>4. CASE UNCHANGED vars
  BY <1>4 DEF ShowsInv, RequestShows, vars
<1>5. QED
  BY <1>1, <1>2, <1>3, <1>4, RequestShown, LookupShown, DetectedShown, ReplyShown
     DEF Next, Step, Rest

\* The inductive invariant.
THEOREM ShowsInvHolds == Spec => []ShowsInv
  BY InitShows, NextShows, PTL DEF Spec

\* A consumer never sees a secret that is not in its own texts: for any consumers, policies
\* and texts, any number of overlapping requests, and texts that passed through an LLM or
\* through other consumers (service.go:57-58).
THEOREM SecretsStayWithConsumerHolds == Spec => []SecretsStayWithConsumer
<1>1. ShowsInv => SecretsStayWithConsumer
  BY DEF ShowsInv, SecretsStayWithConsumer, Shows
<1>2. QED
  BY ShowsInvHolds, <1>1, PTL

\* A consumer that may not restore is never shown a secret that its own request did not
\* show (service.go:93 and 106).
THEOREM NoSecretWithoutRestoreHolds == Spec => NoSecretWithoutRestore
<1>1. ASSUME ShowsInv, NEW p \in Procs, Replied(p), res[p].ok, ~RestoreAllowed[req[p].consumer]
      PROVE  Secrets(res[p].text) \subseteq Secrets(req[p].payload)
  BY <1>1 DEF ShowsInv, RequestShows, AnswerShows, Replied
<1>2. ShowsInv /\ [Next]_vars =>
         [\A p \in Procs :
             /\ Replied(p) /\ res[p].ok
             /\ ~RestoreAllowed[req[p].consumer]
             => Secrets(res[p].text) \subseteq Secrets(req[p].payload)]_vars
  BY <1>1
<1>3. QED
  BY ShowsInvHolds, <1>2, PTL DEF Spec, NoSecretWithoutRestore

=============================================================================
