------------------------------ MODULE Service ------------------------------
(***************************************************************************)
(* internal/api/service.go: Process, which masks, masks again or restores, *)
(* depending on what the store holds for the payload id.  It composes the  *)
(*   KeyLocks   one lock per (consumer, payload id), held from before the  *)
(*              store is read until the answer is computed;                *)
(*   RecordMap  here the map records, whose reads and writes are atomic    *)
(*              because Store implements RecordMap when calls for one id   *)
(*              do not overlap; expiry and eviction are Lose;              *)
(*   Detection  the detector: any choice of the secrets, or an error;      *)
(*   Masking    Mask, Restore and the policy's type filter.                *)
(*                                                                         *)
(* Clients keep the texts they were given.  They send texts of their own,  *)
(* and texts any client was given, changed or not by an LLM, unless those  *)
(* show another consumer's secrets.                                        *)
(*                                                                         *)
(*   Request   arguments are checked, the lock is asked for                *)
(*   Enter     the lock is granted                                         *)
(*   Lookup    store.Get and the switch on the record found                *)
(*   Detected  the detector answers; Mask; store.Put                       *)
(*   DetectFails                                                           *)
(*   Reply     the deferred Unlock; the client has the answer              *)
(***************************************************************************)
EXTENDS Masking

CONSTANTS Procs, Consumers, Ids,
          NoId,             \* the empty payload_id
          Allowed,          \* consumers that policy.Allowed lets in
          Mode, RestoreAllowed, Types,  \* consumer -> the policy's fields
          Originals,        \* consumer -> the texts it has of its own
          NoRecord,
          MaxRequests, MaxLosses        \* bounds

ASSUME ServiceAssumption ==
    /\ NoId \notin Ids
    /\ Allowed \subseteq Consumers
    /\ Mode \in [Consumers -> {"token", "mask"}]
    /\ RestoreAllowed \in [Consumers -> BOOLEAN]
    /\ \A c \in Consumers : Mode[c] = "mask" => ~RestoreAllowed[c]  \* Policy.Validate
    /\ \A c \in Consumers : \A t \in Originals[c] : t \in Seq(Range(t))
    /\ MaxRequests \in Nat /\ MaxLosses \in Nat

VARIABLES asked, held,      \* the locks, see KeyLocks
          records,          \* key -> [original, masked, mappings], or NoRecord
          pc, req, res,     \* per goroutine: position, request, answer
          masks,            \* operations of Mask so far: the source of nonces
          seen,             \* consumer -> texts it was given
          given,            \* history: [key, original, masked] handed out as masks
          requests, losses

locks == <<asked, held>>
vars == <<locks, records, pc, req, res, masks, seen, given, requests, losses>>

Keys == Consumers \X Ids
KL == INSTANCE KeyLocks

\* scopedPayloadID: a hash of consumer and payload id, taken as collision-free.
UnscopedPayloadID(c, i) == <<CHOOSE d \in Consumers : TRUE, i>>
ScopedPayloadID(c, i) == <<c, i>>
KeyOf(p) == ScopedPayloadID(req[p].consumer, req[p].id)

NoRequest == [consumer |-> NoId, id |-> NoId, payload |-> <<>>]
NoAnswer == [ok |-> FALSE, error |-> "none"]
Error(kind) == [ok |-> FALSE, error |-> kind]

Secrets(text) == {text[i] : i \in {j \in DOMAIN text : IsSecret(text[j])}}
Owned(c) == UNION {Secrets(t) : t \in Originals[c]}

\* What an LLM may make of a text: nothing, a piece lost, a token damaged.
Versions(t) ==
    {t} \cup {RemoveAt(t, i) : i \in DOMAIN t}
        \cup {ReplaceAt(t, i, Cut) : i \in {j \in DOMAIN t : IsToken(t[j])}}
Sendable(c) ==
    Originals[c] \cup
    UNION {Versions(t) : t \in {s \in UNION {seen[d] : d \in Consumers} :
                                    Secrets(s) \subseteq Owned(c)}}

\* What the detector may answer for a text: any of the secrets in it, in order.
SecretSpans(text) ==
    {[type |-> text[i][2], start |-> i - 1, end |-> i] :
        i \in {j \in DOMAIN text : IsSecret(text[j])}}
Detections(text) ==
    {fs \in UNION {[1 .. n -> SecretSpans(text)] : n \in 0 .. Len(text)} :
        \A i \in 1 .. Len(fs) - 1 : fs[i].start < fs[i + 1].start}

Init ==
    /\ KL!Init
    /\ records = [k \in Keys |-> NoRecord]
    /\ pc = [p \in Procs |-> "idle"]
    /\ req = [p \in Procs |-> NoRequest]
    /\ res = [p \in Procs |-> NoAnswer]
    /\ masks = 0
    /\ seen = [c \in Consumers |-> {}]
    /\ given = {}
    /\ requests = 0 /\ losses = 0
-----------------------------------------------------------------------------
\* Process starts.  Without a payload id, or for a consumer that is not
\* allowed, it returns an error at once, which leaves no trace here.
Request(p) ==
    /\ pc[p] = "idle"
    /\ requests < MaxRequests
    /\ requests' = requests + 1
    /\ \E c \in Consumers, i \in Ids \cup {NoId} : \E t \in Sendable(c) :
          IF i = NoId \/ c \notin Allowed
          THEN UNCHANGED <<locks, pc, req>>
          ELSE /\ KL!Ask(p, ScopedPayloadID(c, i))
               /\ req' = [req EXCEPT ![p] = [consumer |-> c, id |-> i, payload |-> t]]
               /\ pc' = [pc EXCEPT ![p] = "enter"]
    /\ UNCHANGED <<records, res, masks, seen, given, losses>>

\* locks.Lock returns.
EnterBarging(p) ==
    /\ pc[p] = "enter"
    /\ asked' = asked \ {<<p, KeyOf(p)>>}
    /\ held' = held \cup {<<p, KeyOf(p)>>}
    /\ pc' = [pc EXCEPT ![p] = "lookup"]
    /\ UNCHANGED <<records, req, res, masks, seen, given, requests, losses>>
Enter(p) ==
    /\ pc[p] = "enter"
    /\ KL!Grant(p, KeyOf(p))
    /\ pc' = [pc EXCEPT ![p] = "lookup"]
    /\ UNCHANGED <<records, req, res, masks, seen, given, requests, losses>>

\* An answer is there; the client gets it once the lock is released.
Answer(p, answer) ==
    /\ res' = [res EXCEPT ![p] = answer]
    /\ pc' = [pc EXCEPT ![p] = "reply"]

\* Restoring is for consumers whose policy allows it.
RestoredForAnyone(c, text) == Success(text)
Restored(c, text) == IF RestoreAllowed[c] THEN Success(text) ELSE Error("forbidden")

\* A payload that is neither the original nor the mask, and in which Restore
\* finds nothing to replace, is a new text.
IsNewText(rec, payload) ==
    /\ payload \notin {rec.original, rec.masked}
    /\ Restore(payload, rec.mappings) = Success(payload)

\* The answer to a payload that is not a new text.
FromRecord(c, rec, payload) ==
    LET r == Restore(payload, rec.mappings) IN
    CASE payload = rec.original -> Success(rec.masked)
      [] payload # rec.original /\ payload = rec.masked -> Restored(c, rec.original)
      [] OTHER -> IF r.ok THEN Restored(c, r.text) ELSE Error("internal")

Pair(p, original, masked) ==
    [key |-> KeyOf(p), original |-> original, masked |-> masked]

\* store.Get, and what the record found makes of the payload.
Lookup(p) ==
    /\ pc[p] = "lookup"
    /\ LET rec == records[KeyOf(p)]  payload == req[p].payload IN
       IF rec = NoRecord \/ IsNewText(rec, payload)
       THEN /\ pc' = [pc EXCEPT ![p] = "detect"]
            /\ UNCHANGED <<res, given>>
       ELSE /\ Answer(p, FromRecord(req[p].consumer, rec, payload))
            /\ given' = IF payload = rec.original
                        THEN given \cup {Pair(p, payload, rec.masked)} ELSE given
    /\ UNCHANGED <<locks, records, req, masks, seen, requests, losses>>

\* doMask: the detector has answered; the text is masked and stored.
Detected(p) ==
    /\ pc[p] = "detect"
    /\ LET c == req[p].consumer  payload == req[p].payload IN
       \E fragments \in Detections(payload) :
          LET m == Mask(payload, FilterByPolicy(fragments, Types[c]), Mode[c], masks) IN
          IF m.ok
          THEN /\ records' = [records EXCEPT ![KeyOf(p)] =
                     [original |-> payload, masked |-> m.text, mappings |-> m.mappings]]
               /\ Answer(p, Success(m.text))
               /\ given' = given \cup {Pair(p, payload, m.text)}
          ELSE /\ Answer(p, Error("internal"))
               /\ UNCHANGED <<records, given>>
    /\ masks' = masks + 1
    /\ UNCHANGED <<locks, req, seen, requests, losses>>

\* doMask: the detector fails, or refuses because it is overloaded.
DetectFailsKeepsLock(p) ==
    /\ pc[p] = "detect"
    /\ pc' = [pc EXCEPT ![p] = "idle"]
    /\ UNCHANGED <<locks, records, req, res, masks, seen, given, requests, losses>>
DetectFails(p) ==
    /\ pc[p] = "detect"
    /\ \E kind \in {"internal", "overloaded"} : Answer(p, Error(kind))
    /\ UNCHANGED <<locks, records, req, masks, seen, given, requests, losses>>

\* The deferred Unlock, and the return.
Reply(p) ==
    /\ pc[p] = "reply"
    /\ KL!Free(p, KeyOf(p))
    /\ seen' = IF res[p].ok
               THEN [seen EXCEPT ![req[p].consumer] = @ \cup {res[p].text}] ELSE seen
    /\ pc' = [pc EXCEPT ![p] = "idle"]
    /\ req' = [req EXCEPT ![p] = NoRequest]
    /\ res' = [res EXCEPT ![p] = NoAnswer]
    /\ UNCHANGED <<records, masks, given, requests, losses>>

\* A record expires, or is evicted by a Put for another id.
Lose(k) ==
    /\ losses < MaxLosses
    /\ records[k] # NoRecord
    /\ records' = [records EXCEPT ![k] = NoRecord]
    /\ losses' = losses + 1
    /\ UNCHANGED <<locks, pc, req, res, masks, seen, given, requests>>

\* No more requests come (the bound MaxRequests).
Rest == requests = MaxRequests /\ UNCHANGED vars

Step(p) == Lookup(p) \/ Detected(p) \/ DetectFails(p) \/ Reply(p)

Next ==
    \/ \E p \in Procs : Request(p) \/ Enter(p) \/ Step(p)
    \/ \E k \in Keys : Lose(k)
    \/ Rest

Spec == Init /\ [][Next]_vars

\* A goroutine keeps running, the detector answers in the end (the NER client
\* has a timeout), and sync.Mutex hands a starving waiter the lock.
FairSpec == Spec /\ \A p \in Procs : WF_vars(Step(p)) /\ SF_vars(Enter(p))
-----------------------------------------------------------------------------
\* A consumer never gets to see a secret that is not in its own texts, whoever's
\* masked texts it sends under whatever payload id (service.go:57-58).
SecretsStayWithConsumer ==
    \A c \in Consumers : \A t \in seen[c] : Secrets(t) \subseteq Owned(c)

Replied(p) == pc[p] = "reply" /\ pc'[p] = "idle"

\* For a consumer without RestoreAllowed no answer shows a secret that its own
\* request did not show, be the payload the exact mask, an edited one or the
\* mask of an earlier record (service.go:93 and 106).
NoSecretWithoutRestore ==
    [][\A p \in Procs :
          /\ Replied(p) /\ res[p].ok
          /\ ~RestoreAllowed[req[p].consumer]
          => Secrets(res[p].text) \subseteq Secrets(req[p].payload)]_vars

\* The decision to mask is made on the record read before the detector ran, and
\* acted on after it: by then the record may have been lost, but nobody has
\* stored one that would have decided otherwise (service.go:62-66, 113, 148).
DecisionStillHolds ==
    \A p \in Procs : pc[p] = "detect" =>
        \/ records[KeyOf(p)] = NoRecord
        \/ IsNewText(records[KeyOf(p)], req[p].payload)

\* README.md:141: repeating the original gives the same mask.  However requests
\* overlap, a mask handed out for the original that is stored is the stored one.
RepeatGivesSameMask ==
    [][\A g \in given' \ given :
          records[g.key] # NoRecord /\ records[g.key].original = g.original
             => records[g.key].masked = g.masked]_vars

\* Every request is answered, on the error paths too.
Answered == \A p \in Procs : pc[p] = "enter" ~> pc[p] = "idle"
-----------------------------------------------------------------------------
\* README.md:140-141: a request with the same payload id and the mask received
\* restores the original text.
ReceivedMaskRestores ==
    [][\A p \in Procs :
          LET Masks == {g \in given : g.key = KeyOf(p) /\ g.masked = req[p].payload}
          IN  /\ Replied(p) /\ res[p].ok
              /\ RestoreAllowed[req[p].consumer]
              /\ Masks # {}
              => \E g \in Masks : res[p].text = g.original]_vars

=============================================================================
