# Verification of duck-driven-llm-proxy-service

The service masks personal data in texts on their way to an LLM and restores
it in the answers. A client sends `{consumer_id, payload_id, payload}`; the first
text under a payload id is masked and the pair is remembered, the mask sent back
(as it is, or edited by an LLM) is turned into the original again.

This directory holds TLA+ models of the service's own logic, TLC configurations
that check them on small instances, and TLAPS proofs for all instances. Paths
below are relative to the repository.

## 1. Inventory

| Component | State | Operations | Talks to |
|---|---|---|---|
| HTTP handler `internal/api/handler.go` | metrics only | `ServeHTTP` | calls Service; maps its errors to statuses |
| Service `internal/api/service.go` | none of its own | `Process`, `doMask` | keyed lock around: store, detector, masker, policy |
| Per-key lock `internal/api/keyedmutex.go` | map of reference-counted locks | `Lock`, `Unlock` | used by Service |
| Store `internal/store/store.go` | map, entry locks, atomic sequence numbers | `Get`, `Put`, `Remove`, eviction, expiry | called by Service under the keyed lock |
| Masking `internal/masking/masking.go` | none | `Mask`, `Restore`, tokens | called by Service; uses `Merge` |
| Policy `internal/policy` | table built at start | `Get`, `Allowed`, `Validate` | read by Service |
| Configuration `internal/config` | none | load, build policies | start-up only |
| PII types `internal/pii` | constants | | |
| Detection contract `internal/detection/detector.go` | none | `Composite`, `Preferred`, `Merge` | runs rule detectors, then NER |
| Labelled-field detectors `internal/detection/{labeled,full_name,address,...}.go` | none | `Detect` | loops over labels, with contexts that reject them |
| Number and format detectors, the rest of `internal/detection` | none | `Detect` | regular expressions, checksums, context words |
| NER detector, chunks, validator `internal/ner` | timing samples | `Detect`, splitting, candidates to fragments | cache around client |
| NER result cache `internal/ner/cache.go` | entries, flights | `Get` (coalescing) | calls the detection outside its lock |
| NER client `internal/ner/ner.go` | queue, batches, goroutines | `Detect`, batch loop, workers, `Close` | HTTP to the sidecar |
| Metrics `internal/metrics`, `internal/ner/metrics.go` | atomics | counters, maximum in flight | handler |
| Server `cmd/server/main.go` | rate limiter | start, token bucket, shutdown | everything |
| NER sidecar `ner/server.py` | pool of models | `/ner`, `/ner/batch` | answers the client |
| Load tests, scripts, deployment | | | not part of the service |

A request passes: rate limiter, handler, `Process`, keyed lock, `store.Get`; for a
new text the rule detectors, then the NER detector (cache, then client, then sidecar),
`Merge`, `Mask`, `store.Put`; the lock is released by a `defer`.

What is hard here, and what makes each part correct:

- **Keyed lock.** Registration, waiting and release interleave; a lock object is
  deleted and made again while others are on their way to it. Correct: one goroutine
  per key, `Unlock` finds its own object, no object is left behind, everyone gets in.
- **Store.** Two kinds of locks plus atomics, and decisions (expired, oldest) made under
  one of them and acted on under the other. Correct: bounded, the oldest goes first, a
  live record is not lost to an expiry, no deadlock; for callers that serialise
  per id it is a map with a TTL.
- **Service.** The decision what to do with a text is made before the detector runs
  (seconds) and acted on after it; records expire, are evicted and are overwritten
  between the requests of a conversation. Correct: nobody's secrets reach anybody
  else, no restore without permission, repeated originals get the same mask, every
  request is answered.
- **Masking.** Tokens are found again in a text somebody else has edited. Correct:
  restoring inverts masking, damage is reported and never filled in wrongly, what was
  detected does not show.
- **Merge.** Overlapping findings of detectors of different authority. Correct:
  result in order and disjoint, everything found is there or gave way to something.
- **NER cache.** Leaders run outside the lock, may fail or panic, and a later
  flight for the same text may start before the earlier one has landed.
- **NER client.** Three ready cases in a `select`, items whose callers have left, Close
  under load, responses of the model that do not fit.
- **Chunks.** Ends move back and starts forward over multi-byte text, overlaps yield the same
  candidate twice. Correct: no character is cut, every name is whole in some chunk, the loop
  ends.
- **Labelled fields.** Loops resume behind values, labels that were rejected or had no value;
  values end where the next field begins. Correct: no field is passed over, a value is what
  was filled in.
- **Validator.** Signatures on both sides of a candidate, longer ones that contain shorter ones,
  negations, appositions that reach over a line end. Correct: the nearest whole one in the own part
  of the sentence, or before its comma, decides.
- **Server and sidecar.** Loops around compare-and-swap, a refill in two steps, a shutdown that
  gives up, a model server that hangs while requests, workers and `Close` wait for it, clients that
  stall in their bodies, texts left in the channel when the client is closed. Correct: tokens and
  gauges are exact, models are neither lost nor shared, whoever has sent his body is answered or
  the process exits, and after a signal it does exit.

`PROJECT.json` lists the hazards line by line with the properties that cover them.

## 2. Modules

| Module | Models | Grain |
|---|---|---|
| `KeyLocks` | abstract: one lock per key (asked, held) | |
| `KeyedMutex` | `keyedmutex.go` | between two lock operations |
| `KeyedMutexProofs` | theorems about it | |
| `RecordMap` | abstract: a map with a TTL and a size limit | |
| `Store` | `store.go` | between two lock operations or atomics |
| `StoreProofs` | theorems about it | |
| `Fragments` | `Merge` and the joining of fallback fragments | operators |
| `Detection` | one call of the production detector | one detector per step |
| `Masking` | `Mask`, `Restore`, `filterByPolicy` | operators |
| `MaskingProofs` | lemmas about `Fragments` and `Masking` | |
| `OneText` | the text of a call, shared by the modules of which the run `text` is made | |
| `RoundTrip` | mask, edit, restore | one phase per step |
| `Chunking` | `chunk.go` | one iteration of `splitChunks` |
| `LongText` | `detector.go` on a long text; composes `Chunking` and `Fragments` | one chunk per step |
| `LongTexts` | the long texts of the runs | |
| `Fields` | ten detectors of labelled fields and `labeled.go` | one iteration of a detector's loop |
| `Validator` | `validate.go` | one call |
| `TextProofs` | theorems about `Detection`, `RoundTrip`, `Chunking`, `LongText`, `Fields` and `Validator` | |
| `Service` | `Process` and `doMask`; composes `KeyLocks`, a map of records, the detector's answers and `Masking` | between lock, store, detector and answer |
| `ServiceProofs` | theorems about it | |
| `NerCache` | `cache.go` | between two lock operations |
| `NerCacheProofs` | theorems about it | |
| `NerBatcher` | `ner.go` | one channel operation |
| `NerBatcherProofs` | theorems about it | |
| `Server` | `main.go`, `handler.go`, the raced counters of `metrics.go` | one access to shared memory |
| `Sidecar` | `ner/server.py` | one queue operation |
| `Serving` | composes `Server` and `Sidecar` by the NER client's queue, channel, workers and calls | one channel operation |
| `ServingProofs` | theorems about it | |
| `MC_*` | instances for TLC | |

How state and actions correspond to the code is said at the head of each module;
`map` in `PROJECT.json` names the lines of each definition. The main decisions:

- **KeyedMutex** keeps `k.m`, `refs`, the owners of `l.mu` and of `k.mu`. Lock objects
  are cells of a finite heap, reused after collection, so that an object
  deleted too early would show as a second object for a key.
- **Store** keeps the map, the cells, `seq`, per-cell locks and `s.mu` (held across
  steps only during the scan, which is one step per entry because
  other goroutines change `lastUsedSeq` meanwhile). Records are opaque: encryption under
  the store's key is its own inverse and carries no state. `CallersSerialized` is the
  service's guarantee that calls for one id do not overlap.
- **Masking.** A text is a sequence of atoms, a token is an atom (type, index, nonce) or,
  cut by an editor, a broken one. Spans are in atoms. `Mask` and `Restore` follow
  the Go loops: copying between fragments, counting per type, finding the next token.
- **Fragments** sorts stably by inserting one element after another, and keeps, in that order, what
  meets none that was kept before: both are recursive functions on prefixes of the list.
- **Service.** The keyed lock is `KeyLocks` (which `KeyedMutex` implements, proved), the store
  a map from scoped ids to records (which `Store` implements for serialised callers,
  checked); expiry and eviction are a record that disappears at any moment (`Lose`).
  The detector returns any choice of the secrets or fails. Clients send their own
  texts, texts they were given, and edited ones.
- **NerCache.** A text stands for its SHA-256 key. A flight's fields are read only
  after its channel is closed, so closing it hands the result to those who wait.
- **NerBatcher.** A call of `Detect` is one goroutine with one item; its text is the
  item. Each ready `select` case is an action. The model answers with any list
  of results of the right or a wrong length; `sendBatch`'s checks decide.
- **Server** gives each request its goroutine. Loads and swaps are steps of their own, so the races
  the loops are written for happen. A status stays what it was when a panic ends the handler.
- **Sidecar** has a thread per call; a client that stopped waiting is not noticed by it.
- **Serving** puts the NER client between the two processes: a text waits in the queue, `batchLoop`
  collects it and sends it into the channel of `Workers` batches, a worker takes it from there and
  calls the sidecar, and each call ends with an answer or a timeout, also when the request has left.
  After `Close` has begun `batchLoop` ends, what is queued or in its hand is thrown away, and the
  workers drain the channel, with new calls, before they end (`ner.go:268, 349-370`). Each text is a
  batch of its own: how texts get into batches, and a queue that is full, are `NerBatcher`'s subject.
- **Chunking** keeps a text as bytes of three kinds (separator, first byte, continuation), which
  is all that `chunk.go` asks of them.
- **LongText** lets the model report a name that a chunk holds whole, and of one that is cut the
  part or nothing, and hands the candidates to the `Join` and `Merge` of `Fragments`.
- **Fields** has a word for each kind of word the detectors tell apart, and one parameterised loop:
  what differs between the detectors is where a value may start, where it ends, and which
  contexts reject a label. "кем выдан" is one word (`issued_by`): a label that the second pass finds again as
  a verb. The three address labels that "не" can negate are another (`client_address`). Of two words of a
  name that are looked for together the model has one.
- **Validator** has one word for each kind in its lists, and distances in words of equal width.
  The order of `decide`'s tests is kept. Spaces are not atoms; a line end is one (`nl`), because it ends a
  clause but is skipped, as white space, before a comma, a colon or a verb.

## 3. Runs

| Run | Instance | Shows |
|---|---|---|
| `mutex` | 3 goroutines, 2 keys, 4 objects | exclusion, right object, every Lock returns, refinement of `KeyLocks` |
| `store_calls` | 2 goroutines, 2 ids, room for 1, 3 calls that overlap freely | size bounded, victim oldest, expiry spares live records, every call returns |
| `store_map` | callers serialised per id, clock, 5 calls | refinement of `RecordMap` |
| `store_own` | overlapping Puts | violation, see section 6 |
| `text` | five parts, see below | what the stateless parts make of one text |
| `service_consumers` | 3 policies and a refused consumer, 4 requests, 1 lost record | confidentiality |
| `service_overlap` | 2 goroutines, 2 ids, 3 requests, 1 lost record | decisions stay valid, same mask, answers |
| `service_received` | 1 client, nothing lost | violation, see section 6 |
| `ner_cache` | 3 goroutines, 3 texts, 2 flights, 2 entries, 5 calls | coalescing, no follower without a leader, limits, freshness, eviction order |
| `ner_batches` | 3 calls, 2 workers, batches of 2, queue for 1 | own answers, nothing lost, batches within the limit, everything ends |
| `server` | 2 requests, 1 token and 1 refill, 1 worker, 2 threads, 1 model | exact counters, pool of models, answers and exit although the sidecar and clients may hang |
| `long_text` | texts of 9 characters in chunks | violation, see section 6 |

The exact values stand in the `.cfg` files. Why they are enough:

- *Keyed lock*: three goroutines give a holder, one that waits and one that
  arrives between `refs--` and the delete; two keys show a mix-up; one cell more than can be
  in use gives the allocator a choice.
- *Store*: the limit is below the number of ids, so that evictions happen, with a second
  Put in progress; a TTL of one tick makes an entry expire between the look-up and
  the second lock.
- *Service*: mask, edit, overwrite and restore are four requests; three are enough for
  an overlap plus a repetition.
- *NER cache*: three texts beyond two entries evict; with two flights the third text is
  refused; a leader, a second leader of the same text after the first published and a
  follower are three goroutines; a detection that takes one tick lasts as long as the TTL.
- *NER client*: three calls make one full batch and one short one over two workers,
  with a queue that fills up.
- *Server*: two requests race for the only token and for the maximum; a token added at the
  wrong moment is one too many; with one worker the second text queues behind the first, with one
  model a second thread waits for it, and the call of a client that gave up still holds it. The first
  text is in a call, the second in the queue, in hand or in the channel when `Close` begins. With two requests and
  one worker the channel never fills up; that is met in `ner_batches`. The proofs
  cover the three invariants for all sizes.

The parts of `text`:

- *detect*: 2 rule detectors and NER with up to 2 fragments each on a text of length 3: fragments
  nest, touch, overlap and repeat; three detectors give chains in which a loser of one overlap
  would have won another.
- *roundtrip*: texts of 3 different atoms, one of which may be a token of an earlier operation; two
  fragments of one type give the indices 1 and 2; one edit of every kind (drop, repeat, insert, cut).
- *long*: every text of 9 characters with at most two separators and one single-byte character, and
  every name in it. Sizes (chunk 13, overlap 7, window 1, width 2) meet the assumptions 8192, 512, 100
  and 4 meet; they make two or three chunks whose ends fall inside characters.
- *fields*: every text of 5 words (4 for addresses, whose alphabet has 13) from the alphabet of
  each detector: two labels with what is between them. A name has at most `NameWords` = 2 words (4 in the
  code), a near date is `TrimReach` = 2 atoms away (16 bytes in the code).
- *validate*: every text with 4 words of the label's vocabulary around a candidate, on any sides:
  a compound signature on one side and one of another type on the other, or an apposition with a role
  and a negation. `NegationWindow` = 1 word stands for 16 bytes.

`MaxTime`, `MaxCalls`, `MaxRequests`, `MaxLosses`, `MaxEdits`, `MaxFound`, `MaxRefills`, `MaxContext`, and the
lengths of texts, are bounds of the models, not of the code. Once one is used up, `Rest` lets the system
stand still; runs whose behaviours end by nature (`text`, `long_text`: a call returns; `server`: the
process exits) do not check for deadlock.

Symmetry is used only in runs without liveness.

## 4. Fairness

- `KeyedMutex`: steps under `k.mu` are weakly fair; acquiring `l.mu` and `k.mu` is strongly fair,
  because a `sync.Mutex` hands itself to a waiter that has starved for a millisecond.
  `Unlock` is called by a `defer`, so holders release.
- `Store`: every goroutine's next step is strongly fair, for the same reason.
- `Service`: steps inside the section are weakly fair (the detector returns: the
  NER client's HTTP timeout is 30 s and rule detectors loop over a finite text); entering is
  strongly fair, as proved of the lock below it. Clients are not fair.
- `NerBatcher`: callers, loop and workers are weakly fair; a batch timer fires; the
  HTTP request ends. Nobody is obliged to cancel or to close.
- `NerCache` needs no fairness: `FollowersHaveALeader` (checked and proved) says that whoever waits has a leader
  whose steps wait for nobody.
- `Serving`: the steps of handlers that wait for no client are weakly fair (a retry of a compare-and-swap means that another goroutine
  got through), so are the HTTP client's 30 seconds (`Timeout`), the `select` that sees the closed client,
  `batchLoop`, the worker that takes from the channel, main, with the five seconds of `Shutdown`, and the five of
  `ReadHeaderTimeout`. Nothing is assumed of the sidecar, which may hang, nor of clients, who may never finish
  their body or never read their answer: the server sets no other timeout (`main.go:78-82`), so that `Decode` and
  `RequestFinished` are not fair. `Answered` speaks of requests from the moment their body has been read
  (and says of the others that they come as far as the body), and `Exits` holds although `Shutdown` then waits
  in vain.

## 5. Proofs

All hold for every value of the constants that meets the named assumptions (finite sets of
goroutines, positive limits, model values outside the sets they are distinct from).

`KeyedMutexProofs` proves type correctness, `MutualExclusion`, `UnlockFindsOwnLock`,
`RefsCountUsers` and that the lock table implements `KeyLocks`. None of them is inductive
alone. `IInv` adds:

- `MuInv`: exactly the goroutine between taking and releasing `k.mu` owns it;
- `CallInv`: a goroutine in a call has a key, only a counted one has an object;
- `MapInjective`: two keys never share an object, so that deleting one key's
  object cannot free another's;
- `OwnerInv`: who is inside an object's lock is counted and points to it.

The crux is `Release`: `refs` reaches zero exactly when the set of users has one member, hence
the deleted object has no waiter, which is a cardinality argument on `Users(k)`.

`StoreProofs` proves type correctness, `Capacity` and `VictimWasOldest` for calls that overlap in
any way. It goes in two layers. `IInv` (types, `CallInv`, `MuInv`: only the scanner
holds `s.mu` across steps, `ScanInv`: a scan runs only above the limit and on a map that stands
still, and `Capacity` itself) is inductive and gives `Capacity`: the number of stored entries is
weighed against the number of goroutines that have inserted and not yet evicted. `SInv` adds what the
order of use needs: who holds which entry lock (`LockInv`), that ids map to different cells
(`EntriesInjective`), that all numbers were drawn before now and differ where they must (`SeqInv`), and
that the candidate of the scan was, when it was read, older than every other entry scanned is now
(`CandidateInv`): numbers only grow, so the scan needs no locks.

With `CallersSerialized` it also proves that `Store` implements `RecordMap`, which is what `Service` takes the
store for. `MapInv` adds to `SInv` that goroutines in calls share neither ids nor entries (`SerialInv`), that the
map leads from the id of a call to its entry or nowhere, and no other id leads there (`OwnEntryInv`), and that
a zero record is met by nobody but the Put about to fill it (`WrittenInv`). `OwnEntryInv` is the crux: an
entry pushed out during a call is written, or its use recorded, where nobody looks, a stutter of the map.

`NerCacheProofs` proves every invariant its run checks. `FInv` concerns the flights:
a leader that has not published leads what is in flight for its text (`LeaderInv`), every text in
flight has such a leader (`ManagedInv`), leaders never share a flight, even one that has published
and one that has not (`UniqueInv`), and followers have leaders. `RInv` adds the data: a follower
waits for a flight of its own text (`SameTextInv`), results carry their flight and text
(`LeaderResultInv`, `FollowerResultInv`), and an entry expires TTL after its request (`EntryInv`), of
which `HitIsFresh` is a consequence. `BInv` adds the limits. That insertion restores the size
limit rests on a lemma about finite sets (`FewAboveEach`: if in a set of distinct numbers each has
fewer than n above it, there are at most n), hence on distinct insertion numbers. `OldestGoFirst` rests on
the converse (`ManyAreAbove`: if some element has n or more above it, at least n have fewer, and all of
these are above it), applied in `InsertEvictsOldest` to the entries that are alive when the leader started.

`MaskingProofs` is about operators, and holds the lemmas the next two modules stand on. The library's
induction theorems take an operator as a parameter, which no prover here can instantiate. Two lemmas replace
them: `Induction` (a set that holds 0 and, with n - 1, n holds all numbers up to a bound), proved from the
existence of a least counterexample, and `Recursion` (a function defined from its value at n - 1 exists). From them
follow `Flattening` (where an element of a flattened list comes from), `SortIs` (`StableSort` returns a permutation
in order, and keeps the order of what is equal), `TakeApartIs` (what the greedy loop keeps is apart, and what it drops meets
something kept before), hence `MergeIs`; and `MaskIs` (each atom of the masked text is an uncovered atom of the original or the
mark of one fragment, and no uncovered one is missing), `MappingIs`, and `AlignedInsert`, `AlignedRemove`, `AlignedCut`
about a text under edits.

`TextProofs` proves, for the parts of the run `text`:

- `NothingIsLost` and `StructuralSurvives` for any number of detectors, findings and any length of the text. `DInv` says
  what has been merged so far; the rest is what `Merge` and `Join` return.
- `RestoreIsExact` for texts of any atoms, any fragments, any number of edits. `RInv` keeps the edited text
  aligned with what it stands for: atom by atom, a whole token stands for the slice it is mapped to, any other
  atom but a cut token for itself. Each edit changes both sides at the same place.
- `CoveredIsHidden` for texts whose atoms are all different (so that one can be told from another when it is looked for in the
  masked text) and none of which is a mark of this operation: a token with its nonce, which is random, or the
  stars of the mode "mask". The theorem has that as its hypothesis; the texts of the run meet it.
- `ChunksAreWhole`, `SpansAreCovered` and that the loop advances, for every valid UTF-8 text and all sizes that meet
  `ChunkingAssumption`. `SplitInv` says what is covered so far: each span up to the end of the last chunk that is short
  enough lies in a chunk, and the next chunk starts at least that much before this end. `BoundaryMoves` and
  `ForwardMoves` bound how far the searches for separators and characters move an end.
- `NameIsFound`, whatever the model reports of a chunk that cuts the name: `FoundInv` says that a chunk which has been
  answered and holds the name whole has made it a candidate, and `AddOne` what dropping repeated ones leaves.
- `NoFieldIsMissed` and `ValuesAreClean` for texts of any words and marks and any length, all ten detectors, any
  `NameWords` and `TrimReach`. What a clean value is depends on the detector (`IsClean`): an address holds no line end and no
  date, but a comma before anything but a field or an office; an authority runs over a comma only to a date near it. `FInv` says that whatever was found is a clean value (`CleanValue`) and that each label
  before `from` was seen: what it finds overlaps a field, or the label stands inside one (`Seen`). The crux is a
  label between two that are looked at, which the loop skips: then it stands inside the value just found, or between
  the label and the value, and its value is the same one (`SharedValue`). The `Merge` that ends the second pass
  drops a field only for one that overlaps it, and the values of an issuer that overlap nest
  (`IssuerNests`): what the dropped one overlapped still overlaps something (`SecondPassKeeps`).
- `NearestWholeDecides` and `OtherSentencesDoNotMatter` for every text and candidate (`VInv`: the candidate lies in
  the text, and the verdict is `Decide`'s). For the first, a signature inside a longer one cannot win: the longer
  one is as near or nearer, and stands first in the list (`HitBeforeIs`, `HitAfterIs`; `SignaturesAre` shows it of
  the three lists). For the second, the sentence or line, with the line before if that ends with a comma, is a window of the text that
  no clause around the candidate leaves (`ShiftStart`, `ShiftEnd`, and `ShiftBack` for the bridge over line ends), so every context that `Decide` looks at is the same (`MovedClause` and the lemmas
  after it), except the two the property names, which can only hold for more of the text (`MovedAuthor`,
  `MovedBirthplace`).

`ServiceProofs` proves `DecisionStillHolds` and `RepeatGivesSameMask` for any clients, policies,
texts and answers of the detector. `LockInv` says that a goroutine from the lookup to the reply holds
the lock of its key and nobody else does; hence between the lookup and the Put the record can only get
lost. A mask made by the detector is for a new text, which is not the original that is stored, and a
repeated one is read from the record, so the action property follows. How texts are masked is not used.

It also proves the confidentiality of the service, `SecretsStayWithConsumer` and `NoSecretWithoutRestore`. `ShowsInv` bounds what
everything that holds a text may show: the texts of a client, its requests and the records, mappings and answers under its keys show no
secrets but its own consumer's. That needs what `Mask` and `Restore` do to secrets: `MaskShows` (a masked
text, and each slice in the mappings, shows no more than the original) and `RestoreShows` (restoring adds what the
mappings show, and nothing else), both from `MaskIs`.

`NerBatcherProofs` proves both invariants of the run `ner_batches`. `TypeInv` includes `AnswerIsOwn` and that
the results a worker holds are those of its batch, in order. For `ItemInOnePlace` the queue, the batch
being collected, the batches waiting, what each worker has yet to answer and the channels are
read as sets of calls: `OnceInv` (no item twice in one of them) and `ApartInv` (no item in two) are inductive,
because each step moves one item, or one batch, from one set to another. The item of a call that waits
is in one of them until the call is cancelled or the client closed.

`ServingProofs` proves the three invariants of the run `server` for any numbers of requests, threads,
models and workers. `TokensAreExact` becomes inductive with the fact that between the two steps of a
refill only takers touch the bucket, so there is still room (`BucketInv`); a swap succeeds only on the
count that was loaded, hence on a positive one. `PeakIsExact` needs the counting lemma that the gauge is
the cardinality of the handlers, and that whoever swaps saw the maximum that is there. `ModelsAreConserved` adds where each
thread stands (`PoolInv`).

Every invariant and action property the passing runs check is proved. Only model-checked: the
liveness properties, whose fairness needs ENABLED.

## 6. Findings

1. `internal/store/store.go:158-159` says that eviction never deletes the record just written.
   It can (`store_own`): the sequence number is drawn before `s.mu` is taken, Puts for
   other ids draw later ones meanwhile, and then the writer's own record is the oldest.
   It takes a full store and concurrent Puts; the client keeps its mask, which cannot be restored.
2. `README.md:140-141` promises that the mask received restores its original. After another text
   without tokens was sent under the same payload id (`service.go:113`), the first mask is
   answered unchanged, or with an error (`service_received`).

3. `internal/ner/chunk.go:4-5, 20-21` says that the overlap keeps names at boundaries. `SpansAreCovered`
   (proved) says that a chunk holds the name whole, and `NameIsFound` that it becomes a candidate. But
   if an earlier chunk reported the part of the name it held, that part comes first and
   `PreferredDetector` (`detector.go:71`) drops the whole name for it: the rest stays in the clear
   (`long_text`).

Seen on the way and not runs of their own:

- `Restore` fails on a text that quotes a token the record does not know, also when the original
  itself contained one (`masking.go:129`).
- A follower in the NER cache gets the error of its leader's context, although its own context is
  alive (`cache.go:138-140`).
- A reader between the two locks of `Put` sees an entry with a zero record and removes it as
  expired; the service's keyed lock excludes that.
- A detection that takes longer than the TTL is cached with an expiry time in the past
  (`cache.go:194`); that is what keeps `HitIsFresh` true.

## 7. Not modelled, and what is left

- **Number and format detectors** (date, phone, passport, card, INN, e-mail, driving licence,
  department code): each is a regular expression with a checksum or a range per match; their
  correctness is that of the expression, on characters these models abstract from. `Detection` takes
  any result of theirs.
- **Configuration**: a parser that runs once before anything else; its results are the `CONSTANTS`.
  **PII types**: a list of constants. **Load tests**, **deployment**: not part of the service.
- **Below the abstraction** of modelled parts: the spellings in the word lists; the widths of windows in
  bytes (a 16-byte window may begin inside a word, `validate.go:428`); offsets found in
  `strings.ToLower(text)` and used in `text`, where the two differ in width (`full_name.go:30` and
  others); dates in words; `client_name`, a label only as a key of JSON.
- **Statistics** of the NER client, hit counters of the cache, latency buffers, the text of the
  metrics export: nothing depends on them. Errors of the random source and of AES on the program's own
  data are left out.

Left to do: `NerBatcher` and the cache as an implementation of an abstract detector that answers
each call with the result for its text or an error, as `Service` assumes.
