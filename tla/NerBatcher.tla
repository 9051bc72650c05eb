----------------------------- MODULE NerBatcher -----------------------------
(***************************************************************************)
(* internal/ner/ner.go: the client of the NER model.  Calls of Detect put  *)
(* their texts into a queue, one goroutine (batchLoop) packs them into     *)
(* batches, workers send the batches to the model and hand its results     *)
(* back, and Close stops all of it.                                        *)
(*                                                                         *)
(*   caller      Detect, then Enqueue or a refusal, then Receive or Quit   *)
(*   batchLoop   First and More (collectBatch), Full or TimerFires, Send   *)
(*   worker      TakeBatch, Respond (sendBatch), Answer or SkipAnswer      *)
(*                                                                         *)
(* A call stands for its item and for its text.  A select whose cases are  *)
(* ready at the same time takes any of them: each case is an action.       *)
(* Channels are sequences, or NoAnswer for the empty channel of an item.   *)
(* The wait before a timer fires is any time at all.                       *)
(***************************************************************************)
EXTENDS Integers, Sequences, FiniteSets

CONSTANTS Calls, Workers,          \* each call is made once: the bound
          NoAnswer,
          MaxBatch, QueueSize      \* positive by NewClientWithOptions

ASSUME NerBatcherAssumption ==
    /\ IsFiniteSet(Calls) /\ IsFiniteSet(Workers) /\ Workers # {}
    /\ MaxBatch \in Nat \ {0} /\ QueueSize \in Nat \ {0}

VARIABLES pc,          \* of each call
          cancelled,   \* has its context ended
          ch,          \* its channel, with room for one answer
          queue,       \* c.queue
          loop, items, \* position of batchLoop, and the batch it collects
          batches,     \* c.batches, with room for one batch per worker
          batchesClosed,
          worker,      \* of each worker: its position
          work, at,    \* its batch, and the item it answers next
          results,     \* and the results, or <<>> for an error
          closer       \* "open", "closing": c.done is closed, "closed"

callVars == <<pc, cancelled>>
loopVars == <<loop, items, batchesClosed>>
workerVars == <<worker, work, at, results>>
vars == <<callVars, ch, queue, loopVars, batches, workerVars, closer>>

Found(i) == [ok |-> TRUE, text |-> i]
Failed == [ok |-> FALSE]

ASSUME NoAnswerAssumption == NoAnswer \notin {Failed} \cup {Found(i) : i \in Calls}

Done == closer # "open"

Init ==
    /\ pc = [i \in Calls |-> "idle"]
    /\ cancelled = [i \in Calls |-> FALSE]
    /\ ch = [i \in Calls |-> NoAnswer]
    /\ queue = <<>>
    /\ loop = "first" /\ items = <<>>
    /\ batches = <<>> /\ batchesClosed = FALSE
    /\ worker = [w \in Workers |-> "idle"]
    /\ work = [w \in Workers |-> <<>>]
    /\ at = [w \in Workers |-> 0]
    /\ results = [w \in Workers |-> <<>>]
    /\ closer = "open"
-----------------------------------------------------------------------------
CallerAt(i, from, to) == pc[i] = from /\ pc' = [pc EXCEPT ![i] = to]

Detect(i) ==
    /\ CallerAt(i, "idle", "enqueue")
    /\ UNCHANGED <<cancelled, ch, queue, loopVars, batches, workerVars, closer>>

Enqueue(i) ==
    /\ CallerAt(i, "enqueue", "wait")
    /\ Len(queue) < QueueSize
    /\ queue' = Append(queue, i)
    /\ UNCHANGED <<cancelled, ch, loopVars, batches, workerVars, closer>>

Receive(i) ==
    /\ CallerAt(i, "wait", "returned")
    /\ ch[i] # NoAnswer
    /\ ch' = [ch EXCEPT ![i] = NoAnswer]
    /\ UNCHANGED <<cancelled, queue, loopVars, batches, workerVars, closer>>

\* ctx.Err() or ErrClientClosed, in either select.
QuitIfCancelled(i) ==
    /\ CallerAt(i, "enqueue", "returned") \/ CallerAt(i, "wait", "returned")
    /\ cancelled[i]
    /\ UNCHANGED <<cancelled, ch, queue, loopVars, batches, workerVars, closer>>
Quit(i) ==
    /\ CallerAt(i, "enqueue", "returned") \/ CallerAt(i, "wait", "returned")
    /\ cancelled[i] \/ Done
    /\ UNCHANGED <<cancelled, ch, queue, loopVars, batches, workerVars, closer>>

\* The context ends: a deadline, a lost client, or the end of the request.
Cancel(i) ==
    /\ pc[i] # "idle" /\ ~cancelled[i]
    /\ cancelled' = [cancelled EXCEPT ![i] = TRUE]
    /\ UNCHANGED <<pc, ch, queue, loopVars, batches, workerVars, closer>>
-----------------------------------------------------------------------------
\* A send on an item's channel: it waits until there is room.
Deliver(i, answer) ==
    /\ ch[i] = NoAnswer
    /\ ch' = [ch EXCEPT ![i] = answer]

\* collectBatch takes an item that has been cancelled: it is answered now.
Drop ==
    /\ loop \in {"first", "more"} /\ queue # <<>> /\ cancelled[Head(queue)]
    /\ Deliver(Head(queue), Failed)
    /\ queue' = Tail(queue)
    /\ UNCHANGED <<callVars, loopVars, batches, workerVars, closer>>

\* collectBatch takes an item.
BatchRestarted == <<Head(queue)>>
BatchWith == IF loop = "first" THEN <<Head(queue)>> ELSE Append(items, Head(queue))

WantsMore(b) == Len(b) < MaxBatch

Collect ==
    /\ loop \in {"first", "more"} /\ queue # <<>> /\ ~cancelled[Head(queue)]
    /\ items' = BatchWith
    /\ queue' = Tail(queue)
    /\ loop' = IF WantsMore(items') THEN "more" ELSE "send"
    /\ UNCHANGED <<callVars, ch, batchesClosed, batches, workerVars, closer>>

\* The timer of the batch, or Close: what there is makes the batch.
CollectEnds ==
    /\ loop = "more"
    /\ loop' = "send"
    /\ UNCHANGED <<callVars, ch, queue, items, batchesClosed, batches, workerVars, closer>>

Send ==
    /\ loop = "send" /\ Len(batches) < Cardinality(Workers)
    /\ batches' = Append(batches, items)
    /\ loop' = "first" /\ items' = <<>>
    /\ UNCHANGED <<callVars, ch, queue, batchesClosed, workerVars, closer>>

\* Close while there is no item, or while the batch finds no room: the batch is
\* thrown away.  The deferred call closes c.batches.
StopKeepsBatchesOpen ==
    /\ loop \in {"first", "send"} /\ Done
    /\ loop' = "ended" /\ items' = <<>>
    /\ UNCHANGED <<callVars, ch, queue, batchesClosed, batches, workerVars, closer>>
Stop ==
    /\ loop \in {"first", "send"} /\ Done
    /\ loop' = "ended" /\ items' = <<>>
    /\ batchesClosed' = TRUE
    /\ UNCHANGED <<callVars, ch, queue, batches, workerVars, closer>>
-----------------------------------------------------------------------------
\* The range over c.batches: batches left in the channel are still taken after it
\* was closed.
TakeBatch(w) ==
    /\ worker[w] = "idle" /\ batches # <<>>
    /\ worker' = [worker EXCEPT ![w] = "sending"]
    /\ work' = [work EXCEPT ![w] = Head(batches)]
    /\ batches' = Tail(batches)
    /\ UNCHANGED <<callVars, ch, queue, loopVars, at, results, closer>>

WorkerEnds(w) ==
    /\ worker[w] = "idle" /\ batches = <<>> /\ batchesClosed
    /\ worker' = [worker EXCEPT ![w] = "ended"]
    /\ UNCHANGED <<callVars, ch, queue, loopVars, batches, work, at, results, closer>>

\* What the model may say of a batch: results for any of its texts, perhaps too
\* few or too many, or in a wrong order.
Responses(batch) ==
    UNION {[1 .. n -> {Found(batch[k]) : k \in DOMAIN batch}] : n \in 0 .. Len(batch) + 1}

\* sendBatch: the count must be right, and each span must quote the text in its
\* place.  (A result without spans fits any text: it is left out.)
AcceptedByCount(batch, response) == DOMAIN response = DOMAIN batch
Accepted(batch, response) ==
    /\ DOMAIN response = DOMAIN batch
    /\ \A k \in DOMAIN batch : response[k] = Found(batch[k])

\* The HTTP request ends with a response, good or bad, or with an error.
Respond(w) ==
    /\ worker[w] = "sending"
    /\ \E outcome \in Responses(work[w]) \cup {<<>>} :
          results' = [results EXCEPT ![w] = IF Accepted(work[w], outcome) THEN outcome ELSE <<>>]
    /\ worker' = [worker EXCEPT ![w] = "answering"]
    /\ at' = [at EXCEPT ![w] = 1]
    /\ UNCHANGED <<callVars, ch, queue, loopVars, batches, work, closer>>

\* The loop of processBatch goes on with the next item, or ends.
NextItem(w) ==
    LET last == at[w] = Len(work[w])
    IN  /\ worker' = [worker EXCEPT ![w] = IF last THEN "idle" ELSE @]
        /\ work' = [work EXCEPT ![w] = IF last THEN <<>> ELSE @]
        /\ results' = [results EXCEPT ![w] = IF last THEN <<>> ELSE @]
        /\ at' = [at EXCEPT ![w] = IF last THEN 0 ELSE @ + 1]

AnswerFor(w) == IF results[w] = <<>> THEN Failed ELSE results[w][at[w]]

Answer(w) ==
    /\ worker[w] = "answering"
    /\ Deliver(work[w][at[w]], AnswerFor(w))
    /\ NextItem(w)
    /\ UNCHANGED <<callVars, queue, loopVars, batches, closer>>

SkipAnswer(w) ==
    /\ worker[w] = "answering" /\ cancelled[work[w][at[w]]]
    /\ NextItem(w)
    /\ UNCHANGED <<callVars, ch, queue, loopVars, batches, closer>>
-----------------------------------------------------------------------------
\* Close: close(c.done), then wg.Wait.  Further calls of Close do nothing.
Close ==
    /\ closer = "open"
    /\ closer' = "closing"
    /\ UNCHANGED <<callVars, ch, queue, loopVars, batches, workerVars>>

CloseReturns ==
    /\ closer = "closing" /\ loop = "ended" /\ \A w \in Workers : worker[w] = "ended"
    /\ closer' = "closed"
    /\ UNCHANGED <<callVars, ch, queue, loopVars, batches, workerVars>>

CallStep(i) == Enqueue(i) \/ Receive(i) \/ Quit(i)
LoopStep == Drop \/ Collect \/ CollectEnds \/ Send \/ Stop
WorkerStep(w) == TakeBatch(w) \/ WorkerEnds(w) \/ Respond(w) \/ Answer(w) \/ SkipAnswer(w)

\* Nobody calls any more (each call is made once).
Rest == (\A i \in Calls : pc[i] = "returned") /\ UNCHANGED vars

Next ==
    \/ \E i \in Calls : Detect(i) \/ CallStep(i) \/ Cancel(i)
    \/ LoopStep
    \/ \E w \in Workers : WorkerStep(w)
    \/ Close \/ CloseReturns
    \/ Rest

Spec == Init /\ [][Next]_vars

\* Every goroutine keeps running, and the HTTP client has a timeout.  Nobody need
\* cancel or close anything.
FairSpec ==
    /\ Spec
    /\ \A i \in Calls : WF_vars(CallStep(i))
    /\ WF_vars(LoopStep)
    /\ \A w \in Workers : WF_vars(WorkerStep(w))
    /\ WF_vars(CloseReturns)
-----------------------------------------------------------------------------
\* An answer that is not an error was found in the text of the call it is given
\* to, whatever items were skipped, however batches are spread over workers, and
\* whatever the model says (ner.go:408-439, 491-507).
AnswerIsOwn == \A i \in Calls : ch[i] \in {NoAnswer, Failed, Found(i)}

\* Where the item of a call may be, its answer included.
PlacesIn(s, place, n, i, from) ==
    {<<place, n, k>> : k \in {j \in DOMAIN s : j >= from /\ s[j] = i}}
InBatches(i) == UNION {PlacesIn(batches[b], "batch", b, i, 1) : b \in DOMAIN batches}
WithWorkers(i) == UNION {PlacesIn(work[w], "work", w, i, at[w]) : w \in Workers}
InChannel(i) == {p \in {<<"answer", 0, 0>>} : ch[i] # NoAnswer}
Places(i) ==
    PlacesIn(queue, "queue", 0, i, 1) \cup PlacesIn(items, "items", 0, i, 1)
    \cup InBatches(i) \cup WithWorkers(i) \cup InChannel(i)

\* An item is in one place at a time, so that its channel always has room and
\* neither batchLoop nor a worker blocks on it; and the item of a call that still
\* waits, in its own right, is somewhere (ner.go:329, 393, 439).  No worker gets
\* more of them at once than the model takes (ner.go:395).
ItemInOnePlace ==
    /\ \A i \in Calls :
          /\ Cardinality(Places(i)) <= 1
          /\ pc[i] = "wait" /\ ~cancelled[i] /\ ~Done => Places(i) # {}
    /\ \A w \in Workers : Len(work[w]) <= MaxBatch

\* Every call of Detect returns, also those whose items are in the queue, or in a
\* batch that is thrown away, when the client is closed (ner.go:324-347, 357-361).
DetectReturns == \A i \in Calls : pc[i] = "enqueue" ~> pc[i] = "returned"

\* Close returns: the loop and all workers end (ner.go:313-319).
CloseEnds == closer = "closing" ~> closer = "closed"

=============================================================================
