-------------------------- MODULE NerBatcherProofs --------------------------
(***************************************************************************)
(* Proofs about NerBatcher, for any numbers of calls and workers, any size *)
(* of the batches and of the queue: answers are found in the call's own    *)
(* text, and an item is in one place at a time and never lost.             *)
(***************************************************************************)
EXTENDS NerBatcher, FiniteSetTheorems, TLAPS

\* What the batches of the loop and of the workers look like.
LoopInv ==
    /\ loop \in {"first", "more", "send", "ended"}
    /\ items \in Seq(Calls)
    /\ loop = "more" => Len(items) \in 1 .. MaxBatch - 1
    /\ loop = "send" => Len(items) \in 1 .. MaxBatch
    /\ loop \in {"first", "ended"} => items = <<>>

IsBatch(b) == b \in Seq(Calls) /\ Len(b) \in 1 .. MaxBatch

WorkerInv(w) ==
    /\ worker[w] \in {"idle", "sending", "answering", "ended"}
    /\ work[w] \in Seq(Calls) /\ at[w] \in Nat
    /\ worker[w] \in {"idle", "ended"} => work[w] = <<>>
    /\ worker[w] \in {"sending", "answering"} => IsBatch(work[w])
    /\ worker[w] \in {"idle", "sending", "ended"} => at[w] = 0
    /\ worker[w] = "answering" =>
          /\ at[w] \in 1 .. Len(work[w])
          /\ results[w] # <<>> => \A k \in DOMAIN work[w] : results[w][k] = Found(work[w][k])

TypeInv ==
    /\ pc \in [Calls -> {"idle", "enqueue", "wait", "returned"}]
    /\ cancelled \in [Calls -> BOOLEAN]
    /\ DOMAIN ch = Calls /\ AnswerIsOwn
    /\ queue \in Seq(Calls)
    /\ batches \in Seq(Seq(Calls)) /\ \A b \in DOMAIN batches : IsBatch(batches[b])
    /\ LoopInv
    /\ DOMAIN worker = Workers /\ DOMAIN work = Workers
    /\ DOMAIN at = Workers /\ DOMAIN results = Workers
    /\ \A w \in Workers : WorkerInv(w)

LEMMA HeadAndTail ==
    ASSUME NEW S, NEW s \in Seq(S), s # <<>>
    PROVE  /\ Head(s) = s[1] /\ 1 \in DOMAIN s /\ s[1] \in S
           /\ Tail(s) \in Seq(S) /\ Len(Tail(s)) = Len(s) - 1
           /\ DOMAIN Tail(s) = 1 .. Len(s) - 1
           /\ \A k \in DOMAIN Tail(s) : Tail(s)[k] = s[k + 1] /\ k + 1 \in DOMAIN s
  OBVIOUS

LEMMA Appended ==
    ASSUME NEW S, NEW s \in Seq(S), NEW e \in S
    PROVE  /\ Append(s, e) \in Seq(S) /\ Len(Append(s, e)) = Len(s) + 1
           /\ DOMAIN Append(s, e) = DOMAIN s \cup {Len(s) + 1}
           /\ Len(s) + 1 \notin DOMAIN s
           /\ \A k \in DOMAIN s : Append(s, e)[k] = s[k]
           /\ Append(s, e)[Len(s) + 1] = e
  OBVIOUS

LEMMA InitTypeInv == Init => TypeInv
  BY NerBatcherAssumption
     DEF Init, TypeInv, AnswerIsOwn, LoopInv, WorkerInv, IsBatch

LEMMA CallerKeepsType ==
    ASSUME TypeInv, NEW i \in Calls, Detect(i) \/ CallStep(i) \/ Cancel(i)
    PROVE  TypeInv'
<1>1. UNCHANGED <<loopVars, batches, workerVars>>
  BY DEF Detect, CallStep, Enqueue, Receive, Quit, Cancel
<1>2. LoopInv' /\ \A w \in Workers : WorkerInv(w)'
  BY <1>1 DEF TypeInv, LoopInv, WorkerInv, loopVars, workerVars
<1>3. /\ pc' \in [Calls -> {"idle", "enqueue", "wait", "returned"}]
      /\ cancelled' \in [Calls -> BOOLEAN]
  BY DEF Detect, CallStep, Enqueue, Receive, Quit, Cancel, CallerAt, TypeInv
<1>4. DOMAIN ch' = Calls /\ AnswerIsOwn'
  BY DEF Detect, CallStep, Enqueue, Receive, Quit, Cancel, TypeInv, AnswerIsOwn
<1>5. queue' \in Seq(Calls)
  <2>1. queue \in Seq(Calls) /\ (queue' = queue \/ queue' = Append(queue, i))
    BY DEF Detect, CallStep, Enqueue, Receive, Quit, Cancel, TypeInv
  <2>2. QED
    BY <2>1
<1>6. QED
  BY <1>1, <1>2, <1>3, <1>4, <1>5 DEF TypeInv, loopVars, workerVars

LEMMA LoopKeepsType == ASSUME TypeInv, LoopStep PROVE TypeInv'
<1> USE NerBatcherAssumption
<1>1. UNCHANGED <<callVars, workerVars>>
  BY DEF LoopStep, Drop, Collect, CollectEnds, Send, Stop
<1>2. \A w \in Workers : WorkerInv(w)'
  BY <1>1 DEF TypeInv, WorkerInv, workerVars
<1>3. CASE Drop
  <2>1. Head(queue) \in Calls /\ queue' \in Seq(Calls)
    BY <1>3, HeadAndTail DEF Drop, TypeInv
  <2>2. DOMAIN ch' = Calls /\ AnswerIsOwn'
    BY <1>3, <2>1 DEF Drop, Deliver, TypeInv, AnswerIsOwn
  <2>3. QED
    BY <1>1, <1>2, <1>3, <2>1, <2>2
       DEF Drop, TypeInv, LoopInv, callVars, workerVars, loopVars
<1>4. CASE Collect
  <2>1. Head(queue) \in Calls /\ queue' \in Seq(Calls)
    BY <1>4, HeadAndTail DEF Collect, TypeInv
  <2>2. items' \in Seq(Calls) /\ Len(items') = Len(items) + 1
    BY <1>4, <2>1 DEF Collect, BatchWith, TypeInv, LoopInv
  <2>3. LoopInv'
    BY <1>4, <2>2 DEF Collect, WantsMore, TypeInv, LoopInv
  <2>4. QED
    BY <1>1, <1>2, <1>4, <2>1, <2>3 DEF Collect, TypeInv, AnswerIsOwn, callVars, workerVars
<1>5. CASE CollectEnds
  BY <1>1, <1>2, <1>5 DEF CollectEnds, TypeInv, LoopInv, AnswerIsOwn, callVars, workerVars
<1>6. CASE Send
  <2>1. items \in Seq(Calls) /\ IsBatch(items)
    BY <1>6 DEF Send, TypeInv, LoopInv, IsBatch
  <2>2. batches' \in Seq(Seq(Calls)) /\ \A b \in DOMAIN batches' : IsBatch(batches'[b])
    <3>1. batches' = Append(batches, items) /\ batches \in Seq(Seq(Calls))
      BY <1>6 DEF Send, TypeInv
    <3>2. QED
      BY <2>1, <3>1, Appended DEF TypeInv
  <2>3. LoopInv'
    BY <1>6 DEF Send, LoopInv
  <2>4. QED
    BY <1>1, <1>2, <1>6, <2>2, <2>3 DEF Send, TypeInv, AnswerIsOwn, callVars, workerVars
<1>7. CASE Stop
  BY <1>1, <1>2, <1>7 DEF Stop, TypeInv, LoopInv, AnswerIsOwn, callVars, workerVars
<1>8. QED
  BY <1>3, <1>4, <1>5, <1>6, <1>7 DEF LoopStep

LEMMA WorkerKeepsType ==
    ASSUME TypeInv, NEW w \in Workers, WorkerStep(w) PROVE TypeInv'
<1> USE NerBatcherAssumption
<1>1. UNCHANGED <<callVars, loopVars, queue>>
  BY DEF WorkerStep, TakeBatch, WorkerEnds, Respond, Answer, SkipAnswer
<1>2. LoopInv'
  BY <1>1 DEF TypeInv, LoopInv, loopVars
<1>3. /\ DOMAIN worker' = Workers /\ DOMAIN work' = Workers
      /\ DOMAIN at' = Workers /\ DOMAIN results' = Workers
      /\ \A v \in Workers \ {w} : /\ worker'[v] = worker[v] /\ work'[v] = work[v]
                                  /\ at'[v] = at[v] /\ results'[v] = results[v]
  BY DEF WorkerStep, TakeBatch, WorkerEnds, Respond, Answer, SkipAnswer, NextItem, TypeInv
<1>4. \A v \in Workers \ {w} : WorkerInv(v)'
  BY <1>3, SMTT(30) DEF TypeInv, WorkerInv
<1>5. CASE TakeBatch(w)
  <2>1. Head(batches) = batches[1] /\ 1 \in DOMAIN batches /\ Tail(batches) \in Seq(Seq(Calls))
    BY <1>5, HeadAndTail DEF TakeBatch, TypeInv
  <2>2. \A b \in DOMAIN Tail(batches) :
           Tail(batches)[b] = batches[b + 1] /\ b + 1 \in DOMAIN batches
    BY <1>5, HeadAndTail DEF TakeBatch, TypeInv
  <2>3. IsBatch(batches[1]) /\ \A b \in DOMAIN Tail(batches) : IsBatch(Tail(batches)[b])
    BY <2>1, <2>2 DEF TypeInv
  <2>4. worker'[w] = "sending" /\ work'[w] = batches[1] /\ at'[w] = at[w] /\ at[w] = 0
    BY <1>5, <2>1 DEF TakeBatch, TypeInv, WorkerInv
  <2>5. WorkerInv(w)'
    BY <2>3, <2>4 DEF WorkerInv, IsBatch
  <2>6. QED
    BY <1>1, <1>2, <1>3, <1>4, <1>5, <2>1, <2>3, <2>5
       DEF TakeBatch, TypeInv, AnswerIsOwn, callVars
<1>6. CASE WorkerEnds(w)
  <2>1. WorkerInv(w)'
    BY <1>6 DEF WorkerEnds, TypeInv, WorkerInv
  <2>2. QED
    BY <1>1, <1>2, <1>3, <1>4, <1>6, <2>1 DEF WorkerEnds, TypeInv, AnswerIsOwn, callVars
<1>7. CASE Respond(w)
  <2>1. PICK outcome \in Responses(work[w]) \cup {<<>>} :
            results' = [results EXCEPT ![w] = IF Accepted(work[w], outcome) THEN outcome ELSE <<>>]
    BY <1>7 DEF Respond
  <2>2. results'[w] # <<>> => \A k \in DOMAIN work[w] : results'[w][k] = Found(work[w][k])
    BY <2>1 DEF Accepted, TypeInv
  <2>3. WorkerInv(w) /\ IsBatch(work[w])
    BY <1>7 DEF Respond, TypeInv, WorkerInv
  <2>4. worker'[w] = "answering" /\ at'[w] = 1 /\ work' = work
    BY <1>7 DEF Respond, TypeInv
  <2>5. WorkerInv(w)'
    BY <2>2, <2>3, <2>4 DEF WorkerInv, IsBatch
  <2>6. QED
    BY <1>1, <1>2, <1>3, <1>4, <1>7, <2>5 DEF Respond, TypeInv, AnswerIsOwn, callVars
<1>8. ASSUME worker[w] = "answering", NextItem(w) PROVE WorkerInv(w)'
  <2>1. WorkerInv(w)
    BY DEF TypeInv
  <2>2. CASE at[w] = Len(work[w])
    <3>1. worker'[w] = "idle" /\ work'[w] = <<>> /\ at'[w] = 0
      BY <1>8, <2>2 DEF NextItem, TypeInv
    <3>2. QED
      BY <3>1 DEF WorkerInv
  <2>3. CASE at[w] # Len(work[w])
    <3>1. /\ worker'[w] = "answering" /\ work'[w] = work[w]
          /\ results'[w] = results[w] /\ at'[w] = at[w] + 1
      BY <1>8, <2>3 DEF NextItem, TypeInv
    <3>2. QED
      BY <1>8, <2>1, <2>3, <3>1 DEF WorkerInv, IsBatch
  <2>4. QED
    BY <2>2, <2>3
<1>9. CASE Answer(w)
  <2>1. WorkerInv(w)'
    BY <1>8, <1>9 DEF Answer
  <2>2. at[w] \in DOMAIN work[w] /\ work[w][at[w]] \in Calls
    BY <1>9 DEF Answer, TypeInv, WorkerInv, IsBatch
  <2>3. AnswerFor(w) \in {Failed, Found(work[w][at[w]])}
    BY <1>9, <2>2 DEF Answer, AnswerFor, TypeInv, WorkerInv
  <2>4. DOMAIN ch' = Calls /\ AnswerIsOwn'
    BY <1>9, <2>2, <2>3 DEF Answer, Deliver, TypeInv, AnswerIsOwn
  <2>5. QED
    BY <1>1, <1>2, <1>3, <1>4, <1>9, <2>1, <2>4 DEF Answer, TypeInv, callVars
<1>10. CASE SkipAnswer(w)
  <2>1. WorkerInv(w)'
    BY <1>8, <1>10 DEF SkipAnswer
  <2>2. QED
    BY <1>1, <1>2, <1>3, <1>4, <1>10, <2>1 DEF SkipAnswer, TypeInv, AnswerIsOwn, callVars
<1>11. QED
  BY <1>5, <1>6, <1>7, <1>9, <1>10 DEF WorkerStep

LEMMA OthersKeepType ==
    ASSUME TypeInv, Close \/ CloseReturns \/ UNCHANGED vars PROVE TypeInv'
  BY DEF Close, CloseReturns, vars, TypeInv, AnswerIsOwn, LoopInv, WorkerInv,
         callVars, loopVars, workerVars

LEMMA NextTypeInv == TypeInv /\ [Next]_vars => TypeInv'
  BY CallerKeepsType, LoopKeepsType, WorkerKeepsType, OthersKeepType DEF Next, Rest

\* Every variable has its type, and no channel holds more than its capacity.
THEOREM TypeInvHolds == Spec => []TypeInv
  BY InitTypeInv, NextTypeInv, PTL DEF Spec

\* Whatever the model answers, and however items are skipped and batches spread
\* over workers, a call gets what was found in its own text, or an error.
THEOREM AnswerIsOwnHolds == Spec => []AnswerIsOwn
<1>1. TypeInv => AnswerIsOwn
  BY DEF TypeInv
<1>2. QED
  BY TypeInvHolds, <1>1, PTL
-----------------------------------------------------------------------------
\* The places where the item of a call may be, as sets of calls.
Injective(s) == \A j, k \in DOMAIN s : s[j] = s[k] => j = k
ItemsOf(s) == {s[k] : k \in DOMAIN s}

Queued == ItemsOf(queue)
Collected == ItemsOf(items)
Batched(b) == ItemsOf(batches[b])
AtWork(w) == {work[w][k] : k \in {j \in DOMAIN work[w] : j >= at[w]}}
Answered == {i \in Calls : ch[i] # NoAnswer}
New == {i \in Calls : pc[i] \in {"idle", "enqueue"}}
Elsewhere == Queued \cup Collected \cup Answered \cup New

OnceInv ==
    /\ Injective(queue) /\ Injective(items)
    /\ \A b \in DOMAIN batches : Injective(batches[b])
    /\ \A w \in Workers : Injective(work[w])

ApartInv ==
    /\ Queued \cap (Collected \cup Answered \cup New) = {}
    /\ Collected \cap (Answered \cup New) = {}
    /\ Answered \cap New = {}
    /\ \A b \in DOMAIN batches : Batched(b) \cap Elsewhere = {}
    /\ \A w \in Workers : AtWork(w) \cap Elsewhere = {}
    /\ \A b, c \in DOMAIN batches : b # c => Batched(b) \cap Batched(c) = {}
    /\ \A v, w \in Workers : v # w => AtWork(v) \cap AtWork(w) = {}
    /\ \A b \in DOMAIN batches, w \in Workers : Batched(b) \cap AtWork(w) = {}

Somewhere(i) ==
    \/ i \in Queued \cup Collected \cup Answered
    \/ \E b \in DOMAIN batches : i \in Batched(b)
    \/ \E w \in Workers : i \in AtWork(w)

Awaited(i) == pc[i] = "wait" /\ ~cancelled[i] /\ ~Done

IInv ==
    /\ TypeInv /\ OnceInv /\ ApartInv
    /\ \A i \in Calls : Awaited(i) => Somewhere(i)

LEMMA SeqHeadAndTail ==
    ASSUME NEW S, NEW s \in Seq(S), s # <<>>, Injective(s)
    PROVE  /\ Injective(Tail(s)) /\ Head(s) \in ItemsOf(s) /\ Head(s) \in S
           /\ ItemsOf(Tail(s)) = ItemsOf(s) \ {Head(s)}
<1>1. /\ Head(s) = s[1] /\ 1 \in DOMAIN s /\ s[1] \in S
      /\ \A k \in DOMAIN Tail(s) : Tail(s)[k] = s[k + 1] /\ k + 1 \in DOMAIN s /\ k \in Nat \ {0}
      /\ \A k \in DOMAIN s \ {1} : k - 1 \in DOMAIN Tail(s) /\ k - 1 + 1 = k
  BY HeadAndTail
<1>2. Injective(Tail(s))
  BY <1>1 DEF Injective
<1>3. ItemsOf(Tail(s)) \subseteq ItemsOf(s) \ {Head(s)}
  BY <1>1 DEF ItemsOf, Injective
<1>4. ItemsOf(s) \ {Head(s)} \subseteq ItemsOf(Tail(s))
  <2>1. ASSUME NEW k \in DOMAIN s, s[k] # Head(s) PROVE s[k] \in ItemsOf(Tail(s))
    <3>1. k # 1
      BY <1>1, <2>1
    <3>2. k - 1 \in DOMAIN Tail(s) /\ Tail(s)[k - 1] = s[k]
      BY <1>1, <3>1
    <3>3. QED
      BY <3>2 DEF ItemsOf
  <2>2. QED
    BY <2>1 DEF ItemsOf
<1>5. QED
  BY <1>1, <1>2, <1>3, <1>4 DEF ItemsOf

LEMMA SeqAppended ==
    ASSUME NEW S, NEW s \in Seq(S), NEW e \in S
    PROVE  /\ ItemsOf(Append(s, e)) = ItemsOf(s) \cup {e}
           /\ Injective(s) /\ e \notin ItemsOf(s) => Injective(Append(s, e))
  BY Appended DEF ItemsOf, Injective

LEMMA InitIInv == Init => IInv
<1> SUFFICES ASSUME Init PROVE IInv
  OBVIOUS
<1>1. OnceInv
  BY DEF Init, OnceInv, Injective
<1>2. /\ Queued = {} /\ Collected = {} /\ Answered = {} /\ DOMAIN batches = {}
      /\ \A w \in Workers : AtWork(w) = {}
  BY DEF Init, Queued, Collected, Answered, AtWork, ItemsOf
<1>3. QED
  BY <1>1, <1>2, InitTypeInv DEF Init, IInv, ApartInv, Elsewhere, Awaited

\* What no step of the loop or of a worker changes.
LEMMA Unmoved ==
    /\ UNCHANGED queue => UNCHANGED Queued
    /\ UNCHANGED items => UNCHANGED Collected
    /\ UNCHANGED ch => UNCHANGED Answered
    /\ UNCHANGED pc => UNCHANGED New
    /\ UNCHANGED batches => \A b \in DOMAIN batches : UNCHANGED Batched(b)
    /\ UNCHANGED <<work, at>> => \A w \in Workers : UNCHANGED AtWork(w)
  BY DEF Queued, Collected, Answered, New, Batched, AtWork

LEMMA EnqueueKeeps == ASSUME IInv, NEW i \in Calls, Enqueue(i) PROVE IInv'
<1>1. TypeInv'
  BY CallerKeepsType DEF IInv, CallStep
<1>2. UNCHANGED <<cancelled, ch, items, batches, work, at, closer>>
  BY DEF Enqueue, loopVars, workerVars
<1>3. /\ UNCHANGED <<Collected, Answered>> /\ \A b \in DOMAIN batches : UNCHANGED Batched(b)
      /\ \A w \in Workers : UNCHANGED AtWork(w)
  BY <1>2, Unmoved
<1>4. i \in New /\ New' = New \ {i} /\ pc' = [pc EXCEPT ![i] = "wait"]
  BY DEF Enqueue, CallerAt, New, IInv, TypeInv
<1>5. i \notin Queued
  BY <1>4 DEF IInv, ApartInv
<1>6. Queued' = Queued \cup {i} /\ Injective(queue')
  <2>1. queue \in Seq(Calls) /\ queue' = Append(queue, i) /\ Injective(queue)
    BY DEF Enqueue, IInv, TypeInv, OnceInv
  <2>2. QED
    BY <1>5, <2>1, SeqAppended DEF Queued
<1>7. OnceInv'
  BY <1>2, <1>6 DEF IInv, OnceInv
<1>8. ApartInv'
  BY <1>2, <1>3, <1>4, <1>6 DEF IInv, ApartInv, Elsewhere
<1>9. \A j \in Calls : Awaited(j)' => Somewhere(j)'
  BY <1>2, <1>3, <1>4, <1>6 DEF IInv, TypeInv, Awaited, Somewhere, Done
<1>10. QED
  BY <1>1, <1>7, <1>8, <1>9 DEF IInv

\* The other steps of a caller move nothing, but for its answer.
LEMMA CallerKeeps ==
    ASSUME IInv, NEW i \in Calls, Detect(i) \/ Receive(i) \/ Quit(i) \/ Cancel(i)
    PROVE  IInv'
<1>1. TypeInv'
  BY CallerKeepsType DEF IInv, CallStep
<1>2. UNCHANGED <<queue, items, batches, work, at, closer>>
  BY DEF Detect, Receive, Quit, Cancel, loopVars, workerVars
<1>3. /\ UNCHANGED <<Queued, Collected>> /\ \A b \in DOMAIN batches : UNCHANGED Batched(b)
      /\ \A w \in Workers : UNCHANGED AtWork(w)
  BY <1>2, Unmoved
<1>4. New' \subseteq New
  BY DEF Detect, Receive, Quit, Cancel, CallerAt, New, IInv, TypeInv
<1>5. Answered' \subseteq Answered /\ \A j \in Calls : Awaited(j)' => Awaited(j)
  BY DEF Detect, Receive, Quit, Cancel, CallerAt, Answered, Awaited, Done, IInv, TypeInv
<1>6. \A j \in Calls : Awaited(j)' /\ j \in Answered => j \in Answered'
  BY DEF Detect, Receive, Quit, Cancel, CallerAt, Answered, Awaited, IInv, TypeInv
<1>7. OnceInv'
  BY <1>2 DEF IInv, OnceInv
<1>8. ApartInv'
  BY <1>2, <1>3, <1>4, <1>5 DEF IInv, ApartInv, Elsewhere
<1>9. \A j \in Calls : Awaited(j)' => Somewhere(j)'
  BY <1>2, <1>3, <1>5, <1>6 DEF IInv, Somewhere
<1>10. QED
  BY <1>1, <1>7, <1>8, <1>9 DEF IInv

\* An answer is none of NoAnswer: who gets one has one.
LEMMA DeliverIs ==
    ASSUME TypeInv, NEW i \in Calls, NEW answer \in {Failed, Found(i)}, Deliver(i, answer)
    PROVE  Answered' = Answered \cup {i}
  BY NoAnswerAssumption DEF Deliver, Answered, TypeInv

LEMMA DropKeeps == ASSUME IInv, Drop PROVE IInv'
<1> DEFINE i == Head(queue)
<1>1. TypeInv'
  BY LoopKeepsType DEF IInv, LoopStep
<1>2. UNCHANGED <<pc, cancelled, items, batches, work, at, closer>>
  BY DEF Drop, callVars, loopVars, workerVars
<1>3. /\ UNCHANGED <<Collected, New>> /\ \A b \in DOMAIN batches : UNCHANGED Batched(b)
      /\ \A w \in Workers : UNCHANGED AtWork(w)
  BY <1>2, Unmoved
<1>4. i \in Calls /\ i \in Queued /\ Queued' = Queued \ {i} /\ Injective(queue')
  <2>1. queue \in Seq(Calls) /\ queue # <<>> /\ queue' = Tail(queue) /\ Injective(queue)
    BY DEF Drop, IInv, TypeInv, OnceInv
  <2>2. QED
    BY <2>1, SeqHeadAndTail DEF Queued
<1>5. Answered' = Answered \cup {i}
  BY <1>4, DeliverIs DEF Drop, IInv
<1>6. OnceInv'
  BY <1>2, <1>4 DEF IInv, OnceInv
<1>7. ApartInv'
  BY <1>2, <1>3, <1>4, <1>5 DEF IInv, ApartInv, Elsewhere
<1>8. \A j \in Calls : Awaited(j)' => Somewhere(j)'
  BY <1>2, <1>3, <1>4, <1>5 DEF IInv, Awaited, Somewhere, Done
<1>9. QED
  BY <1>1, <1>6, <1>7, <1>8 DEF IInv

LEMMA CollectKeeps == ASSUME IInv, Collect PROVE IInv'
<1> DEFINE i == Head(queue)
<1>1. TypeInv'
  BY LoopKeepsType DEF IInv, LoopStep
<1>2. UNCHANGED <<pc, cancelled, ch, batches, work, at, closer>>
  BY DEF Collect, callVars, workerVars
<1>3. /\ UNCHANGED <<Answered, New>> /\ \A b \in DOMAIN batches : UNCHANGED Batched(b)
      /\ \A w \in Workers : UNCHANGED AtWork(w)
  BY <1>2, Unmoved
<1>4. i \in Calls /\ i \in Queued /\ Queued' = Queued \ {i} /\ Injective(queue')
  <2>1. queue \in Seq(Calls) /\ queue # <<>> /\ queue' = Tail(queue) /\ Injective(queue)
    BY DEF Collect, IInv, TypeInv, OnceInv
  <2>2. QED
    BY <2>1, SeqHeadAndTail DEF Queued
<1>5. items' = Append(items, i)
  BY DEF Collect, BatchWith, IInv, TypeInv, LoopInv
<1>6. Collected' = Collected \cup {i} /\ Injective(items')
  <2>1. items \in Seq(Calls) /\ Injective(items) /\ i \notin ItemsOf(items)
    BY <1>4 DEF IInv, TypeInv, LoopInv, OnceInv, ApartInv, Collected
  <2>2. QED
    BY <1>4, <1>5, <2>1, SeqAppended DEF Collected
<1>7. OnceInv'
  BY <1>2, <1>4, <1>6 DEF IInv, OnceInv
<1>8. ApartInv'
  BY <1>2, <1>3, <1>4, <1>6 DEF IInv, ApartInv, Elsewhere
<1>9. \A j \in Calls : Awaited(j)' => Somewhere(j)'
  BY <1>2, <1>3, <1>4, <1>6 DEF IInv, Awaited, Somewhere, Done
<1>10. QED
  BY <1>1, <1>7, <1>8, <1>9 DEF IInv

LEMMA SendKeeps == ASSUME IInv, Send PROVE IInv'
<1>0. PICK n : n = Len(batches) + 1
  OBVIOUS
<1>1. TypeInv'
  BY LoopKeepsType DEF IInv, LoopStep
<1>2. UNCHANGED <<pc, cancelled, ch, queue, work, at, closer>> /\ items' = <<>>
  BY DEF Send, callVars, workerVars
<1>3. UNCHANGED <<Queued, Answered, New>> /\ \A w \in Workers : UNCHANGED AtWork(w)
  BY <1>2, Unmoved
<1>4. Collected' = {}
  BY <1>2 DEF Collected, ItemsOf
<1>5. /\ DOMAIN batches' = DOMAIN batches \cup {n} /\ n \notin DOMAIN batches
      /\ \A b \in DOMAIN batches : batches'[b] = batches[b]
      /\ batches'[n] = items
  <2>1. batches \in Seq(Seq(Calls)) /\ items \in Seq(Calls) /\ batches' = Append(batches, items)
    BY DEF Send, IInv, TypeInv, LoopInv
  <2>2. QED
    BY <1>0, <2>1, Appended
<1>6. (\A b \in DOMAIN batches : UNCHANGED Batched(b)) /\ Batched(n)' = Collected
  BY <1>5 DEF Batched, Collected
<1>7. OnceInv'
  <2>1. Injective(<<>>)
    BY DEF Injective
  <2>2. QED
    BY <1>2, <1>5, <2>1 DEF IInv, OnceInv
<1>8. ApartInv'
  <2>1. \A b \in DOMAIN batches' : Batched(b)' \cap Elsewhere' = {}
    BY <1>3, <1>4, <1>5, <1>6 DEF IInv, ApartInv, Elsewhere
  <2>2. \A b, c \in DOMAIN batches' : b # c => Batched(b)' \cap Batched(c)' = {}
    BY <1>5, <1>6 DEF IInv, ApartInv, Elsewhere
  <2>3. \A b \in DOMAIN batches', w \in Workers : Batched(b)' \cap AtWork(w)' = {}
    BY <1>3, <1>5, <1>6 DEF IInv, ApartInv, Elsewhere
  <2>4. QED
    BY <1>3, <1>4, <2>1, <2>2, <2>3 DEF IInv, ApartInv, Elsewhere
<1>9. \A j \in Calls : Awaited(j)' => Somewhere(j)'
  BY <1>2, <1>3, <1>5, <1>6 DEF IInv, Awaited, Somewhere, Done
<1>10. QED
  BY <1>1, <1>7, <1>8, <1>9 DEF IInv

LEMMA LoopKeeps == ASSUME IInv, CollectEnds \/ Stop PROVE IInv'
<1>1. TypeInv'
  BY LoopKeepsType DEF IInv, LoopStep
<1>2. UNCHANGED <<pc, cancelled, ch, queue, batches, work, at, closer>>
  BY DEF CollectEnds, Stop, callVars, workerVars
<1>3. /\ UNCHANGED <<Queued, Answered, New>> /\ \A b \in DOMAIN batches : UNCHANGED Batched(b)
      /\ \A w \in Workers : UNCHANGED AtWork(w)
  BY <1>2, Unmoved
<1>4. UNCHANGED items \/ (items' = <<>> /\ Done)
  BY DEF CollectEnds, Stop
<1>5. Collected' \subseteq Collected /\ Injective(items') /\ (UNCHANGED Collected \/ Done)
  BY <1>4 DEF Collected, ItemsOf, Injective, IInv, OnceInv
<1>6. OnceInv'
  BY <1>2, <1>5 DEF IInv, OnceInv
<1>7. ApartInv'
  BY <1>2, <1>3, <1>5 DEF IInv, ApartInv, Elsewhere
<1>8. \A j \in Calls : Awaited(j)' => Somewhere(j)'
  BY <1>2, <1>3, <1>5 DEF IInv, Awaited, Somewhere, Done
<1>9. QED
  BY <1>1, <1>6, <1>7, <1>8 DEF IInv

LEMMA TakeBatchKeeps == ASSUME IInv, NEW w \in Workers, TakeBatch(w) PROVE IInv'
<1>1. TypeInv'
  BY WorkerKeepsType DEF IInv, WorkerStep
<1>2. UNCHANGED <<pc, cancelled, ch, queue, items, at, closer>>
  BY DEF TakeBatch, callVars, loopVars
<1>3. UNCHANGED <<Queued, Collected, Answered, New>>
  BY <1>2, Unmoved
<1>4. /\ Head(batches) = batches[1] /\ 1 \in DOMAIN batches
      /\ \A b \in DOMAIN batches' : batches'[b] = batches[b + 1] /\ b + 1 \in DOMAIN batches
                                    /\ b \in Nat \ {0}
      /\ \A b \in DOMAIN batches \ {1} : b - 1 \in DOMAIN batches' /\ batches'[b - 1] = batches[b]
  <2>1. batches \in Seq(Seq(Calls)) /\ batches # <<>> /\ batches' = Tail(batches)
    BY DEF TakeBatch, IInv, TypeInv
  <2>2. QED
    BY <2>1, HeadAndTail
<1>5. \A b \in DOMAIN batches' : Batched(b)' = Batched(b + 1) /\ b + 1 \in DOMAIN batches \ {1}
  BY <1>4 DEF Batched
<1>6. \A b \in DOMAIN batches \ {1} : b - 1 \in DOMAIN batches' /\ Batched(b - 1)' = Batched(b)
  BY <1>4 DEF Batched
<1>7. work'[w] = batches[1] /\ \A v \in Workers \ {w} : work'[v] = work[v]
  BY <1>4 DEF TakeBatch, IInv, TypeInv
<1>8. AtWork(w)' = Batched(1) /\ AtWork(w) = {}
  <2>1. at[w] = 0 /\ work[w] = <<>> /\ batches[1] \in Seq(Calls)
    BY <1>4 DEF TakeBatch, IInv, TypeInv, WorkerInv, IsBatch
  <2>2. QED
    BY <1>2, <1>7, <2>1 DEF AtWork, Batched, ItemsOf
<1>9. \A v \in Workers \ {w} : UNCHANGED AtWork(v)
  BY <1>2, <1>7 DEF AtWork
<1>10. OnceInv'
  BY <1>2, <1>4, <1>7 DEF IInv, OnceInv
<1>11. ApartInv'
  <2>1. \A b \in DOMAIN batches' : Batched(b)' \cap Elsewhere' = {}
    BY <1>3, <1>5 DEF IInv, ApartInv, Elsewhere
  <2>2. \A v \in Workers : AtWork(v)' \cap Elsewhere' = {}
    BY <1>3, <1>4, <1>8, <1>9 DEF IInv, ApartInv, Elsewhere
  <2>3. \A b, c \in DOMAIN batches' : b # c => Batched(b)' \cap Batched(c)' = {}
    <3>1. \A b, c \in DOMAIN batches' : b # c => b + 1 # c + 1
      BY <1>4
    <3>2. QED
      BY <1>5, <3>1 DEF IInv, ApartInv
  <2>4. \A v \in Workers \ {w} : AtWork(v)' \cap AtWork(w)' = {}
    BY <1>4, <1>8, <1>9 DEF IInv, ApartInv
  <2>5. \A u, v \in Workers : u # v => AtWork(u)' \cap AtWork(v)' = {}
    BY <1>9, <2>4 DEF IInv, ApartInv
  <2>6. \A b \in DOMAIN batches' : Batched(b)' \cap AtWork(w)' = {}
    BY <1>4, <1>5, <1>8 DEF IInv, ApartInv
  <2>7. \A b \in DOMAIN batches', v \in Workers : Batched(b)' \cap AtWork(v)' = {}
    BY <1>5, <1>9, <2>6 DEF IInv, ApartInv
  <2>8. QED
    BY <1>3, <2>1, <2>2, <2>3, <2>5, <2>7 DEF IInv, ApartInv, Elsewhere
<1>12. ASSUME NEW j \in Calls, Awaited(j)' PROVE Somewhere(j)'
  <2>1. Somewhere(j)
    BY <1>2, <1>12 DEF IInv, Awaited, Done
  <2>2. CASE j \in Queued \cup Collected \cup Answered
    BY <1>3, <2>2 DEF Somewhere
  <2>3. ASSUME NEW b \in DOMAIN batches, j \in Batched(b) PROVE Somewhere(j)'
    <3>1. CASE b = 1
      BY <1>8, <2>3, <3>1 DEF Somewhere
    <3>2. CASE b # 1
      BY <1>6, <2>3, <3>2 DEF Somewhere
    <3>3. QED
      BY <3>1, <3>2
  <2>4. ASSUME NEW v \in Workers, j \in AtWork(v) PROVE Somewhere(j)'
    BY <1>8, <1>9, <2>4 DEF Somewhere
  <2>5. QED
    BY <2>1, <2>2, <2>3, <2>4 DEF Somewhere
<1>13. QED
  BY <1>1, <1>10, <1>11, <1>12 DEF IInv

\* A worker is done with one item: it leaves, or is answered.
LEMMA NextItemIs ==
    ASSUME IInv, NEW w \in Workers, worker[w] = "answering", NextItem(w)
    PROVE  /\ work[w][at[w]] \in AtWork(w) /\ work[w][at[w]] \in Calls
           /\ AtWork(w)' = AtWork(w) \ {work[w][at[w]]}
           /\ \A v \in Workers \ {w} : UNCHANGED AtWork(v)
           /\ \A v \in Workers : Injective(work'[v])
<1>1. /\ work[w] \in Seq(Calls) /\ at[w] \in 1 .. Len(work[w]) /\ Injective(work[w])
      /\ DOMAIN work = Workers /\ DOMAIN at = Workers
  BY DEF IInv, TypeInv, WorkerInv, OnceInv
<1>2. \A v \in Workers \ {w} : UNCHANGED AtWork(v) /\ work'[v] = work[v]
  BY <1>1 DEF NextItem, AtWork
<1>3. CASE at[w] = Len(work[w])
  <2>1. work'[w] = <<>> /\ AtWork(w)' = {} /\ AtWork(w) = {work[w][at[w]]}
    BY <1>1, <1>3 DEF NextItem, AtWork
  <2>2. Injective(<<>>)
    BY DEF Injective
  <2>3. QED
    BY <1>1, <1>2, <2>1, <2>2 DEF IInv, OnceInv
<1>4. CASE at[w] # Len(work[w])
  <2>1. work'[w] = work[w] /\ at'[w] = at[w] + 1
    BY <1>1, <1>4 DEF NextItem
  <2>2. \A k \in DOMAIN work[w] : k >= at[w] + 1 <=> k >= at[w] /\ k # at[w]
    BY <1>1
  <2>3. AtWork(w)' = AtWork(w) \ {work[w][at[w]]}
    BY <1>1, <2>1, <2>2 DEF AtWork, Injective
  <2>4. work[w][at[w]] \in AtWork(w) /\ work[w][at[w]] \in Calls
    <3>1. at[w] \in DOMAIN work[w] /\ at[w] >= at[w]
      BY <1>1
    <3>2. QED
      BY <1>1, <3>1 DEF AtWork
  <2>5. QED
    BY <1>1, <1>2, <2>1, <2>3, <2>4 DEF IInv, OnceInv
<1>5. QED
  BY <1>3, <1>4

LEMMA AnswerKeeps ==
    ASSUME IInv, NEW w \in Workers, Answer(w) \/ SkipAnswer(w) PROVE IInv'
<1> DEFINE i == work[w][at[w]]
<1>1. TypeInv'
  BY WorkerKeepsType DEF IInv, WorkerStep
<1>2. UNCHANGED <<pc, cancelled, queue, items, batches, closer>>
  BY DEF Answer, SkipAnswer, callVars, loopVars
<1>3. UNCHANGED <<Queued, Collected, New>> /\ \A b \in DOMAIN batches : UNCHANGED Batched(b)
  BY <1>2, Unmoved
<1>4. /\ i \in AtWork(w) /\ i \in Calls /\ AtWork(w)' = AtWork(w) \ {i}
      /\ \A v \in Workers \ {w} : UNCHANGED AtWork(v)
      /\ \A v \in Workers : Injective(work'[v])
  BY NextItemIs DEF Answer, SkipAnswer
<1>5. \/ Answered' = Answered \cup {i}
      \/ UNCHANGED Answered /\ cancelled[i]
  <2>1. CASE Answer(w)
    <3>1. AnswerFor(w) \in {Failed, Found(i)}
      BY <2>1 DEF Answer, AnswerFor, IInv, TypeInv, WorkerInv, IsBatch
    <3>2. QED
      BY <1>4, <2>1, <3>1, DeliverIs DEF Answer, IInv
  <2>2. CASE SkipAnswer(w)
    BY <2>2, Unmoved DEF SkipAnswer
  <2>3. QED
    BY <2>1, <2>2
<1>6. OnceInv'
  BY <1>2, <1>4 DEF IInv, OnceInv
<1>7. ApartInv'
  <2>1. \A v \in Workers : AtWork(v)' \subseteq AtWork(v) \ {i}
    <3>1. \A v \in Workers \ {w} : i \notin AtWork(v)
      BY <1>4 DEF IInv, ApartInv
    <3>2. QED
      BY <1>4, <3>1
  <2>2. i \notin Queued \cup Collected \cup New /\ \A b \in DOMAIN batches : i \notin Batched(b)
    BY <1>4 DEF IInv, ApartInv, Elsewhere
  <2>3. Answered' \subseteq Answered \cup {i}
    BY <1>5
  <2>4. QED
    BY <1>2, <1>3, <2>1, <2>2, <2>3 DEF IInv, ApartInv, Elsewhere
<1>8. ASSUME NEW j \in Calls, Awaited(j)' PROVE Somewhere(j)'
  <2>1. Somewhere(j) /\ ~cancelled[j]
    BY <1>2, <1>8 DEF IInv, Awaited, Done
  <2>2. QED
    BY <1>2, <1>3, <1>4, <1>5, <2>1 DEF Somewhere
<1>9. QED
  BY <1>1, <1>6, <1>7, <1>8 DEF IInv

LEMMA OthersKeep ==
    ASSUME IInv,
           \/ \E w \in Workers : WorkerEnds(w) \/ Respond(w)
           \/ Close \/ CloseReturns \/ UNCHANGED vars
    PROVE  IInv'
<1>1. TypeInv'
  BY WorkerKeepsType, OthersKeepType DEF IInv, WorkerStep
<1>2. \A w \in Workers : AtWork(w)' \subseteq AtWork(w) /\ AtWork(w) \subseteq AtWork(w)'
  <2>1. CASE UNCHANGED <<work, at>>
    BY <2>1, Unmoved
  <2>2. ASSUME NEW w \in Workers, Respond(w) PROVE \A v \in Workers : UNCHANGED AtWork(v)
    <3>1. work' = work /\ at' = [at EXCEPT ![w] = 1] /\ at[w] = 0 /\ work[w] \in Seq(Calls)
      BY <2>2 DEF Respond, IInv, TypeInv, WorkerInv
    <3>2. \A k \in DOMAIN work[w] : k >= 1 /\ k >= 0
      BY <3>1
    <3>3. UNCHANGED AtWork(w)
      BY <3>1, <3>2 DEF AtWork, IInv, TypeInv
    <3>4. QED
      BY <3>1, <3>3 DEF AtWork, IInv, TypeInv
  <2>3. QED
    BY <2>1, <2>2 DEF WorkerEnds, Close, CloseReturns, vars, workerVars
<1>3. UNCHANGED <<pc, cancelled, ch, queue, items, batches, work>> /\ (Done => Done')
  BY DEF WorkerEnds, Respond, Close, CloseReturns, vars, callVars, loopVars, workerVars, Done
<1>4. /\ UNCHANGED <<Queued, Collected, Answered, New>>
      /\ \A b \in DOMAIN batches : UNCHANGED Batched(b)
  BY <1>3, Unmoved
<1>5. OnceInv'
  BY <1>3 DEF IInv, OnceInv
<1>6. ApartInv'
  BY <1>2, <1>3, <1>4 DEF IInv, ApartInv, Elsewhere
<1>7. \A j \in Calls : Awaited(j)' => Somewhere(j)'
  BY <1>2, <1>3, <1>4 DEF IInv, Awaited, Somewhere
<1>8. QED
  BY <1>1, <1>5, <1>6, <1>7 DEF IInv

LEMMA NextIInv == IInv /\ [Next]_vars => IInv'
<1> SUFFICES ASSUME IInv, [Next]_vars PROVE IInv'
  OBVIOUS
<1>1. ASSUME NEW i \in Calls, Detect(i) \/ CallStep(i) \/ Cancel(i) PROVE IInv'
  BY <1>1, EnqueueKeeps, CallerKeeps DEF CallStep
<1>2. CASE LoopStep
  BY <1>2, DropKeeps, CollectKeeps, SendKeeps, LoopKeeps DEF LoopStep
<1>3. ASSUME NEW w \in Workers, WorkerStep(w) PROVE IInv'
  BY <1>3, TakeBatchKeeps, AnswerKeeps, OthersKeep DEF WorkerStep
<1>4. CASE Close \/ CloseReturns \/ UNCHANGED vars
  BY <1>4, OthersKeep
<1>5. QED
  BY <1>1, <1>2, <1>3, <1>4 DEF Next, Rest

\* The inductive invariant.
THEOREM IInvHolds == Spec => []IInv
  BY InitIInv, NextIInv, PTL DEF Spec

\* What is apart as sets of calls is one place of a call.
LEMMA PlacesInIs ==
    ASSUME NEW s, NEW place, NEW n, NEW i, NEW from,
           NEW S, s \in Seq(S), from \in Nat
    PROVE  \A p : p \in PlacesIn(s, place, n, i, from) <=>
                     \E k \in DOMAIN s : k >= from /\ s[k] = i /\ p = <<place, n, k>>
  BY DEF PlacesIn

LEMMA OnePlace ==
    ASSUME IInv, NEW i \in Calls
    PROVE  /\ \A p, q \in Places(i) : p = q
           /\ Somewhere(i) => Places(i) # {}
<1> DEFINE PQ == PlacesIn(queue, "queue", 0, i, 1)
           PI == PlacesIn(items, "items", 0, i, 1)
           PB == InBatches(i)
           PW == WithWorkers(i)
           PA == InChannel(i)
<1>0. /\ queue \in Seq(Calls) /\ items \in Seq(Calls)
      /\ \A b \in DOMAIN batches : batches[b] \in Seq(Calls)
      /\ \A w \in Workers : work[w] \in Seq(Calls) /\ at[w] \in Nat
  BY DEF IInv, TypeInv, LoopInv, WorkerInv, IsBatch
<1>1. Places(i) = PQ \cup PI \cup PB \cup PW \cup PA
  BY DEF Places
<1>2. (PQ # {} <=> i \in Queued) /\ \A p, q \in PQ : p = q
  <2>1. \A p : p \in PQ <=> \E k \in DOMAIN queue : queue[k] = i /\ p = <<"queue", 0, k>>
    BY <1>0, PlacesInIs
  <2> HIDE DEF PQ
  <2>2. PQ # {} <=> \E k \in DOMAIN queue : queue[k] = i
    BY <2>1
  <2>3. \A j, k \in DOMAIN queue : queue[j] = i /\ queue[k] = i => j = k
    BY DEF IInv, OnceInv, Injective
  <2>4. QED
    BY <2>1, <2>2, <2>3 DEF Queued, ItemsOf
<1>3. (PI # {} <=> i \in Collected) /\ \A p, q \in PI : p = q
  <2>1. \A p : p \in PI <=> \E k \in DOMAIN items : items[k] = i /\ p = <<"items", 0, k>>
    BY <1>0, PlacesInIs
  <2> HIDE DEF PI
  <2>2. PI # {} <=> \E k \in DOMAIN items : items[k] = i
    BY <2>1
  <2>3. \A j, k \in DOMAIN items : items[j] = i /\ items[k] = i => j = k
    BY DEF IInv, OnceInv, Injective
  <2>4. QED
    BY <2>1, <2>2, <2>3 DEF Collected, ItemsOf
<1>4. (PA # {} <=> i \in Answered) /\ \A p, q \in PA : p = q
  BY DEF Answered, InChannel
<1>5. (PB # {} <=> \E b \in DOMAIN batches : i \in Batched(b)) /\ \A p, q \in PB : p = q
  <2>1. \A p : p \in PB <=> \E b \in DOMAIN batches : \E k \in DOMAIN batches[b] :
                               batches[b][k] = i /\ p = <<"batch", b, k>>
    <3>1. \A b \in DOMAIN batches : \A p :
             p \in PlacesIn(batches[b], "batch", b, i, 1) <=>
                \E k \in DOMAIN batches[b] : batches[b][k] = i /\ p = <<"batch", b, k>>
      BY <1>0, PlacesInIs
    <3>2. QED
      BY <3>1 DEF InBatches
  <2> HIDE DEF PB
  <2>2. PB # {} <=> \E b \in DOMAIN batches : i \in Batched(b)
    <3>1. PB # {} <=> \E b \in DOMAIN batches : \E k \in DOMAIN batches[b] : batches[b][k] = i
      BY <2>1
    <3>2. QED
      BY <3>1 DEF Batched, ItemsOf
  <2>3. ASSUME NEW b \in DOMAIN batches, NEW c \in DOMAIN batches,
               NEW j \in DOMAIN batches[b], NEW k \in DOMAIN batches[c],
               batches[b][j] = i, batches[c][k] = i
        PROVE  b = c /\ j = k
    <3>1. b = c
      BY <2>3 DEF IInv, ApartInv, Batched, ItemsOf
    <3>2. QED
      BY <2>3, <3>1 DEF IInv, OnceInv, Injective
  <2>4. QED
    BY <2>1, <2>2, <2>3
<1>6. (PW # {} <=> \E w \in Workers : i \in AtWork(w)) /\ \A p, q \in PW : p = q
  <2>1. \A p : p \in PW <=> \E w \in Workers : \E k \in DOMAIN work[w] :
                               k >= at[w] /\ work[w][k] = i /\ p = <<"work", w, k>>
    <3>1. \A w \in Workers : \A p :
             p \in PlacesIn(work[w], "work", w, i, at[w]) <=>
                \E k \in DOMAIN work[w] : k >= at[w] /\ work[w][k] = i /\ p = <<"work", w, k>>
      BY <1>0, PlacesInIs
    <3>2. QED
      BY <3>1 DEF WithWorkers
  <2> HIDE DEF PW
  <2>2. PW # {} <=> \E w \in Workers : i \in AtWork(w)
    <3>1. PW # {} <=> \E w \in Workers : \E k \in DOMAIN work[w] : k >= at[w] /\ work[w][k] = i
      BY <2>1
    <3>2. QED
      BY <3>1 DEF AtWork
  <2>3. ASSUME NEW v \in Workers, NEW w \in Workers,
               NEW j \in DOMAIN work[v], NEW k \in DOMAIN work[w],
               j >= at[v], k >= at[w], work[v][j] = i, work[w][k] = i
        PROVE  v = w /\ j = k
    <3>1. i \in AtWork(v) /\ i \in AtWork(w)
      BY <2>3 DEF AtWork
    <3>2. v = w
      BY <3>1 DEF IInv, ApartInv
    <3>3. QED
      BY <2>3, <3>2 DEF IInv, OnceInv, Injective
  <2>4. QED
    BY <2>1, <2>2, <2>3
<1> HIDE DEF PQ, PI, PB, PW, PA
<1>7. \/ PI = {} /\ PB = {} /\ PW = {} /\ PA = {}
      \/ PQ = {} /\ PB = {} /\ PW = {} /\ PA = {}
      \/ PQ = {} /\ PI = {} /\ PW = {} /\ PA = {}
      \/ PQ = {} /\ PI = {} /\ PB = {} /\ PA = {}
      \/ PQ = {} /\ PI = {} /\ PB = {} /\ PW = {}
  BY <1>2, <1>3, <1>4, <1>5, <1>6 DEF IInv, ApartInv, Elsewhere
<1>8. \A p, q \in Places(i) : p = q
  BY <1>1, <1>2, <1>3, <1>4, <1>5, <1>6, <1>7
<1>9. Somewhere(i) => Places(i) # {}
  BY <1>1, <1>2, <1>3, <1>4, <1>5, <1>6 DEF Somewhere
<1>10. QED
  BY <1>8, <1>9

\* An item is in one place, is never lost while its call waits, and no batch is
\* longer than the model takes.
THEOREM ItemInOnePlaceHolds == Spec => []ItemInOnePlace
<1>1. ASSUME IInv PROVE ItemInOnePlace
  <2>1. ASSUME NEW i \in Calls PROVE Cardinality(Places(i)) <= 1
    <3>1. CASE Places(i) = {}
      BY <3>1, FS_EmptySet
    <3>2. ASSUME NEW p \in Places(i) PROVE Cardinality(Places(i)) <= 1
      <4>1. Places(i) = {p}
        BY <1>1, OnePlace
      <4>2. QED
        BY <4>1, FS_Singleton
    <3>3. QED
      BY <3>1, <3>2
  <2>2. ASSUME NEW i \in Calls, pc[i] = "wait", ~cancelled[i], ~Done PROVE Places(i) # {}
    BY <1>1, <2>2, OnePlace DEF IInv, Awaited
  <2>3. \A w \in Workers : Len(work[w]) <= MaxBatch
    <3>1. ASSUME NEW w \in Workers PROVE Len(work[w]) <= MaxBatch
      <4>1. work[w] = <<>> \/ IsBatch(work[w])
        BY <1>1 DEF IInv, TypeInv, WorkerInv
      <4>2. QED
        BY <4>1, NerBatcherAssumption DEF IsBatch
    <3>2. QED
      BY <3>1
  <2>4. QED
    BY <2>1, <2>2, <2>3 DEF ItemInOnePlace
<1>2. QED
  BY IInvHolds, <1>1, PTL

=============================================================================
