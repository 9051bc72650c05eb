--------------------------- MODULE ServingProofs ---------------------------
(***************************************************************************)
(* Proofs about Serving for any number of requests, threads, models and    *)
(* workers: the token bucket and the gauges are exact, and models are      *)
(* neither lost nor shared.                                                *)
(***************************************************************************)
EXTENDS Serving, FiniteSetTheorems, TLAPS

\* What a request's step may touch, action by action: the facts every proof
\* below starts from.

\* A token that the refill is about to add has room, and a request that is
\* about to take one has seen one.
BucketInv ==
    /\ TokensAreExact
    /\ added \in Nat /\ admitted \in Nat /\ refill \in {"load", "add"}
    /\ refill = "add" => tokens < MaxRPS
    /\ have \in [Reqs -> Int] /\ pc \in [Reqs -> Handling \cup {"new", "accepted", "done"}]
    /\ \A r \in Reqs : pc[r] = "take" => have[r] > 0

LEMMA NextBucketInv == BucketInv /\ [Next]_vars => BucketInv'
<1> SUFFICES ASSUME BucketInv, [Next]_vars PROVE BucketInv'
  OBVIOUS
<1> USE ServerAssumption DEF BucketInv, TokensAreExact, Handling, bucket, loopVars
<1>1. CASE UNCHANGED vars
  BY <1>1 DEF vars, serverVars
<1>2. ASSUME NEW r \in Reqs, \/ Accept(r) \/ HeaderTimesOut(r) \/ RequestStarted(r)
                             \/ PeakLoad(r) \/ PeakSwap(r)
      PROVE  BucketInv'
  BY <1>2 DEF Accept, HeaderTimesOut, RequestStarted, PeakLoad, PeakSwap, SwapPeak, Goto
<1>3. ASSUME NEW r \in Reqs, TokenLoad(r) PROVE BucketInv'
  BY <1>3 DEF TokenLoad, Goto, Ends
<1>4. ASSUME NEW r \in Reqs, TokenSwap(r) PROVE BucketInv'
  BY <1>4 DEF TokenSwap, SwapToken, Goto
<1>5. ASSUME NEW r \in Reqs, Refuse(r) \/ Decode(r) \/ Process(r) PROVE BucketInv'
  BY <1>5 DEF Refuse, Decode, Process, Goto, Ends
<1>6. ASSUME NEW r \in Reqs, RequestFinished(r) PROVE BucketInv'
  BY <1>6 DEF RequestFinished, Goto
<1>7. ASSUME BatchLoop \/ TakeBatch \/ \E r \in Reqs, t \in Threads : Serve(r, t) PROVE BucketInv'
  BY <1>7 DEF BatchLoop, CollectBatch, SendBatch, EndLoop, TakeBatch, Serve, serverVars
<1>8. ASSUME NEW r \in Reqs,
             Enqueue(r) \/ Answer(r) \/ Timeout(r) \/ ContextEnds(r) \/ ClientClosed(r)
      PROVE  BucketInv'
  <2>1. UNCHANGED <<tokens, refill, added, have, admitted>>
    BY <1>8 DEF Enqueue, Answer, Timeout, ContextEnds, ClientClosed, StopWaiting, Resolve, quiet
  <2>2. \/ pc' = pc \/ pc' = [pc EXCEPT ![r] = "wait"]
        \/ pc' = [pc EXCEPT ![r] = "finish"]
    BY <1>8 DEF Enqueue, Answer, Timeout, ContextEnds, ClientClosed, StopWaiting, Resolve,
       Ends, Goto
  <2>3. QED
    BY <2>1, <2>2
<1>9. ASSUME RefillLoad PROVE BucketInv'
  BY <1>9 DEF RefillLoad
<1>10. ASSUME RefillAdd PROVE BucketInv'
  BY <1>10 DEF RefillAdd
<1>11. ASSUME Signal \/ ListenerFails \/ Main \/ CloseReturns PROVE BucketInv'
  BY <1>11 DEF Signal, ListenerFails, Main, ShutdownReturns, ShutdownTimesOut, CloseReturns
<1>12. ASSUME NEW t \in Threads, SidecarStep(t) PROVE BucketInv'
  BY <1>12 DEF SidecarStep, serverVars
<1>13. QED
  BY <1>1, <1>2, <1>3, <1>4, <1>5, <1>6, <1>7, <1>8, <1>9, <1>10, <1>11, <1>12
     DEF Next, ServerStep, ClientStep, External

\* The rate limiter, for every MaxRPS and any number of requests that race for
\* the tokens: what was let in is what the bucket held and the refill added, and
\* the bucket stays within its bounds (main.go:110-137).
THEOREM TokensAreExactHolds == Spec => []TokensAreExact
<1>1. Init => BucketInv
  BY ServerAssumption DEF Init, ServerInit, BucketInv, TokensAreExact, Handling
<1>2. BucketInv => TokensAreExact
  BY DEF BucketInv
<1>3. QED
  BY NextBucketInv, <1>1, <1>2, PTL DEF Spec
-----------------------------------------------------------------------------
\* Every request counted itself with a value below the peak; before it swaps it
\* has seen a smaller maximum.
GaugeInv ==
    /\ PeakIsExact
    /\ inFlight \in Nat /\ maxInFlight \in Nat /\ peak \in Nat
    /\ cur \in [Reqs -> Nat] /\ seen \in [Reqs -> Nat]
    /\ pc \in [Reqs -> Handling \cup {"new", "accepted", "done"}]
    /\ \A r \in Reqs : pc[r] \in {"peakLoad", "peakSwap"} => cur[r] <= peak
    /\ \A r \in Reqs : pc[r] = "peakSwap" => seen[r] < cur[r]

InHandler == {r \in Reqs : pc[r] \in Handling}

\* Steps that leave the gauges alone and take nobody in or out of the handler.
LEMMA SteadyGauge ==
    ASSUME GaugeInv, UNCHANGED <<gauges, cur, seen>>,
           pc' \in [Reqs -> Handling \cup {"new", "accepted", "done"}],
           InHandler' = InHandler,
           \A r \in Reqs : pc[r] \in {"peakLoad", "peakSwap"} \/ pc'[r] \in {"peakLoad", "peakSwap"}
                           => pc'[r] = pc[r]
    PROVE  GaugeInv'
<1>1. PeakIsExact'
  BY DEF GaugeInv, PeakIsExact, InHandler, Raising, gauges
<1>2. QED
  BY <1>1 DEF GaugeInv, gauges

LEMMA NextGaugeInv == GaugeInv /\ [Next]_vars => GaugeInv'
<1> SUFFICES ASSUME GaugeInv, [Next]_vars PROVE GaugeInv'
  OBVIOUS
<1>0. /\ pc \in [Reqs -> Handling \cup {"new", "accepted", "done"}]
      /\ inFlight = Cardinality(InHandler) /\ IsFiniteSet(InHandler)
  BY ServerAssumption, FS_Subset DEF GaugeInv, PeakIsExact, InHandler
<1>1. CASE UNCHANGED vars
  BY <1>0, <1>1, SteadyGauge DEF vars, serverVars, loopVars, InHandler
<1>2. ASSUME NEW r \in Reqs, Accept(r) \/ HeaderTimesOut(r) PROVE GaugeInv'
  BY <1>0, <1>2, SteadyGauge DEF Accept, HeaderTimesOut, Goto, loopVars, InHandler, Handling
<1>3. ASSUME NEW r \in Reqs, RequestStarted(r) PROVE GaugeInv'
  <2>1. /\ inFlight' = inFlight + 1 /\ cur' = [cur EXCEPT ![r] = inFlight + 1]
        /\ peak' = IF inFlight + 1 > peak THEN inFlight + 1 ELSE peak
        /\ pc[r] = "accepted" /\ pc' = [pc EXCEPT ![r] = "peakLoad"]
        /\ UNCHANGED <<seen, maxInFlight>>
    BY <1>3 DEF RequestStarted, Goto
  <2>2. InHandler' = InHandler \cup {r} /\ r \notin InHandler
    BY <1>0, <2>1 DEF InHandler, Handling
  <2>3. inFlight' = Cardinality(InHandler')
    BY <1>0, <2>1, <2>2, FS_AddElement
  <2>4. maxInFlight' < peak' => \E q \in Reqs : Raising(q)'
    <3>1. CASE inFlight + 1 > peak
      BY <1>0, <2>1, <3>1 DEF GaugeInv, Raising
    <3>2. CASE ~(inFlight + 1 > peak)
      <4>1. \A q \in Reqs : Raising(q) => Raising(q)'
        BY <1>0, <2>1, <3>2 DEF GaugeInv, Raising
      <4>2. QED
        BY <2>1, <3>2, <4>1 DEF GaugeInv, PeakIsExact
    <3>3. QED
      BY <3>1, <3>2
  <2>5. maxInFlight' <= peak'
    BY <2>1 DEF GaugeInv, PeakIsExact
  <2>6. PeakIsExact'
    BY <2>3, <2>4, <2>5 DEF PeakIsExact, InHandler
  <2>7. QED
    BY <1>0, <2>1, <2>6 DEF GaugeInv, Handling
<1>4. ASSUME NEW r \in Reqs, PeakLoad(r) PROVE GaugeInv'
  <2>1. /\ UNCHANGED <<inFlight, maxInFlight, peak, cur>> /\ pc[r] = "peakLoad"
        /\ \/ cur[r] <= maxInFlight /\ pc' = [pc EXCEPT ![r] = "limit"] /\ seen' = seen
           \/ /\ cur[r] > maxInFlight /\ pc' = [pc EXCEPT ![r] = "peakSwap"]
              /\ seen' = [seen EXCEPT ![r] = maxInFlight]
    BY <1>4 DEF PeakLoad, Goto, gauges, GaugeInv
  <2>2. InHandler' = InHandler
    BY <1>0, <2>1 DEF InHandler, Handling
  <2>3. \A q \in Reqs : Raising(q) /\ maxInFlight < peak => Raising(q)'
    BY <1>0, <2>1 DEF GaugeInv, Raising
  <2>4. PeakIsExact'
    BY <2>1, <2>2, <2>3 DEF GaugeInv, PeakIsExact, InHandler
  <2>5. QED
    BY <1>0, <2>1, <2>4 DEF GaugeInv, Handling
<1>5. ASSUME NEW r \in Reqs, PeakSwap(r) PROVE GaugeInv'
  <2>1. /\ UNCHANGED <<inFlight, peak, cur, seen>> /\ pc[r] = "peakSwap"
        /\ \/ pc' = [pc EXCEPT ![r] = "limit"] /\ maxInFlight = seen[r] /\ maxInFlight' = cur[r]
           \/ pc' = [pc EXCEPT ![r] = "peakLoad"] /\ maxInFlight' = maxInFlight
    BY <1>5 DEF PeakSwap, SwapPeak, Goto, loopVars
  <2>2. InHandler' = InHandler
    BY <1>0, <2>1 DEF InHandler, Handling
  <2>3. maxInFlight' <= peak' /\ (maxInFlight' < peak' => maxInFlight < peak)
    BY <2>1 DEF GaugeInv, PeakIsExact
  <2>4. \A q \in Reqs : Raising(q) /\ maxInFlight' < peak => Raising(q)'
    BY <1>0, <2>1 DEF GaugeInv, Raising
  <2>5. PeakIsExact'
    BY <2>1, <2>2, <2>3, <2>4 DEF GaugeInv, PeakIsExact, InHandler
  <2>6. QED
    BY <1>0, <2>1, <2>5 DEF GaugeInv, Handling
<1>6. ASSUME NEW r \in Reqs, Refuse(r) \/ TokenLoad(r) \/ TokenSwap(r) \/ Decode(r) \/ Process(r)
      PROVE  GaugeInv'
  <2>1. /\ UNCHANGED <<gauges, cur, seen>>
        /\ pc[r] \in {"limit", "take", "decode", "process"}
        /\ \E s \in {"limit", "take", "decode", "process", "detect", "finish"} :
              pc' = [pc EXCEPT ![r] = s]
    BY <1>6 DEF Refuse, TokenLoad, TokenSwap, SwapToken, Decode, Process, Goto, Ends, loopVars
  <2>2. QED
    BY <1>0, <2>1, SteadyGauge DEF InHandler, Handling
<1>7. ASSUME NEW r \in Reqs, RequestFinished(r) PROVE GaugeInv'
  <2>1. /\ inFlight' = inFlight - 1 /\ cur' = [cur EXCEPT ![r] = 0] /\ seen' = [seen EXCEPT ![r] = 0]
        /\ pc[r] = "finish" /\ pc' = [pc EXCEPT ![r] = "done"]
        /\ UNCHANGED <<maxInFlight, peak>>
    BY <1>7 DEF RequestFinished, Goto
  <2>2. InHandler' = InHandler \ {r} /\ r \in InHandler
    BY <1>0, <2>1 DEF InHandler, Handling
  <2>3. inFlight' = Cardinality(InHandler') /\ inFlight' \in Nat
    BY <1>0, <2>1, <2>2, FS_RemoveElement, FS_CardinalityType, FS_Subset, SMTT(30)
  <2>4. \A q \in Reqs : Raising(q) => Raising(q)'
    BY <1>0, <2>1 DEF Raising
  <2>5. PeakIsExact'
    BY <2>1, <2>3, <2>4 DEF GaugeInv, PeakIsExact, InHandler
  <2>6. QED
    BY <1>0, <2>1, <2>3, <2>5 DEF GaugeInv, Handling
<1>8. ASSUME BatchLoop \/ TakeBatch \/ \E r \in Reqs, t \in Threads : Serve(r, t) PROVE GaugeInv'
  BY <1>0, <1>8, SteadyGauge DEF BatchLoop, CollectBatch, SendBatch, EndLoop, TakeBatch, Serve,
     serverVars, loopVars, InHandler
<1>9. ASSUME NEW r \in Reqs,
             Enqueue(r) \/ Answer(r) \/ Timeout(r) \/ ContextEnds(r) \/ ClientClosed(r)
      PROVE  GaugeInv'
  <2>1. UNCHANGED <<gauges, cur, seen>>
    BY <1>9 DEF Enqueue, Answer, Timeout, ContextEnds, ClientClosed, StopWaiting, Resolve, quiet,
       loopVars
  <2>2. \/ pc' = pc
        \/ /\ pc[r] \in {"detect", "wait"}
           /\ \E s \in {"wait", "finish"} : pc' = [pc EXCEPT ![r] = s]
    BY <1>9 DEF Enqueue, Answer, Timeout, ContextEnds, ClientClosed, StopWaiting, Resolve,
       Ends, Goto
  <2>3. QED
    BY <1>0, <2>1, <2>2, SteadyGauge DEF InHandler, Handling
<1>10. ASSUME External \/ Main \/ CloseReturns PROVE GaugeInv'
  BY <1>0, <1>10, SteadyGauge DEF External, RefillLoad, RefillAdd, Signal, ListenerFails, Main,
     ShutdownReturns, ShutdownTimesOut, CloseReturns, loopVars, InHandler
<1>11. ASSUME NEW t \in Threads, SidecarStep(t) PROVE GaugeInv'
  BY <1>0, <1>11, SteadyGauge DEF SidecarStep, serverVars, loopVars, InHandler
<1>12. QED
  BY <1>1, <1>2, <1>3, <1>4, <1>5, <1>6, <1>7, <1>8, <1>9, <1>10, <1>11
     DEF Next, ServerStep, ClientStep

\* The gauge of requests in flight is exact, and its maximum as soon as the
\* request that reached it has left its loop, for any number of requests.
THEOREM PeakIsExactHolds == Spec => []PeakIsExact
<1>1. Init => GaugeInv
  <2> SUFFICES ASSUME Init PROVE GaugeInv
    OBVIOUS
  <2>1. {r \in Reqs : pc[r] \in Handling} = {}
    BY DEF Init, ServerInit, Handling
  <2>2. inFlight = 0 /\ maxInFlight = 0 /\ peak = 0
    BY DEF Init, ServerInit
  <2>3. Cardinality({r \in Reqs : pc[r] \in Handling}) = 0
    BY <2>1, FS_EmptySet
  <2>4. PeakIsExact
    BY <2>2, <2>3 DEF PeakIsExact
  <2>5. QED
    BY <2>4 DEF Init, ServerInit, GaugeInv
<1>2. GaugeInv => PeakIsExact
  BY DEF GaugeInv
<1>3. QED
  BY NextGaugeInv, <1>1, <1>2, PTL DEF Spec
-----------------------------------------------------------------------------
\* Where a thread stands tells whether it has a model.
PoolInv ==
    /\ ModelsAreConserved
    /\ pool \in Seq(Models) /\ model \in [Threads -> Models \cup {NoModel}]
    /\ at \in [Threads -> {"idle", "get", "run", "reply"}]
    /\ \A t \in Threads : at[t] = "run" <=> model[t] # NoModel

LEMMA NextPoolInv == PoolInv /\ [Next]_vars => PoolInv'
<1> SUFFICES ASSUME PoolInv, [Next]_vars PROVE PoolInv'
  OBVIOUS
<1>1. ASSUME UNCHANGED <<pool, model>>,
             at' \in [Threads -> {"idle", "get", "run", "reply"}],
             \A t \in Threads : at'[t] = "run" <=> at[t] = "run"
      PROVE  PoolInv'
  BY <1>1 DEF PoolInv, ModelsAreConserved, Pooled, Held
<1>2. ASSUME UNCHANGED sidecarVars PROVE PoolInv'
  BY <1>1, <1>2 DEF sidecarVars, PoolInv
<1>3. ASSUME NEW t \in Threads, Request(t) \/ Reply(t) PROVE PoolInv'
  BY <1>1, <1>3 DEF Request, Reply, PoolInv
<1>4. ASSUME NEW t \in Threads, GetModel(t) PROVE PoolInv'
  <2>1. /\ at[t] = "get" /\ pool # <<>> /\ at' = [at EXCEPT ![t] = "run"]
        /\ model' = [model EXCEPT ![t] = pool[Len(pool)]]
        /\ pool' = SubSeq(pool, 1, Len(pool) - 1)
    BY <1>4 DEF GetModel
  <2>2. /\ Len(pool) \in DOMAIN pool /\ Len(pool) \in Nat /\ pool[Len(pool)] \in Models
        /\ DOMAIN pool = 1 .. Len(pool)
    BY <2>1 DEF PoolInv
  <2>3. /\ pool' \in Seq(Models) /\ DOMAIN pool' = 1 .. (Len(pool) - 1)
        /\ \A i \in DOMAIN pool' : i \in DOMAIN pool /\ pool'[i] = pool[i]
    BY <2>1, <2>2 DEF PoolInv
  <2>4. model[t] = NoModel
    BY <2>1 DEF PoolInv
  <2>5. \A m \in Models : Pooled(m)' <=> Pooled(m) /\ m # pool[Len(pool)]
    BY <2>2, <2>3, SMTT(30) DEF PoolInv, ModelsAreConserved, Pooled
  <2>6. \A m \in Models : Held(m)' <=> Held(m) \/ m = pool[Len(pool)]
    BY <2>1, <2>2, <2>4, SidecarAssumption DEF PoolInv, Held
  <2>7. Pooled(pool[Len(pool)]) /\ ~Held(pool[Len(pool)])
    BY <2>2 DEF PoolInv, ModelsAreConserved, Pooled
  <2>8. \A i, j \in DOMAIN pool' : pool'[i] = pool'[j] => i = j
    BY <2>3 DEF PoolInv, ModelsAreConserved
  <2>9. \A u, v \in Threads : model'[u] = model'[v] => u = v \/ model'[u] = NoModel
    BY <2>1, <2>7 DEF PoolInv, ModelsAreConserved, Held
  <2>10. \A m \in Models : Pooled(m)' <=> ~Held(m)'
    BY <2>5, <2>6, <2>7 DEF PoolInv, ModelsAreConserved
  <2>11. QED
    BY <2>1, <2>2, <2>3, <2>8, <2>9, <2>10, SidecarAssumption DEF PoolInv, ModelsAreConserved
<1>5. ASSUME NEW t \in Threads, RunModel(t) PROVE PoolInv'
  <2>1. /\ at[t] = "run" /\ at' = [at EXCEPT ![t] = "reply"]
        /\ model' = [model EXCEPT ![t] = NoModel] /\ pool' = Append(pool, model[t])
    BY <1>5 DEF RunModel
  <2>2. model[t] \in Models /\ Held(model[t]) /\ ~Pooled(model[t])
    BY <2>1 DEF PoolInv, ModelsAreConserved, Held
  <2>3. /\ pool' \in Seq(Models) /\ DOMAIN pool = 1 .. Len(pool) /\ Len(pool) \in Nat
        /\ DOMAIN pool' = 1 .. (Len(pool) + 1)
        /\ \A i \in DOMAIN pool : pool'[i] = pool[i]
        /\ pool'[Len(pool) + 1] = model[t]
    BY <2>1, <2>2 DEF PoolInv
  <2>4. \A m \in Models : Pooled(m)' <=> Pooled(m) \/ m = model[t]
    <3>1. \A i \in DOMAIN pool' : i \in DOMAIN pool \/ i = Len(pool) + 1
      BY <2>3
    <3>2. DOMAIN pool \subseteq DOMAIN pool' /\ Len(pool) + 1 \in DOMAIN pool'
      BY <2>3
    <3>3. QED
      BY <2>3, <3>1, <3>2 DEF Pooled
  <2>5. \A m \in Models : Held(m)' <=> Held(m) /\ m # model[t]
    BY <2>1, <2>2, SidecarAssumption DEF PoolInv, ModelsAreConserved, Held
  <2>6. \A i, j \in DOMAIN pool' : pool'[i] = pool'[j] => i = j
    BY <2>2, <2>3 DEF PoolInv, ModelsAreConserved, Pooled
  <2>7. \A u, v \in Threads : model'[u] = model'[v] => u = v \/ model'[u] = NoModel
    BY <2>1 DEF PoolInv, ModelsAreConserved
  <2>8. \A m \in Models : Pooled(m)' <=> ~Held(m)'
    BY <2>2, <2>4, <2>5 DEF PoolInv, ModelsAreConserved
  <2>9. QED
    BY <2>1, <2>3, <2>6, <2>7, <2>8 DEF PoolInv, ModelsAreConserved
<1>6. CASE UNCHANGED vars
  BY <1>2, <1>6 DEF vars
<1>7. CASE Next
  BY <1>2, <1>3, <1>4, <1>5, <1>7 DEF Next, Enqueue, BatchLoop, CollectBatch, SendBatch,
     EndLoop, TakeBatch, Serve, Answer, Timeout, ContextEnds, ClientClosed, StopWaiting,
     SidecarStep, External, Main, CloseReturns
<1>8. QED
  BY <1>6, <1>7

\* The pool of models loses none and shares none, for any numbers of threads and
\* models, whatever the model does and whoever gives up waiting.
THEOREM ModelsAreConservedHolds == Spec => []ModelsAreConserved
<1>1. Init => PoolInv
  BY FS_CardinalityType, SidecarAssumption, SMTT(30) DEF Init, SidecarInit, PoolInv
<1>2. PoolInv => ModelsAreConserved
  BY DEF PoolInv
<1>3. QED
  BY NextPoolInv, <1>1, <1>2, PTL DEF Spec

=============================================================================
