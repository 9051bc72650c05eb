------------------------------- MODULE Server -------------------------------
(***************************************************************************)
(* The server around the service: cmd/server/main.go (rate limiter, order  *)
(* of shutdown), internal/api/handler.go (one goroutine per request) and   *)
(* the counters of internal/metrics/metrics.go that requests race for.     *)
(*                                                                         *)
(* A goroutine's step is one access to shared memory: the two loops around *)
(* CompareAndSwap are a load and a swap, the refill of the token bucket is *)
(* a load and an add.  What Service.Process does is modelled in Service    *)
(* and NerBatcher; here it ends with an error, with a panic, or it waits   *)
(* for the NER model (module Serving) and ends then.                       *)
(***************************************************************************)
EXTENDS Integers, FiniteSets

CONSTANTS Reqs,          \* requests; each is sent once: the bound
          MaxRPS,        \* positive: 0 turns the limiter off
          MaxRefills     \* bound: ticks of the refill that add a token

ASSUME ServerAssumption ==
    IsFiniteSet(Reqs) /\ MaxRPS \in Nat \ {0} /\ MaxRefills \in Nat

VARIABLES
    pc,                   \* of each request
    post,                 \* is its method POST
    status,               \* the local status, which the deferred call reports
    cur, seen, have,      \* its locals in the two loops
    inFlight, maxInFlight, responses,       \* Metrics
    tokens, refill,       \* the token bucket; "load" or "add"
    phase,                \* "open", "draining", "closing", "exited": of main
    peak, added, admitted         \* history: what really happened

loopVars == <<cur, seen, have>>
bucket == <<tokens, refill, added>>
gauges == <<inFlight, maxInFlight, peak>>
serverVars == <<pc, post, status, loopVars, gauges, responses, bucket, phase, admitted>>

Handling == {"peakLoad", "peakSwap", "limit", "take", "decode", "process",
             "detect", "wait", "finish"}
Active == {r \in Reqs : pc[r] \in Handling \cup {"accepted"}}

ServerInit ==
    /\ pc = [r \in Reqs |-> "new"] /\ post \in [Reqs -> BOOLEAN]
    /\ status = [r \in Reqs |-> 200]
    /\ cur = [r \in Reqs |-> 0] /\ seen = cur /\ have = cur
    /\ inFlight = 0 /\ maxInFlight = 0 /\ responses = [class \in 2 .. 5 |-> 0]
    /\ tokens = MaxRPS /\ refill = "load"
    /\ phase = "open"
    /\ peak = 0 /\ added = 0 /\ admitted = 0
-----------------------------------------------------------------------------
\* The process is alive and request r moves on.
Goto(r, from, to) ==
    /\ phase # "exited"
    /\ pc[r] = from
    /\ pc' = [pc EXCEPT ![r] = to]

\* The handler has its answer: status, then the deferred RequestFinished.
Ends(r, from, s) ==
    /\ Goto(r, from, "finish")
    /\ status' = [status EXCEPT ![r] = s]

\* A connection is accepted; the head of its request is read in a step of its own.
Accept(r) ==
    /\ phase = "open"
    /\ Goto(r, "new", "accepted")
    /\ UNCHANGED <<post, status, loopVars, gauges, responses, bucket, phase, admitted>>

\* ReadHeaderTimeout: a client that does not send its head is disconnected.
HeaderTimesOut(r) ==
    /\ Goto(r, "accepted", "done")
    /\ UNCHANGED <<post, status, loopVars, gauges, responses, bucket, phase, admitted>>

\* RequestStarted: the gauge, then the loop that raises the maximum.
RequestStarted(r) ==
    /\ Goto(r, "accepted", "peakLoad")
    /\ inFlight' = inFlight + 1
    /\ cur' = [cur EXCEPT ![r] = inFlight + 1]
    /\ peak' = IF inFlight + 1 > peak THEN inFlight + 1 ELSE peak
    /\ UNCHANGED <<post, status, seen, have, maxInFlight, responses, bucket, phase, admitted>>

PeakLoad(r) ==
    /\ IF cur[r] <= maxInFlight
       THEN Goto(r, "peakLoad", "limit") /\ UNCHANGED seen
       ELSE Goto(r, "peakLoad", "peakSwap") /\ seen' = [seen EXCEPT ![r] = maxInFlight]
    /\ UNCHANGED <<post, status, cur, have, gauges, responses, bucket, phase, admitted>>

StorePeak(r) ==
    /\ Goto(r, "peakSwap", "limit")
    /\ maxInFlight' = cur[r]
SwapPeak(r) ==
    IF maxInFlight = seen[r]
    THEN Goto(r, "peakSwap", "limit") /\ maxInFlight' = cur[r]
    ELSE Goto(r, "peakSwap", "peakLoad") /\ UNCHANGED maxInFlight
PeakSwap(r) ==
    /\ SwapPeak(r)
    /\ UNCHANGED <<post, status, loopVars, inFlight, responses, peak, bucket, phase, admitted>>

\* 405 comes before the limiter.
Refuse(r) ==
    /\ ~post[r]
    /\ Ends(r, "limit", 405)
    /\ UNCHANGED <<post, loopVars, gauges, responses, bucket, phase, admitted>>

\* The limiter: tokens.Load, then CompareAndSwap.
TokenLoad(r) ==
    /\ post[r]
    /\ IF tokens <= 0
       THEN Ends(r, "limit", 429) /\ UNCHANGED have
       ELSE Goto(r, "limit", "take") /\ have' = [have EXCEPT ![r] = tokens] /\ UNCHANGED status
    /\ UNCHANGED <<post, cur, seen, gauges, responses, bucket, phase, admitted>>

StoreToken(r) ==
    /\ Goto(r, "take", "decode")
    /\ tokens' = have[r] - 1
    /\ admitted' = admitted + 1
SwapToken(r) ==
    IF tokens = have[r]
    THEN Goto(r, "take", "decode") /\ tokens' = tokens - 1 /\ admitted' = admitted + 1
    ELSE Goto(r, "take", "limit") /\ UNCHANGED <<tokens, admitted>>
TokenSwap(r) ==
    /\ SwapToken(r)
    /\ UNCHANGED <<post, status, loopVars, gauges, responses, refill, added, phase>>

\* One JSON object of at most maxProcessBodyBytes, or 400 or 413.  The server sets
\* a ReadHeaderTimeout only: it waits for a body as long as the client likes.
Decode(r) ==
    /\ \/ Goto(r, "decode", "process") /\ UNCHANGED status
       \/ \E s \in {400, 413} : Ends(r, "decode", s)
    /\ UNCHANGED <<post, loopVars, gauges, responses, bucket, phase, admitted>>

\* Process without the model: a mask repeated, a text restored (200), invalid,
\* forbidden, overloaded, or another error.  After a panic net/http drops the
\* connection; the deferred call reports the status as it was, 200.
Process(r) ==
    /\ \/ \E s \in {200, 400, 403, 500, 503} : Ends(r, "process", s)
       \/ Goto(r, "process", "detect") /\ UNCHANGED status
    /\ UNCHANGED <<post, loopVars, gauges, responses, bucket, phase, admitted>>

\* The answer is written, as fast as the client reads it, and the deferred call
\* runs.  The goroutine's locals end with it.
RequestFinished(r) ==
    /\ Goto(r, "finish", "done")
    /\ inFlight' = inFlight - 1
    /\ responses' = [responses EXCEPT ![status[r] \div 100] = @ + 1]
    /\ status' = [status EXCEPT ![r] = 200]
    /\ cur' = [cur EXCEPT ![r] = 0]
    /\ seen' = [seen EXCEPT ![r] = 0]
    /\ have' = [have EXCEPT ![r] = 0]
    /\ UNCHANGED <<post, maxInFlight, peak, bucket, phase, admitted>>

\* Steps that a client can hold up, and steps that it cannot.
ClientStep(r) == Decode(r) \/ RequestFinished(r)
ServerStep(r) ==
    \/ HeaderTimesOut(r) \/ RequestStarted(r) \/ PeakLoad(r) \/ PeakSwap(r)
    \/ Refuse(r) \/ TokenLoad(r) \/ TokenSwap(r) \/ Process(r)
-----------------------------------------------------------------------------
\* One tick of the refill: it looks at the bucket, and adds in a second step.
RefillLoad ==
    /\ phase # "exited" /\ refill = "load" /\ tokens < MaxRPS /\ added < MaxRefills
    /\ refill' = "add"
    /\ UNCHANGED <<pc, post, status, loopVars, gauges, responses, tokens, added, phase, admitted>>
RefillAdd ==
    /\ phase # "exited" /\ refill = "add"
    /\ tokens' = tokens + 1 /\ added' = added + 1
    /\ refill' = "load"
    /\ UNCHANGED <<pc, post, status, loopVars, gauges, responses, phase, admitted>>

\* SIGINT or SIGTERM: Shutdown closes the listener and waits.
Signal ==
    /\ phase = "open"
    /\ phase' = "draining"
    /\ UNCHANGED <<pc, post, status, loopVars, gauges, responses, bucket, admitted>>

\* Shutdown returns when nothing is active, or after its five seconds.
ShutdownReturns ==
    /\ phase = "draining" /\ Active = {}
    /\ phase' = "closing"
    /\ UNCHANGED <<pc, post, status, loopVars, gauges, responses, bucket, admitted>>
ShutdownTimesOut ==
    /\ phase = "draining"
    /\ phase' = "closing"
    /\ UNCHANGED <<pc, post, status, loopVars, gauges, responses, bucket, admitted>>

\* ListenAndServe fails: os.Exit at once, requests in progress or not.
ListenerFails ==
    /\ phase = "open"
    /\ phase' = "exited"
    /\ UNCHANGED <<pc, post, status, loopVars, gauges, responses, bucket, admitted>>
-----------------------------------------------------------------------------
\* The limiter lets in what the bucket held and what was added, no more, and
\* the bucket never holds more than MaxRPS: no token is taken twice by requests
\* that loaded the same count, none is added beyond the limit although the
\* refill looks and adds in two steps (main.go:110-137).
TokensAreExact ==
    tokens = MaxRPS + added - admitted /\ tokens \in 0 .. MaxRPS

Raising(r) == pc[r] \in {"peakLoad", "peakSwap"} /\ cur[r] = peak

\* The maximum lags behind only while the request that reached it is still in
\* its loop; after that it is exact (metrics.go:23-40).
PeakIsExact ==
    /\ inFlight = Cardinality({r \in Reqs : pc[r] \in Handling})
    /\ maxInFlight <= peak
    /\ maxInFlight < peak => \E r \in Reqs : Raising(r)

=============================================================================
