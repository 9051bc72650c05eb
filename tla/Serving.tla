------------------------------ MODULE Serving ------------------------------
(***************************************************************************)
(* The two processes together: requests of Server that need the NER model  *)
(* and the threads of Sidecar that answer them.  Between them stands the   *)
(* NER client; module NerBatcher has its batches, here each text is a      *)
(* batch of its own.  A text waits in the queue, batchLoop collects it and *)
(* puts it into the buffered channel c.batches, one of the Workers workers *)
(* takes it from there and calls the sidecar: whether its request still    *)
(* waits or has left, before the client is closed or after.  A call ends   *)
(* with an answer or after 30 seconds.                                     *)
(***************************************************************************)
EXTENDS Server, Sidecar

CONSTANTS Workers,     \* at most MaxWorkers
          NoCall, Connecting

ASSUME ServingAssumption ==
    Workers \in Nat \ {0} /\ Threads \cap {NoCall, Connecting} = {} /\ NoCall # Connecting

VARIABLES
    queue,             \* requests whose texts are queued; longer than a run needs
    looping,           \* has batchLoop not ended
    collected,         \* what it has in hand: one request or none
    batches,           \* the channel to the workers
    link               \* of each request: the worker's call for its text, that is
                       \* the thread that serves it, Connecting before, or NoCall

loopState == <<queue, looping, collected, batches>>
clientVars == <<loopState, link>>
vars == <<serverVars, sidecarVars, clientVars>>

Init ==
    /\ ServerInit /\ SidecarInit
    /\ queue = <<>> /\ looping = TRUE /\ collected = <<>> /\ batches = <<>>
    /\ link = [r \in Reqs |-> NoCall]

InCall == {r \in Reqs : link[r] # NoCall}
Alive == phase # "exited"

quiet == <<post, loopVars, gauges, responses, bucket, phase, admitted>>

\* Detect: the text is queued, also when the client has been closed meanwhile.
Enqueue(r) ==
    /\ Goto(r, "detect", "wait")
    /\ queue' = Append(queue, r)
    /\ UNCHANGED <<status, quiet, sidecarVars, looping, collected, batches, link>>

\* collectBatch passes over a text whose context has ended; that of a request
\* ends with it at the latest.
CollectBatch ==
    /\ Alive /\ looping /\ collected = <<>> /\ queue # <<>>
    /\ queue' = Tail(queue)
    /\ \/ collected' = <<Head(queue)>>
       \/ pc[Head(queue)] = "done" /\ UNCHANGED collected
    /\ UNCHANGED <<serverVars, sidecarVars, looping, batches, link>>

\* The channel has room for Workers batches.
SendBatch ==
    /\ Alive /\ looping /\ collected # <<>> /\ Len(batches) < Workers
    /\ batches' = batches \o collected
    /\ collected' = <<>>
    /\ UNCHANGED <<serverVars, sidecarVars, queue, looping, link>>

\* Once the client is closed batchLoop ends, whatever it has in hand; where it
\* can go on as well, select takes either.
EndLoop ==
    /\ phase = "closing" /\ looping
    /\ looping' = FALSE
    /\ collected' = <<>>
    /\ UNCHANGED <<serverVars, sidecarVars, queue, batches, link>>

BatchLoop == CollectBatch \/ SendBatch \/ EndLoop

\* A free worker takes the next batch; the workers drain the channel.
TakeBatch ==
    /\ Alive /\ batches # <<>> /\ Cardinality(InCall) < Workers
    /\ link' = [link EXCEPT ![Head(batches)] = Connecting]
    /\ batches' = Tail(batches)
    /\ UNCHANGED <<serverVars, sidecarVars, queue, looping, collected>>
-----------------------------------------------------------------------------
\* A thread of the sidecar takes the call.
Serve(r, t) ==
    /\ Alive
    /\ link[r] = Connecting
    /\ Request(t)
    /\ link' = [link EXCEPT ![r] = t]
    /\ UNCHANGED <<serverVars, loopState>>

\* The worker has an answer for r, who may have stopped waiting.
Resolve(r, s) ==
    /\ Alive
    /\ link' = [link EXCEPT ![r] = NoCall]
    /\ IF pc[r] = "wait" THEN Ends(r, "wait", s) ELSE UNCHANGED <<pc, status>>
    /\ UNCHANGED <<quiet, loopState>>
Answer(r) ==
    /\ link[r] \in Threads
    /\ Reply(link[r])
    /\ Resolve(r, IF reply[link[r]] = 200 THEN 200 ELSE 500)
TimeoutNever(r) == FALSE
Timeout(r) ==
    /\ link[r] # NoCall
    /\ Resolve(r, 500)
    /\ UNCHANGED sidecarVars

\* The request stops waiting, or does not begin to.
StopWaiting(r) ==
    /\ \E from \in {"detect", "wait"} : Ends(r, from, 500)
    /\ UNCHANGED <<quiet, sidecarVars, looping, collected, batches, link>>
\* Its context ends: what is still queued will be passed over.
ContextEnds(r) == StopWaiting(r) /\ queue' = SelectSeq(queue, LAMBDA q : q # r)
\* c.done is closed: what is queued stays there.
ClientClosed(r) == phase = "closing" /\ StopWaiting(r) /\ UNCHANGED queue

\* Close has waited for batchLoop and for the workers, which end when the
\* channel is closed and empty; main returns.
CloseReturns ==
    /\ phase = "closing" /\ ~looping /\ batches = <<>> /\ InCall = {}
    /\ phase' = "exited"
    /\ UNCHANGED <<pc, post, status, loopVars, gauges, responses, bucket, admitted>>
    /\ UNCHANGED <<sidecarVars, clientVars>>

\* The sidecar's own steps, also for calls whose client is gone.
SidecarStep(t) ==
    /\ \/ GetModel(t) \/ RunModel(t)
       \/ (\A r \in Reqs : link[r] # t) /\ Reply(t)
    /\ UNCHANGED <<serverVars, clientVars>>

Main == (ShutdownReturns \/ ShutdownTimesOut) /\ UNCHANGED <<sidecarVars, clientVars>>
External == Signal \/ ListenerFails \/ RefillLoad \/ RefillAdd

Next ==
    \/ \E r \in Reqs :
          \/ (Accept(r) \/ ServerStep(r) \/ ClientStep(r)) /\ UNCHANGED <<sidecarVars, clientVars>>
          \/ Enqueue(r) \/ Answer(r) \/ Timeout(r) \/ ContextEnds(r) \/ ClientClosed(r)
          \/ \E t \in Threads : Serve(r, t)
    \/ BatchLoop \/ TakeBatch
    \/ \E t \in Threads : SidecarStep(t)
    \/ External /\ UNCHANGED <<sidecarVars, clientVars>>
    \/ Main \/ CloseReturns

Spec == Init /\ [][Next]_vars

\* Goroutines run; the loops around CompareAndSwap retry only when another one
\* got through.  The 30 seconds of the HTTP client, the five of Shutdown and the
\* five of ReadHeaderTimeout pass.  Nothing is assumed of clients, who may keep
\* the server waiting for a body, or for room to write, for ever (ClientStep),
\* and nothing of the sidecar, which may hang.
FairSpec ==
    /\ Spec
    /\ \A r \in Reqs :
          /\ WF_vars(ServerStep(r) /\ UNCHANGED <<sidecarVars, clientVars>>)
          /\ WF_vars(Enqueue(r)) /\ WF_vars(Timeout(r)) /\ WF_vars(ClientClosed(r))
    /\ WF_vars(BatchLoop) /\ WF_vars(TakeBatch)
    /\ WF_vars(Main) /\ WF_vars(CloseReturns)
-----------------------------------------------------------------------------
HasAnswer(r) == pc[r] \in {"finish", "done"} \/ ~Alive

\* Whatever the sidecar and other clients do, the server keeps nobody waiting: a
\* request is answered or its body is read, and once it has been read, which is
\* up to the client, it is answered, unless the process exits first.  None waits
\* for ever for a model, a thread, a worker, or batchLoop (handler.go:51-120,
\* ner.go:322-375).
Answered ==
    \A r \in Reqs : /\ pc[r] = "accepted" ~> (pc[r] = "decode" \/ HasAnswer(r))
                    /\ pc[r] = "process" ~> HasAnswer(r)

\* After a signal the process exits, with the sidecar hung, with clients that
\* keep their requests open, and with texts queued, in hand and in the channel
\* whose requests have left: each of these is sent and waited for, or thrown away
\* (main.go:90-99, ner.go:313-319 and 350-375).
Exits == (phase = "draining") ~> (phase = "exited")

=============================================================================
