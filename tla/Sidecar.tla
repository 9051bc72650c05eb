------------------------------ MODULE Sidecar ------------------------------
(***************************************************************************)
(* ner/server.py: the HTTP server around the NER model.  ThreadingHTTP-    *)
(* Server has a thread per connection; NER_WORKERS copies of the model lie *)
(* in a LIFO queue, whose get blocks.  A client that stops waiting is not  *)
(* noticed: its thread goes on to the end.                                 *)
(***************************************************************************)
EXTENDS Integers, Sequences, FiniteSets

CONSTANTS Threads, Models, NoModel

ASSUME SidecarAssumption == IsFiniteSet(Models) /\ Models # {} /\ NoModel \notin Models

VARIABLES at,      \* of each thread: "idle", "get", "run", "reply"
          reply,   \* the HTTP status it is going to send
          model,   \* the model it has
          pool     \* _ner_pool, the last one put on top

sidecarVars == <<at, reply, model, pool>>

Pooled(m) == \E i \in DOMAIN pool : pool[i] = m
Held(m) == \E t \in Threads : at[t] = "run" /\ model[t] = m

\* However calls end, each model is in the pool once or with one thread: none is
\* lost to an exception or to a client that gave up, none is used by two threads
\* at a time (server.py:57-63 and 86-90).
ModelsAreConserved ==
    /\ \A m \in Models : Pooled(m) <=> ~Held(m)
    /\ \A i, j \in DOMAIN pool : pool[i] = pool[j] => i = j
    /\ \A t, u \in Threads : model[t] = model[u] => t = u \/ model[t] = NoModel

\* load_models.
SidecarInit ==
    /\ at = [t \in Threads |-> "idle"] /\ reply = [t \in Threads |-> 0]
    /\ model = [t \in Threads |-> NoModel]
    /\ pool \in [1 .. Cardinality(Models) -> Models]
    /\ ModelsAreConserved
-----------------------------------------------------------------------------
\* _read_request, the path and the limits of _handle_ner and _handle_batch; the
\* client of this program stays within them (DefaultMaxBatch, chunkSize).
Request(t) ==
    /\ at[t] = "idle"
    /\ \/ at' = [at EXCEPT ![t] = "get"] /\ UNCHANGED reply
       \/ /\ at' = [at EXCEPT ![t] = "reply"]
          /\ reply' = [reply EXCEPT ![t] = 400]      \* or 404, 413
    /\ UNCHANGED <<model, pool>>

GetModel(t) ==
    /\ at[t] = "get" /\ pool # <<>>
    /\ model' = [model EXCEPT ![t] = pool[Len(pool)]]
    /\ pool' = SubSeq(pool, 1, Len(pool) - 1)
    /\ at' = [at EXCEPT ![t] = "run"]
    /\ UNCHANGED reply

\* The model returns or raises; finally puts it back either way.
RunModelKeeps(t) ==
    /\ at[t] = "run"
    /\ at' = [at EXCEPT ![t] = "reply"]
    /\ \/ /\ reply' = [reply EXCEPT ![t] = 200]
          /\ pool' = Append(pool, model[t])
          /\ model' = [model EXCEPT ![t] = NoModel]
       \/ reply' = [reply EXCEPT ![t] = 500] /\ UNCHANGED <<model, pool>>
RunModel(t) ==
    /\ at[t] = "run"
    /\ at' = [at EXCEPT ![t] = "reply"]
    /\ \E code \in {200, 500} : reply' = [reply EXCEPT ![t] = code]
    /\ pool' = Append(pool, model[t])
    /\ model' = [model EXCEPT ![t] = NoModel]

\* The answer is written, whether anybody still listens or not.
Reply(t) ==
    /\ at[t] = "reply"
    /\ at' = [at EXCEPT ![t] = "idle"] /\ reply' = [reply EXCEPT ![t] = 0]
    /\ UNCHANGED <<model, pool>>

=============================================================================
