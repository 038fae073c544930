----------------------------- MODULE OnnxService ----------------------------
(***************************************************************************)
(* The ONNX service (parakeet_service) with PARAKEET_BATCHED=0: the two    *)
(* handlers of routes.py, the InferencePool of batchworker.py under them,  *)
(* the model cache of model.py and the lifespan of main.py.  With          *)
(* PARAKEET_BATCHED=1 the handlers call a BatchWorker, which has a module  *)
(* of its own and makes the same promise (Inference).                      *)
(*                                                                         *)
(* An action is what the event loop does between two awaits that wait, or  *)
(* what a thread does.  A model is looked up and, when it is missing,      *)
(* loaded on the event loop, which stands still meanwhile; so it does when *)
(* transcribe() decodes and cuts an upload.                                *)
(***************************************************************************)
EXTENDS Integers, Sequences, FiniteSets

CONSTANTS Requests,
          Batches,    \* those for /v1/audio/transcriptions/batch
          ModelName,  \* the model of each, an unknown one being the default
          Default,    \* DEFAULT_MODEL
          MaxPieces,  \* bound: chunks of an upload, files of a batch
          Workers     \* threads of the pool

ASSUME ServiceAssumption ==
    /\ Batches \subseteq Requests
    /\ DOMAIN ModelName = Requests
    /\ MaxPieces \in Nat \ {0}
    /\ Workers \in Nat \ {0}

VARIABLES handler,  \* where the handler of a request is, or how it ended
          decode,   \* the decode of every file of a batch
          loaded,   \* the keys of _MODELS
          future,   \* the future of every job
          queue,    \* the work queue of the pool's executor
          running,  \* the jobs its threads are at
          stop      \* "no", or "done" once the lifespan is over

vars == <<handler, decode, loaded, future, queue, running, stop>>

Jobs == Requests \X (1..MaxPieces)
PiecesOf(r) == {j \in Jobs : j[1] = r /\ future[j] # "none"}
Decoding == {j \in Jobs : j[2] \in DOMAIN decode[j[1]] /\ decode[j[1]][j[2]] = "busy"}

\* "refused" and "left" before submit_many() is called, "error" by it.
Over == {"refused", "left", "ok", "error", "gone"}
Goes(r, where) == handler' = [handler EXCEPT ![r] = where]

\* The lifespan begins with the default model.
Init ==
    /\ handler = [r \in Requests |-> "new"]
    /\ decode = [r \in Requests |-> <<>>]
    /\ loaded = {Default}
    /\ future = [j \in Jobs |-> "none"]
    /\ queue = <<>>
    /\ running = {}
    /\ stop = "no"

-----------------------------------------------------------------------------
(***************************************************************************)
(* submit_many() of the pool.                                              *)
(***************************************************************************)
\* Mutant: a pool that was shut down goes on taking jobs.
SubmitManyStopped(r, n) ==
    /\ loaded' = loaded \cup {ModelName[r]}
    /\ Goes(r, "inferring")
    /\ future' = [j \in Jobs |-> IF j[1] = r /\ j[2] <= n THEN "pending" ELSE future[j]]
    /\ queue' = queue \o [i \in 1..n |-> <<r, i>>]

SubmitMany(r, n) ==
    /\ stop = "no"
    /\ loaded' = loaded \cup {ModelName[r]}
    /\ Goes(r, "inferring")
    /\ future' = [j \in Jobs |-> IF j[1] = r /\ j[2] <= n THEN "pending" ELSE future[j]]
    /\ queue' = queue \o [i \in 1..n |-> <<r, i>>]

\* The model is missing and does not load or, when the GPU is asked for, does
\* not bind to it; or the model is there, and the executor is shut down.
SubmitRaises(r) ==
    /\ \/ ModelName[r] \notin loaded /\ UNCHANGED loaded
       \/ stop = "done" /\ loaded' = loaded \cup {ModelName[r]}
    /\ Goes(r, "error")
    /\ UNCHANGED <<future, queue>>

-----------------------------------------------------------------------------
(***************************************************************************)
(* The handlers.                                                           *)
(***************************************************************************)
\* No file, an empty one, one that does not decode or has no samples; no audio
\* pool any more.
Refuse(r) ==
    /\ handler[r] = "new"
    /\ Goes(r, "refused")
    /\ UNCHANGED <<decode, loaded, future, queue, running, stop>>

Transcribe(r) ==
    /\ handler[r] = "new" /\ r \notin Batches
    /\ SubmitRaises(r) \/ \E n \in 1..MaxPieces : SubmitMany(r, n)
    /\ UNCHANGED <<decode, running, stop>>

\* The files have been read; the audio pool decodes them.
TranscribeBatch(r) ==
    /\ handler[r] = "new" /\ r \in Batches
    /\ stop = "no"
    /\ \E n \in 1..MaxPieces : decode' = [decode EXCEPT ![r] = [f \in 1..n |-> "busy"]]
    /\ Goes(r, "decoding")
    /\ UNCHANGED <<loaded, future, queue, running, stop>>

DecodeEnds(r, f) ==
    /\ decode[r][f] = "busy"
    /\ \E end \in {"done", "failed"} : decode' = [decode EXCEPT ![r][f] = end]
    /\ UNCHANGED <<handler, loaded, future, queue, running, stop>>

\* gather() returns when all files are decoded.
Decoded(r) ==
    /\ handler[r] = "decoding"
    /\ \A f \in DOMAIN decode[r] : decode[r][f] = "done"
    /\ SubmitRaises(r) \/ SubmitMany(r, Len(decode[r]))
    /\ UNCHANGED <<decode, running, stop>>

\* It raises with the first that fails; what else is being decoded is of no
\* consequence any more.
DecodeRaises(r) ==
    /\ handler[r] = "decoding"
    /\ \E f \in DOMAIN decode[r] : decode[r][f] \in {"failed", "cancelled"}
    /\ Goes(r, "refused")
    /\ decode' = [decode EXCEPT ![r] = <<>>]
    /\ UNCHANGED <<loaded, future, queue, running, stop>>

\* Mutant: gather(return_exceptions=True).
RespondAnyhow(r) ==
    /\ handler[r] = "inferring"
    /\ \A j \in PiecesOf(r) : future[j] # "pending"
    /\ Goes(r, "ok")
    /\ UNCHANGED <<decode, loaded, future, queue, running, stop>>

\* Every piece has its result: they are put together in order.
Respond(r) ==
    /\ handler[r] = "inferring"
    /\ \A j \in PiecesOf(r) : future[j] = "result"
    /\ Goes(r, "ok")
    /\ UNCHANGED <<decode, loaded, future, queue, running, stop>>

\* The first exception, while the other pieces go on.
RespondError(r) ==
    /\ handler[r] = "inferring"
    /\ \E j \in PiecesOf(r) : future[j] \in {"error", "cancelled"}
    /\ Goes(r, "error")
    /\ UNCHANGED <<decode, loaded, future, queue, running, stop>>

\* The request's task is cancelled where it waits.  A job that waits for a
\* thread is skipped by it, one that runs goes on for nobody.
ClientGoes(r) ==
    /\ \/ /\ handler[r] = "decoding"
          /\ Goes(r, "left")
          /\ decode' = [decode EXCEPT ![r] = <<>>]
          /\ UNCHANGED future
       \/ /\ handler[r] = "inferring"
          /\ Goes(r, "gone")
          /\ future' = [j \in Jobs |-> IF j[1] = r /\ future[j] = "pending"
                                       THEN "cancelled" ELSE future[j]]
          /\ UNCHANGED decode
    /\ UNCHANGED <<loaded, queue, running, stop>>

-----------------------------------------------------------------------------
(***************************************************************************)
(* The threads of the pool, and the end of the lifespan.                   *)
(***************************************************************************)
Take ==
    /\ queue # <<>>
    /\ Cardinality(running) < Workers
    /\ queue' = Tail(queue)
    /\ running' = IF future[Head(queue)] = "pending"
                  THEN running \cup {Head(queue)} ELSE running
    /\ UNCHANGED <<handler, decode, loaded, future, stop>>

RecognizeEnds(j) ==
    /\ j \in running
    /\ running' = running \ {j}
    /\ \E end \in {"result", "error"} :
           future' = [future EXCEPT ![j] = IF @ = "pending" THEN end ELSE @]
    /\ UNCHANGED <<handler, decode, loaded, queue, stop>>

\* Mutant: what is queued is dropped and its futures are left as they are.
ShutdownForgets ==
    /\ stop = "no"
    /\ stop' = "done"
    /\ queue' = <<>>
    /\ UNCHANGED <<handler, decode, loaded, future, running>>

\* stop() and the audio pool's shutdown do not wait: what has a thread goes
\* on, what has none is cancelled; any files being decoded may have none yet.
Shutdown ==
    /\ stop = "no"
    /\ stop' = "done"
    /\ queue' = <<>>
    /\ future' = [j \in Jobs |-> IF future[j] = "pending" /\ j \notin running
                                 THEN "cancelled" ELSE future[j]]
    /\ \E idle \in SUBSET Decoding :
           decode' = [r \in Requests |-> [f \in DOMAIN decode[r] |->
               IF <<r, f>> \in idle THEN "cancelled" ELSE decode[r][f]]]
    /\ UNCHANGED <<handler, loaded, running>>

-----------------------------------------------------------------------------
Handle(r) == Decoded(r) \/ DecodeRaises(r) \/ Respond(r) \/ RespondError(r)

ThreadStep == Take \/ \E j \in Jobs : RecognizeEnds(j)

Arrive(r) == Refuse(r) \/ Transcribe(r) \/ TranscribeBatch(r)

Idle == (\A r \in Requests : handler[r] \in Over) /\ stop = "done" /\ UNCHANGED vars

Next == \/ \E r \in Requests : \/ Arrive(r) \/ Handle(r) \/ ClientGoes(r)
                               \/ \E f \in DOMAIN decode[r] : DecodeEnds(r, f)
        \/ ThreadStep \/ Shutdown \/ Idle

\* The loop runs what is ready, and a thread comes back.
Spec == /\ Init /\ [][Next]_vars
        /\ \A r \in Requests : /\ WF_vars(Handle(r))
                               /\ WF_vars(\E f \in DOMAIN decode[r] : DecodeEnds(r, f))
        /\ WF_vars(ThreadStep)
-----------------------------------------------------------------------------
(***************************************************************************)
(* Properties.                                                             *)
(***************************************************************************)
InQueue(j) == {i \in 1..Len(queue) : queue[i] = j}

\* A job somebody waits for is queued once or has a thread, and not both; and
\* after a shutdown nothing begins any more, whoever submits meanwhile.
JobsHeld ==
    /\ \A j \in Jobs : future[j] = "pending" =>
           Cardinality(InQueue(j)) = IF j \in running THEN 0 ELSE 1
    /\ stop = "done" => queue = <<>>

\* The pool keeps the promise that the batch worker makes, one job at a time:
\* a request fails by a piece of its own, or the shutdown of what it waits for.
Call == [r \in Requests |->
            CASE handler[r] = "inferring" -> "waiting"
              [] handler[r] = "ok" -> "answered"
              [] handler[r] = "error" -> "failed"
              [] handler[r] = "gone" -> "gone"
              [] OTHER -> "new"]

Promise == INSTANCE Inference WITH request <- Call, Largest <- 1

KeepsPromise == Promise!Spec

\* Every request is answered, also when the service is shut down in the middle
\* of it: which the calls of a stopped BatchWorker are not.
EveryRequestEnds ==
    \A r \in Requests : handler[r] \in {"decoding", "inferring"} ~> handler[r] \in Over
=============================================================================
