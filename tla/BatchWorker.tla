----------------------------- MODULE BatchWorker ---------------------------
(***************************************************************************)
(* BatchWorker of parakeet_service/batchworker.py: requests put jobs on    *)
(* one queue, the worker task collects jobs of one model for a short       *)
(* window and has a thread infer them as a batch.                          *)
(*                                                                         *)
(* A request is a call of submit_many(); submit() is one with one piece.   *)
(* A job is <<request, piece>>.  Putting on the unbounded queue does not   *)
(* suspend.  In the collect window the worker waits in wait_for(), whose   *)
(* inner task takes the next job off the queue (held) a step before the    *)
(* worker itself goes on.                                                  *)
(***************************************************************************)
EXTENDS Integers, Sequences, SequencesExt, FiniteSets

CONSTANTS Requests,
          ModelName,   \* the model_name of each
          MaxPieces,   \* bound: pieces of a request
          MaxJobs,     \* bound: pieces of all requests
          MaxBatch,    \* max_batch
          Swallows     \* wait_for() returns a job it holds when it is
                       \* cancelled (Python 3.10, 3.11; not 3.12)

ASSUME WorkerAssumption ==
    /\ DOMAIN ModelName = Requests
    /\ MaxPieces \in Nat \ {0}
    /\ MaxJobs \in Nat
    /\ MaxBatch \in Nat \ {0}
    /\ Swallows \in BOOLEAN

VARIABLES request,   \* where the call is: "new", "waiting", or how it ended
          future,    \* the future of every job
          queue,     \* _queue
          worker,    \* where the worker task is
          batch,     \* batch
          held,      \* the job that the inner task of wait_for() has taken
          cancelled, \* _task.cancel() was called and is not delivered yet
          stop       \* stop(): "no", "waiting" for the task, "done"

vars == <<request, future, queue, worker, batch, held, cancelled, stop>>

Jobs == Requests \X (1..MaxPieces)
ModelOf(j) == ModelName[j[1]]
Submitted == {j \in Jobs : future[j] # "none"}
PiecesOf(r) == {j \in Submitted : j[1] = r}

RequestStates == {"new", "waiting", "answered", "failed", "gone"}
FutureStates == {"none", "pending", "result", "error", "cancelled"}
WorkerStates == {"get", "collect", "infer", "ended", "crashed"}

Init ==
    /\ request = [r \in Requests |-> "new"]
    /\ future = [j \in Jobs |-> "none"]
    /\ queue = <<>>
    /\ worker = "get"
    /\ batch = <<>>
    /\ held = <<>>
    /\ cancelled = FALSE
    /\ stop = "no"

-----------------------------------------------------------------------------
(***************************************************************************)
(* Callers.                                                                *)
(***************************************************************************)
\* All pieces are put, then the call waits for their futures.
Submit(r, n) ==
    /\ request[r] = "new"
    /\ Cardinality(Submitted) + n <= MaxJobs
    /\ request' = [request EXCEPT ![r] = "waiting"]
    /\ future' = [j \in Jobs |-> IF j[1] = r /\ j[2] <= n THEN "pending" ELSE future[j]]
    /\ queue' = queue \o [i \in 1..n |-> <<r, i>>]
    /\ UNCHANGED <<worker, batch, held, cancelled, stop>>

\* gather() raises the first exception, or returns when all have a result.
Answered(r) ==
    /\ request[r] = "waiting"
    /\ \/ /\ \E j \in PiecesOf(r) : future[j] = "error"
          /\ request' = [request EXCEPT ![r] = "failed"]
       \/ /\ \A j \in PiecesOf(r) : future[j] = "result"
          /\ request' = [request EXCEPT ![r] = "answered"]
    /\ UNCHANGED <<future, queue, worker, batch, held, cancelled, stop>>

\* The request's task is cancelled: so are the futures it waits for.  Their
\* jobs stay where they are.
ClientGoes(r) ==
    /\ request[r] = "waiting"
    /\ request' = [request EXCEPT ![r] = "gone"]
    /\ future' = [j \in Jobs |-> IF j[1] = r /\ future[j] = "pending"
                                 THEN "cancelled" ELSE future[j]]
    /\ UNCHANGED <<queue, worker, batch, held, cancelled, stop>>

\* stop() cancels the task and awaits it.
CallStop ==
    /\ stop = "no"
    /\ stop' = "waiting"
    /\ cancelled' = TRUE
    /\ UNCHANGED <<request, future, queue, worker, batch, held>>

StopReturns ==
    /\ stop = "waiting"
    /\ worker \in {"ended", "crashed"}
    /\ stop' = "done"
    /\ UNCHANGED <<request, future, queue, worker, batch, held, cancelled>>

-----------------------------------------------------------------------------
(***************************************************************************)
(* The worker task.                                                        *)
(***************************************************************************)
\* Where the loop over max_batch goes on with this batch.
NextPlace(b) == IF Len(b) < MaxBatch THEN "collect" ELSE "infer"

\* The first job of a batch.
TakeFirst ==
    /\ worker = "get" /\ ~cancelled
    /\ queue # <<>>
    /\ batch' = <<Head(queue)>>
    /\ queue' = Tail(queue)
    /\ worker' = NextPlace(batch')
    /\ UNCHANGED <<request, future, held, cancelled, stop>>

\* The inner task of wait_for() takes a job, also after a cancel() that the
\* worker has not seen yet.
GetterTakes ==
    /\ worker = "collect"
    /\ held = <<>> /\ queue # <<>>
    /\ held' = <<Head(queue)>>
    /\ queue' = Tail(queue)
    /\ UNCHANGED <<request, future, worker, batch, cancelled, stop>>

\* Mutant: a job for another model is not put back.
CollectDrops ==
    /\ worker = "collect"
    /\ held # <<>>
    /\ cancelled => Swallows
    /\ cancelled' = FALSE
    /\ held' = <<>>
    /\ IF ModelOf(held[1]) # ModelOf(batch[1])
       THEN worker' = "infer" /\ UNCHANGED <<queue, batch>>
       ELSE batch' = batch \o held /\ worker' = NextPlace(batch') /\ UNCHANGED queue
    /\ UNCHANGED <<request, future, stop>>

\* wait_for() returns the job it holds: it joins the batch, or goes back to
\* the tail of the queue when it is for another model.
Collect ==
    /\ worker = "collect"
    /\ held # <<>>
    /\ cancelled => Swallows
    /\ cancelled' = FALSE
    /\ held' = <<>>
    /\ IF ModelOf(held[1]) # ModelOf(batch[1])
       THEN queue' = queue \o held /\ worker' = "infer" /\ UNCHANGED batch
       ELSE batch' = batch \o held /\ worker' = NextPlace(batch') /\ UNCHANGED queue
    /\ UNCHANGED <<request, future, stop>>

\* The window is over before another job is there.
WindowCloses ==
    /\ worker = "collect" /\ ~cancelled
    /\ held = <<>>
    /\ worker' = "infer"
    /\ UNCHANGED <<request, future, queue, batch, held, cancelled, stop>>

\* Settle every future of the batch that is not done.
Settle(outcome) ==
    future' = [j \in Jobs |-> IF j \in ToSet(batch) /\ future[j] = "pending"
                              THEN outcome ELSE future[j]]

\* Mutant: done() is not asked, and a future that is done raises
\* InvalidStateError out of the worker.
DeliverBlindly ==
    /\ worker = "infer" /\ ~cancelled
    /\ Settle("result")
    /\ worker' = IF \A j \in ToSet(batch) : future[j] = "pending"
                 THEN "get" ELSE "crashed"
    /\ batch' = <<>>
    /\ UNCHANGED <<request, queue, held, cancelled, stop>>

\* The thread returns one result per job.
Deliver ==
    /\ worker = "infer" /\ ~cancelled
    /\ Settle("result")
    /\ worker' = "get"
    /\ batch' = <<>>
    /\ UNCHANGED <<request, queue, held, cancelled, stop>>

\* The model does not load, or inference raises: all jobs of the batch fail.
BatchFails ==
    /\ worker = "infer" /\ ~cancelled
    /\ Settle("error")
    /\ worker' = "get"
    /\ batch' = <<>>
    /\ UNCHANGED <<request, queue, held, cancelled, stop>>

\* CancelledError ends the task wherever it waits.  The batch stays as it is,
\* a job that the inner task was about to take stays on the queue.
CancelDelivered ==
    /\ cancelled
    /\ held # <<>> => ~Swallows
    /\ cancelled' = FALSE
    /\ worker' = "ended"
    /\ queue' = held \o queue
    /\ held' = <<>>
    /\ UNCHANGED <<request, future, batch, stop>>

-----------------------------------------------------------------------------
CallerStep == \E r \in Requests : Answered(r)

WorkerStep == \/ TakeFirst \/ GetterTakes \/ Collect \/ WindowCloses
              \/ Deliver \/ BatchFails \/ CancelDelivered

ClientStep == \/ \E r \in Requests : ClientGoes(r) \/ \E n \in 1..MaxPieces : Submit(r, n)
              \/ CallStop

\* Nothing is asked of the worker any more.
Idle == /\ stop = "done"
        /\ UNCHANGED vars

Next == CallerStep \/ WorkerStep \/ ClientStep \/ StopReturns \/ Idle

Spec == Init /\ [][Next]_vars

\* The loop runs every ready task, the window has an end and a thread comes
\* back.  Nobody has to submit, to go away or to stop the worker.
FairSpec == Spec /\ WF_vars(WorkerStep) /\ WF_vars(StopReturns)
                 /\ \A r \in Requests : WF_vars(Answered(r))
-----------------------------------------------------------------------------
(***************************************************************************)
(* Properties.                                                             *)
(***************************************************************************)
\* Where jobs are: queued, held by wait_for() or in the batch.
Places == queue \o held \o batch

\* No job is lost or inferred twice, whatever is put back, cancelled or
\* stopped: a job somebody still waits for is in one place, and only one.
EachJobOnce ==
    /\ \A j \in Jobs : future[j] = "pending" => j \in ToSet(Places)
    /\ \A i, k \in 1..Len(Places) : Places[i] = Places[k] => i = k

\* The worker keeps the promise of submit_many() and stop(): what is inferred
\* together is for one model; a call is answered with all its results or fails
\* by a job of its own; and, also when models alternate, batches fail and other
\* clients go away in the middle, every job is inferred unless the worker is
\* stopped, every call ends and stop() returns.
Promise == INSTANCE Inference WITH Largest <- MaxBatch

KeepsPromise == Promise!Spec
=============================================================================
