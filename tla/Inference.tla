------------------------------- MODULE Inference ----------------------------
(***************************************************************************)
(* What a caller of submit_many() is promised by either worker of          *)
(* parakeet_service/batchworker.py: an answer with a result for every      *)
(* piece, or an exception that one of its own pieces met; and an end of    *)
(* the call and of stop().  Queues, batches and threads are left out.      *)
(***************************************************************************)
EXTENDS Naturals, FiniteSets

CONSTANTS Requests,
          ModelName,   \* the model_name of each
          MaxPieces,   \* bound: pieces of a request
          Largest      \* how many jobs are inferred at once

VARIABLES request,  \* where the call is: "new", "waiting", or how it ended
          future,   \* the future of every job
          stop      \* stop(): "no", "waiting", "done"

vars == <<request, future, stop>>

Jobs == Requests \X (1..MaxPieces)
Pending == {j \in Jobs : future[j] = "pending"}
PiecesOf(r) == {j \in Jobs : j[1] = r /\ future[j] # "none"}
Ends(r, how) == request' = [request EXCEPT ![r] = how]

Init ==
    /\ request = [r \in Requests |-> "new"]
    /\ future = [j \in Jobs |-> "none"]
    /\ stop = "no"

Call(r, n) ==
    /\ request[r] = "new"
    /\ Ends(r, "waiting")
    /\ future' = [j \in Jobs |-> IF j[1] = r /\ j[2] <= n THEN "pending" ELSE future[j]]
    /\ UNCHANGED stop

\* The model does not load, or the worker has been stopped.
CallRaises(r) == request[r] = "new" /\ Ends(r, "failed") /\ UNCHANGED <<future, stop>>

\* Jobs that are inferred together are for one model, and end alike.
Settle(batch, outcome) ==
    /\ batch # {} /\ Cardinality(batch) <= Largest
    /\ \A i, k \in batch : ModelName[i[1]] = ModelName[k[1]]
    /\ future' = [j \in Jobs |-> IF j \in batch THEN outcome ELSE future[j]]
    /\ UNCHANGED <<request, stop>>

Answer(r) ==
    /\ request[r] = "waiting"
    /\ \A j \in PiecesOf(r) : future[j] = "result"
    /\ Ends(r, "answered")
    /\ UNCHANGED <<future, stop>>

Fail(r) ==
    /\ request[r] = "waiting"
    /\ \E j \in PiecesOf(r) : future[j] \in {"error", "cancelled"}
    /\ Ends(r, "failed")
    /\ UNCHANGED <<future, stop>>

\* The caller is cancelled, and what it waits for.
Abandon(r) ==
    /\ request[r] = "waiting"
    /\ Ends(r, "gone")
    /\ future' = [j \in Jobs |-> IF j[1] = r /\ future[j] = "pending"
                                 THEN "cancelled" ELSE future[j]]
    /\ UNCHANGED stop

\* What has not begun may be cancelled.
CallStop ==
    /\ stop = "no"
    /\ stop' \in {"waiting", "done"}
    /\ \E dropped \in SUBSET Pending :
           future' = [j \in Jobs |-> IF j \in dropped THEN "cancelled" ELSE future[j]]
    /\ UNCHANGED request

StopReturns == stop = "waiting" /\ stop' = "done" /\ UNCHANGED <<request, future>>

\* The batch that j is in.
SettleWith(j) == \E batch \in SUBSET Pending, outcome \in {"result", "error"} :
                     j \in batch /\ Settle(batch, outcome)

Next == \/ \E r \in Requests : \/ \E n \in 1..MaxPieces : Call(r, n)
                               \/ CallRaises(r) \/ Answer(r) \/ Fail(r) \/ Abandon(r)
        \/ \E j \in Jobs : SettleWith(j)
        \/ CallStop \/ StopReturns

SafeSpec == Init /\ [][Next]_vars

\* Until the worker is stopped every job is inferred; calls that can end, and
\* stop(), do.
Spec == /\ SafeSpec
        /\ \A j \in Jobs : WF_vars(stop = "no" /\ SettleWith(j))
        /\ \A r \in Requests : WF_vars(Answer(r) \/ Fail(r))
        /\ WF_vars(StopReturns)
=============================================================================
