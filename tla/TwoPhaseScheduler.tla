------------------------- MODULE TwoPhaseScheduler -------------------------
(***************************************************************************)
(* TwoPhaseScheduler of parakeet_vllm/scheduling/two_phase_scheduler.py    *)
(* and the asyncio.Semaphore (Python 3.12) it runs on.                     *)
(*                                                                         *)
(* Every request is two tasks on one event loop: the consumer, which is    *)
(* the async generator run() driven by the client's task, and the producer *)
(* task it creates.  An action is what one task does between two           *)
(* suspensions, so the event loop's freedom to interleave tasks is the     *)
(* choice among actions.  The items phase 2 emits are 1, 2, 3, ... and     *)
(* the sentinel object _END_OF_STREAM is 0.                                *)
(***************************************************************************)
EXTENDS Integers, Sequences, FiniteSets

CONSTANTS Requests,        \* the calls of run()
          MaxConcurrency,  \* max_concurrency of the constructor
          MaxItems,        \* bound: items phase 2 emits for a request
          MaxCancels       \* bound: CancelledErrors delivered to a request

\* The constructor raises ValueError unless max_concurrency >= 1.
ASSUME SchedulerAssumption ==
    /\ IsFiniteSet(Requests)
    /\ MaxConcurrency \in Nat \ {0}
    /\ MaxItems \in Nat
    /\ MaxCancels \in Nat

VARIABLES
    consumer,   \* where run() is suspended, or how it ended
    leaving,    \* why run() left its try block: "no", "sentinel", "cancel"
    yielded,    \* the items handed to the client, in order
    cancels,    \* CancelledErrors delivered so far
    producer,   \* where the producer task is suspended
    cancelled,  \* producer_task.cancel() has been called
    failed,     \* error_holder is not empty
    emitted,    \* items phase 2 has emitted
    outputQ,    \* output_q
    value,      \* Semaphore._value
    waiters     \* Semaphore._waiters, oldest first

vars == <<consumer, leaving, yielded, cancels, producer, cancelled, failed,
          emitted, outputQ, value, waiters>>

consumerVars == <<consumer, leaving, yielded, cancels>>
semVars == <<value, waiters>>

EndOfStream == 0

ConsumerStates == {"new", "get", "yield", "joining", "returned", "raised", "gone"}
ProducerStates == {"none", "created", "waiting", "granted", "decoding", "done"}

Finished(r) == consumer[r] \in {"returned", "raised", "gone"}

-----------------------------------------------------------------------------
(***************************************************************************)
(* asyncio.Semaphore.  A waiter is a future in the deque: pending          *)
(* ("waiting"), cancelled ("waiting" and cancelled) or holding a result    *)
(* ("granted") until its task runs and takes itself off the deque.         *)
(***************************************************************************)
Pending(r) == producer[r] = "waiting" /\ ~cancelled[r]

Ahead(p, q) == \E i, j \in 1..Len(waiters) :
                  i < j /\ waiters[i] = p /\ waiters[j] = q

Locked == \/ value = 0
          \/ \E i \in 1..Len(waiters) :
                ~(producer[waiters[i]] = "waiting" /\ cancelled[waiters[i]])

MinOf(a, b) == IF a < b THEN a ELSE b

\* Mutant: the newest waiters are woken.
WokenNewest(n) ==
    LET Pend == {q \in Requests : Pending(q)}
    IN  {W \in SUBSET Pend :
            /\ Cardinality(W) = MinOf(n, Cardinality(Pend))
            /\ \A q \in W, p \in Pend \ W : ~Ahead(q, p)}

\* The pending waiters that up to n calls of _wake_up_next wake: the oldest.
WokenSets(n) ==
    LET Pend == {q \in Requests : Pending(q)}
    IN  {W \in SUBSET Pend :
            /\ Cardinality(W) = MinOf(n, Cardinality(Pend))
            /\ \A q \in W, p \in Pend \ W : ~Ahead(p, q)}

\* The producer of r moves to state s and up to n waiters other than r are
\* woken, of the v free slots there are then.
MoveAndWake(r, s, v, n) ==
    \E W \in WokenSets(n) :
        /\ producer' = [q \in Requests |-> IF q = r THEN s
                                           ELSE IF q \in W THEN "granted"
                                           ELSE producer[q]]
        /\ value' = v - Cardinality(W)

\* release(): one more free slot, one waiter woken.
Release(r) == MoveAndWake(r, "done", value + 1, 1)

Unqueue(r) ==
    LET i == CHOOSE k \in 1..Len(waiters) : waiters[k] = r
    IN  SubSeq(waiters, 1, i - 1) \o SubSeq(waiters, i + 1, Len(waiters))

-----------------------------------------------------------------------------
Init ==
    /\ consumer  = [r \in Requests |-> "new"]
    /\ leaving   = [r \in Requests |-> "no"]
    /\ yielded   = [r \in Requests |-> <<>>]
    /\ cancels   = [r \in Requests |-> 0]
    /\ producer  = [r \in Requests |-> "none"]
    /\ cancelled = [r \in Requests |-> FALSE]
    /\ failed    = [r \in Requests |-> FALSE]
    /\ emitted   = [r \in Requests |-> 0]
    /\ outputQ   = [r \in Requests |-> <<>>]
    /\ value     = MaxConcurrency
    /\ waiters   = <<>>

(***************************************************************************)
(* The consumer.                                                           *)
(***************************************************************************)
\* First __anext__: phase 1 succeeds, the producer task is created and
\* run() suspends in output_q.get().
Start(r) ==
    /\ consumer[r] = "new"
    /\ consumer' = [consumer EXCEPT ![r] = "get"]
    /\ producer' = [producer EXCEPT ![r] = "created"]
    /\ UNCHANGED <<leaving, yielded, cancels, cancelled, failed, emitted,
                   outputQ, semVars>>

\* First __anext__: phase1_fn raises, nothing was created.
PhaseOneRaises(r) ==
    /\ consumer[r] = "new"
    /\ consumer' = [consumer EXCEPT ![r] = "raised"]
    /\ UNCHANGED <<leaving, yielded, cancels, producer, cancelled, failed,
                   emitted, outputQ, semVars>>

\* Mutant: the finally block forgets producer_task.cancel().
LeaveTryWithoutCancel(r, why) ==
    /\ consumer' = [consumer EXCEPT ![r] = "joining"]
    /\ leaving' = [leaving EXCEPT ![r] = why]
    /\ UNCHANGED cancelled

\* The finally block up to its await: cancel the producer unless it is done.
LeaveTry(r, why) ==
    /\ consumer' = [consumer EXCEPT ![r] = "joining"]
    /\ leaving' = [leaving EXCEPT ![r] = why]
    /\ cancelled' = [cancelled EXCEPT ![r] = producer[r] # "done"]

GetItem(r) ==
    /\ consumer[r] = "get"
    /\ outputQ[r] # <<>>
    /\ outputQ' = [outputQ EXCEPT ![r] = Tail(@)]
    /\ \/ /\ Head(outputQ[r]) = EndOfStream
          /\ LeaveTry(r, "sentinel")
          /\ UNCHANGED yielded
       \/ /\ Head(outputQ[r]) # EndOfStream
          /\ consumer' = [consumer EXCEPT ![r] = "yield"]
          /\ yielded' = [yielded EXCEPT ![r] = Append(@, Head(outputQ[r]))]
          /\ UNCHANGED <<leaving, cancelled>>
    /\ UNCHANGED <<cancels, producer, failed, emitted, semVars>>

\* The client asks for the next item.
ClientNext(r) ==
    /\ consumer[r] = "yield"
    /\ consumer' = [consumer EXCEPT ![r] = "get"]
    /\ UNCHANGED <<leaving, yielded, cancels, producer, cancelled, failed,
                   emitted, outputQ, semVars>>

\* The client leaves its loop: aclose() raises GeneratorExit at the yield.
ClientCloses(r) ==
    /\ consumer[r] = "yield"
    /\ LeaveTry(r, "cancel")
    /\ UNCHANGED <<yielded, cancels, producer, failed, emitted, outputQ, semVars>>

\* The client's task is cancelled while run() is suspended: in get() the
\* finally block runs; in the finally block itself shield() raises at once.
CancelClient(r) ==
    /\ cancels[r] < MaxCancels
    /\ cancels' = [cancels EXCEPT ![r] = @ + 1]
    /\ \/ /\ consumer[r] = "get"
          /\ LeaveTry(r, "cancel")
       \/ /\ consumer[r] = "joining"
          /\ consumer' = [consumer EXCEPT ![r] = "gone"]
          /\ UNCHANGED <<leaving, cancelled>>
    /\ UNCHANGED <<yielded, producer, failed, emitted, outputQ, semVars>>

\* Mutant: error_holder is never looked at.
JoinedIgnoringError(r) ==
    /\ consumer[r] = "joining"
    /\ producer[r] = "done"
    /\ consumer' = [consumer EXCEPT ![r] =
                        IF leaving[r] = "cancel" THEN "gone" ELSE "returned"]
    /\ UNCHANGED <<leaving, yielded, cancels, producer, cancelled, failed,
                   emitted, outputQ, semVars>>

\* The shielded gather completes: the generator returns, raises the stored
\* error, or lets the exception that closed it go on.
Joined(r) ==
    /\ consumer[r] = "joining"
    /\ producer[r] = "done"
    /\ consumer' = [consumer EXCEPT ![r] =
                        IF leaving[r] = "cancel" THEN "gone"
                        ELSE IF failed[r] THEN "raised" ELSE "returned"]
    /\ UNCHANGED <<leaving, yielded, cancels, producer, cancelled, failed,
                   emitted, outputQ, semVars>>

-----------------------------------------------------------------------------
(***************************************************************************)
(* The producer task.                                                      *)
(***************************************************************************)
\* Mutant: phase 2 runs outside the semaphore.
ProducerStartsUnbounded(r) ==
    /\ producer[r] = "created"
    /\ ~cancelled[r]
    /\ producer' = [producer EXCEPT ![r] = "decoding"]
    /\ UNCHANGED <<consumerVars, cancelled, failed, emitted, outputQ, semVars>>

\* First step, nobody cancelled it: acquire() takes a slot or queues.
ProducerStarts(r) ==
    /\ producer[r] = "created"
    /\ ~cancelled[r]
    /\ \/ /\ ~Locked
          /\ value' = value - 1
          /\ producer' = [producer EXCEPT ![r] = "decoding"]
          /\ UNCHANGED waiters
       \/ /\ Locked
          /\ producer' = [producer EXCEPT ![r] = "waiting"]
          /\ waiters' = Append(waiters, r)
          /\ UNCHANGED value
    /\ UNCHANGED <<consumerVars, cancelled, failed, emitted, outputQ>>

\* The task was cancelled before its first step: its body never runs.
ProducerNeverStarts(r) ==
    /\ producer[r] = "created"
    /\ cancelled[r]
    /\ producer' = [producer EXCEPT ![r] = "done"]
    /\ UNCHANGED <<consumerVars, cancelled, failed, emitted, outputQ, semVars>>

\* acquire() resumes with the slot it was granted and wakes further waiters
\* while slots are free.
AcquireResumes(r) ==
    /\ producer[r] = "granted"
    /\ ~cancelled[r]
    /\ waiters' = Unqueue(r)
    /\ MoveAndWake(r, "decoding", value, value)
    /\ UNCHANGED <<consumerVars, cancelled, failed, emitted, outputQ>>

\* Mutant: a cancelled waiter puts its slot back and wakes nobody.
AcquireCancelledSilently(r) ==
    /\ producer[r] \in {"waiting", "granted"}
    /\ cancelled[r]
    /\ waiters' = Unqueue(r)
    /\ LET free == IF producer[r] = "granted" THEN value + 1 ELSE value
       IN  MoveAndWake(r, "done", free, 0)
    /\ UNCHANGED <<consumerVars, cancelled, failed, emitted, outputQ>>

\* CancelledError inside acquire(): a slot already granted is put back.  The
\* exception leaves _producer before its try block: no sentinel.
AcquireCancelled(r) ==
    /\ producer[r] \in {"waiting", "granted"}
    /\ cancelled[r]
    /\ waiters' = Unqueue(r)
    /\ LET free == IF producer[r] = "granted" THEN value + 1 ELSE value
       IN  MoveAndWake(r, "done", free, free)
    /\ UNCHANGED <<consumerVars, cancelled, failed, emitted, outputQ>>

\* phase2_fn yields one more item; the unbounded put does not suspend.
Emit(r) ==
    /\ producer[r] = "decoding"
    /\ ~cancelled[r]
    /\ emitted[r] < MaxItems
    /\ emitted' = [emitted EXCEPT ![r] = @ + 1]
    /\ outputQ' = [outputQ EXCEPT ![r] = Append(@, emitted[r] + 1)]
    /\ UNCHANGED <<consumerVars, producer, cancelled, failed, semVars>>

\* Mutant: the sentinel is pushed after the loop instead of in a finally
\* block, so not when phase 2 raises.
PhaseTwoEndsMute(r) ==
    /\ producer[r] = "decoding"
    /\ ~cancelled[r]
    /\ \E raises \in BOOLEAN :
          /\ failed' = [failed EXCEPT ![r] = raises]
          /\ outputQ' = IF raises THEN outputQ
                        ELSE [outputQ EXCEPT ![r] = Append(@, EndOfStream)]
    /\ Release(r)
    /\ UNCHANGED <<consumerVars, cancelled, emitted, waiters>>

\* phase2_fn is exhausted or raises: sentinel, release and task end happen
\* without a suspension in between.
PhaseTwoEnds(r) ==
    /\ producer[r] = "decoding"
    /\ ~cancelled[r]
    /\ \E raises \in BOOLEAN : failed' = [failed EXCEPT ![r] = raises]
    /\ outputQ' = [outputQ EXCEPT ![r] = Append(@, EndOfStream)]
    /\ Release(r)
    /\ UNCHANGED <<consumerVars, cancelled, emitted, waiters>>

\* Mutant: the slot is released on the normal path only, not by `async with`.
PhaseTwoCancelledLeaks(r) ==
    /\ producer[r] = "decoding"
    /\ cancelled[r]
    /\ \E raises \in BOOLEAN : failed' = [failed EXCEPT ![r] = raises]
    /\ outputQ' = [outputQ EXCEPT ![r] = Append(@, EndOfStream)]
    /\ producer' = [producer EXCEPT ![r] = "done"]
    /\ UNCHANGED <<consumerVars, cancelled, emitted, semVars>>

\* CancelledError inside phase2_fn: it passes the except clause, or phase 2's
\* own clean-up replaces it by an Exception that is stored.
PhaseTwoCancelled(r) ==
    /\ producer[r] = "decoding"
    /\ cancelled[r]
    /\ \E raises \in BOOLEAN : failed' = [failed EXCEPT ![r] = raises]
    /\ outputQ' = [outputQ EXCEPT ![r] = Append(@, EndOfStream)]
    /\ Release(r)
    /\ UNCHANGED <<consumerVars, cancelled, emitted, waiters>>

-----------------------------------------------------------------------------
ConsumerStep(r) == GetItem(r) \/ Joined(r)

ClientStep(r) == Start(r) \/ PhaseOneRaises(r) \/ ClientNext(r)
                   \/ ClientCloses(r) \/ CancelClient(r)

ProducerStep(r) == \/ ProducerStarts(r) \/ ProducerNeverStarts(r)
                   \/ AcquireResumes(r) \/ AcquireCancelled(r)
                   \/ Emit(r) \/ PhaseTwoEnds(r) \/ PhaseTwoCancelled(r)

\* Every call is over: the loop idles.
AllFinished == /\ \A r \in Requests : Finished(r) /\ producer[r] \in {"none", "done"}
               /\ UNCHANGED vars

Next == (\E r \in Requests : ConsumerStep(r) \/ ClientStep(r) \/ ProducerStep(r))
          \/ AllFinished

Spec == Init /\ [][Next]_vars

\* The event loop runs every ready task.  Nothing obliges a client to start a
\* call, to ask for the next item or to go away.
FairSpec == Spec /\ \A r \in Requests : WF_vars(ConsumerStep(r)) /\ WF_vars(ProducerStep(r))
-----------------------------------------------------------------------------
(***************************************************************************)
(* Properties.                                                             *)
(***************************************************************************)
Items == 0..MaxItems

\* Every variable has its type: the states of the two tasks, queues of items
\* and sentinels, a semaphore value between 0 and max_concurrency.
TypeOK ==
    /\ consumer  \in [Requests -> ConsumerStates]
    /\ leaving   \in [Requests -> {"no", "sentinel", "cancel"}]
    /\ yielded   \in [Requests -> Seq(Items)]
    /\ cancels   \in [Requests -> 0..MaxCancels]
    /\ producer  \in [Requests -> ProducerStates]
    /\ cancelled \in [Requests -> BOOLEAN]
    /\ failed    \in [Requests -> BOOLEAN]
    /\ emitted   \in [Requests -> Items]
    /\ outputQ   \in [Requests -> Seq(Items)]
    /\ value     \in 0..MaxConcurrency
    /\ waiters   \in Seq(Requests)

\* The slots of the semaphore that are in use: by a decoding producer, or
\* promised to a waiter that has not run yet.
InUse == {r \in Requests : producer[r] \in {"decoding", "granted"}}

\* No slot is leaked or forged, whatever is cancelled at whichever point of
\* acquire() or of phase 2: free slots and slots in use add up to
\* max_concurrency.  Hence at most max_concurrency phase-2 decodes at a time.
SlotsConserved == value + Cardinality(InUse) = MaxConcurrency

\* No lost wake-up: when a slot is free and a producer waits for one, a waiter
\* that will pass the slot on has been woken.
NoLostWakeup ==
    (value > 0 /\ \E r \in Requests : Pending(r))
        => \E i \in 1..Len(waiters) : producer[waiters[i]] = "granted"

\* A call that ends while its producer still runs has cancelled it, so it can
\* emit nothing more and gives its slot back at its next step.
OrphanIsCancelled ==
    \A r \in Requests :
        Finished(r) /\ producer[r] \notin {"none", "done"} => cancelled[r]

\* A decode that fails, or is cut short, is never mistaken for a shorter
\* success: run() returns only after it has yielded every item of a phase 2
\* that ended by itself, and raises only after the queue is drained.
NoSilentTruncation ==
    \A r \in Requests :
        /\ consumer[r] = "returned"
             => ~failed[r] /\ ~cancelled[r] /\ Len(yielded[r]) = emitted[r]
        /\ consumer[r] = "raised" /\ producer[r] # "none"
             => failed[r] /\ Len(yielded[r]) = emitted[r]

\* Slots go out in arrival order: while a producer waits, uncancelled, no slot
\* goes to a waiter behind it or to a producer that was not queued at all.
GrantsInOrder ==
    [][\A p, q \in Requests :
          Pending(p) /\ producer'[p] = "waiting"
              => /\ Ahead(p, q) /\ Pending(q) => producer'[q] # "granted"
                 /\ producer[q] = "created" => producer'[q] # "decoding"]_vars

\* Every producer gets its turn and ends, even if clients stop iterating: a
\* slow or absent client never pins a slot, because the queue is unbounded.
EveryProducerEnds ==
    \A r \in Requests : producer[r] = "created" ~> producer[r] = "done"

\* No call hangs: output_q.get() and the join in the finally block are always
\* answered, whatever becomes of the producer, even if other clients are idle.
EveryWaitEnds ==
    \A r \in Requests : consumer[r] \in {"get", "joining"}
                            ~> consumer[r] = "yield" \/ Finished(r)

-----------------------------------------------------------------------------
(***************************************************************************)
(* The abstract promise.  A producer that waits, or was promised a slot,   *)
(* is queued; one that was cancelled before its end is withdrawn.          *)
(***************************************************************************)
PhaseOf(r) ==
    CASE producer[r] = "none" -> "idle"
      [] producer[r] \in {"created", "waiting", "granted"} -> "queued"
      [] producer[r] = "decoding" -> "running"
      [] producer[r] = "done" -> IF cancelled[r] THEN "withdrawn"
                                 ELSE IF failed[r] THEN "failed" ELSE "complete"

ReaderOf(r) ==
    CASE consumer[r] \in {"new", "get", "yield"} -> "open"
      [] consumer[r] = "joining" -> IF leaving[r] = "sentinel" THEN "open" ELSE "turned"
      [] consumer[r] = "returned" -> "ok"
      [] consumer[r] = "raised" -> "error"
      [] consumer[r] = "gone" -> "gone"

Promise == INSTANCE BoundedStreams WITH
               phase <- [r \in Requests |-> PhaseOf(r)],
               reader <- [r \in Requests |-> ReaderOf(r)],
               made <- emitted,
               seen <- yielded

\* The scheduler implements BoundedStreams.
KeepsPromise == Promise!Spec
=============================================================================
