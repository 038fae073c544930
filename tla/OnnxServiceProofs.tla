-------------------------- MODULE OnnxServiceProofs ------------------------
(***************************************************************************)
(* The jobs of the inference pool, for any number of requests, pieces and  *)
(* threads.  The argument: a request submits its pieces once, when none of *)
(* them is known yet, and a job goes from the queue to a thread and from   *)
(* there nowhere; a shutdown empties the queue and settles what was in it, *)
(* and nothing is queued after it.  With that, and because a batch has a   *)
(* file, every step of the service is a step of Inference or none.         *)
(***************************************************************************)
EXTENDS OnnxService, FiniteSetTheorems, SequenceTheorems, TLAPS

HandlerStates == {"new", "decoding", "inferring", "refused", "left", "ok", "error", "gone"}
FutureStates == {"none", "pending", "result", "error", "cancelled"}
DecodeStates == {"busy", "done", "failed", "cancelled"}

Types ==
    /\ handler \in [Requests -> HandlerStates]
    /\ future \in [Jobs -> FutureStates]
    /\ queue \in Seq(Jobs)
    /\ running \in SUBSET Jobs
    /\ stop \in {"no", "done"}

\* As many files are being decoded as a batch has.
Files ==
    /\ decode \in [Requests -> Seq(DecodeStates)]
    /\ \A r \in Requests : Len(decode[r]) <= MaxPieces

Queued(j) == \E i \in 1..Len(queue) : queue[i] = j

\* No piece is known before its request submits.
Unsubmitted ==
    \A r \in Requests : handler[r] \in {"new", "decoding"} =>
        \A n \in 1..MaxPieces : future[<<r, n>>] = "none"

\* What is queued or has a thread was submitted, and is in one place.
Placed ==
    /\ \A i \in 1..Len(queue) : future[queue[i]] # "none" /\ queue[i] \notin running
    /\ \A j \in running : future[j] # "none"
    /\ \A i, k \in 1..Len(queue) : queue[i] = queue[k] => i = k

\* What somebody waits for is queued or has a thread.
Held == \A j \in Jobs : future[j] = "pending" => j \in running \/ Queued(j)

Stopped == stop = "done" => queue = <<>>

Jobwise == Unsubmitted /\ Placed /\ Held /\ Stopped

Inv == Types /\ Files /\ Jobwise

-----------------------------------------------------------------------------
\* The argument's invariant holds in the beginning.
LEMMA InvInit == Init => Inv
<1> SUFFICES ASSUME Init PROVE Inv
  OBVIOUS
<1> USE ServiceAssumption DEF Init
<1>1. Types
  BY DEF Types, HandlerStates, FutureStates
<1>2. Files
  BY DEF Files
<1>3. Unsubmitted
  BY DEF Unsubmitted, Jobs
<1>4. Placed /\ Held /\ Stopped
  BY DEF Placed, Held, Stopped, Queued
<1> QED BY <1>1, <1>2, <1>3, <1>4 DEF Inv, Jobwise

\* Files are decoded one by one, and their number does not change.
LEMMA FilesStep == Files /\ [Next]_vars => Files'
<1> SUFFICES ASSUME Files, [Next]_vars PROVE Files'
  OBVIOUS
<1> USE ServiceAssumption DEF Files, DecodeStates
<1>1. ASSUME NEW r \in Requests, TranscribeBatch(r) PROVE Files'
  <2>1. PICK n \in 1..MaxPieces : decode' = [decode EXCEPT ![r] = [f \in 1..n |-> "busy"]]
    BY <1>1 DEF TranscribeBatch
  <2>2. [f \in 1..n |-> "busy"] \in Seq(DecodeStates) /\ Len([f \in 1..n |-> "busy"]) = n
    OBVIOUS
  <2> QED BY <2>1, <2>2
<1>2. ASSUME NEW r \in Requests, NEW f \in DOMAIN decode[r], DecodeEnds(r, f) PROVE Files'
  <2>1. PICK end \in {"done", "failed"} : decode' = [decode EXCEPT ![r][f] = end]
    BY <1>2 DEF DecodeEnds
  <2>2. decode[r] \in Seq(DecodeStates) /\ f \in 1..Len(decode[r])
    OBVIOUS
  <2>3. [decode[r] EXCEPT ![f] = end] \in Seq(DecodeStates)
        /\ Len([decode[r] EXCEPT ![f] = end]) = Len(decode[r])
    BY <2>2
  <2> QED BY <2>1, <2>3
<1>3. ASSUME NEW r \in Requests, DecodeRaises(r) \/ ClientGoes(r) PROVE Files'
  <2>1. CASE decode' = decode
    BY <2>1
  <2>2. CASE decode' = [decode EXCEPT ![r] = <<>>]
    <3>1. ASSUME NEW q \in Requests
          PROVE  decode'[q] \in Seq(DecodeStates) /\ Len(decode'[q]) <= MaxPieces
      <4>1. CASE q = r
        <5>1. decode'[q] = <<>>
          BY <2>2, <4>1
        <5>2. Len(decode'[q]) = 0 /\ 0 <= MaxPieces
          BY <5>1
        <5> QED BY <5>1, <5>2
      <4>2. CASE q # r
        BY <2>2, <4>2
      <4> QED BY <4>1, <4>2
    <3>2. decode' = [q \in Requests |-> decode'[q]]
      BY <2>2
    <3> QED BY <3>1, <3>2
  <2> QED BY <1>3, <2>1, <2>2 DEF DecodeRaises, ClientGoes
<1>4. CASE Shutdown
  <2>1. PICK idle \in SUBSET Decoding :
           decode' = [r \in Requests |-> [f \in DOMAIN decode[r] |->
               IF <<r, f>> \in idle THEN "cancelled" ELSE decode[r][f]]]
    BY <1>4 DEF Shutdown
  <2>2. ASSUME NEW r \in Requests
        PROVE decode'[r] \in Seq(DecodeStates) /\ Len(decode'[r]) = Len(decode[r])
    <3>1. decode[r] \in Seq(DecodeStates) /\ DOMAIN decode[r] = 1..Len(decode[r])
      OBVIOUS
    <3>2. decode'[r] = [f \in 1..Len(decode[r]) |->
                           IF <<r, f>> \in idle THEN "cancelled" ELSE decode[r][f]]
      BY <2>1, <3>1
    <3> QED BY <3>1, <3>2
  <2>3. decode' = [r \in Requests |-> decode'[r]]
    BY <2>1
  <2> QED BY <2>2, <2>3
<1>5. ASSUME NEW r \in Requests, Refuse(r) \/ Transcribe(r) \/ Decoded(r) \/ Respond(r) \/ RespondError(r)
      PROVE Files'
  BY <1>5 DEF Refuse, Transcribe, Decoded, Respond, RespondError
<1>6. CASE ThreadStep
  BY <1>6 DEF ThreadStep, Take, RecognizeEnds
<1>7. CASE UNCHANGED vars
  BY <1>7 DEF vars
<1> QED BY <1>1, <1>2, <1>3, <1>4, <1>5, <1>6, <1>7 DEF Next, Arrive, Handle, Idle

\* submit_many() queues pieces that nobody knew, behind what is queued.
LEMMA SubmitStep ==
    ASSUME Types, Jobwise, NEW r \in Requests, handler[r] \in {"new", "decoding"},
           NEW n \in 0..MaxPieces, SubmitMany(r, n), UNCHANGED <<running, stop>>
    PROVE  Types' /\ Jobwise'
<1> USE ServiceAssumption
<1> DEFINE new == [i \in 1..n |-> <<r, i>>]
           L == Len(queue)
<1>1. new \in Seq(Jobs) /\ Len(new) = n /\ n \in Nat /\ L \in Nat
  BY DEF Jobs, Types
<1>2. /\ queue' \in Seq(Jobs) /\ Len(queue') = L + n
      /\ \A i \in 1..L : queue'[i] = queue[i]
      /\ \A i \in L + 1..L + n : queue'[i] = <<r, i - L>>
  BY <1>1 DEF SubmitMany, Types
<1>3. future' = [j \in Jobs |-> IF j[1] = r /\ j[2] <= n THEN "pending" ELSE future[j]]
  BY DEF SubmitMany
<1>4. handler' = [handler EXCEPT ![r] = "inferring"]
  BY DEF SubmitMany, Goes
<1>5. Types'
  BY <1>2, <1>3, <1>4 DEF Types, HandlerStates, FutureStates
<1>6. \A i \in 1..n : <<r, i>> \in Jobs /\ future[<<r, i>>] = "none"
                      /\ future'[<<r, i>>] = "pending"
  BY <1>3 DEF Jobs, Jobwise, Unsubmitted
<1>7. \A j \in Jobs : future[j] # "none" => future'[j] = future[j]
  <2> SUFFICES ASSUME NEW j \in Jobs, future[j] # "none" PROVE ~(j[1] = r /\ j[2] <= n)
    BY <1>3
  <2>1. j = <<j[1], j[2]>> /\ j[2] \in 1..MaxPieces
    BY DEF Jobs
  <2> QED BY <1>6, <2>1
<1>8. Unsubmitted'
  <2> SUFFICES ASSUME NEW q \in Requests, handler'[q] \in {"new", "decoding"},
                      NEW m \in 1..MaxPieces
               PROVE  future'[<<q, m>>] = "none"
    BY DEF Unsubmitted
  <2>1. q # r /\ handler[q] \in {"new", "decoding"}
    BY <1>4 DEF Types
  <2>2. <<q, m>> \in Jobs /\ future[<<q, m>>] = "none"
    BY <2>1 DEF Jobs, Jobwise, Unsubmitted
  <2> QED BY <1>3, <2>1, <2>2
<1>9. \A i \in 1..L : queue[i] \in Jobs /\ future[queue[i]] # "none" /\ queue[i] \notin running
  BY <1>1 DEF Types, Jobwise, Placed
<1>10. \A i \in 1..Len(queue') : future'[queue'[i]] # "none" /\ queue'[i] \notin running'
  <2> SUFFICES ASSUME NEW i \in 1..Len(queue')
               PROVE  future'[queue'[i]] # "none" /\ queue'[i] \notin running
    OBVIOUS
  <2>1. CASE i \in 1..L
    BY <2>1, <1>2, <1>7, <1>9
  <2>2. CASE i \in L + 1..L + n
    <3>1. i - L \in 1..n /\ queue'[i] = <<r, i - L>>
      BY <2>2, <1>1, <1>2
    <3>2. \A j \in running : future[j] # "none"
      BY DEF Jobwise, Placed
    <3> QED BY <3>1, <3>2, <1>6
  <2> QED BY <2>1, <2>2, <1>1, <1>2
<1>11. \A i, k \in 1..Len(queue') : queue'[i] = queue'[k] => i = k
  <2> SUFFICES ASSUME NEW i \in 1..Len(queue'), NEW k \in 1..Len(queue'),
                      queue'[i] = queue'[k]
               PROVE  i = k
    OBVIOUS
  <2>1. CASE i \in 1..L /\ k \in 1..L
    BY <2>1, <1>2 DEF Jobwise, Placed
  <2>2. CASE i \in 1..L /\ k \in L + 1..L + n
    <3>1. k - L \in 1..n /\ queue'[k] = <<r, k - L>> /\ queue'[i] = queue[i]
      BY <2>2, <1>1, <1>2
    <3> QED BY <3>1, <2>2, <1>6, <1>9
  <2>3. CASE i \in L + 1..L + n /\ k \in 1..L
    <3>1. queue'[i] = <<r, i - L>> /\ queue'[k] = queue[k]
      BY <2>3, <1>2
    <3>2. i - L \in 1..n
      BY <2>3, <1>1
    <3>3. future[queue'[i]] = "none"
      BY <3>1, <3>2, <1>6
    <3>4. future[queue'[k]] # "none"
      BY <3>1, <2>3, <1>9
    <3> QED BY <3>3, <3>4
  <2>4. CASE i \in L + 1..L + n /\ k \in L + 1..L + n
    <3>1. <<r, i - L>> = <<r, k - L>>
      BY <2>4, <1>2
    <3> QED BY <3>1, <1>1, <2>4
  <2> QED BY <2>1, <2>2, <2>3, <2>4, <1>1, <1>2
<1>12. \A j \in running : future'[j] # "none"
  BY <1>7 DEF Jobwise, Placed, Types
<1>13. Placed'
  BY <1>10, <1>11, <1>12 DEF Placed
<1>14. Held'
  <2> SUFFICES ASSUME NEW j \in Jobs, future'[j] = "pending"
               PROVE  j \in running \/ \E i \in 1..Len(queue') : queue'[i] = j
    BY DEF Held, Queued
  <2>1. CASE j[1] = r /\ j[2] <= n
    <3>1. j = <<r, j[2]>> /\ j[2] \in 1..n
      BY <2>1, <1>1 DEF Jobs
    <3>2. \A m \in 1..n : /\ L + m \in L + 1..L + n /\ L + m \in 1..L + n
                         /\ (L + m) - L = m
      BY <1>1
    <3>3. L + j[2] \in 1..Len(queue') /\ queue'[L + j[2]] = <<r, j[2]>>
      BY <3>1, <3>2, <1>2
    <3> QED BY <3>1, <3>3
  <2>2. CASE ~(j[1] = r /\ j[2] <= n)
    <3>1. future[j] = "pending"
      BY <2>2, <1>3
    <3>2. CASE j \in running
      BY <3>2
    <3>3. CASE Queued(j)
      <4>1. PICK i \in 1..L : queue[i] = j
        BY <3>3 DEF Queued
      <4> QED BY <4>1, <1>1, <1>2
    <3> QED BY <3>1, <3>2, <3>3 DEF Jobwise, Held
  <2> QED BY <2>1, <2>2
<1>15. Stopped'
  BY DEF SubmitMany, Stopped
<1> QED BY <1>5, <1>8, <1>13, <1>14, <1>15 DEF Jobwise

\* Steps that leave the jobs alone.
LEMMA JobsAlone ==
    ASSUME Types, Jobwise, handler' \in [Requests -> HandlerStates],
           UNCHANGED <<future, queue, running, stop>>,
           \A q \in Requests : handler'[q] \in {"new", "decoding"}
                                   => handler[q] \in {"new", "decoding"}
    PROVE  Types' /\ Jobwise'
<1>1. Types'
  BY DEF Types
<1>2. Unsubmitted'
  BY DEF Jobwise, Unsubmitted
<1>3. Placed' /\ Held' /\ Stopped'
  BY DEF Jobwise, Placed, Held, Stopped, Queued
<1> QED BY <1>1, <1>2, <1>3 DEF Jobwise

\* The handlers' steps.
LEMMA HandlerStep ==
    ASSUME Types, Files, Jobwise, NEW r \in Requests,
           \/ Arrive(r) \/ Handle(r)
           \/ \E f \in DOMAIN decode[r] : DecodeEnds(r, f)
    PROVE  Types' /\ Jobwise'
<1> USE DEF Goes
<1>h. handler \in [Requests -> HandlerStates]
  BY DEF Types
<1>1. CASE Refuse(r) \/ TranscribeBatch(r) \/ DecodeRaises(r) \/ Respond(r) \/ RespondError(r)
  <2>1. \E where \in {"refused", "decoding", "ok", "error"} :
            /\ handler' = [handler EXCEPT ![r] = where]
            /\ where = "decoding" => handler[r] = "new"
    BY <1>1 DEF Refuse, TranscribeBatch, DecodeRaises, Respond, RespondError
  <2>2. UNCHANGED <<future, queue, running, stop>>
    BY <1>1 DEF Refuse, TranscribeBatch, DecodeRaises, Respond, RespondError
  <2>3. handler' \in [Requests -> HandlerStates]
    BY <2>1, <1>h DEF HandlerStates
  <2>4. \A q \in Requests : handler'[q] \in {"new", "decoding"}
                                => handler[q] \in {"new", "decoding"}
    BY <2>1, <1>h
  <2> QED BY <2>2, <2>3, <2>4, JobsAlone
<1>2. CASE \E f \in DOMAIN decode[r] : DecodeEnds(r, f)
  <2>1. UNCHANGED <<handler, future, queue, running, stop>>
    BY <1>2 DEF DecodeEnds
  <2> QED BY <2>1, <1>h, JobsAlone
<1>3. ASSUME SubmitRaises(r), UNCHANGED <<running, stop>> PROVE Types' /\ Jobwise'
  <2>1. handler' = [handler EXCEPT ![r] = "error"] /\ UNCHANGED <<future, queue>>
    BY <1>3 DEF SubmitRaises
  <2>2. handler' \in [Requests -> HandlerStates]
    BY <2>1, <1>h DEF HandlerStates
  <2>3. \A q \in Requests : handler'[q] \in {"new", "decoding"}
                                => handler[q] \in {"new", "decoding"}
    BY <2>1, <1>h
  <2> QED BY <1>3, <2>1, <2>2, <2>3, JobsAlone
<1>4. CASE Transcribe(r)
  <2>1. CASE SubmitRaises(r)
    BY <1>3, <1>4, <2>1 DEF Transcribe
  <2>2. ASSUME NEW n \in 1..MaxPieces, SubmitMany(r, n) PROVE Types' /\ Jobwise'
    <3>1. n \in 0..MaxPieces /\ handler[r] = "new" /\ UNCHANGED <<running, stop>>
      BY <1>4, ServiceAssumption DEF Transcribe
    <3> QED BY <2>2, <3>1, SubmitStep
  <2> QED BY <1>4, <2>1, <2>2 DEF Transcribe
<1>5. CASE Decoded(r)
  <2>1. CASE SubmitRaises(r)
    BY <1>3, <1>5, <2>1 DEF Decoded
  <2>2. CASE SubmitMany(r, Len(decode[r]))
    <3>1. Len(decode[r]) \in 0..MaxPieces
      BY ServiceAssumption DEF Files
    <3>2. handler[r] = "decoding" /\ UNCHANGED <<running, stop>>
      BY <1>5 DEF Decoded
    <3> QED BY <2>2, <3>1, <3>2, SubmitStep
  <2> QED BY <1>5, <2>1, <2>2 DEF Decoded
<1> QED BY <1>1, <1>2, <1>4, <1>5 DEF Arrive, Handle

\* A client that leaves takes its jobs' futures with it, not the jobs.
LEMMA ClientStep ==
    ASSUME Types, Jobwise, NEW r \in Requests, ClientGoes(r)
    PROVE  Types' /\ Jobwise'
<1>h. handler \in [Requests -> HandlerStates] /\ future \in [Jobs -> FutureStates]
  BY DEF Types
<1>1. CASE UNCHANGED future
  <2>1. \E where \in {"left", "gone"} : handler' = [handler EXCEPT ![r] = where]
    BY DEF ClientGoes, Goes
  <2>2. handler' \in [Requests -> HandlerStates]
    BY <2>1, <1>h DEF HandlerStates
  <2>3. \A q \in Requests : handler'[q] \in {"new", "decoding"}
                                => handler[q] \in {"new", "decoding"}
    BY <2>1, <1>h
  <2> QED BY <1>1, <2>2, <2>3, JobsAlone DEF ClientGoes
<1>2. CASE /\ handler' = [handler EXCEPT ![r] = "gone"]
           /\ future' = [j \in Jobs |-> IF j[1] = r /\ future[j] = "pending"
                                        THEN "cancelled" ELSE future[j]]
  <2>1. UNCHANGED <<queue, running, stop>>
    BY DEF ClientGoes
  <2>2. \A j \in Jobs : /\ future'[j] = "none" <=> future[j] = "none"
                        /\ future'[j] = "pending" => future[j] = "pending"
    BY <1>2
  <2>3. Types'
    BY <1>2, <1>h, <2>1 DEF Types, HandlerStates, FutureStates
  <2>4. Unsubmitted'
    BY <1>2, <1>h, <2>2 DEF Jobwise, Unsubmitted, Jobs
  <2>5. \A i \in 1..Len(queue) : queue[i] \in Jobs
    BY DEF Types
  <2>6. Placed'
    BY <2>1, <2>2, <2>5 DEF Jobwise, Placed, Types
  <2>7. Held' /\ Stopped'
    BY <2>1, <2>2 DEF Jobwise, Held, Stopped, Queued
  <2> QED BY <2>3, <2>4, <2>6, <2>7 DEF Jobwise
<1> QED BY <1>1, <1>2 DEF ClientGoes, Goes

\* A thread takes the head of the queue, or skips it when nobody waits for it.
LEMMA TakeStep == ASSUME Types, Jobwise, Take PROVE Types' /\ Jobwise'
<1> DEFINE j == Head(queue)
<1>1. queue # <<>> /\ queue \in Seq(Jobs) /\ Len(queue) \in Nat
  BY DEF Take, Types
<1>2. j = queue[1] /\ j \in Jobs /\ 1 \in 1..Len(queue)
  BY <1>1
<1>3. /\ queue' \in Seq(Jobs) /\ Len(queue') = Len(queue) - 1
      /\ \A i \in 1..Len(queue') : i + 1 \in 1..Len(queue) /\ queue'[i] = queue[i + 1]
  BY <1>1 DEF Take
<1>4. running' = IF future[j] = "pending" THEN running \cup {j} ELSE running
  BY DEF Take
<1>5. UNCHANGED <<handler, future, stop>>
  BY DEF Take
<1> HIDE DEF j
<1>6. Types'
  BY <1>2, <1>3, <1>4, <1>5 DEF Types
<1>7. Unsubmitted' /\ Stopped'
  <2>1. stop # "done"
    BY <1>1 DEF Jobwise, Stopped
  <2> QED BY <1>5, <2>1 DEF Jobwise, Unsubmitted, Stopped
<1>8. \A i \in 1..Len(queue') : queue'[i] # j
  BY <1>2, <1>3 DEF Jobwise, Placed
<1>9. Placed'
  <2>1. \A i \in 1..Len(queue') : future'[queue'[i]] # "none" /\ queue'[i] \notin running'
    BY <1>3, <1>4, <1>5, <1>8 DEF Jobwise, Placed
  <2>2. \A k \in running' : future'[k] # "none"
    BY <1>4, <1>5 DEF Jobwise, Placed
  <2>3. \A i, k \in 1..Len(queue') : queue'[i] = queue'[k] => i = k
    BY <1>3 DEF Jobwise, Placed
  <2> QED BY <2>1, <2>2, <2>3 DEF Placed
<1>10. Held'
  <2> SUFFICES ASSUME NEW k \in Jobs, future[k] = "pending"
               PROVE  k \in running' \/ \E i \in 1..Len(queue') : queue'[i] = k
    BY <1>5 DEF Held, Queued
  <2>1. CASE k \in running \/ k = j
    BY <2>1, <1>4
  <2>2. CASE k \notin running /\ k # j
    <3>1. PICK i \in 1..Len(queue) : queue[i] = k
      BY <2>2 DEF Jobwise, Held, Queued
    <3>2. i # 1
      BY <2>2, <3>1, <1>2
    <3>3. i - 1 \in 1..Len(queue') /\ (i - 1) + 1 = i
      BY <3>2, <1>1, <1>3
    <3> QED BY <3>1, <3>3, <1>3
  <2> QED BY <2>1, <2>2
<1> QED BY <1>6, <1>7, <1>9, <1>10 DEF Jobwise

\* A thread that is done settles the job unless its request is over.
LEMMA RecognizeStep ==
    ASSUME Types, Jobwise, NEW j \in Jobs, RecognizeEnds(j)
    PROVE  Types' /\ Jobwise'
<1>1. PICK end \in {"result", "error"} :
          future' = [future EXCEPT ![j] = IF @ = "pending" THEN end ELSE @]
  BY DEF RecognizeEnds
<1>2. j \in running /\ running' = running \ {j} /\ UNCHANGED <<handler, queue, stop>>
  BY DEF RecognizeEnds
<1>3. future \in [Jobs -> FutureStates]
  BY DEF Types
<1>4. \A k \in Jobs : /\ future'[k] = "none" <=> future[k] = "none"
                      /\ future'[k] = "pending" => future[k] = "pending" /\ k # j
  BY <1>1, <1>3
<1>5. Types'
  BY <1>1, <1>2 DEF Types, FutureStates
<1>6. \A i \in 1..Len(queue) : queue[i] \in Jobs
  BY DEF Types
<1>7. Unsubmitted'
  BY <1>2, <1>4 DEF Jobwise, Unsubmitted, Jobs
<1>8. Placed'
  BY <1>2, <1>4, <1>6 DEF Jobwise, Placed, Types
<1>9. Held' /\ Stopped'
  BY <1>2, <1>4 DEF Jobwise, Held, Stopped, Queued
<1> QED BY <1>5, <1>7, <1>8, <1>9 DEF Jobwise

\* A shutdown empties the queue and cancels what was in it.
LEMMA ShutdownStep == ASSUME Types, Jobwise, Shutdown PROVE Types' /\ Jobwise'
<1>1. /\ stop' = "done" /\ queue' = <<>> /\ UNCHANGED <<handler, running>>
      /\ future' = [j \in Jobs |-> IF future[j] = "pending" /\ j \notin running
                                   THEN "cancelled" ELSE future[j]]
  BY DEF Shutdown
<1>2. \A j \in Jobs : /\ future'[j] = "none" <=> future[j] = "none"
                      /\ future'[j] = "pending" => j \in running
  BY <1>1
<1>3. Types'
  BY <1>1 DEF Types, FutureStates
<1>4. Unsubmitted'
  BY <1>1, <1>2 DEF Jobwise, Unsubmitted, Jobs
<1>5. Placed'
  BY <1>1, <1>2 DEF Jobwise, Placed, Types
<1>6. Held' /\ Stopped'
  BY <1>1, <1>2 DEF Held, Stopped, Queued
<1> QED BY <1>3, <1>4, <1>5, <1>6 DEF Jobwise

\* The invariant holds in every state.
LEMMA InvAlways == Spec => []Inv
<1>1. Inv /\ [Next]_vars => Inv'
  <2> SUFFICES ASSUME Inv, [Next]_vars PROVE Inv'
    OBVIOUS
  <2> USE DEF Inv
  <2>1. Files'
    BY FilesStep
  <2>2. Types' /\ Jobwise'
    <3>1. CASE UNCHANGED vars
      <4>1. UNCHANGED <<handler, future, queue, running, stop>>
        BY <3>1 DEF vars
      <4> QED BY <4>1, JobsAlone DEF Types
    <3>2. ASSUME NEW r \in Requests, ClientGoes(r) PROVE Types' /\ Jobwise'
      BY <3>2, ClientStep
    <3>3. CASE Next
      BY <3>1, <3>2, <3>3, HandlerStep, TakeStep, RecognizeStep, ShutdownStep
         DEF Next, ThreadStep, Idle
    <3> QED BY <3>1, <3>3
  <2> QED BY <2>1, <2>2
<1> QED BY <1>1, InvInit, PTL DEF Spec

-----------------------------------------------------------------------------
\* No job that somebody waits for is lost or given to two threads, and nothing
\* begins after a shutdown.
THEOREM NoJobIsLost == Spec => []JobsHeld
<1>1. Inv => JobsHeld
  <2> SUFFICES ASSUME Inv PROVE JobsHeld
    OBVIOUS
  <2> USE DEF Inv, Jobwise
  <2>1. ASSUME NEW j \in Jobs, future[j] = "pending", j \in running
        PROVE  Cardinality(InQueue(j)) = 0
    <3>1. InQueue(j) = {}
      BY <2>1 DEF InQueue, Placed
    <3> QED BY <3>1, FS_EmptySet
  <2>2. ASSUME NEW j \in Jobs, future[j] = "pending", j \notin running
        PROVE  Cardinality(InQueue(j)) = 1
    <3>1. PICK i \in 1..Len(queue) : queue[i] = j
      BY <2>2 DEF Held, Queued
    <3>2. InQueue(j) = {i}
      BY <3>1 DEF InQueue, Placed
    <3> QED BY <3>2, FS_Singleton
  <2> QED BY <2>1, <2>2 DEF JobsHeld, Stopped
<1> QED BY <1>1, InvAlways, PTL

-----------------------------------------------------------------------------
(***************************************************************************)
(* The service's steps are those that Inference allows.                    *)
(***************************************************************************)
\* A batch that is being decoded has a file.
NonEmpty == \A r \in Requests : handler[r] = "decoding" => Len(decode[r]) # 0

LEMMA NonEmptyStep == Types /\ Files /\ NonEmpty /\ [Next]_vars => NonEmpty'
<1> SUFFICES ASSUME Types, Files, NonEmpty, [Next]_vars, NEW q \in Requests,
                    handler'[q] = "decoding"
             PROVE  Len(decode'[q]) # 0
  BY DEF NonEmpty
<1> USE ServiceAssumption DEF Goes
<1>t. /\ handler \in [Requests -> HandlerStates] /\ decode \in [Requests -> Seq(DecodeStates)]
      /\ handler[q] = "decoding" => Len(decode[q]) # 0
  BY DEF Types, Files, NonEmpty
<1>1. ASSUME NEW r \in Requests, TranscribeBatch(r) PROVE Len(decode'[q]) # 0
  <2>1. PICK n \in 1..MaxPieces : decode' = [decode EXCEPT ![r] = [f \in 1..n |-> "busy"]]
    BY <1>1 DEF TranscribeBatch
  <2>2. n \in Nat /\ n # 0 /\ Len([f \in 1..n |-> "busy"]) = n
    OBVIOUS
  <2>3. CASE q = r
    BY <1>t, <2>1, <2>2, <2>3
  <2>4. CASE q # r
    BY <1>1, <1>t, <2>1, <2>4 DEF TranscribeBatch
  <2> QED BY <2>3, <2>4
<1>2. ASSUME NEW r \in Requests, NEW f \in DOMAIN decode[r], DecodeEnds(r, f)
      PROVE  Len(decode'[q]) # 0
  <2>1. PICK end \in {"done", "failed"} : decode' = [decode EXCEPT ![r][f] = end]
    BY <1>2 DEF DecodeEnds
  <2>2. decode[r] \in Seq(DecodeStates) /\ f \in 1..Len(decode[r]) /\ end \in DecodeStates
    BY <1>t DEF DecodeStates
  <2>3. Len([decode[r] EXCEPT ![f] = end]) = Len(decode[r])
    BY <2>2
  <2>4. handler[q] = "decoding"
    BY <1>2 DEF DecodeEnds
  <2> QED BY <1>t, <2>1, <2>3, <2>4
<1>3. ASSUME NEW r \in Requests, DecodeRaises(r) \/ ClientGoes(r) PROVE Len(decode'[q]) # 0
  <2>1. \E where \in {"refused", "left", "gone"} : handler' = [handler EXCEPT ![r] = where]
    BY <1>3 DEF DecodeRaises, ClientGoes
  <2>2. q # r /\ handler[q] = "decoding"
    BY <1>t, <2>1
  <2>3. decode' = decode \/ decode' = [decode EXCEPT ![r] = <<>>]
    BY <1>3 DEF DecodeRaises, ClientGoes
  <2> QED BY <1>t, <2>2, <2>3
<1>4. CASE Shutdown
  <2>1. PICK idle \in SUBSET Decoding :
           decode' = [r \in Requests |-> [f \in DOMAIN decode[r] |->
               IF <<r, f>> \in idle THEN "cancelled" ELSE decode[r][f]]]
    BY <1>4 DEF Shutdown
  <2>2. Len(decode[q]) \in Nat /\ DOMAIN decode[q] = 1..Len(decode[q])
    BY <1>t
  <2>3. decode'[q] = [f \in 1..Len(decode[q]) |->
                         IF <<q, f>> \in idle THEN "cancelled" ELSE decode[q][f]]
    BY <2>1, <2>2
  <2>4. Len(decode'[q]) = Len(decode[q])
    BY <2>2, <2>3
  <2>5. handler[q] = "decoding"
    BY <1>4 DEF Shutdown
  <2> QED BY <1>t, <2>4, <2>5
<1>5. ASSUME NEW r \in Requests,
             Refuse(r) \/ Transcribe(r) \/ Decoded(r) \/ Respond(r) \/ RespondError(r)
      PROVE  Len(decode'[q]) # 0
  <2>1. decode' = decode
    BY <1>5 DEF Refuse, Transcribe, Decoded, Respond, RespondError
  <2>2. \E where \in {"refused", "error", "inferring", "ok"} :
            handler' = [handler EXCEPT ![r] = where]
    BY <1>5 DEF Refuse, Transcribe, Decoded, Respond, RespondError, SubmitRaises, SubmitMany
  <2> QED BY <1>t, <2>1, <2>2
<1>6. CASE ThreadStep
  <2>1. UNCHANGED <<handler, decode>>
    BY <1>6 DEF ThreadStep, Take, RecognizeEnds
  <2> QED BY <1>t, <2>1
<1>7. CASE UNCHANGED vars
  BY <1>7, <1>t DEF vars
<1> QED BY <1>1, <1>2, <1>3, <1>4, <1>5, <1>6, <1>7 DEF Next, Arrive, Handle, Idle

\* Where a handler's call of submit_many() is.
Told(where) == CASE where = "inferring" -> "waiting"
                 [] where = "ok" -> "answered"
                 [] where = "error" -> "failed"
                 [] where = "gone" -> "gone"
                 [] OTHER -> "new"

LEMMA CallIs == Call = [r \in Requests |-> Told(handler[r])]
  BY DEF Call, Told

\* When a handler goes on, so does its call.
LEMMA CallGoes ==
    ASSUME handler \in [Requests -> HandlerStates], NEW r \in Requests, NEW where, Goes(r, where)
    PROVE  Call' = [Call EXCEPT ![r] = Told(where)]
<1>1. handler' = [handler EXCEPT ![r] = where]
  BY DEF Goes
<1>2. Call' = [q \in Requests |-> Told(handler'[q])]
  BY DEF Call, Told
<1>3. ASSUME NEW q \in Requests
      PROVE  Told(handler'[q]) = IF q = r THEN Told(where) ELSE Told(handler[q])
  BY <1>1
<1>4. Call' = [q \in Requests |-> IF q = r THEN Told(where) ELSE Told(handler[q])]
  BY <1>2, <1>3
<1> QED BY <1>4, CallIs

\* When only Told() of a handler stays the same, nothing is seen of its step.
LEMMA CallStays ==
    ASSUME handler \in [Requests -> HandlerStates], NEW r \in Requests, NEW where, Goes(r, where),
           Told(where) = Told(handler[r])
    PROVE  Call' = Call
<1>1. Call' = [Call EXCEPT ![r] = Told(where)] /\ Call = [q \in Requests |-> Told(handler[q])]
  BY CallGoes, CallIs
<1> QED BY <1>1

\* submit_many() is a call, of a piece at least, or raises.
LEMMA SubmitMapped ==
    ASSUME Types, NEW r \in Requests, handler[r] \in {"new", "decoding"}, UNCHANGED stop,
           SubmitRaises(r) \/ \E n \in 1..MaxPieces : SubmitMany(r, n)
    PROVE  Promise!Next
<1>h. handler \in [Requests -> HandlerStates]
  BY DEF Types
<1>1. Call[r] = "new"
  <2>1. Told(handler[r]) = "new"
    BY DEF Told
  <2> QED BY <2>1, CallIs
<1>2. CASE SubmitRaises(r)
  <2>1. Goes(r, "error") /\ UNCHANGED future
    BY <1>2 DEF SubmitRaises
  <2>2. Call' = [Call EXCEPT ![r] = "failed"]
    <3>1. Told("error") = "failed"
      BY DEF Told
    <3> QED BY <1>h, <2>1, <3>1, CallGoes
  <2>3. Promise!CallRaises(r)
    BY <1>1, <2>1, <2>2 DEF Promise!CallRaises, Promise!Ends
  <2> QED BY <2>3 DEF Promise!Next
<1>3. ASSUME NEW n \in 1..MaxPieces, SubmitMany(r, n) PROVE Promise!Next
  <2>1. /\ Goes(r, "inferring")
        /\ future' = [j \in Jobs |-> IF j[1] = r /\ j[2] <= n THEN "pending" ELSE future[j]]
    BY <1>3 DEF SubmitMany
  <2>2. Call' = [Call EXCEPT ![r] = "waiting"]
    <3>1. Told("inferring") = "waiting"
      BY DEF Told
    <3> QED BY <1>h, <2>1, <3>1, CallGoes
  <2>3. Promise!Call(r, n)
    BY <1>1, <2>1, <2>2 DEF Promise!Call, Promise!Ends, Promise!Jobs, Jobs
  <2> QED BY <2>3 DEF Promise!Next
<1> QED BY <1>2, <1>3

\* A thread settles the one job it has.
LEMMA RecognizeMapped ==
    ASSUME Types, NEW j \in Jobs, RecognizeEnds(j)
    PROVE  Promise!Next \/ UNCHANGED Promise!vars
<1>1. Call' = Call /\ UNCHANGED stop
  BY DEF RecognizeEnds, Call
<1>2. PICK end \in {"result", "error"} :
          future' = [future EXCEPT ![j] = IF @ = "pending" THEN end ELSE @]
  BY DEF RecognizeEnds
<1>3. future \in [Jobs -> FutureStates]
  BY DEF Types
<1>4. CASE future[j] = "pending"
  <2>1. {j} # {} /\ Promise!Cardinality({j}) <= 1
    <3>1. Promise!Cardinality({j}) = Cardinality({j})
      BY DEF Promise!Cardinality, Cardinality
    <3>2. Cardinality({j}) = 1
      BY FS_Singleton
    <3> QED BY <3>1, <3>2
  <2>2. future' = [i \in Promise!Jobs |-> IF i \in {j} THEN end ELSE future[i]]
    BY <1>2, <1>3, <1>4 DEF Promise!Jobs, Jobs
  <2>3. \A i, k \in {j} : ModelName[i[1]] = ModelName[k[1]]
    OBVIOUS
  <2>4. Promise!Settle({j}, end)
    BY <1>1, <2>1, <2>2, <2>3, Zenon DEF Promise!Settle
  <2>5. {j} \in SUBSET Promise!Pending /\ j \in Promise!Jobs
    BY <1>4 DEF Promise!Pending, Promise!Jobs, Jobs
  <2>6. Promise!SettleWith(j)
    BY <2>4, <2>5 DEF Promise!SettleWith
  <2> QED BY <2>5, <2>6 DEF Promise!Next
<1>5. CASE future[j] # "pending"
  <2>1. future' = future
    BY <1>2, <1>3, <1>5
  <2> QED BY <1>1, <2>1 DEF Promise!vars
<1> QED BY <1>4, <1>5

\* What the shutdown cancels is waited for and has no thread.
LEMMA ShutdownMapped == ASSUME Types, Shutdown PROVE Promise!CallStop
<1> DEFINE dropped == {j \in Jobs : future[j] = "pending" /\ j \notin running}
<1>1. Call' = Call /\ stop = "no" /\ stop' \in {"waiting", "done"}
  BY DEF Shutdown, Call
<1>2. dropped \in SUBSET Promise!Pending
  BY DEF Promise!Pending, Promise!Jobs, Jobs
<1>3. future' = [j \in Promise!Jobs |-> IF j \in dropped THEN "cancelled" ELSE future[j]]
  BY DEF Shutdown, Promise!Jobs, Jobs
<1> HIDE DEF dropped
<1>4. \E d \in SUBSET Promise!Pending :
          future' = [j \in Promise!Jobs |-> IF j \in d THEN "cancelled" ELSE future[j]]
  BY <1>2, <1>3
<1> QED BY <1>1, <1>4 DEF Promise!CallStop

\* Every step of the service is one that Inference allows, or none.
LEMMA StepMapped ==
    Types /\ Files /\ NonEmpty /\ [Next]_vars => [Promise!Next]_(Promise!vars)
<1> SUFFICES ASSUME Types, Files, NonEmpty, [Next]_vars
             PROVE  Promise!Next \/ UNCHANGED Promise!vars
  OBVIOUS
<1>h. handler \in [Requests -> HandlerStates]
  BY DEF Types
<1>1. ASSUME NEW r \in Requests, NEW where, Goes(r, where),
             Told(where) = Told(handler[r]), UNCHANGED <<future, stop>>
      PROVE  UNCHANGED Promise!vars
  BY <1>1, <1>h, CallStays DEF Promise!vars
<1>2. ASSUME NEW r \in Requests, Refuse(r) \/ TranscribeBatch(r) \/ DecodeRaises(r)
      PROVE  UNCHANGED Promise!vars
  <2>1. PICK where \in {"refused", "decoding"} :
            Goes(r, where) /\ handler[r] \in {"new", "decoding"} /\ UNCHANGED <<future, stop>>
    BY <1>2 DEF Refuse, TranscribeBatch, DecodeRaises
  <2>2. Told(where) = Told(handler[r])
    BY <2>1 DEF Told
  <2> QED BY <1>1, <2>1, <2>2
<1>3. ASSUME NEW r \in Requests, Transcribe(r) PROVE Promise!Next
  BY <1>3, SubmitMapped DEF Transcribe
<1>4. ASSUME NEW r \in Requests, Decoded(r) PROVE Promise!Next
  <2>1. /\ handler[r] = "decoding" /\ UNCHANGED stop
        /\ SubmitRaises(r) \/ SubmitMany(r, Len(decode[r]))
    BY <1>4 DEF Decoded
  <2>2. Len(decode[r]) \in 1..MaxPieces
    <3>1. Len(decode[r]) # 0
      BY <2>1 DEF NonEmpty
    <3>2. decode[r] \in Seq(DecodeStates) /\ Len(decode[r]) <= MaxPieces
      BY DEF Files
    <3>3. Len(decode[r]) \in Nat
      BY <3>2
    <3> QED BY <3>1, <3>2, <3>3, ServiceAssumption
  <2> QED BY <2>1, <2>2, SubmitMapped
<1>5. ASSUME NEW r \in Requests, Respond(r) PROVE Promise!Next
  <2>1. handler[r] = "inferring" /\ Goes(r, "ok") /\ UNCHANGED <<future, stop>>
        /\ \A j \in PiecesOf(r) : future[j] = "result"
    BY <1>5 DEF Respond
  <2>2. Told("ok") = "answered" /\ Told(handler[r]) = "waiting"
    BY <2>1 DEF Told
  <2>3. Call[r] = "waiting" /\ Call' = [Call EXCEPT ![r] = "answered"]
    BY <1>h, <2>1, <2>2, CallIs, CallGoes
  <2>4. Promise!Answer(r)
    BY <2>1, <2>3 DEF Promise!Answer, Promise!Ends, Promise!PiecesOf, Promise!Jobs, PiecesOf, Jobs
  <2> QED BY <2>4 DEF Promise!Next
<1>6. ASSUME NEW r \in Requests, RespondError(r) PROVE Promise!Next
  <2>1. handler[r] = "inferring" /\ Goes(r, "error") /\ UNCHANGED <<future, stop>>
        /\ \E j \in PiecesOf(r) : future[j] \in {"error", "cancelled"}
    BY <1>6 DEF RespondError
  <2>2. Told("error") = "failed" /\ Told(handler[r]) = "waiting"
    BY <2>1 DEF Told
  <2>3. Call[r] = "waiting" /\ Call' = [Call EXCEPT ![r] = "failed"]
    BY <1>h, <2>1, <2>2, CallIs, CallGoes
  <2>4. Promise!Fail(r)
    BY <2>1, <2>3 DEF Promise!Fail, Promise!Ends, Promise!PiecesOf, Promise!Jobs, PiecesOf, Jobs
  <2> QED BY <2>4 DEF Promise!Next
<1>7. ASSUME NEW r \in Requests, ClientGoes(r) PROVE Promise!Next \/ UNCHANGED Promise!vars
  <2>1. CASE handler[r] = "decoding" /\ Goes(r, "left") /\ UNCHANGED <<future, stop>>
    <3>1. Told("left") = Told(handler[r])
      BY <2>1 DEF Told
    <3> QED BY <1>1, <2>1, <3>1
  <2>2. CASE /\ handler[r] = "inferring" /\ Goes(r, "gone") /\ UNCHANGED stop
             /\ future' = [j \in Jobs |-> IF j[1] = r /\ future[j] = "pending"
                                          THEN "cancelled" ELSE future[j]]
    <3>1. Told("gone") = "gone" /\ Told(handler[r]) = "waiting"
      BY <2>2 DEF Told
    <3>2. Call[r] = "waiting" /\ Call' = [Call EXCEPT ![r] = "gone"]
      BY <1>h, <2>2, <3>1, CallIs, CallGoes
    <3>3. Promise!Abandon(r)
      BY <2>2, <3>2 DEF Promise!Abandon, Promise!Ends, Promise!Jobs, Jobs
    <3> QED BY <3>3 DEF Promise!Next
  <2> QED BY <1>7, <2>1, <2>2 DEF ClientGoes
<1>8. ASSUME UNCHANGED <<handler, future, stop>> PROVE UNCHANGED Promise!vars
  BY <1>8 DEF Promise!vars, Call
<1>9. ASSUME NEW r \in Requests, NEW f \in DOMAIN decode[r], DecodeEnds(r, f)
      PROVE  UNCHANGED Promise!vars
  BY <1>8, <1>9 DEF DecodeEnds
<1>10. CASE ThreadStep
  <2>1. CASE Take
    BY <1>8, <2>1 DEF Take
  <2> QED BY <1>10, <2>1, RecognizeMapped DEF ThreadStep
<1>11. CASE Shutdown
  BY <1>11, ShutdownMapped DEF Promise!Next
<1>12. CASE Idle \/ UNCHANGED vars
  BY <1>8, <1>12 DEF Idle, vars
<1> QED BY <1>2, <1>3, <1>4, <1>5, <1>6, <1>7, <1>9, <1>10, <1>11, <1>12
        DEF Next, Arrive, Handle

\* The pool does nothing that Inference does not allow: a request is answered
\* with all its results or fails by a piece of its own, and a shutdown cancels
\* nothing but what is waited for.
THEOREM PoolKeepsPromise == Spec => Promise!SafeSpec
<1>1. Init => Promise!Init
  BY DEF Init, Promise!Init, Promise!Jobs, Jobs, Call
<1>2. Init => NonEmpty
  BY DEF Init, NonEmpty
<1>3. Spec => []NonEmpty
  BY <1>2, NonEmptyStep, InvAlways, PTL DEF Spec, Inv
<1> QED BY <1>1, <1>3, StepMapped, InvAlways, PTL DEF Spec, Promise!SafeSpec, Inv
=============================================================================
