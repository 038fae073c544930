-------------------------- MODULE BatchWorkerProofs ------------------------
(***************************************************************************)
(* The jobs of BatchWorker, for any number of requests, pieces and models  *)
(* and any max_batch, with either wait_for().  A job goes from the queue   *)
(* to the inner task of wait_for(), from there to the batch or back, and   *)
(* leaves the batch when its future is settled; all the while it is in one *)
(* of the three places, once.  The same invariant says that a batch is for *)
(* one model and never too large, which makes its end a step of Inference. *)
(***************************************************************************)
EXTENDS BatchWorker, FiniteSetTheorems, SequenceTheorems, TLAPS

\* No element comes twice.
Once(s) == \A i, k \in 1..Len(s) : s[i] = s[k] => i = k

Types ==
    /\ request \in [Requests -> RequestStates]
    /\ future \in [Jobs -> FutureStates]
    /\ queue \in Seq(Jobs)
    /\ held \in Seq(Jobs)
    /\ batch \in Seq(Jobs)

\* No piece is known before its call.
Unsubmitted ==
    \A r \in Requests : request[r] = "new" =>
        \A n \in 1..MaxPieces : future[<<r, n>>] = "none"

\* The three places.
Apart ==
    /\ Once(queue) /\ Once(held) /\ Once(batch)
    /\ ToSet(queue) \cap ToSet(held) = {}
    /\ ToSet(queue) \cap ToSet(batch) = {}
    /\ ToSet(held) \cap ToSet(batch) = {}

Everywhere == ToSet(queue) \cup ToSet(held) \cup ToSet(batch)

\* What is anywhere was submitted, and what is waited for is somewhere.
Known ==
    /\ \A j \in Everywhere : future[j] # "none"
    /\ \A j \in Jobs : future[j] = "pending" => j \in Everywhere

\* What the worker's place says of its batch and of the inner task.
WorkerInv ==
    /\ held = <<>> \/ (worker = "collect" /\ Len(held) = 1)
    /\ worker = "get" => batch = <<>>
    /\ worker \in {"collect", "infer"} =>
           /\ Len(batch) \in 1..MaxBatch
           /\ worker = "collect" => Len(batch) < MaxBatch
           /\ \A i \in 1..Len(batch) : ModelOf(batch[i]) = ModelOf(batch[1])

Inv == Types /\ Unsubmitted /\ Apart /\ Known /\ WorkerInv

-----------------------------------------------------------------------------
(***************************************************************************)
(* Sequences without repetition.                                           *)
(***************************************************************************)
\* The elements of a sequence by number.
LEMMA Elements ==
    ASSUME NEW S, NEW s \in Seq(S)
    PROVE  /\ \A x : x \in ToSet(s) <=> \E i \in 1..Len(s) : s[i] = x
           /\ \A x \in ToSet(s) : x \in S
           /\ Len(s) \in Nat
<1>1. DOMAIN s = 1..Len(s) /\ \A i \in 1..Len(s) : s[i] \in S
  OBVIOUS
<1> QED BY <1>1 DEF ToSet

\* The empty sequence, and one with one element.
LEMMA FewElements ==
    /\ ToSet(<<>>) = {} /\ Once(<<>>)
    /\ \A x : ToSet(<<x>>) = {x} /\ Once(<<x>>) /\ Len(<<x>>) = 1 /\ <<x>>[1] = x
<1>1. ToSet(<<>>) = {} /\ Once(<<>>)
  BY DEF ToSet, Once
<1>2. ASSUME NEW x PROVE ToSet(<<x>>) = {x} /\ Once(<<x>>) /\ Len(<<x>>) = 1 /\ <<x>>[1] = x
  <2>1. DOMAIN <<x>> = 1..1 /\ Len(<<x>>) = 1 /\ <<x>>[1] = x /\ 1..1 = {1}
    OBVIOUS
  <2> QED BY <2>1 DEF ToSet, Once
<1> QED BY <1>1, <1>2

\* Two in a row have what either has, and repeat nothing if neither does and
\* they have nothing in common.
LEMMA TogetherOnce ==
    ASSUME NEW S, NEW s \in Seq(S), NEW t \in Seq(S)
    PROVE  /\ s \o t \in Seq(S)
           /\ ToSet(s \o t) = ToSet(s) \cup ToSet(t)
           /\ Once(s) /\ Once(t) /\ ToSet(s) \cap ToSet(t) = {} => Once(s \o t)
<1> DEFINE st == s \o t
           L == Len(s)
           M == Len(t)
<1>1. /\ st \in Seq(S) /\ Len(st) = L + M /\ L \in Nat /\ M \in Nat
      /\ \A i \in 1..L + M : st[i] = IF i <= L THEN s[i] ELSE t[i - L]
  BY ConcatProperties
<1> HIDE DEF st
<1>2. /\ \A i \in 1..L : i \in 1..L + M /\ st[i] = s[i]
      /\ \A i \in 1..M : L + i \in 1..L + M /\ st[L + i] = t[i]
      /\ \A i \in 1..L + M : i \in 1..L \/ (i - L \in 1..M /\ st[i] = t[i - L])
  <2>1. ASSUME NEW i \in 1..L PROVE i \in 1..L + M /\ st[i] = s[i]
    BY <1>1
  <2>2. ASSUME NEW i \in 1..M PROVE L + i \in 1..L + M /\ st[L + i] = t[i]
    <3>1. L + i \in 1..L + M /\ ~(L + i <= L) /\ (L + i) - L = i
      BY <1>1
    <3> QED BY <3>1, <1>1
  <2>3. ASSUME NEW i \in 1..L + M PROVE i \in 1..L \/ (i - L \in 1..M /\ st[i] = t[i - L])
    BY <1>1
  <2> QED BY <2>1, <2>2, <2>3
<1>3. /\ \A x : x \in ToSet(s) <=> \E i \in 1..L : s[i] = x
      /\ \A x : x \in ToSet(t) <=> \E i \in 1..M : t[i] = x
      /\ \A x : x \in ToSet(st) <=> \E i \in 1..L + M : st[i] = x
  BY <1>1, Elements
<1> HIDE DEF L, M
<1>4. ToSet(st) = ToSet(s) \cup ToSet(t)
  <2>1. ASSUME NEW x \in ToSet(st) PROVE x \in ToSet(s) \cup ToSet(t)
    <3>1. PICK i \in 1..L + M : st[i] = x
      BY <1>3, <2>1
    <3> QED BY <3>1, <1>2, <1>3
  <2>2. ASSUME NEW x \in ToSet(s) \cup ToSet(t) PROVE x \in ToSet(st)
    BY <2>2, <1>2, <1>3
  <2> QED BY <2>1, <2>2
<1>5. ASSUME Once(s), Once(t), ToSet(s) \cap ToSet(t) = {} PROVE Once(st)
  <2> SUFFICES ASSUME NEW i \in 1..L + M, NEW k \in 1..L + M, st[i] = st[k] PROVE i = k
    BY <1>1 DEF Once
  <2>1. CASE i \in 1..L /\ k \in 1..L
    BY <2>1, <1>2, <1>5 DEF Once, L
  <2>2. CASE i \in 1..L /\ k \notin 1..L
    <3>1. st[i] \in ToSet(s) /\ st[k] \in ToSet(t)
      BY <2>2, <1>2, <1>3
    <3> QED BY <3>1, <1>5
  <2>3. CASE i \notin 1..L /\ k \in 1..L
    <3>1. st[k] \in ToSet(s) /\ st[i] \in ToSet(t)
      BY <2>3, <1>2, <1>3
    <3> QED BY <3>1, <1>5
  <2>4. CASE i \notin 1..L /\ k \notin 1..L
    <3>1. /\ i - L \in 1..M /\ st[i] = t[i - L]
          /\ k - L \in 1..M /\ st[k] = t[k - L]
      BY <2>4, <1>2
    <3>2. i - L = k - L
      BY <3>1, <1>5 DEF Once, M
    <3> QED BY <3>2, <1>1
  <2> QED BY <2>1, <2>2, <2>3, <2>4
<1> QED BY <1>1, <1>4, <1>5 DEF st

\* What the head of a sequence leaves behind.
LEMMA WithoutHead ==
    ASSUME NEW S, NEW s \in Seq(S), s # <<>>
    PROVE  /\ Head(s) \in S /\ Tail(s) \in Seq(S)
           /\ ToSet(s) = {Head(s)} \cup ToSet(Tail(s))
           /\ Once(s) => Once(Tail(s)) /\ Head(s) \notin ToSet(Tail(s))
<1> DEFINE u == Tail(s)
           L == Len(s)
<1>1. /\ Head(s) = s[1] /\ Head(s) \in S /\ L \in Nat /\ 1 \in 1..L
      /\ u \in Seq(S) /\ Len(u) = L - 1
      /\ \A i \in 1..L - 1 : u[i] = s[i + 1] /\ i + 1 \in 1..L
  BY HeadTailProperties
<1> HIDE DEF u
<1>2. /\ \A x : x \in ToSet(s) <=> \E i \in 1..L : s[i] = x
      /\ \A x : x \in ToSet(u) <=> \E i \in 1..L - 1 : u[i] = x
  BY <1>1, Elements
<1> HIDE DEF L
<1>3. ToSet(s) = {Head(s)} \cup ToSet(u)
  <2>1. ASSUME NEW x \in ToSet(s), x # Head(s) PROVE x \in ToSet(u)
    <3>1. PICK i \in 1..L : s[i] = x
      BY <2>1, <1>2
    <3>2. i - 1 \in 1..L - 1 /\ (i - 1) + 1 = i
      BY <3>1, <2>1, <1>1
    <3>3. u[i - 1] = x
      BY <3>1, <3>2, <1>1
    <3> QED BY <3>2, <3>3, <1>2
  <2>2. ASSUME NEW x \in ToSet(u) PROVE x \in ToSet(s)
    BY <2>2, <1>1, <1>2
  <2>3. Head(s) \in ToSet(s)
    BY <1>1, <1>2
  <2> QED BY <2>1, <2>2, <2>3
<1>4. ASSUME Once(s) PROVE Once(u) /\ Head(s) \notin ToSet(u)
  <2>1. \A i, k \in 1..L - 1 : u[i] = u[k] => i = k
    <3> SUFFICES ASSUME NEW i \in 1..L - 1, NEW k \in 1..L - 1, u[i] = u[k] PROVE i = k
      OBVIOUS
    <3>1. i + 1 \in 1..L /\ k + 1 \in 1..L /\ s[i + 1] = s[k + 1]
      BY <1>1
    <3>2. i + 1 = k + 1
      BY <3>1, <1>4 DEF Once, L
    <3> QED BY <3>2
  <2>2. \A i \in 1..L - 1 : u[i] # Head(s)
    <3> SUFFICES ASSUME NEW i \in 1..L - 1, u[i] = Head(s) PROVE FALSE
      OBVIOUS
    <3>1. s[i + 1] = s[1] /\ i + 1 \in 1..L /\ 1 \in 1..L
      BY <1>1
    <3>2. i + 1 = 1
      BY <3>1, <1>4 DEF Once, L
    <3> QED BY <3>2
  <2> QED BY <2>1, <2>2, <1>1, <1>2 DEF Once
<1> QED BY <1>1, <1>3, <1>4 DEF u

-----------------------------------------------------------------------------
(***************************************************************************)
(* The steps.                                                              *)
(***************************************************************************)
\* Nobody has called a new worker.
LEMMA InvInit == Init => Inv
<1> SUFFICES ASSUME Init PROVE Inv
  OBVIOUS
<1> USE WorkerAssumption DEF Init
<1>1. Types
  BY DEF Types, RequestStates, FutureStates
<1>2. Unsubmitted
  BY DEF Unsubmitted, Jobs
<1>3. ToSet(queue) = {} /\ ToSet(held) = {} /\ ToSet(batch) = {} /\ Once(<<>>)
  BY FewElements
<1>4. Apart /\ Known
  BY <1>3 DEF Apart, Known, Everywhere
<1>5. WorkerInv
  BY DEF WorkerInv
<1> QED BY <1>1, <1>2, <1>4, <1>5 DEF Inv

\* Steps that leave the places alone and only settle futures, or end calls.
LEMMA FuturesStep ==
    ASSUME Inv, UNCHANGED <<queue, held, batch, worker>>,
           request' \in [Requests -> RequestStates],
           \A r \in Requests : request'[r] = "new" => request[r] = "new",
           future' \in [Jobs -> FutureStates],
           \A j \in Jobs : /\ future[j] = "none" <=> future'[j] = "none"
                           /\ future'[j] = "pending" => future[j] = "pending"
    PROVE  Inv'
<1>1. Types'
  BY DEF Inv, Types
<1>2. Unsubmitted'
  BY DEF Inv, Unsubmitted, Jobs
<1>3. Apart' /\ WorkerInv' /\ Everywhere' = Everywhere
  <2>1. Apart'
    BY DEF Inv, Apart, Once
  <2>2. WorkerInv'
    BY DEF Inv, WorkerInv, ModelOf
  <2>3. Everywhere' = Everywhere
    BY DEF Everywhere
  <2> QED BY <2>1, <2>2, <2>3
<1>4. \A j \in Everywhere : j \in Jobs
  BY Elements DEF Inv, Types, Everywhere
<1>5. Known'
  BY <1>3, <1>4 DEF Inv, Known
<1> QED BY <1>1, <1>2, <1>3, <1>5 DEF Inv

\* submit_many() queues pieces that nobody knew, behind what is queued.
LEMMA SubmitStep ==
    ASSUME Inv, NEW r \in Requests, NEW n \in 1..MaxPieces, Submit(r, n)
    PROVE  Inv'
<1> USE WorkerAssumption
<1> DEFINE new == [i \in 1..n |-> <<r, i>>]
<1>i. Types /\ Unsubmitted /\ Apart /\ Known /\ WorkerInv
  BY DEF Inv
<1>1. /\ request[r] = "new" /\ request' = [request EXCEPT ![r] = "waiting"]
      /\ future' = [j \in Jobs |-> IF j[1] = r /\ j[2] <= n THEN "pending" ELSE future[j]]
      /\ queue' = queue \o new /\ UNCHANGED <<held, batch, worker>>
  BY DEF Submit
<1>2. new \in Seq(Jobs) /\ Len(new) = n /\ n \in Nat /\ \A i \in 1..n : new[i] = <<r, i>>
  BY DEF Jobs
<1> HIDE DEF new
<1>3. \A j : j \in ToSet(new) <=> \E i \in 1..n : <<r, i>> = j
  <2>1. \A j : j \in ToSet(new) <=> \E i \in 1..Len(new) : new[i] = j
    BY <1>2, Elements
  <2> QED BY <2>1, <1>2
<1>4. \A j \in Jobs : j \in ToSet(new) <=> j[1] = r /\ j[2] <= n
  <2> SUFFICES ASSUME NEW j \in Jobs PROVE j \in ToSet(new) <=> j[1] = r /\ j[2] <= n
    OBVIOUS
  <2>1. j = <<j[1], j[2]>> /\ j[2] \in 1..MaxPieces
    BY DEF Jobs
  <2>2. ASSUME j \in ToSet(new) PROVE j[1] = r /\ j[2] <= n
    <3>1. PICK i \in 1..n : <<r, i>> = j
      BY <2>2, <1>3
    <3> QED BY <3>1, <1>2
  <2>3. ASSUME j[1] = r, j[2] <= n PROVE j \in ToSet(new)
    <3>1. j[2] \in 1..n
      BY <2>1, <2>3, <1>2
    <3> QED BY <3>1, <2>1, <2>3, <1>3
  <2> QED BY <2>2, <2>3
<1>5. \A j \in ToSet(new) : j \in Jobs /\ future[j] = "none" /\ future'[j] = "pending"
  <2> SUFFICES ASSUME NEW j \in ToSet(new)
               PROVE  j \in Jobs /\ future[j] = "none" /\ future'[j] = "pending"
    OBVIOUS
  <2>1. PICK i \in 1..n : <<r, i>> = j
    BY <1>3
  <2>2. j \in Jobs /\ future[j] = "none"
    BY <2>1, <1>1, <1>i DEF Unsubmitted, Jobs
  <2> QED BY <2>2, <1>1, <1>4
<1>6. Once(new)
  BY <1>2 DEF Once
<1>7. \A j \in Everywhere : j \in Jobs /\ future[j] # "none"
  BY <1>i, Elements DEF Types, Everywhere, Known
<1>8. ToSet(new) \cap Everywhere = {}
  BY <1>5, <1>7
<1>9. /\ queue' \in Seq(Jobs) /\ ToSet(queue') = ToSet(queue) \cup ToSet(new)
      /\ Once(queue')
  BY <1>1, <1>2, <1>6, <1>8, <1>i, TogetherOnce DEF Types, Apart, Everywhere
<1>10. Types'
  BY <1>1, <1>9, <1>i DEF Types, RequestStates, FutureStates
<1>11. Unsubmitted'
  <2> SUFFICES ASSUME NEW q \in Requests, request'[q] = "new", NEW m \in 1..MaxPieces
               PROVE  future'[<<q, m>>] = "none"
    BY DEF Unsubmitted
  <2>1. q # r /\ request[q] = "new"
    BY <1>1, <1>i DEF Types
  <2>2. <<q, m>> \in Jobs /\ future[<<q, m>>] = "none"
    BY <2>1, <1>i DEF Unsubmitted, Jobs
  <2> QED BY <2>1, <2>2, <1>1
<1>12. ToSet(held') = ToSet(held) /\ ToSet(batch') = ToSet(batch)
  BY <1>1
<1>13. Apart'
  BY <1>1, <1>8, <1>9, <1>12, <1>i DEF Apart, Everywhere, Once
<1>14. Everywhere' = Everywhere \cup ToSet(new)
  BY <1>9, <1>12 DEF Everywhere
<1>15. Known'
  <2>1. \A j \in Jobs : future'[j] = "pending" => j \in ToSet(new) \/ future[j] = "pending"
    BY <1>1, <1>4
  <2>2. \A j \in Everywhere : future'[j] # "none"
    BY <1>1, <1>7
  <2> QED BY <2>1, <2>2, <1>5, <1>14, <1>i DEF Known
<1>16. WorkerInv'
  BY <1>1, <1>i DEF WorkerInv, ModelOf
<1> QED BY <1>10, <1>11, <1>13, <1>15, <1>16 DEF Inv

\* Steps that take jobs from one place to another.
LEMMA MoveStep ==
    ASSUME Inv, UNCHANGED <<request, future>>,
           queue' \in Seq(Jobs), held' \in Seq(Jobs), batch' \in Seq(Jobs),
           Apart', Everywhere' = Everywhere, WorkerInv'
    PROVE  Inv'
  BY DEF Inv, Types, Unsubmitted, Known

\* The worker task and the inner task of wait_for() take jobs.
LEMMA TakeStep == ASSUME Inv, TakeFirst \/ GetterTakes PROVE Inv'
<1>i. Types /\ Apart /\ WorkerInv
  BY DEF Inv
<1> DEFINE j == Head(queue)
<1>1. queue \in Seq(Jobs) /\ queue # <<>> /\ queue' = Tail(queue) /\ UNCHANGED <<request, future>>
  BY <1>i DEF TakeFirst, GetterTakes, Types
<1>2. /\ j \in Jobs /\ queue' \in Seq(Jobs) /\ ToSet(queue) = {j} \cup ToSet(queue')
      /\ Once(queue') /\ j \notin ToSet(queue')
  BY <1>1, <1>i, WithoutHead DEF Apart
<1> HIDE DEF j
<1>3. <<j>> \in Seq(Jobs) /\ ToSet(<<j>>) = {j} /\ Once(<<j>>) /\ Len(<<j>>) = 1 /\ <<j>>[1] = j
  BY <1>2, FewElements
<1>4. CASE TakeFirst
  <2>1. /\ worker = "get" /\ batch = <<>> /\ batch' = <<j>> /\ held = <<>> /\ held' = <<>>
        /\ worker' = NextPlace(<<j>>)
    BY <1>4, <1>i DEF TakeFirst, WorkerInv, j
  <2>2. ToSet(batch) = {} /\ ToSet(held) = {} /\ ToSet(held') = {} /\ Once(held')
    BY <2>1, FewElements
  <2>3. ToSet(batch') = {j} /\ Once(batch')
    BY <2>1, <1>3
  <2>4. Apart' /\ Everywhere' = Everywhere
    BY <1>2, <2>2, <2>3 DEF Apart, Everywhere
  <2>5. WorkerInv'
    BY <2>1, <1>3, WorkerAssumption DEF WorkerInv, NextPlace
  <2>6. held' \in Seq(Jobs) /\ batch' \in Seq(Jobs)
    BY <2>1, <1>3
  <2> QED BY <1>1, <1>2, <2>4, <2>5, <2>6, MoveStep
<1>5. CASE GetterTakes
  <2>1. /\ worker = "collect" /\ held = <<>> /\ held' = <<j>> /\ UNCHANGED <<batch, worker>>
    BY <1>5 DEF GetterTakes, j
  <2>2. ToSet(held) = {}
    BY <2>1, FewElements
  <2>3. ToSet(held') = {j} /\ Once(held') /\ ToSet(batch') = ToSet(batch) /\ Once(batch')
    BY <2>1, <1>3, <1>i DEF Apart
  <2>4. j \notin ToSet(batch)
    BY <1>2, <1>i DEF Apart
  <2>5. Apart' /\ Everywhere' = Everywhere
    BY <1>2, <1>i, <2>2, <2>3, <2>4 DEF Apart, Everywhere
  <2>6. WorkerInv'
    BY <2>1, <1>3, <1>i DEF WorkerInv, ModelOf
  <2>7. held' \in Seq(Jobs) /\ batch' \in Seq(Jobs)
    BY <2>1, <1>3, <1>i DEF Types
  <2> QED BY <1>1, <1>2, <2>5, <2>6, <2>7, MoveStep
<1> QED BY <1>4, <1>5

\* A job that was held joins the batch or goes back.
LEMMA CollectStep == ASSUME Inv, Collect PROVE Inv'
<1>i. Types /\ Apart /\ WorkerInv
  BY DEF Inv
<1>1. /\ worker = "collect" /\ held # <<>> /\ held' = <<>> /\ UNCHANGED <<request, future>>
  BY DEF Collect
<1>2. /\ queue \in Seq(Jobs) /\ held \in Seq(Jobs) /\ batch \in Seq(Jobs)
      /\ Once(queue) /\ Once(held) /\ Once(batch)
      /\ ToSet(queue) \cap ToSet(held) = {} /\ ToSet(held) \cap ToSet(batch) = {}
      /\ ToSet(queue) \cap ToSet(batch) = {}
  BY <1>i DEF Types, Apart
<1>3. Len(held) = 1 /\ Len(batch) \in 1..MaxBatch /\ Len(batch) < MaxBatch
      /\ \A i \in 1..Len(batch) : ModelOf(batch[i]) = ModelOf(batch[1])
  BY <1>1, <1>i DEF WorkerInv
<1>4. ToSet(held') = {} /\ Once(held') /\ held' \in Seq(Jobs)
  BY <1>1, FewElements
<1>5. CASE queue' = queue \o held /\ worker' = "infer" /\ UNCHANGED batch
  <2>1. queue' \in Seq(Jobs) /\ ToSet(queue') = ToSet(queue) \cup ToSet(held) /\ Once(queue')
    BY <1>2, <1>5, TogetherOnce
  <2>2. ToSet(batch') = ToSet(batch) /\ Once(batch') /\ batch' \in Seq(Jobs)
    BY <1>2, <1>5
  <2>3. Apart' /\ Everywhere' = Everywhere
    BY <1>2, <1>4, <2>1, <2>2 DEF Apart, Everywhere
  <2>4. WorkerInv'
    BY <1>1, <1>3, <1>5 DEF WorkerInv, ModelOf
  <2> QED BY <1>1, <1>4, <2>1, <2>2, <2>3, <2>4, MoveStep
<1>6. CASE /\ ModelOf(held[1]) = ModelOf(batch[1])
           /\ batch' = batch \o held /\ worker' = NextPlace(batch') /\ UNCHANGED queue
  <2>1. batch' \in Seq(Jobs) /\ ToSet(batch') = ToSet(batch) \cup ToSet(held) /\ Once(batch')
    <3>1. ToSet(batch) \cap ToSet(held) = {}
      BY <1>2
    <3> QED BY <3>1, <1>2, <1>6, TogetherOnce
  <2>2. ToSet(queue') = ToSet(queue) /\ Once(queue') /\ queue' \in Seq(Jobs)
    BY <1>2, <1>6
  <2>3. Apart' /\ Everywhere' = Everywhere
    BY <1>2, <1>4, <2>1, <2>2 DEF Apart, Everywhere
  <2>4. /\ Len(batch') = Len(batch) + 1 /\ Len(batch) \in Nat
        /\ \A i \in 1..Len(batch) : batch'[i] = batch[i]
        /\ batch'[Len(batch) + 1] = held[1]
    <3>1. /\ Len(batch') = Len(batch) + Len(held)
          /\ \A i \in 1..Len(batch) + Len(held) : batch'[i] =
                 IF i <= Len(batch) THEN batch[i] ELSE held[i - Len(batch)]
      BY <1>2, <1>6, ConcatProperties
    <3>2. Len(batch) \in Nat
      BY <1>2
    <3> QED BY <3>1, <3>2, <1>3
  <2>5. \A i \in 1..Len(batch') : ModelOf(batch'[i]) = ModelOf(batch'[1])
    <3>1. batch'[1] = batch[1]
      BY <2>4, <1>3
    <3>2. \A i \in 1..Len(batch') : i \in 1..Len(batch) \/ i = Len(batch) + 1
      BY <2>4
    <3> QED BY <3>1, <3>2, <2>4, <1>3, <1>6
  <2>6. Len(batch') \in 1..MaxBatch
    BY <2>4, <1>3, WorkerAssumption
  <2>7. WorkerInv'
    BY <1>1, <1>6, <2>5, <2>6, WorkerAssumption DEF WorkerInv, NextPlace, ModelOf
  <2> QED BY <1>1, <1>4, <2>1, <2>2, <2>3, <2>7, MoveStep
<1> QED BY <1>5, <1>6 DEF Collect

\* A cancelled worker puts back what was held.
LEMMA CancelStep == ASSUME Inv, CancelDelivered PROVE Inv'
<1>i. Types /\ Apart
  BY DEF Inv
<1>1. /\ queue' = held \o queue /\ held' = <<>> /\ worker' = "ended"
      /\ UNCHANGED <<request, future, batch>>
  BY DEF CancelDelivered
<1>2. queue' \in Seq(Jobs) /\ ToSet(queue') = ToSet(held) \cup ToSet(queue) /\ Once(queue')
  <2>1. ToSet(held) \cap ToSet(queue) = {}
    BY <1>i DEF Apart
  <2> QED BY <2>1, <1>1, <1>i, TogetherOnce DEF Types, Apart
<1>3. ToSet(held') = {} /\ Once(held') /\ held' \in Seq(Jobs)
  BY <1>1, FewElements
<1>4. ToSet(batch') = ToSet(batch) /\ Once(batch') /\ batch' \in Seq(Jobs)
  BY <1>1, <1>i DEF Apart, Types
<1>5. Apart' /\ Everywhere' = Everywhere
  BY <1>2, <1>3, <1>4, <1>i DEF Apart, Everywhere
<1>6. WorkerInv'
  BY <1>1 DEF WorkerInv
<1> QED BY <1>1, <1>2, <1>3, <1>4, <1>5, <1>6, MoveStep

\* A batch that is inferred leaves with every future settled.
LEMMA InferStep == ASSUME Inv, Deliver \/ BatchFails PROVE Inv'
<1>i. Types /\ Unsubmitted /\ Apart /\ Known /\ WorkerInv
  BY DEF Inv
<1>1. PICK end \in {"result", "error"} : Settle(end)
  BY DEF Deliver, BatchFails
<1>2. /\ worker = "infer" /\ worker' = "get" /\ batch' = <<>>
      /\ UNCHANGED <<request, queue, held>>
  BY DEF Deliver, BatchFails
<1>3. future' = [j \in Jobs |-> IF j \in ToSet(batch) /\ future[j] = "pending"
                                THEN end ELSE future[j]]
  BY <1>1 DEF Settle
<1>4. \A j \in Jobs : /\ future'[j] = "none" <=> future[j] = "none"
                      /\ future'[j] = "pending" => future[j] = "pending" /\ j \notin ToSet(batch)
  BY <1>3
<1>5. Types'
  BY <1>2, <1>3, <1>i DEF Types, FutureStates
<1>6. Unsubmitted'
  BY <1>2, <1>4, <1>i DEF Unsubmitted, Jobs
<1>7. /\ ToSet(queue') = ToSet(queue) /\ ToSet(held') = ToSet(held)
      /\ ToSet(batch') = {} /\ Once(batch')
  BY <1>2, FewElements
<1>8. Apart'
  BY <1>2, <1>7, <1>i DEF Apart, Once
<1>9. \A j \in Everywhere : j \in Jobs
  BY <1>i, Elements DEF Types, Everywhere
<1>10. Known'
  BY <1>4, <1>7, <1>9, <1>i DEF Known, Everywhere
<1>11. WorkerInv'
  BY <1>2, <1>i DEF WorkerInv
<1> QED BY <1>5, <1>6, <1>8, <1>10, <1>11 DEF Inv

\* Every step keeps each job in one place.
LEMMA InvStep == Inv /\ [Next]_vars => Inv'
<1> SUFFICES ASSUME Inv, [Next]_vars PROVE Inv'
  OBVIOUS
<1>i. Types
  BY DEF Inv
<1>1. ASSUME NEW r \in Requests, Answered(r) PROVE Inv'
  <2>1. \E end \in {"failed", "answered"} : request' = [request EXCEPT ![r] = end]
    BY <1>1 DEF Answered
  <2>2. request' \in [Requests -> RequestStates]
    BY <2>1, <1>i DEF Types, RequestStates
  <2>3. \A q \in Requests : request'[q] = "new" => request[q] = "new"
    BY <2>1, <1>i DEF Types
  <2>4. UNCHANGED <<future, queue, worker, batch, held>>
    BY <1>1 DEF Answered
  <2> QED BY <2>2, <2>3, <2>4, <1>i, FuturesStep DEF Types
<1>2. ASSUME NEW r \in Requests, ClientGoes(r) PROVE Inv'
  <2>1. /\ request' = [request EXCEPT ![r] = "gone"]
        /\ future' = [j \in Jobs |-> IF j[1] = r /\ future[j] = "pending"
                                     THEN "cancelled" ELSE future[j]]
        /\ UNCHANGED <<queue, worker, batch, held>>
    BY <1>2 DEF ClientGoes
  <2>2. request' \in [Requests -> RequestStates] /\ future' \in [Jobs -> FutureStates]
    BY <2>1, <1>i DEF Types, RequestStates, FutureStates
  <2>3. \A q \in Requests : request'[q] = "new" => request[q] = "new"
    BY <2>1, <1>i DEF Types
  <2>4. \A j \in Jobs : /\ future[j] = "none" <=> future'[j] = "none"
                        /\ future'[j] = "pending" => future[j] = "pending"
    BY <2>1
  <2> QED BY <2>1, <2>2, <2>3, <2>4, FuturesStep
<1>3. CASE CallStop \/ StopReturns \/ Idle \/ UNCHANGED vars
  <2>1. UNCHANGED <<request, future, queue, worker, batch, held>>
    BY <1>3 DEF CallStop, StopReturns, Idle, vars
  <2> QED BY <2>1, <1>i, FuturesStep DEF Types
<1>4. CASE WindowCloses
  <2>1. /\ worker = "collect" /\ worker' = "infer" /\ held = <<>>
        /\ UNCHANGED <<request, future, queue, batch, held>>
    BY <1>4 DEF WindowCloses
  <2>2. WorkerInv'
    BY <2>1 DEF Inv, WorkerInv, ModelOf
  <2>3. Apart' /\ Everywhere' = Everywhere
    BY <2>1 DEF Inv, Apart, Everywhere, Once
  <2> QED BY <2>1, <2>2, <2>3, <1>i, MoveStep DEF Types
<1> QED BY <1>1, <1>2, <1>3, <1>4, SubmitStep, TakeStep, CollectStep, CancelStep, InferStep
        DEF Next, CallerStep, WorkerStep, ClientStep

\* The invariant holds in every state.
LEMMA InvAlways == Spec => []Inv
  BY InvInit, InvStep, PTL DEF Spec

-----------------------------------------------------------------------------
\* No job is lost or inferred twice.
THEOREM JobsInOnePlace == Spec => []EachJobOnce
<1>1. Inv => EachJobOnce
  <2> SUFFICES ASSUME Inv PROVE EachJobOnce
    OBVIOUS
  <2>1. /\ queue \o held \in Seq(Jobs)
        /\ ToSet(queue \o held) = ToSet(queue) \cup ToSet(held) /\ Once(queue \o held)
    BY TogetherOnce DEF Inv, Types, Apart
  <2>2. ToSet(queue \o held) \cap ToSet(batch) = {}
    BY <2>1 DEF Inv, Apart
  <2>3. /\ ToSet((queue \o held) \o batch) = Everywhere /\ Once((queue \o held) \o batch)
    <3> DEFINE front == queue \o held
    <3>1. /\ front \in Seq(Jobs) /\ Once(front) /\ ToSet(front) \cap ToSet(batch) = {}
          /\ ToSet(front) = ToSet(queue) \cup ToSet(held)
      BY <2>1, <2>2
    <3>2. batch \in Seq(Jobs) /\ Once(batch)
      BY DEF Inv, Types, Apart
    <3> HIDE DEF front
    <3>3. ToSet(front \o batch) = ToSet(front) \cup ToSet(batch) /\ Once(front \o batch)
      BY <3>1, <3>2, TogetherOnce
    <3> QED BY <3>1, <3>3 DEF front, Everywhere
  <2> QED BY <2>3 DEF EachJobOnce, Places, Inv, Known, Once
<1> QED BY <1>1, InvAlways, PTL

-----------------------------------------------------------------------------
(***************************************************************************)
(* The worker's steps are those that Inference allows.                     *)
(***************************************************************************)
\* There are no more elements than numbers.
LEMMA FewerElements ==
    ASSUME NEW S, NEW s \in Seq(S)
    PROVE  IsFiniteSet(ToSet(s)) /\ Cardinality(ToSet(s)) <= Len(s)
<1>1. IsFiniteSet(1..Len(s)) /\ Cardinality(1..Len(s)) = Len(s)
  <2>1. Len(s) \in Int /\ 1 \in Int /\ Len(s) \in Nat
    BY Elements
  <2>2. /\ IsFiniteSet(1..Len(s))
        /\ Cardinality(1..Len(s)) = IF 1 > Len(s) THEN 0 ELSE Len(s) - 1 + 1
    BY <2>1, FS_Interval
  <2> QED BY <2>1, <2>2
<1>2. s \in Surjection(1..Len(s), ToSet(s))
  BY Elements DEF Surjection, ToSet
<1> QED BY <1>1, <1>2, FS_Surjection

\* What a batch settles is settled together: its jobs that are waited for.
LEMMA SettleMapped ==
    ASSUME Inv, worker = "infer", NEW end \in {"result", "error"}, Settle(end),
           UNCHANGED <<request, stop>>
    PROVE  Promise!Next \/ UNCHANGED Promise!vars
<1> DEFINE pending == {j \in ToSet(batch) : future[j] = "pending"}
<1>1. /\ batch \in Seq(Jobs) /\ future \in [Jobs -> FutureStates]
      /\ Len(batch) \in 1..MaxBatch
      /\ \A i \in 1..Len(batch) : ModelOf(batch[i]) = ModelOf(batch[1])
  BY DEF Inv, Types, WorkerInv
<1>2. pending \subseteq ToSet(batch) /\ \A j \in pending : j \in Jobs /\ future[j] = "pending"
  BY <1>1, Elements
<1>3. future' = [j \in Jobs |-> IF j \in pending THEN end ELSE future[j]]
  BY DEF Settle
<1>4. Cardinality(pending) <= MaxBatch
  <2>1. IsFiniteSet(ToSet(batch)) /\ Cardinality(ToSet(batch)) <= Len(batch)
    BY <1>1, FewerElements
  <2>2. IsFiniteSet(pending) /\ Cardinality(pending) <= Cardinality(ToSet(batch))
    BY <1>2, <2>1, FS_Subset
  <2>3. Cardinality(pending) \in Nat /\ Cardinality(ToSet(batch)) \in Nat
    BY <2>1, <2>2, FS_CardinalityType
  <2> QED BY <2>1, <2>2, <2>3, <1>1, WorkerAssumption
<1>5. \A i, k \in pending : ModelName[i[1]] = ModelName[k[1]]
  <2>1. \A j \in pending : ModelOf(j) = ModelOf(batch[1])
    BY <1>1, <1>2, Elements
  <2> QED BY <2>1 DEF ModelOf
<1> HIDE DEF pending
<1>6. CASE pending = {}
  <2>1. future' = future
    BY <1>1, <1>3, <1>6
  <2> QED BY <2>1 DEF Promise!vars
<1>7. CASE pending # {}
  <2>1. PICK j \in pending : TRUE
    BY <1>7
  <2>2. pending \in SUBSET Promise!Pending /\ j \in Promise!Jobs
    BY <1>2, <2>1 DEF Promise!Pending, Promise!Jobs, Jobs
  <2>3. Promise!Settle(pending, end)
    <3>1. pending # {} /\ Cardinality(pending) <= MaxBatch
      BY <1>4, <1>7
    <3>2. future' = [i \in Promise!Jobs |-> IF i \in pending THEN end ELSE future[i]]
      BY <1>3 DEF Promise!Jobs, Jobs
    <3>3. UNCHANGED <<request, stop>>
      OBVIOUS
    <3>4. Promise!Cardinality(pending) = Cardinality(pending)
      BY DEF Promise!Cardinality, Cardinality
    <3> QED BY <3>1, <3>2, <3>3, <3>4, <1>5, Zenon DEF Promise!Settle
  <2>4. Promise!SettleWith(j)
    BY <2>1, <2>2, <2>3 DEF Promise!SettleWith
  <2> QED BY <2>2, <2>4 DEF Promise!Next
<1> QED BY <1>6, <1>7

\* Every step of the worker is one that Inference allows, or none.
LEMMA StepMapped == Inv /\ [Next]_vars => [Promise!Next]_(Promise!vars)
<1> SUFFICES ASSUME Inv, [Next]_vars PROVE Promise!Next \/ UNCHANGED Promise!vars
  OBVIOUS
<1> USE DEF Promise!Jobs, Promise!PiecesOf, Promise!Ends, Jobs
<1>1. ASSUME NEW r \in Requests, NEW n \in 1..MaxPieces, Submit(r, n) PROVE Promise!Next
  <2>1. Promise!Call(r, n)
    BY <1>1 DEF Submit, Promise!Call
  <2> QED BY <2>1 DEF Promise!Next
<1>2. ASSUME NEW r \in Requests, Answered(r) PROVE Promise!Next
  <2>1. Promise!Answer(r) \/ Promise!Fail(r)
    BY <1>2 DEF Answered, PiecesOf, Submitted, Promise!Answer, Promise!Fail
  <2> QED BY <2>1 DEF Promise!Next
<1>3. ASSUME NEW r \in Requests, ClientGoes(r) PROVE Promise!Next
  <2>1. Promise!Abandon(r)
    BY <1>3 DEF ClientGoes, Promise!Abandon
  <2> QED BY <2>1 DEF Promise!Next
<1>4. CASE CallStop
  <2>1. future \in [Jobs -> FutureStates] /\ UNCHANGED <<request, future>>
        /\ stop = "no" /\ stop' = "waiting"
    BY <1>4 DEF Inv, Types, CallStop
  <2>2. future' = [j \in Jobs |-> IF j \in {} THEN "cancelled" ELSE future[j]]
    BY <2>1
  <2>3. stop' \in {"waiting", "done"} /\ UNCHANGED request
    BY <2>1
  <2>4. {} \in SUBSET Promise!Pending
    OBVIOUS
  <2>5. \E dropped \in SUBSET Promise!Pending :
            future' = [j \in Promise!Jobs |-> IF j \in dropped THEN "cancelled" ELSE future[j]]
    BY <2>2, <2>4
  <2>6. Promise!CallStop
    BY <2>1, <2>3, <2>5 DEF Promise!CallStop
  <2> QED BY <2>6 DEF Promise!Next
<1>5. CASE StopReturns
  BY <1>5 DEF StopReturns, Promise!StopReturns, Promise!Next
<1>6. CASE Deliver \/ BatchFails
  <2>1. PICK end \in {"result", "error"} : Settle(end)
    BY <1>6 DEF Deliver, BatchFails
  <2>2. worker = "infer" /\ UNCHANGED <<request, stop>>
    BY <1>6 DEF Deliver, BatchFails
  <2> QED BY <2>1, <2>2, SettleMapped
<1>7. CASE TakeFirst \/ GetterTakes \/ Collect \/ WindowCloses \/ CancelDelivered
  BY <1>7 DEF TakeFirst, GetterTakes, Collect, WindowCloses, CancelDelivered, Promise!vars
<1>8. CASE Idle \/ UNCHANGED vars
  BY <1>8 DEF Idle, vars, Promise!vars
<1> QED BY <1>1, <1>2, <1>3, <1>4, <1>5, <1>6, <1>7, <1>8
        DEF Next, CallerStep, WorkerStep, ClientStep

\* The worker does nothing that Inference does not allow: jobs are inferred
\* together only for one model and no more than max_batch of them, and a call
\* is answered with all its results or fails by a piece of its own.
THEOREM WorkerKeepsPromise == Spec => Promise!SafeSpec
<1>1. Init => Promise!Init
  BY DEF Init, Promise!Init, Promise!Jobs, Jobs
<1> QED BY <1>1, StepMapped, InvAlways, PTL DEF Spec, Promise!SafeSpec
=============================================================================
