---------------------- MODULE TwoPhaseSchedulerProofs ----------------------
(***************************************************************************)
(* Theorems about TwoPhaseScheduler, for every set of requests, every      *)
(* max_concurrency and every bound: its slots, what a reader sees, and     *)
(* that it implements BoundedStreams.                                      *)
(***************************************************************************)
EXTENDS TwoPhaseScheduler, FiniteSetTheorems, SequenceTheorems, TLAPS

-----------------------------------------------------------------------------
(***************************************************************************)
(* The slots of the semaphore.                                             *)
(***************************************************************************)
\* The deque holds each waiting or woken producer exactly once.
QueueInv ==
    /\ \A r \in Requests : producer[r] \in {"waiting", "granted"}
                             => \E i \in 1..Len(waiters) : waiters[i] = r
    /\ \A i \in 1..Len(waiters) : producer[waiters[i]] \in {"waiting", "granted"}
    /\ \A i, j \in 1..Len(waiters) : waiters[i] = waiters[j] => i = j

\* A call that has not begun has no producer.
NewInv == \A r \in Requests : consumer[r] = "new" => producer[r] = "none"

SlotInv == TypeOK /\ SlotsConserved /\ QueueInv /\ NewInv

\* What a woken set is, without its definition.
LEMMA WokenFact ==
    ASSUME NEW n \in Nat, NEW W \in WokenSets(n)
    PROVE  /\ W \in SUBSET Requests
           /\ IsFiniteSet(W)
           /\ Cardinality(W) \in Nat
           /\ Cardinality(W) <= n
           /\ \A q \in W : Pending(q)
           /\ Cardinality(W) < n => \A q \in Requests : Pending(q) => q \in W
<1> DEFINE Pend == {q \in Requests : Pending(q)}
<1>1. IsFiniteSet(Pend) /\ Cardinality(Pend) \in Nat
  BY FS_Subset, FS_CardinalityType, SchedulerAssumption
<1>2. W \in SUBSET Pend /\ Cardinality(W) = MinOf(n, Cardinality(Pend))
  BY DEF WokenSets
<1>3. IsFiniteSet(W) /\ Cardinality(W) \in Nat
  BY <1>1, <1>2, FS_Subset, FS_CardinalityType
<1>4. Cardinality(W) <= n
  BY <1>1, <1>2 DEF MinOf
<1>5. ASSUME Cardinality(W) < n
      PROVE  W = Pend
  <2>1. Cardinality(W) = Cardinality(Pend)
    BY <1>1, <1>2, <1>5 DEF MinOf
  <2> QED
    BY <2>1, <1>1, <1>2, FS_Subset
<1> QED
  BY <1>2, <1>3, <1>4, <1>5

\* Any set of requests is finite and can be counted.
LEMMA InUseFinite ==
    ASSUME NEW S \in SUBSET Requests
    PROVE  IsFiniteSet(S) /\ Cardinality(S) \in Nat
BY FS_Subset, FS_CardinalityType, SchedulerAssumption

\* Cardinalities of disjoint finite sets add up.
LEMMA DisjointUnion ==
    ASSUME NEW S, NEW T, IsFiniteSet(S), IsFiniteSet(T), S \cap T = {}
    PROVE  /\ IsFiniteSet(S \cup T)
           /\ Cardinality(S \cup T) = Cardinality(S) + Cardinality(T)
<1>1. Cardinality(S \cap T) = 0
  BY FS_EmptySet
<1>2. Cardinality(S) \in Nat /\ Cardinality(T) \in Nat
  BY FS_CardinalityType
<1>3. /\ IsFiniteSet(S \cup T)
      /\ Cardinality(S \cup T) = Cardinality(S) + Cardinality(T) - Cardinality(S \cap T)
  BY FS_Union
<1> QED
  BY <1>1, <1>2, <1>3

\* What a producer's move does to the slots when it wakes others.
LEMMA MoveFact ==
    ASSUME TypeOK, NEW r \in Requests, ~Pending(r),
           NEW s \in {"decoding", "done"}, NEW v \in Nat, NEW n \in Nat, n <= v,
           MoveAndWake(r, s, v, n)
    PROVE  /\ producer' \in [Requests -> ProducerStates]
           /\ value' \in Nat
           /\ producer'[r] = s
           /\ \A q \in Requests \ {r} :
                 \/ producer'[q] = producer[q]
                 \/ Pending(q) /\ producer'[q] = "granted"
           /\ value' > v - n => \A q \in Requests \ {r} :
                                   Pending(q) => producer'[q] = "granted"
           /\ s = "decoding" =>
                 value' + Cardinality(InUse') = v + Cardinality(InUse \ {r}) + 1
           /\ s = "done" =>
                 value' + Cardinality(InUse') = v + Cardinality(InUse \ {r})
<1>1. PICK W \in WokenSets(n) :
        /\ producer' = [q \in Requests |-> IF q = r THEN s
                                           ELSE IF q \in W THEN "granted"
                                           ELSE producer[q]]
        /\ value' = v - Cardinality(W)
  BY DEF MoveAndWake
<1>2. /\ W \in SUBSET Requests /\ IsFiniteSet(W)
      /\ Cardinality(W) \in Nat /\ Cardinality(W) <= n
      /\ \A q \in W : Pending(q)
      /\ Cardinality(W) < n => \A q \in Requests : Pending(q) => q \in W
  BY WokenFact
<1>3. r \notin W
  BY <1>2
<1> DEFINE Own == IF s = "decoding" THEN {r} ELSE {}
           Kept == InUse \ {r}
<1>4. Kept \in SUBSET Requests /\ Own \in SUBSET Requests
  BY DEF InUse
<1>5. IsFiniteSet(Kept) /\ Cardinality(Kept) \in Nat
  BY <1>4, InUseFinite
<1>6. IsFiniteSet(Own) /\ Cardinality(Own) = IF s = "decoding" THEN 1 ELSE 0
  BY FS_Singleton, FS_EmptySet
<1>7. InUse' = (Kept \cup Own) \cup W
  BY <1>1, <1>2, <1>3 DEF InUse, Pending, TypeOK
<1>8. Kept \cap Own = {} /\ (Kept \cup Own) \cap W = {}
  BY <1>2, <1>3 DEF InUse, Pending
<1>9. IsFiniteSet(Kept \cup Own)
      /\ Cardinality(Kept \cup Own) = Cardinality(Kept) + Cardinality(Own)
  BY <1>5, <1>6, <1>8, DisjointUnion
<1> HIDE DEF Own, Kept
<1>10. Cardinality(InUse') = Cardinality(Kept) + Cardinality(Own) + Cardinality(W)
  BY <1>2, <1>7, <1>8, <1>9, DisjointUnion
<1>11. producer' \in [Requests -> ProducerStates]
  BY <1>1 DEF TypeOK, ProducerStates
<1>12. value' > v - n => \A q \in Requests \ {r} :
                                   Pending(q) => producer'[q] = "granted"
  BY <1>1, <1>2
<1>13. value' \in Nat
  BY <1>1, <1>2
<1>14. value' + Cardinality(InUse')
                = v + Cardinality(Kept) + (IF s = "decoding" THEN 1 ELSE 0)
  BY <1>1, <1>2, <1>5, <1>6, <1>10
<1> QED
  BY <1>1, <1>2, <1>5, <1>11, <1>12, <1>13, <1>14 DEF Kept

\* The deque u is the one there is without r.
LeavesOut(u, r) ==
    /\ u \in Seq(Requests)
    /\ \A k \in 1..Len(waiters) : waiters[k] # r
          => \E m \in 1..Len(u) : u[m] = waiters[k]
    /\ \A m \in 1..Len(u) : u[m] # r /\ \E k \in 1..Len(waiters) : u[m] = waiters[k]
    /\ \A m, k \in 1..Len(u) : u[m] = u[k] => m = k

\* Taking a producer off the deque keeps the others.
LEMMA UnqueueFact ==
    ASSUME waiters \in Seq(Requests), NEW r \in Requests,
           \E i \in 1..Len(waiters) : waiters[i] = r,
           \A i, j \in 1..Len(waiters) : waiters[i] = waiters[j] => i = j,
           NEW u, u = Unqueue(r)
    PROVE  LeavesOut(u, r)
<1> DEFINE i == CHOOSE k \in 1..Len(waiters) : waiters[k] = r
<1>1. i \in 1..Len(waiters) /\ waiters[i] = r
  OBVIOUS
<1> HIDE DEF i
<1>2. u = SubSeq(waiters, 1, i - 1) \o SubSeq(waiters, i + 1, Len(waiters))
  BY DEF Unqueue, i
<1> DEFINE left == SubSeq(waiters, 1, i - 1)
           right == SubSeq(waiters, i + 1, Len(waiters))
<1>n. Len(waiters) \in Nat /\ i \in Nat /\ \A k \in 1..Len(waiters) : waiters[k] \in Requests
  BY <1>1, LenProperties, ElementOfSeq
<1>l. /\ left \in Seq(Requests)
      /\ Len(left) = i - 1
      /\ \A k \in 1..(i - 1) : left[k] = waiters[k]
  <2>1. \A k \in 1..(i - 1) : waiters[k] \in Requests
    BY <1>1, <1>n
  <2>2. /\ left \in Seq(Requests)
        /\ Len(left) = IF 1 <= i - 1 THEN i - 1 - 1 + 1 ELSE 0
        /\ \A k \in 1..(i - 1 - 1 + 1) : left[k] = waiters[1 + k - 1]
    BY <2>1, <1>n, SubSeqProperties
  <2> QED
    BY <2>2, <1>1, <1>n
<1>r. /\ right \in Seq(Requests)
      /\ Len(right) = Len(waiters) - i
      /\ \A k \in 1..(Len(waiters) - i) : right[k] = waiters[i + k]
  <2>1. \A k \in (i + 1)..Len(waiters) : waiters[k] \in Requests
    BY <1>1, <1>n
  <2>2. /\ right \in Seq(Requests)
        /\ Len(right) = IF i + 1 <= Len(waiters) THEN Len(waiters) - (i + 1) + 1 ELSE 0
        /\ \A k \in 1..(Len(waiters) - (i + 1) + 1) : right[k] = waiters[(i + 1) + k - 1]
    BY <2>1, <1>n, SubSeqProperties
  <2> QED
    BY <2>2, <1>1, <1>n
<1> HIDE DEF left, right
<1>c. /\ left \o right \in Seq(Requests)
      /\ Len(left \o right) = Len(left) + Len(right)
      /\ \A m \in 1..(Len(left) + Len(right)) :
            (left \o right)[m] = IF m <= Len(left) THEN left[m] ELSE right[m - Len(left)]
  <2>1. left \in Seq(Requests) /\ right \in Seq(Requests)
    BY <1>l, <1>r
  <2> QED
    BY ONLY <2>1, ConcatProperties
<1>u. u = left \o right
  BY <1>2 DEF left, right
<1>3. u \in Seq(Requests) /\ Len(u) = Len(waiters) - 1
  <2>1. Len(left) + Len(right) = Len(waiters) - 1
    BY <1>1, <1>n, <1>l, <1>r
  <2> QED
    BY <2>1, <1>u, <1>c
<1>4. \A m \in 1..Len(u) : u[m] = IF m < i THEN waiters[m] ELSE waiters[m + 1]
  <2> SUFFICES ASSUME NEW m \in 1..Len(u)
               PROVE  u[m] = IF m < i THEN waiters[m] ELSE waiters[m + 1]
    OBVIOUS
  <2>2. u[m] = IF m <= i - 1 THEN left[m] ELSE right[m - (i - 1)]
    BY <1>u, <1>c, <1>l, <1>r, <1>1, <1>n
  <2>3. CASE m < i
    BY <2>2, <2>3, <1>1, <1>n, <1>l
  <2>4. CASE ~(m < i)
    <3>1. m - (i - 1) \in 1..(Len(waiters) - i)
      BY <2>4, <1>1, <1>3, <1>n
    <3>2. right[m - (i - 1)] = waiters[i + (m - (i - 1))]
      BY <3>1, <1>r
    <3> QED
      BY <2>2, <2>4, <3>2, <1>1, <1>n
  <2> QED
    BY <2>3, <2>4
<1>5. ASSUME NEW k \in 1..Len(waiters), waiters[k] # r
      PROVE  \E m \in 1..Len(u) : u[m] = waiters[k]
  <2>1. CASE k < i
    BY <2>1, <1>1, <1>3, <1>4
  <2>2. CASE k > i
    <3>1. k - 1 \in 1..Len(u) /\ ~(k - 1 < i)
      BY <2>2, <1>1, <1>3
    <3>2. u[k - 1] = waiters[k]
      BY <3>1, <1>4
    <3> QED
      BY <3>1, <3>2
  <2> QED
    BY <2>1, <2>2, <1>1, <1>5
<1>6. ASSUME NEW m \in 1..Len(u)
      PROVE  u[m] # r /\ \E k \in 1..Len(waiters) : u[m] = waiters[k]
  BY <1>1, <1>3, <1>4
<1>7. ASSUME NEW m \in 1..Len(u), NEW k \in 1..Len(u), u[m] = u[k]
      PROVE  m = k
  <2> DEFINE at(x) == IF x < i THEN x ELSE x + 1
  <2>1. at(m) \in 1..Len(waiters) /\ at(k) \in 1..Len(waiters)
    BY <1>1, <1>3, <1>n
  <2>2. waiters[at(m)] = waiters[at(k)]
    BY <1>4, <1>7
  <2>3. at(m) = at(k)
    BY <2>1, <2>2
  <2> QED
    BY <2>3, <1>1, <1>n
<1> QED
  BY <1>3, <1>5, <1>6, <1>7 DEF LeavesOut

-----------------------------------------------------------------------------
\* A new scheduler satisfies the slot invariant.
LEMMA SlotInit == Init => SlotInv
<1> SUFFICES ASSUME Init PROVE SlotInv
  OBVIOUS
<1> USE SchedulerAssumption
<1>1. TypeOK
  BY DEF Init, TypeOK, Items, ConsumerStates, ProducerStates
<1>2. SlotsConserved
  <2>1. InUse = {}
    BY DEF Init, InUse
  <2> QED
    BY <2>1, FS_EmptySet DEF Init, SlotsConserved
<1>3. QueueInv /\ NewInv
  BY DEF Init, QueueInv, NewInv
<1> QED
  BY <1>1, <1>2, <1>3 DEF SlotInv

\* A step that touches neither the semaphore nor a producer it knows of.
LEMMA QuietStep ==
    ASSUME SlotInv, TypeOK', NewInv', UNCHANGED semVars,
           \A q \in Requests : \/ producer'[q] = producer[q]
                               \/ /\ producer[q] \in {"none", "created", "done"}
                                  /\ producer'[q] \in {"none", "created", "done"}
    PROVE  SlotInv'
<1> USE DEF SlotInv, semVars
<1>1. InUse' = InUse
  BY DEF InUse
<1>2. SlotsConserved'
  BY <1>1 DEF SlotsConserved
<1>3. QueueInv'
  <2>1. \A i \in 1..Len(waiters) : waiters[i] \in Requests
    BY ElementOfSeq DEF TypeOK
  <2> QED
    BY <2>1 DEF QueueInv
<1> QED
  BY <1>2, <1>3

\* A producer that acquires a slot it was promised, or gives up: it leaves the
\* deque.
LEMMA QueueAfterLeaving ==
    ASSUME SlotInv, NEW r \in Requests, producer[r] \in {"waiting", "granted"},
           waiters' = Unqueue(r),
           producer' \in [Requests -> ProducerStates],
           producer'[r] \in {"decoding", "done"},
           \A q \in Requests \ {r} : \/ producer'[q] = producer[q]
                                     \/ Pending(q) /\ producer'[q] = "granted"
    PROVE  waiters' \in Seq(Requests) /\ QueueInv'
<1>1. /\ waiters \in Seq(Requests)
      /\ \E i \in 1..Len(waiters) : waiters[i] = r
      /\ \A i, j \in 1..Len(waiters) : waiters[i] = waiters[j] => i = j
      /\ \A i \in 1..Len(waiters) : waiters[i] \in Requests
  BY ElementOfSeq DEF SlotInv, TypeOK, QueueInv
<1>l. LeavesOut(waiters', r)
  BY <1>1, UnqueueFact
<1>2. /\ waiters' \in Seq(Requests)
      /\ \A k \in 1..Len(waiters) : waiters[k] # r
            => \E m \in 1..Len(waiters') : waiters'[m] = waiters[k]
      /\ \A m \in 1..Len(waiters') :
            waiters'[m] # r /\ \E k \in 1..Len(waiters) : waiters'[m] = waiters[k]
      /\ \A m, k \in 1..Len(waiters') : waiters'[m] = waiters'[k] => m = k
  BY <1>l DEF LeavesOut
<1>3. ASSUME NEW q \in Requests, producer'[q] \in {"waiting", "granted"}
      PROVE  \E m \in 1..Len(waiters') : waiters'[m] = q
  <2>1. q # r /\ producer[q] \in {"waiting", "granted"}
    BY <1>3 DEF Pending
  <2>2. PICK k \in 1..Len(waiters) : waiters[k] = q
    BY <2>1 DEF SlotInv, QueueInv
  <2> QED
    BY <2>1, <2>2, <1>2
<1>4. ASSUME NEW m \in 1..Len(waiters')
      PROVE  producer'[waiters'[m]] \in {"waiting", "granted"}
  <2>1. PICK k \in 1..Len(waiters) : waiters'[m] = waiters[k]
    BY <1>2
  <2>2. waiters[k] \in Requests \ {r} /\ producer[waiters[k]] \in {"waiting", "granted"}
    BY <2>1, <1>1, <1>2 DEF SlotInv, QueueInv
  <2> QED
    BY <2>1, <2>2 DEF Pending
<1> QED
  BY <1>2, <1>3, <1>4 DEF QueueInv

\* A producer that releases its slot: the deque is as it was.
LEMMA QueueAfterRelease ==
    ASSUME SlotInv, NEW r \in Requests, producer[r] = "decoding",
           UNCHANGED waiters,
           producer'[r] = "done",
           \A q \in Requests \ {r} : \/ producer'[q] = producer[q]
                                     \/ Pending(q) /\ producer'[q] = "granted"
    PROVE  QueueInv'
<1>1. \A i \in 1..Len(waiters) : waiters[i] \in Requests \ {r}
  BY ElementOfSeq DEF SlotInv, TypeOK, QueueInv
<1> QED
  BY <1>1 DEF SlotInv, QueueInv, Pending

\* The value of the semaphore stays in its range when the slots add up.
LEMMA ValueRange ==
    ASSUME value' \in Nat, SlotsConserved'
    PROVE  value' \in 0..MaxConcurrency
<1>1. InUse' \in SUBSET Requests
  BY DEF InUse
<1>2. Cardinality(InUse') \in Nat
  BY <1>1, InUseFinite
<1> QED
  BY <1>2, SchedulerAssumption DEF SlotsConserved

\* Setting a request aside takes its slot, if it uses one, off the count.
LEMMA InUseMinus ==
    ASSUME NEW r \in Requests
    PROVE  /\ Cardinality(InUse) \in Nat
           /\ Cardinality(InUse \ {r}) \in Nat
           /\ Cardinality(InUse \ {r}) =
                IF producer[r] \in {"decoding", "granted"}
                THEN Cardinality(InUse) - 1 ELSE Cardinality(InUse)
<1>1. InUse \in SUBSET Requests /\ InUse \ {r} \in SUBSET Requests
  BY DEF InUse
<1>2. r \in InUse <=> producer[r] \in {"decoding", "granted"}
  BY DEF InUse
<1>3. IsFiniteSet(InUse)
  BY <1>1, InUseFinite
<1>4. Cardinality(InUse \ {r}) = IF r \in InUse THEN Cardinality(InUse) - 1
                                                ELSE Cardinality(InUse)
  BY <1>3, FS_RemoveElement
<1> QED
  BY <1>1, <1>2, <1>4, InUseFinite

-----------------------------------------------------------------------------
(***************************************************************************)
(* SlotInv is preserved: the steps that leave the semaphore alone, then    *)
(* the four that move slots.                                               *)
(***************************************************************************)
LEMMA SlotQuietSteps ==
    ASSUME SlotInv, NEW r \in Requests,
           \/ ConsumerStep(r) \/ ClientStep(r) \/ ProducerNeverStarts(r) \/ Emit(r)
    PROVE  SlotInv'
<1> USE SchedulerAssumption
<1>1. CASE Start(r)
  <2>1. TypeOK'
    BY <1>1 DEF SlotInv, TypeOK, Start, consumerVars, semVars, ConsumerStates, ProducerStates
  <2>a. NewInv'
    BY <1>1 DEF Start, NewInv, SlotInv, TypeOK, consumerVars, LeaveTry
  <2> QED
    BY <1>1, <2>1, <2>a, QuietStep DEF Start, SlotInv, TypeOK, NewInv
<1>2. CASE PhaseOneRaises(r)
  <2>1. TypeOK'
    BY <1>2 DEF SlotInv, TypeOK, PhaseOneRaises, semVars, ConsumerStates
  <2>a. NewInv'
    BY <1>2 DEF PhaseOneRaises, NewInv, SlotInv, TypeOK, consumerVars, LeaveTry
  <2> QED
    BY <1>2, <2>1, <2>a, QuietStep DEF PhaseOneRaises, SlotInv, TypeOK, NewInv
<1>3. CASE ClientNext(r)
  <2>1. TypeOK'
    BY <1>3 DEF SlotInv, TypeOK, ClientNext, semVars, ConsumerStates
  <2>a. NewInv'
    BY <1>3 DEF ClientNext, NewInv, SlotInv, TypeOK, consumerVars, LeaveTry
  <2> QED
    BY <1>3, <2>1, <2>a, QuietStep DEF ClientNext, SlotInv, TypeOK, NewInv
<1>4. CASE ClientCloses(r)
  <2>1. TypeOK'
    BY <1>4 DEF SlotInv, TypeOK, ClientCloses, LeaveTry, semVars, ConsumerStates
  <2>a. NewInv'
    BY <1>4 DEF ClientCloses, NewInv, SlotInv, TypeOK, consumerVars, LeaveTry
  <2> QED
    BY <1>4, <2>1, <2>a, QuietStep DEF ClientCloses, SlotInv, TypeOK, NewInv
<1>5. CASE Joined(r)
  <2>1. TypeOK'
    BY <1>5 DEF SlotInv, TypeOK, Joined, semVars, ConsumerStates
  <2>a. NewInv'
    BY <1>5 DEF Joined, NewInv, SlotInv, TypeOK, consumerVars, LeaveTry
  <2> QED
    BY <1>5, <2>1, <2>a, QuietStep DEF Joined, SlotInv, TypeOK, NewInv
<1>6. CASE ProducerNeverStarts(r)
  <2>1. TypeOK'
    BY <1>6 DEF SlotInv, TypeOK, ProducerNeverStarts, consumerVars, semVars, ProducerStates
  <2>a. NewInv'
    BY <1>6 DEF ProducerNeverStarts, NewInv, SlotInv, TypeOK, consumerVars, LeaveTry
  <2> QED
    BY <1>6, <2>1, <2>a, QuietStep DEF ProducerNeverStarts, SlotInv, TypeOK, NewInv
<1>7. CASE GetItem(r)
  <2>1. /\ Head(outputQ[r]) \in Items
        /\ Tail(outputQ[r]) \in Seq(Items)
    BY <1>7, HeadTailProperties DEF GetItem, SlotInv, TypeOK
  <2>2. (producer[r] # "done") \in BOOLEAN
    OBVIOUS
  <2>3. /\ consumer' \in [Requests -> ConsumerStates]
        /\ leaving' \in [Requests -> {"no", "sentinel", "cancel"}]
        /\ cancelled' \in [Requests -> BOOLEAN]
    BY <1>7, <2>2 DEF GetItem, LeaveTry, SlotInv, TypeOK, ConsumerStates
  <2>4. yielded' \in [Requests -> Seq(Items)] /\ outputQ' \in [Requests -> Seq(Items)]
    <3>1. outputQ' = [outputQ EXCEPT ![r] = Tail(@)]
      BY <1>7 DEF GetItem
    <3>2. \/ yielded' = yielded
          \/ yielded' = [yielded EXCEPT ![r] = Append(@, Head(outputQ[r]))]
      BY <1>7 DEF GetItem
    <3>3. outputQ' \in [Requests -> Seq(Items)]
      BY <2>1, <3>1 DEF SlotInv, TypeOK
    <3>4. Append(yielded[r], Head(outputQ[r])) \in Seq(Items)
      BY <2>1 DEF SlotInv, TypeOK
    <3>5. yielded' \in [Requests -> Seq(Items)]
      BY <3>2, <3>4 DEF SlotInv, TypeOK
    <3> QED
      BY <3>3, <3>5
  <2>5. TypeOK'
    BY <1>7, <2>3, <2>4 DEF GetItem, SlotInv, TypeOK, semVars
  <2>a. NewInv'
    BY <1>7 DEF GetItem, NewInv, SlotInv, TypeOK, LeaveTry
  <2> QED
    BY <1>7, <2>5, <2>a, QuietStep DEF GetItem, SlotInv, TypeOK
<1>8. CASE CancelClient(r)
  <2>2. (producer[r] # "done") \in BOOLEAN
    OBVIOUS
  <2>3. /\ consumer' \in [Requests -> ConsumerStates]
        /\ leaving' \in [Requests -> {"no", "sentinel", "cancel"}]
        /\ cancelled' \in [Requests -> BOOLEAN]
    BY <1>8, <2>2 DEF CancelClient, LeaveTry, SlotInv, TypeOK, ConsumerStates
  <2>4. cancels' \in [Requests -> 0..MaxCancels]
    BY <1>8 DEF CancelClient, SlotInv, TypeOK
  <2>1. TypeOK'
    BY <1>8, <2>3, <2>4 DEF CancelClient, SlotInv, TypeOK, semVars
  <2>a. NewInv'
    BY <1>8 DEF CancelClient, NewInv, SlotInv, TypeOK, consumerVars, LeaveTry
  <2> QED
    BY <1>8, <2>1, <2>a, QuietStep DEF CancelClient, SlotInv, TypeOK, NewInv
<1>9. CASE Emit(r)
  <2>1. TypeOK'
    BY <1>9 DEF Emit, SlotInv, TypeOK, Items, consumerVars, semVars
  <2>a. NewInv'
    BY <1>9 DEF Emit, NewInv, SlotInv, TypeOK, consumerVars, LeaveTry
  <2> QED
    BY <1>9, <2>1, <2>a, QuietStep DEF Emit, SlotInv, TypeOK, NewInv
<1> QED
  BY <1>1, <1>2, <1>3, <1>4, <1>5, <1>6, <1>7, <1>8, <1>9 DEF ConsumerStep, ClientStep

\* Taking a free slot, or queueing, keeps the slot invariant.
LEMMA SlotProducerStarts ==
    ASSUME SlotInv, NEW r \in Requests, ProducerStarts(r)
    PROVE  SlotInv'
<1> USE SchedulerAssumption DEF SlotInv
<1>1. \A i \in 1..Len(waiters) : waiters[i] \in Requests \ {r}
  BY ElementOfSeq DEF TypeOK, QueueInv, ProducerStarts
<1>2. CASE ~Locked
  <2>1. /\ value # 0 /\ value' = value - 1 /\ waiters' = waiters
        /\ producer' = [producer EXCEPT ![r] = "decoding"]
    BY <1>2 DEF ProducerStarts, Locked
  <2>2. InUse' = (InUse \ {r}) \cup {r} /\ InUse \ {r} \in SUBSET Requests
    BY <2>1 DEF InUse, TypeOK
  <2>3. Cardinality(InUse \ {r}) = Cardinality(InUse) /\ Cardinality(InUse) \in Nat
    BY InUseMinus DEF ProducerStarts
  <2>4. Cardinality(InUse') = Cardinality(InUse) + 1
    BY <2>2, <2>3, InUseFinite, FS_AddElement
  <2>5. value' \in Nat /\ SlotsConserved'
    BY <2>1, <2>3, <2>4 DEF TypeOK, SlotsConserved
  <2>6. value' \in 0..MaxConcurrency
    BY <2>5, ValueRange
  <2>7. TypeOK'
    BY <2>1, <2>6 DEF ProducerStarts, TypeOK, consumerVars, ProducerStates
  <2>8. QueueInv'
    <3>1. \A q \in Requests : q # r => producer'[q] = producer[q]
      BY <2>1 DEF TypeOK
    <3>2. producer'[r] = "decoding"
      BY <2>1 DEF TypeOK
    <3>3. \A i \in 1..Len(waiters) : producer'[waiters[i]] = producer[waiters[i]]
      BY <1>1, <3>1
    <3>4. \A q \in Requests : producer'[q] \in {"waiting", "granted"}
                              => \E i \in 1..Len(waiters) : waiters[i] = q
      BY <3>1, <3>2 DEF QueueInv
    <3> QED BY <2>1, <3>3, <3>4 DEF QueueInv
  <2>9. NewInv'
    BY <2>1 DEF ProducerStarts, NewInv, TypeOK, consumerVars
  <2> QED
    BY <2>5, <2>7, <2>8, <2>9
<1>3. CASE Locked
  <2>1. /\ value' = value /\ waiters' = Append(waiters, r)
        /\ producer' = [producer EXCEPT ![r] = "waiting"]
        /\ producer[r] = "created"
    BY <1>3 DEF ProducerStarts
  <2>2. InUse' = InUse
    BY <2>1 DEF InUse, TypeOK
  <2>3. SlotsConserved'
    BY <2>1, <2>2 DEF SlotsConserved
  <2>4. TypeOK'
    BY <2>1 DEF ProducerStarts, TypeOK, consumerVars, ProducerStates
  <2>5. /\ Len(waiters) \in Nat /\ Len(waiters') = Len(waiters) + 1
        /\ \A i \in 1..Len(waiters') :
              waiters'[i] = IF i = Len(waiters) + 1 THEN r ELSE waiters[i]
    BY <2>1 DEF TypeOK
  <2>6. ASSUME NEW q \in Requests, producer'[q] \in {"waiting", "granted"}
        PROVE  \E i \in 1..Len(waiters') : waiters'[i] = q
    <3>1. CASE q = r
      BY <3>1, <2>5
    <3>2. CASE q # r
      <4>1. producer[q] \in {"waiting", "granted"}
        BY <2>1, <2>6, <3>2 DEF TypeOK
      <4>2. PICK i \in 1..Len(waiters) : waiters[i] = q
        BY <4>1 DEF QueueInv
      <4> QED
        BY <4>2, <2>5
    <3> QED
      BY <3>1, <3>2
  <2>7. ASSUME NEW i \in 1..Len(waiters')
        PROVE  producer'[waiters'[i]] \in {"waiting", "granted"}
    BY <2>1, <2>5, <1>1 DEF QueueInv, TypeOK
  <2>8. ASSUME NEW i \in 1..Len(waiters'), NEW j \in 1..Len(waiters'),
               waiters'[i] = waiters'[j]
        PROVE  i = j
    BY <2>5, <2>8, <1>1 DEF QueueInv
  <2>9. QueueInv'
    BY <2>6, <2>7, <2>8 DEF QueueInv
  <2>10. NewInv'
    BY <2>1 DEF ProducerStarts, NewInv, TypeOK, consumerVars
  <2> QED
    BY <2>3, <2>4, <2>9, <2>10
<1> QED
  BY <1>2, <1>3

\* So does a woken waiter that takes its slot and wakes others.
LEMMA SlotAcquireResumes ==
    ASSUME SlotInv, NEW r \in Requests, AcquireResumes(r)
    PROVE  SlotInv'
<1> USE SchedulerAssumption
<1>1. /\ TypeOK /\ SlotsConserved /\ producer[r] = "granted" /\ ~Pending(r)
      /\ value \in Nat /\ value <= value
      /\ waiters' = Unqueue(r)
      /\ MoveAndWake(r, "decoding", value, value)
  BY DEF SlotInv, TypeOK, AcquireResumes, Pending
<1>2. /\ producer' \in [Requests -> ProducerStates]
      /\ value' \in Nat
      /\ producer'[r] = "decoding"
      /\ \A q \in Requests \ {r} : \/ producer'[q] = producer[q]
                                   \/ Pending(q) /\ producer'[q] = "granted"
      /\ value' + Cardinality(InUse') = value + Cardinality(InUse \ {r}) + 1
  BY <1>1, MoveFact
<1>3. SlotsConserved'
  <2>1. Cardinality(InUse) \in Nat /\ Cardinality(InUse \ {r}) = Cardinality(InUse) - 1
    BY <1>1, InUseMinus
  <2> QED
    BY <1>1, <1>2, <2>1 DEF SlotsConserved
<1>4. waiters' \in Seq(Requests) /\ QueueInv'
  BY <1>1, <1>2, QueueAfterLeaving
<1>5. TypeOK'
  BY <1>2, <1>3, <1>4, <1>1, ValueRange DEF AcquireResumes, TypeOK, consumerVars
<1>6. NewInv'
  BY <1>1, <1>2 DEF AcquireResumes, SlotInv, NewInv, consumerVars, Pending
<1> QED
  BY <1>3, <1>4, <1>5, <1>6 DEF SlotInv

\* So does a cancelled waiter, with or without a slot to put back.
LEMMA SlotAcquireCancelled ==
    ASSUME SlotInv, NEW r \in Requests, AcquireCancelled(r)
    PROVE  SlotInv'
<1> USE SchedulerAssumption
<1> DEFINE free == IF producer[r] = "granted" THEN value + 1 ELSE value
<1>1. /\ TypeOK /\ SlotsConserved /\ ~Pending(r)
      /\ producer[r] \in {"waiting", "granted"}
      /\ free \in Nat /\ free <= free
      /\ waiters' = Unqueue(r)
      /\ MoveAndWake(r, "done", free, free)
  BY DEF SlotInv, TypeOK, AcquireCancelled, Pending
<1> HIDE DEF free
<1>2. /\ producer' \in [Requests -> ProducerStates]
      /\ value' \in Nat
      /\ producer'[r] = "done"
      /\ \A q \in Requests \ {r} : \/ producer'[q] = producer[q]
                                   \/ Pending(q) /\ producer'[q] = "granted"
      /\ value' + Cardinality(InUse') = free + Cardinality(InUse \ {r})
  BY <1>1, MoveFact
<1>3. SlotsConserved'
  <2>1. /\ Cardinality(InUse) \in Nat
        /\ Cardinality(InUse \ {r}) = IF producer[r] = "granted"
                                      THEN Cardinality(InUse) - 1 ELSE Cardinality(InUse)
    BY <1>1, InUseMinus
  <2>2. free + Cardinality(InUse \ {r}) = value + Cardinality(InUse)
    BY <1>1, <2>1 DEF free, TypeOK
  <2> QED
    BY <1>1, <1>2, <2>2 DEF SlotsConserved
<1>4. waiters' \in Seq(Requests) /\ QueueInv'
  BY <1>1, <1>2, QueueAfterLeaving
<1>5. TypeOK'
  BY <1>2, <1>3, <1>4, <1>1, ValueRange DEF AcquireCancelled, TypeOK, consumerVars
<1>6. NewInv'
  BY <1>1, <1>2 DEF AcquireCancelled, SlotInv, NewInv, consumerVars, Pending
<1> QED
  BY <1>3, <1>4, <1>5, <1>6 DEF SlotInv

\* So does the end of phase 2, cancelled or not.
LEMMA SlotPhaseTwoOver ==
    ASSUME SlotInv, NEW r \in Requests, PhaseTwoEnds(r) \/ PhaseTwoCancelled(r)
    PROVE  SlotInv'
<1> USE SchedulerAssumption
<1>1. /\ TypeOK /\ SlotsConserved /\ producer[r] = "decoding" /\ ~Pending(r)
      /\ value \in Nat
      /\ UNCHANGED waiters
      /\ MoveAndWake(r, "done", value + 1, 1)
  BY DEF SlotInv, TypeOK, PhaseTwoEnds, PhaseTwoCancelled, Release, Pending
<1>2. /\ producer' \in [Requests -> ProducerStates]
      /\ value' \in Nat
      /\ producer'[r] = "done"
      /\ \A q \in Requests \ {r} : \/ producer'[q] = producer[q]
                                   \/ Pending(q) /\ producer'[q] = "granted"
      /\ value' + Cardinality(InUse') = value + 1 + Cardinality(InUse \ {r})
  <2>1. value + 1 \in Nat /\ 1 \in Nat /\ 1 <= value + 1
    BY <1>1
  <2> QED
    BY <1>1, <2>1, MoveFact
<1>3. SlotsConserved'
  <2>1. Cardinality(InUse) \in Nat /\ Cardinality(InUse \ {r}) = Cardinality(InUse) - 1
    BY <1>1, InUseMinus
  <2> QED
    BY <1>1, <1>2, <2>1 DEF SlotsConserved
<1>4. QueueInv'
  BY <1>1, <1>2, QueueAfterRelease
<1>5. outputQ' \in [Requests -> Seq(Items)] /\ failed' \in [Requests -> BOOLEAN]
  <2>1. EndOfStream \in Items
    BY DEF EndOfStream, Items
  <2>2. outputQ' = [outputQ EXCEPT ![r] = Append(@, EndOfStream)]
    BY DEF PhaseTwoEnds, PhaseTwoCancelled
  <2>3. \E raises \in BOOLEAN : failed' = [failed EXCEPT ![r] = raises]
    BY DEF PhaseTwoEnds, PhaseTwoCancelled
  <2>4. outputQ' \in [Requests -> Seq(Items)]
    BY <1>1, <2>1, <2>2 DEF TypeOK
  <2> QED
    BY <1>1, <2>3, <2>4 DEF TypeOK
<1>6. TypeOK'
  BY <1>1, <1>2, <1>3, <1>5, ValueRange
     DEF PhaseTwoEnds, PhaseTwoCancelled, TypeOK, consumerVars
<1>7. NewInv'
  BY <1>1, <1>2 DEF PhaseTwoEnds, PhaseTwoCancelled, SlotInv, NewInv, consumerVars, Pending
<1> QED
  BY <1>3, <1>4, <1>6, <1>7 DEF SlotInv

\* Every step keeps the slot invariant.
LEMMA SlotStep == SlotInv /\ [Next]_vars => SlotInv'
<1> SUFFICES ASSUME SlotInv, [Next]_vars PROVE SlotInv'
  OBVIOUS
<1>1. ASSUME NEW r \in Requests, ConsumerStep(r) \/ ClientStep(r) \/ ProducerStep(r)
      PROVE  SlotInv'
  BY <1>1, SlotQuietSteps, SlotProducerStarts, SlotAcquireResumes,
     SlotAcquireCancelled, SlotPhaseTwoOver DEF ProducerStep
<1>2. CASE UNCHANGED vars
  <2>1. TypeOK'
    BY <1>2 DEF SlotInv, TypeOK, vars
  <2> QED
    BY <1>2, <2>1, QuietStep DEF vars, semVars, SlotInv, NewInv
<1> QED
  BY <1>1, <1>2 DEF Next, AllFinished

\* The slot invariant always holds.
LEMMA SlotInvariant == Spec => []SlotInv
BY SlotInit, SlotStep, PTL DEF Spec

\* Every variable keeps its type, in particular the semaphore's value never
\* goes below zero or above max_concurrency.
THEOREM TypeCorrect == Spec => []TypeOK
<1>1. SlotInv => TypeOK
  BY DEF SlotInv
<1> QED
  BY <1>1, SlotInvariant, PTL

\* No interleaving of acquisitions, releases and cancellations leaks a slot.
THEOREM SlotSafety == Spec => []SlotsConserved
<1>1. SlotInv => SlotsConserved
  BY DEF SlotInv
<1> QED
  BY <1>1, SlotInvariant, PTL

\* At most max_concurrency producers are in phase 2 at any time.
THEOREM BoundedConcurrency ==
    Spec => [](Cardinality({r \in Requests : producer[r] = "decoding"}) <= MaxConcurrency)
<1> DEFINE Decoding == {r \in Requests : producer[r] = "decoding"}
<1>1. SlotInv => Cardinality(Decoding) <= MaxConcurrency
  <2> SUFFICES ASSUME SlotInv PROVE Cardinality(Decoding) <= MaxConcurrency
    OBVIOUS
  <2>1. InUse \in SUBSET Requests /\ Decoding \in SUBSET InUse
    BY DEF InUse
  <2>2. IsFiniteSet(InUse) /\ Cardinality(InUse) \in Nat
    BY <2>1, InUseFinite
  <2>3. Cardinality(Decoding) <= Cardinality(InUse) /\ Cardinality(Decoding) \in Nat
    BY <2>1, <2>2, FS_Subset, FS_CardinalityType
  <2> QED
    BY <2>2, <2>3, SchedulerAssumption DEF SlotInv, SlotsConserved, TypeOK
<1> QED
  BY <1>1, SlotInvariant, PTL
-----------------------------------------------------------------------------
(***************************************************************************)
(* Who is woken: a free slot is on its way to a waiter, and waiters are    *)
(* served in the order in which they came.                                 *)
(***************************************************************************)
Woken == \E q \in Requests : producer[q] = "granted"

Wakeful == value = 0 \/ Woken \/ \A q \in Requests : ~Pending(q)

\* With the deque as it is, that is what NoLostWakeup says.
LEMMA WakefulIsEnough == SlotInv /\ Wakeful => NoLostWakeup
<1> SUFFICES ASSUME SlotInv, Wakeful, value > 0, NEW p \in Requests, Pending(p)
             PROVE  \E i \in 1..Len(waiters) : producer[waiters[i]] = "granted"
  BY DEF NoLostWakeup
<1>1. value # 0
  BY SchedulerAssumption DEF SlotInv, TypeOK
<1>2. PICK q \in Requests : producer[q] = "granted"
  BY <1>1 DEF Wakeful, Woken
<1> QED BY <1>2 DEF SlotInv, QueueInv

\* A step of a task that has nothing to do with the semaphore changes neither
\* that nor who waits, except that a waiter may be cancelled.
LEMMA QuietSteps ==
    ASSUME SlotInv, NEW r \in Requests,
           \/ ConsumerStep(r) \/ ClientStep(r) \/ ProducerNeverStarts(r) \/ Emit(r)
    PROVE  /\ UNCHANGED semVars
           /\ \A q \in Requests : /\ producer[q] = "granted" <=> producer'[q] = "granted"
                                  /\ producer'[q] = "decoding" => producer[q] = "decoding"
                                  /\ Pending(q)' => Pending(q)
<1> USE DEF SlotInv, TypeOK, Pending
<1>1. CASE Start(r)
  <2>1. producer[r] = "none" /\ producer' = [producer EXCEPT ![r] = "created"]
    BY <1>1 DEF Start, NewInv
  <2> QED BY <1>1, <2>1 DEF Start
<1>2. CASE ProducerNeverStarts(r)
  BY <1>2 DEF ProducerNeverStarts
<1>3. ASSUME UNCHANGED <<producer, semVars>>,
             cancelled' = cancelled
                 \/ cancelled' = [cancelled EXCEPT ![r] = producer[r] # "done"]
      PROVE  /\ UNCHANGED semVars
             /\ \A q \in Requests : /\ producer[q] = "granted" <=> producer'[q] = "granted"
                                    /\ producer'[q] = "decoding" => producer[q] = "decoding"
                                    /\ Pending(q)' => Pending(q)
  BY <1>3
<1>4. CASE ConsumerStep(r) \/ Emit(r) \/ PhaseOneRaises(r) \/ ClientNext(r)
           \/ ClientCloses(r) \/ CancelClient(r)
  <2>1. UNCHANGED <<producer, semVars>>
    BY <1>4 DEF ConsumerStep, GetItem, Joined, Emit, PhaseOneRaises, ClientNext,
                ClientCloses, CancelClient
  <2>2. \/ cancelled' = cancelled
        \/ cancelled' = [cancelled EXCEPT ![r] = producer[r] # "done"]
    BY <1>4 DEF ConsumerStep, GetItem, Joined, Emit, PhaseOneRaises, ClientNext,
                ClientCloses, CancelClient, LeaveTry
  <2> QED BY <1>3, <2>1, <2>2
<1> QED BY <1>1, <1>2, <1>4 DEF ClientStep

\* Of the producers that a move wakes no one is behind one that still waits, and
\* a slot that is no longer free went to one of them.
LEMMA WokenInOrder ==
    ASSUME TypeOK, NEW r \in Requests, ~Pending(r),
           NEW s \in {"decoding", "done"}, NEW v \in Nat, NEW n \in Nat,
           MoveAndWake(r, s, v, n)
    PROVE  /\ value' = v \/ Woken'
           /\ \A p, q \in Requests :
                 Pending(p) /\ producer'[p] = "waiting" /\ Pending(q) /\ Ahead(p, q)
                     => producer'[q] # "granted"
<1>1. PICK W \in WokenSets(n) :
        /\ producer' = [q \in Requests |-> IF q = r THEN s
                                           ELSE IF q \in W THEN "granted"
                                           ELSE producer[q]]
        /\ value' = v - Cardinality(W)
  BY DEF MoveAndWake
<1>2. W \in SUBSET Requests /\ \A q \in W : Pending(q)
  BY WokenFact
<1>3. r \notin W
  BY <1>2
<1>4. value' = v \/ Woken'
  <2>1. CASE W = {}
    BY <1>1, <2>1, FS_EmptySet
  <2>2. CASE W # {}
    BY <1>1, <1>2, <1>3, <2>2 DEF Woken
  <2> QED BY <2>1, <2>2
<1>5. ASSUME NEW p \in Requests, NEW q \in Requests, Pending(p), producer'[p] = "waiting",
             Pending(q), Ahead(p, q)
      PROVE  producer'[q] # "granted"
  <2>1. p \notin W
    BY <1>1, <1>3, <1>5
  <2>2. q \notin W
    BY <1>5, <2>1 DEF WokenSets
  <2> QED BY <1>1, <1>5, <2>2 DEF Pending
<1> QED BY <1>4, <1>5

\* A task that leaves the deque wakes as many as there are free slots.
LEMMA WokenByLeaving ==
    ASSUME TypeOK, NEW r \in Requests, ~Pending(r),
           NEW s \in {"decoding", "done"}, NEW v \in Nat,
           MoveAndWake(r, s, v, v), cancelled' = cancelled
    PROVE  Wakeful'
<1>1. /\ value' \in Nat /\ producer'[r] = s
      /\ \A q \in Requests \ {r} : \/ producer'[q] = producer[q]
                                   \/ Pending(q) /\ producer'[q] = "granted"
      /\ value' > v - v => \A q \in Requests \ {r} : Pending(q) => producer'[q] = "granted"
  <2>1. v <= v
    OBVIOUS
  <2> QED BY <2>1, MoveFact
<1>2. CASE value' > v - v
  <2>1. \A q \in Requests : ~Pending(q)'
    BY <1>1, <1>2 DEF Pending
  <2> QED BY <2>1 DEF Wakeful
<1>3. CASE ~(value' > v - v)
  BY <1>1, <1>3 DEF Wakeful
<1> QED BY <1>2, <1>3

\* Every step leaves a free slot on its way.
LEMMA WakefulStep == SlotInv /\ Wakeful /\ [Next]_vars => Wakeful'
<1> SUFFICES ASSUME SlotInv, Wakeful, [Next]_vars PROVE Wakeful'
  OBVIOUS
<1>t. TypeOK /\ value \in Nat
  BY SchedulerAssumption DEF SlotInv, TypeOK
<1>1. ASSUME NEW r \in Requests,
             ConsumerStep(r) \/ ClientStep(r) \/ ProducerNeverStarts(r) \/ Emit(r)
      PROVE  Wakeful'
  BY <1>1, <1>t, QuietSteps DEF Wakeful, Woken, semVars
<1>2. ASSUME NEW r \in Requests, ProducerStarts(r) PROVE Wakeful'
  <2>1. \A q \in Requests : q # r => producer'[q] = producer[q]
    BY <1>2, <1>t DEF ProducerStarts, TypeOK
  <2>2. producer[r] = "created" /\ cancelled' = cancelled
    BY <1>2 DEF ProducerStarts
  <2>3. CASE ~Locked
    <3>1. \A q \in Requests : ~Pending(q)
      BY <2>3 DEF Locked, SlotInv, QueueInv, Pending
    <3>2. producer'[r] = "decoding"
      BY <1>2, <1>t, <2>3 DEF ProducerStarts, TypeOK
    <3> QED BY <2>1, <2>2, <3>1, <3>2 DEF Wakeful, Pending
  <2>4. CASE Locked
    <3>1. value' = value
      BY <1>2, <2>4 DEF ProducerStarts
    <3>2. ASSUME value # 0 PROVE Woken
      <4>1. PICK i \in 1..Len(waiters) :
                ~(producer[waiters[i]] = "waiting" /\ cancelled[waiters[i]])
        BY <2>4, <3>2 DEF Locked
      <4>2. /\ waiters[i] \in Requests
            /\ producer[waiters[i]] \in {"waiting", "granted"}
        BY <1>t, ElementOfSeq DEF SlotInv, QueueInv, TypeOK
      <4>3. Woken \/ Pending(waiters[i])
        BY <4>1, <4>2 DEF Woken, Pending
      <4> QED BY <3>2, <4>2, <4>3 DEF Wakeful
    <3>3. Woken => Woken'
      BY <2>1, <2>2 DEF Woken
    <3> QED BY <3>1, <3>2, <3>3 DEF Wakeful
  <2> QED BY <2>3, <2>4
<1>3. ASSUME NEW r \in Requests, AcquireResumes(r) PROVE Wakeful'
  BY <1>3, <1>t, WokenByLeaving DEF AcquireResumes, Pending
<1>4. ASSUME NEW r \in Requests, AcquireCancelled(r) PROVE Wakeful'
  <2>1. PICK v \in Nat : MoveAndWake(r, "done", v, v)
    BY <1>4, <1>t DEF AcquireCancelled
  <2> QED BY <1>4, <1>t, <2>1, WokenByLeaving DEF AcquireCancelled, Pending
<1>5. ASSUME NEW r \in Requests, PhaseTwoEnds(r) \/ PhaseTwoCancelled(r) PROVE Wakeful'
  <2>1. /\ producer[r] = "decoding" /\ cancelled' = cancelled
        /\ MoveAndWake(r, "done", value + 1, 1)
    BY <1>5 DEF PhaseTwoEnds, PhaseTwoCancelled, Release
  <2>2. ~Pending(r) /\ value + 1 \in Nat /\ 1 <= value + 1 /\ (value + 1) - 1 = value
    BY <1>t, <2>1 DEF Pending
  <2>3. /\ value' \in Nat /\ producer'[r] = "done"
        /\ \A q \in Requests \ {r} : \/ producer'[q] = producer[q]
                                     \/ Pending(q) /\ producer'[q] = "granted"
        /\ value' > (value + 1) - 1
               => \A q \in Requests \ {r} : Pending(q) => producer'[q] = "granted"
    BY <1>t, <2>1, <2>2, MoveFact
  <2>4. value' = value + 1 \/ Woken'
    BY <1>t, <2>1, <2>2, WokenInOrder
  <2>5. ASSUME value' = value + 1 PROVE \A q \in Requests : ~Pending(q)'
    BY <1>t, <2>1, <2>2, <2>3, <2>5 DEF Pending
  <2> QED BY <2>4, <2>5 DEF Wakeful
<1>6. CASE UNCHANGED vars
  BY <1>6 DEF vars, Wakeful, Woken, Pending
<1> QED BY <1>1, <1>2, <1>3, <1>4, <1>5, <1>6 DEF Next, AllFinished, ProducerStep

\* Whatever is cancelled, a free slot for which somebody waits has been promised
\* to a waiter whose task will take it or pass it on.
THEOREM NoWakeupIsLost == Spec => []NoLostWakeup
<1>1. Init => Wakeful
  BY DEF Init, Wakeful, Pending
<1>2. Spec => []Wakeful
  BY <1>1, SlotInvariant, WakefulStep, PTL DEF Spec
<1> QED BY <1>2, SlotInvariant, WakefulIsEnough, PTL

\* One step serves the deque in its order.
LEMMA OrderStep ==
    ASSUME SlotInv, Next, NEW p \in Requests, NEW q \in Requests,
           Pending(p), producer'[p] = "waiting"
    PROVE  /\ Ahead(p, q) /\ Pending(q) => producer'[q] # "granted"
           /\ producer[q] = "created" => producer'[q] # "decoding"
<1>t. TypeOK /\ value \in Nat
  BY SchedulerAssumption DEF SlotInv, TypeOK
<1> DEFINE Good == /\ Ahead(p, q) /\ Pending(q) => producer'[q] # "granted"
                   /\ producer[q] = "created" => producer'[q] # "decoding"
<1>1. ASSUME NEW r \in Requests,
             ConsumerStep(r) \/ ClientStep(r) \/ ProducerNeverStarts(r) \/ Emit(r)
      PROVE  Good
  BY <1>1, <1>t, QuietSteps DEF Pending
<1>2. ASSUME NEW r \in Requests, ProducerStarts(r) PROVE Good
  <2>1. PICK i \in 1..Len(waiters) : waiters[i] = p
    BY DEF SlotInv, QueueInv, Pending
  <2>2. Locked
    BY <2>1 DEF Locked, Pending
  <2>3. producer' = [producer EXCEPT ![r] = "waiting"] /\ producer[r] = "created"
    BY <1>2, <2>2 DEF ProducerStarts
  <2> QED BY <1>t, <2>3 DEF TypeOK, Pending
<1>3. ASSUME NEW r \in Requests, NEW s \in {"decoding", "done"}, NEW v \in Nat, NEW n \in Nat,
             n <= v, ~Pending(r), producer[r] # "created", MoveAndWake(r, s, v, n)
      PROVE  Good
  <2>1. Ahead(p, q) /\ Pending(q) => producer'[q] # "granted"
    BY <1>3, <1>t, WokenInOrder
  <2>2. producer[q] = "created" => producer'[q] # "decoding"
    BY <1>3, <1>t, MoveFact DEF Pending
  <2> QED BY <2>1, <2>2
<1>4. ASSUME NEW r \in Requests, AcquireResumes(r) PROVE Good
  <2>1. value <= value
    BY <1>t
  <2> QED BY <1>3, <1>4, <1>t, <2>1 DEF AcquireResumes, Pending
<1>5. ASSUME NEW r \in Requests, AcquireCancelled(r) PROVE Good
  <2>1. PICK v \in Nat : MoveAndWake(r, "done", v, v) /\ v <= v
    BY <1>5, <1>t DEF AcquireCancelled
  <2> QED BY <1>3, <1>5, <2>1 DEF AcquireCancelled, Pending
<1>6. ASSUME NEW r \in Requests, PhaseTwoEnds(r) \/ PhaseTwoCancelled(r) PROVE Good
  <2>1. producer[r] = "decoding" /\ MoveAndWake(r, "done", value + 1, 1)
    BY <1>6 DEF PhaseTwoEnds, PhaseTwoCancelled, Release
  <2>2. value + 1 \in Nat /\ 1 <= value + 1
    BY <1>t
  <2> QED BY <1>3, <2>1, <2>2 DEF Pending
<1>7. ASSUME UNCHANGED vars PROVE Good
  BY <1>7 DEF vars, Pending
<1> HIDE DEF Good
<1>8. ASSUME NEW r \in Requests, ConsumerStep(r) \/ ClientStep(r) \/ ProducerStep(r)
      PROVE  Good
  BY <1>1, <1>2, <1>4, <1>5, <1>6, <1>8 DEF ProducerStep
<1>9. Good
  BY <1>7, <1>8 DEF Next, AllFinished
<1> QED BY <1>9 DEF Good

\* A slot never goes past a producer that waits for one, neither to one behind it
\* nor to one that was not queued at all.
THEOREM SlotsGoInOrder == Spec => GrantsInOrder
<1>1. SlotInv /\ [Next]_vars
        => [\A p, q \in Requests :
               Pending(p) /\ producer'[p] = "waiting"
                   => /\ Ahead(p, q) /\ Pending(q) => producer'[q] # "granted"
                      /\ producer[q] = "created" => producer'[q] # "decoding"]_vars
  BY OrderStep
<1> QED BY <1>1, SlotInvariant, PTL DEF Spec, GrantsInOrder

-----------------------------------------------------------------------------
(***************************************************************************)
(* What the reader of a request sees: no silent truncation, and no orphan  *)
(* left uncancelled.                                                       *)
(***************************************************************************)
\* Where the two tasks of one request can be with respect to each other.
TasksInv(r) ==
    /\ consumer[r] \in {"new", "get", "yield"} => leaving[r] = "no"
    /\ consumer[r] \in {"joining", "returned", "gone"} => leaving[r] # "no"
    /\ consumer[r] \in {"get", "yield"} => producer[r] # "none"
    /\ consumer[r] = "returned" => leaving[r] = "sentinel" /\ ~failed[r]
    /\ consumer[r] = "raised" => \/ producer[r] = "none" /\ leaving[r] = "no"
                                 \/ leaving[r] = "sentinel" /\ failed[r]
    /\ cancelled[r] => leaving[r] = "cancel"
    /\ leaving[r] = "cancel" => cancelled[r] \/ producer[r] = "done"
    /\ leaving[r] = "sentinel" => producer[r] = "done"
    /\ producer[r] = "none" => leaving[r] = "no"

\* Item i of the queue is the i-th the client has not been given yet.
InOrder(r, n) == \A i \in 1..n : outputQ[r][i] = Len(yielded[r]) + i

\* What is on the way from the producer to the client.
ItemsInv(r) ==
    /\ producer[r] \in {"none", "created", "waiting", "granted"}
         => emitted[r] = 0 /\ outputQ[r] = <<>> /\ yielded[r] = <<>> /\ ~failed[r]
    /\ producer[r] = "decoding"
         => /\ ~failed[r]
            /\ emitted[r] = Len(yielded[r]) + Len(outputQ[r])
            /\ InOrder(r, Len(outputQ[r]))
    /\ producer[r] = "done" /\ leaving[r] = "no"
         => /\ Len(outputQ[r]) > 0
            /\ emitted[r] = Len(yielded[r]) + Len(outputQ[r]) - 1
            /\ outputQ[r][Len(outputQ[r])] = EndOfStream
            /\ InOrder(r, Len(outputQ[r]) - 1)
    /\ leaving[r] = "sentinel" => emitted[r] = Len(yielded[r])

StreamInv == \A r \in Requests : TasksInv(r) /\ ItemsInv(r)

OneStep(r) == ConsumerStep(r) \/ ClientStep(r) \/ ProducerStep(r)

-----------------------------------------------------------------------------
\* A producer's move as the stream invariant sees it.
LEMMA MoveSeen ==
    ASSUME TypeOK, NEW r \in Requests, NEW s, NEW v, NEW n, MoveAndWake(r, s, v, n)
    PROVE  /\ producer'[r] = s
           /\ \A q \in Requests \ {r} :
                 \/ producer'[q] = producer[q]
                 \/ producer[q] = "waiting" /\ producer'[q] = "granted"
<1>1. PICK W \in WokenSets(n) :
        producer' = [q \in Requests |-> IF q = r THEN s
                                        ELSE IF q \in W THEN "granted"
                                        ELSE producer[q]]
  BY DEF MoveAndWake
<1>2. \A q \in W : producer[q] = "waiting"
  BY DEF WokenSets, Pending
<1> QED
  BY <1>1, <1>2

\* The private part of a request's state.
Local(q) == <<consumer[q], leaving[q], yielded[q], cancelled[q], failed[q],
              emitted[q], outputQ[q]>>

\* A step of one request leaves the others alone, except for waking a waiter.
LEMMA OthersUntouched ==
    ASSUME TypeOK, NEW r \in Requests, OneStep(r), NEW q \in Requests, q # r
    PROVE  /\ UNCHANGED Local(q)
           /\ \/ producer'[q] = producer[q]
              \/ producer[q] = "waiting" /\ producer'[q] = "granted"
<1> USE DEF TypeOK, Local, consumerVars, semVars, LeaveTry
<1>1. CASE ConsumerStep(r)
  BY <1>1 DEF ConsumerStep, GetItem, Joined
<1>2. CASE ClientStep(r)
  <2>1. CASE Start(r) \/ PhaseOneRaises(r) \/ ClientNext(r)
    BY <2>1 DEF Start, PhaseOneRaises, ClientNext
  <2>2. CASE ClientCloses(r) \/ CancelClient(r)
    BY <2>2 DEF ClientCloses, CancelClient
  <2> QED
    BY <1>2, <2>1, <2>2 DEF ClientStep
<1>3. CASE ProducerStep(r)
  <2>1. CASE ProducerStarts(r) \/ ProducerNeverStarts(r) \/ Emit(r)
    BY <2>1 DEF ProducerStarts, ProducerNeverStarts, Emit
  <2>2. CASE AcquireResumes(r)
    BY <2>2, MoveSeen DEF AcquireResumes
  <2>3. CASE AcquireCancelled(r)
    BY <2>3, MoveSeen DEF AcquireCancelled
  <2>4. CASE PhaseTwoEnds(r)
    <3>1. UNCHANGED Local(q)
      BY <2>4 DEF PhaseTwoEnds
    <3> QED
      BY <2>4, <3>1, MoveSeen DEF PhaseTwoEnds, Release
  <2>5. CASE PhaseTwoCancelled(r)
    <3>1. UNCHANGED Local(q)
      BY <2>5 DEF PhaseTwoCancelled
    <3> QED
      BY <2>5, <3>1, MoveSeen DEF PhaseTwoCancelled, Release
  <2> QED
    BY <1>3, <2>1, <2>2, <2>3, <2>4, <2>5 DEF ProducerStep
<1> QED
  BY <1>1, <1>2, <1>3 DEF OneStep

\* A request whose own variables stay as they are, or that is woken, stays consistent.
LEMMA OthersKept ==
    ASSUME StreamInv, NEW q \in Requests, UNCHANGED Local(q),
           \/ producer'[q] = producer[q]
           \/ producer[q] = "waiting" /\ producer'[q] = "granted"
    PROVE  TasksInv(q)' /\ ItemsInv(q)'
<1>1. /\ consumer'[q] = consumer[q] /\ leaving'[q] = leaving[q]
      /\ yielded'[q] = yielded[q] /\ cancelled'[q] = cancelled[q]
      /\ failed'[q] = failed[q] /\ emitted'[q] = emitted[q]
      /\ outputQ'[q] = outputQ[q]
  BY DEF Local
<1>2. TasksInv(q) /\ ItemsInv(q)
  BY DEF StreamInv
<1>3. TasksInv(q)'
  BY <1>1, <1>2 DEF TasksInv
<1>4. ItemsInv(q)'
  BY <1>1, <1>2 DEF ItemsInv, InOrder
<1> QED
  BY <1>3, <1>4

-----------------------------------------------------------------------------
(***************************************************************************)
(* The request that takes the step.                                        *)
(***************************************************************************)
LEMMA OwnConsumerStep ==
    ASSUME TypeOK, StreamInv, NEW r \in Requests, ConsumerStep(r)
    PROVE  TasksInv(r)' /\ ItemsInv(r)'
<1> USE DEF TypeOK, semVars
<1>0. TasksInv(r) /\ ItemsInv(r)
  BY DEF StreamInv
<1>1. CASE Joined(r)
  <2>1. /\ consumer[r] = "joining" /\ producer[r] = "done"
        /\ consumer'[r] = IF leaving[r] = "cancel" THEN "gone"
                          ELSE IF failed[r] THEN "raised" ELSE "returned"
        /\ producer'[r] = producer[r] /\ UNCHANGED <<leaving, yielded, cancelled,
              failed, emitted, outputQ>>
    BY <1>1 DEF Joined
  <2>2. leaving[r] \in {"no", "sentinel", "cancel"}
    OBVIOUS
  <2>3. TasksInv(r)'
    BY <2>1, <2>2, <1>0 DEF TasksInv
  <2>4. ItemsInv(r)'
    BY <2>1, <1>0 DEF ItemsInv, InOrder
  <2> QED
    BY <2>3, <2>4
<1>2. CASE GetItem(r)
  <2> DEFINE q == outputQ[r]
             y == yielded[r]
  <2>1. /\ consumer[r] = "get" /\ leaving[r] = "no" /\ ~cancelled[r]
        /\ producer[r] \in {"decoding", "done"}
        /\ q # <<>> /\ q \in Seq(Items) /\ y \in Seq(Items)
        /\ outputQ'[r] = Tail(q)
        /\ UNCHANGED <<producer, failed, emitted>>
    <3>1. consumer[r] = "get" /\ q # <<>>
      BY <1>2 DEF GetItem
    <3>2. producer[r] \in {"decoding", "done"}
      BY <3>1, <1>0 DEF TasksInv, ItemsInv, ProducerStates
    <3> QED
      BY <3>1, <3>2, <1>0, <1>2 DEF GetItem, TasksInv
  <2>2. /\ Len(q) \in Nat \ {0} /\ Len(y) \in Nat
        /\ Len(Tail(q)) = Len(q) - 1
        /\ \A i \in 1..(Len(q) - 1) : Tail(q)[i] = q[i + 1]
        /\ Head(q) = q[1]
        /\ emitted[r] \in Nat
    BY <2>1, HeadTailProperties, EmptySeq DEF Items
  <2>3. CASE Head(q) = EndOfStream
    <3>1. /\ consumer'[r] = "joining" /\ leaving'[r] = "sentinel"
          /\ cancelled'[r] = (producer[r] # "done") /\ yielded' = yielded
      BY <1>2, <2>3 DEF GetItem, LeaveTry
    <3>2. producer[r] = "done" /\ Len(q) = 1
      <4>1. CASE producer[r] = "decoding"
        <5>1. q[1] = Len(y) + 1
          BY <4>1, <2>2, <1>0 DEF ItemsInv, InOrder
        <5> QED
          BY <5>1, <2>2, <2>3 DEF EndOfStream
      <4>2. CASE producer[r] = "done" /\ Len(q) > 1
        <5>1. q[1] = Len(y) + 1
          BY <4>2, <2>1, <2>2, <1>0 DEF ItemsInv, InOrder
        <5> QED
          BY <5>1, <2>2, <2>3 DEF EndOfStream
      <4> QED
        BY <4>1, <4>2, <2>1, <2>2
    <3>3. emitted[r] = Len(y)
      BY <3>2, <2>1, <2>2, <1>0 DEF ItemsInv
    <3>4. TasksInv(r)'
      BY <3>1, <3>2, <2>1 DEF TasksInv
    <3>5. ItemsInv(r)'
      BY <3>1, <3>2, <3>3, <2>1 DEF ItemsInv
    <3> QED
      BY <3>4, <3>5
  <2>4. CASE Head(q) # EndOfStream
    <3>1. /\ consumer'[r] = "yield" /\ leaving'[r] = leaving[r]
          /\ cancelled'[r] = cancelled[r] /\ yielded'[r] = Append(y, Head(q))
      BY <1>2, <2>4 DEF GetItem
    <3>2. Len(yielded'[r]) = Len(y) + 1
      BY <3>1, <2>1, <2>2
    <3>3. TasksInv(r)'
      BY <3>1, <2>1 DEF TasksInv
    <3>4. CASE producer[r] = "decoding"
      <4>1. /\ ~failed[r] /\ emitted[r] = Len(y) + Len(q)
            /\ \A i \in 1..Len(q) : q[i] = Len(y) + i
        BY <3>4, <1>0 DEF ItemsInv, InOrder
      <4>2. \A i \in 1..(Len(q) - 1) : Tail(q)[i] = Len(y) + 1 + i
        BY <4>1, <2>2
      <4>3. emitted'[r] = Len(yielded'[r]) + Len(outputQ'[r])
        BY <4>1, <2>1, <2>2, <3>2
      <4>4. InOrder(r, Len(outputQ[r]))'
        BY <4>2, <2>1, <2>2, <3>2 DEF InOrder
      <4> QED
        BY <3>3, <3>4, <4>1, <4>3, <4>4, <2>1, <3>1 DEF ItemsInv
    <3>5. CASE producer[r] = "done"
      <4>1. /\ emitted[r] = Len(y) + Len(q) - 1
            /\ q[Len(q)] = EndOfStream
            /\ \A i \in 1..(Len(q) - 1) : q[i] = Len(y) + i
        BY <3>5, <2>1, <1>0 DEF ItemsInv, InOrder
      <4>2. Len(q) > 1
        BY <4>1, <2>2, <2>4
      <4>3. \A i \in 1..(Len(q) - 2) : Tail(q)[i] = Len(y) + 1 + i
        BY <4>1, <2>2
      <4>4. Tail(q)[Len(q) - 1] = EndOfStream
        BY <4>1, <4>2, <2>2
      <4>5. emitted'[r] = Len(yielded'[r]) + Len(outputQ'[r]) - 1
        BY <4>1, <2>1, <2>2, <3>2
      <4>6. InOrder(r, Len(outputQ[r]) - 1)'
        <5> SUFFICES ASSUME NEW i \in 1..(Len(outputQ'[r]) - 1)
                     PROVE  outputQ'[r][i] = Len(yielded'[r]) + i
          BY DEF InOrder
        <5>1. i \in 1..(Len(q) - 2)
          BY <2>1, <2>2
        <5>2. Tail(q)[i] = Len(y) + 1 + i
          BY <5>1, <4>3
        <5> QED
          BY <5>2, <2>1, <2>2, <3>2
      <4>7. Len(outputQ'[r]) > 0 /\ outputQ'[r][Len(outputQ'[r])] = EndOfStream
        BY <4>2, <4>4, <2>1, <2>2
      <4>8. ItemsInv(r)'
        BY <3>5, <4>5, <4>6, <4>7, <2>1, <3>1 DEF ItemsInv
      <4> QED
        BY <3>3, <4>8
    <3> QED
      BY <3>4, <3>5, <2>1
  <2> QED
    BY <2>3, <2>4
<1> QED
  BY <1>1, <1>2 DEF ConsumerStep

\* A step of its client keeps a stream consistent.
LEMMA OwnClientStep ==
    ASSUME TypeOK, NewInv, StreamInv, NEW r \in Requests, ClientStep(r)
    PROVE  TasksInv(r)' /\ ItemsInv(r)'
<1> USE DEF TypeOK, semVars
<1>0. TasksInv(r) /\ ItemsInv(r)
  BY DEF StreamInv
<1>1. CASE Start(r)
  <2>1. /\ producer[r] = "none" /\ consumer[r] = "new"
        /\ consumer'[r] = "get" /\ producer'[r] = "created"
        /\ UNCHANGED <<leaving, yielded, cancelled, failed, emitted, outputQ>>
    BY <1>1 DEF Start, NewInv
  <2> QED
    BY <2>1, <1>0 DEF TasksInv, ItemsInv
<1>2. CASE PhaseOneRaises(r)
  <2>1. /\ producer[r] = "none" /\ consumer[r] = "new"
        /\ consumer'[r] = "raised"
        /\ UNCHANGED <<producer, leaving, yielded, cancelled, failed, emitted, outputQ>>
    BY <1>2 DEF PhaseOneRaises, NewInv
  <2> QED
    BY <2>1, <1>0 DEF TasksInv, ItemsInv
<1>3. CASE ClientNext(r)
  <2>1. /\ consumer[r] = "yield" /\ consumer'[r] = "get"
        /\ UNCHANGED <<producer, leaving, yielded, cancelled, failed, emitted, outputQ>>
    BY <1>3 DEF ClientNext
  <2> QED
    BY <2>1, <1>0 DEF TasksInv, ItemsInv, InOrder
<1>4. CASE ClientCloses(r) \/ (CancelClient(r) /\ consumer[r] = "get")
  <2>1. /\ consumer[r] \in {"get", "yield"} /\ consumer'[r] = "joining"
        /\ leaving'[r] = "cancel" /\ cancelled'[r] = (producer[r] # "done")
        /\ UNCHANGED <<producer, yielded, failed, emitted, outputQ>>
    BY <1>4 DEF ClientCloses, CancelClient, LeaveTry
  <2>2. TasksInv(r)'
    BY <2>1, <1>0 DEF TasksInv
  <2>3. ItemsInv(r)'
    BY <2>1, <1>0 DEF ItemsInv, InOrder
  <2> QED
    BY <2>2, <2>3
<1>5. CASE CancelClient(r) /\ consumer[r] # "get"
  <2>1. /\ consumer[r] = "joining" /\ consumer'[r] = "gone"
        /\ UNCHANGED <<producer, leaving, yielded, cancelled, failed, emitted, outputQ>>
    BY <1>5 DEF CancelClient
  <2> QED
    BY <2>1, <1>0 DEF TasksInv, ItemsInv, InOrder
<1> QED
  BY <1>1, <1>2, <1>3, <1>4, <1>5 DEF ClientStep

\* A step of its producer keeps a stream consistent.
LEMMA OwnProducerStep ==
    ASSUME TypeOK, StreamInv, NEW r \in Requests, ProducerStep(r)
    PROVE  TasksInv(r)' /\ ItemsInv(r)'
<1> USE DEF TypeOK, semVars, consumerVars
<1>0. TasksInv(r) /\ ItemsInv(r)
  BY DEF StreamInv
<1> DEFINE q == outputQ[r]
<1>1. q \in Seq(Items) /\ Len(q) \in Nat /\ Len(yielded[r]) \in Nat /\ emitted[r] \in Nat
  BY DEF Items
<1>2. CASE \/ ProducerStarts(r) \/ ProducerNeverStarts(r)
           \/ AcquireResumes(r) \/ AcquireCancelled(r)
  <2>1. /\ producer[r] \in {"created", "waiting", "granted"}
        /\ \/ producer'[r] \in {"waiting", "decoding"}
           \/ producer'[r] = "done" /\ cancelled[r]
        /\ UNCHANGED <<consumer, leaving, yielded, cancelled, failed, emitted, outputQ>>
    <3>1. CASE ProducerStarts(r) \/ ProducerNeverStarts(r)
      BY <3>1 DEF ProducerStarts, ProducerNeverStarts
    <3>2. CASE AcquireResumes(r)
      BY <3>2, MoveSeen DEF AcquireResumes
    <3>3. CASE AcquireCancelled(r)
      BY <3>3, MoveSeen DEF AcquireCancelled
    <3> QED
      BY <1>2, <3>1, <3>2, <3>3
  <2>2. TasksInv(r)'
    BY <2>1, <1>0 DEF TasksInv
  <2>3. ItemsInv(r)'
    BY <2>1, <1>0 DEF ItemsInv, InOrder, TasksInv
  <2> QED
    BY <2>2, <2>3
<1>3. CASE Emit(r)
  <2>1. /\ producer[r] = "decoding" /\ producer' = producer /\ ~failed[r]
        /\ emitted'[r] = emitted[r] + 1 /\ outputQ'[r] = Append(q, emitted[r] + 1)
        /\ emitted[r] = Len(yielded[r]) + Len(q)
        /\ \A i \in 1..Len(q) : q[i] = Len(yielded[r]) + i
        /\ UNCHANGED <<consumer, leaving, yielded, cancelled, failed>>
    BY <1>3, <1>0 DEF Emit, ItemsInv, InOrder
  <2>2. /\ Len(outputQ'[r]) = Len(q) + 1
        /\ \A i \in 1..(Len(q) + 1) :
              outputQ'[r][i] = IF i = Len(q) + 1 THEN emitted[r] + 1 ELSE q[i]
    BY <2>1, <1>1
  <2>3. TasksInv(r)'
    BY <2>1, <1>0 DEF TasksInv
  <2>4. InOrder(r, Len(outputQ[r]))'
    <3> SUFFICES ASSUME NEW i \in 1..Len(outputQ'[r])
                 PROVE  outputQ'[r][i] = Len(yielded'[r]) + i
      BY DEF InOrder
    <3>1. i \in 1..(Len(q) + 1) /\ yielded'[r] = yielded[r]
      BY <2>1, <2>2
    <3>2. CASE i = Len(q) + 1
      BY <3>1, <3>2, <2>1, <2>2
    <3>3. CASE i # Len(q) + 1
      <4>1. i \in 1..Len(q) /\ outputQ'[r][i] = q[i]
        BY <3>1, <3>3, <2>2, <1>1
      <4> QED
        BY <4>1, <3>1, <2>1
    <3> QED
      BY <3>2, <3>3
  <2>5. emitted'[r] = Len(yielded'[r]) + Len(outputQ'[r])
    BY <2>1, <2>2, <1>1
  <2>6. ItemsInv(r)'
    BY <2>1, <2>4, <2>5, <1>0 DEF ItemsInv, TasksInv
  <2> QED
    BY <2>3, <2>6
<1>4. CASE PhaseTwoEnds(r) \/ PhaseTwoCancelled(r)
  <2>1. /\ producer[r] = "decoding" /\ producer'[r] = "done"
        /\ outputQ'[r] = Append(q, EndOfStream)
        /\ UNCHANGED <<consumer, leaving, yielded, cancelled, emitted>>
    <3>1. CASE PhaseTwoEnds(r)
      BY <3>1, MoveSeen DEF PhaseTwoEnds, Release
    <3>2. CASE PhaseTwoCancelled(r)
      BY <3>2, MoveSeen DEF PhaseTwoCancelled, Release
    <3> QED
      BY <1>4, <3>1, <3>2
  <2>2. /\ ~failed[r] /\ emitted[r] = Len(yielded[r]) + Len(q)
        /\ \A i \in 1..Len(q) : q[i] = Len(yielded[r]) + i
    BY <2>1, <1>0 DEF ItemsInv, InOrder
  <2>3. /\ Len(outputQ'[r]) = Len(q) + 1
        /\ \A i \in 1..(Len(q) + 1) :
              outputQ'[r][i] = IF i = Len(q) + 1 THEN EndOfStream ELSE q[i]
    BY <2>1, <1>1 DEF Items, EndOfStream
  <2>4. consumer[r] # "returned" /\ consumer[r] # "raised" /\ leaving[r] # "sentinel"
    BY <2>1, <1>0 DEF TasksInv
  <2>5. TasksInv(r)'
    BY <2>1, <2>4, <1>0 DEF TasksInv
  <2>6. InOrder(r, Len(outputQ[r]) - 1)'
    BY <2>1, <2>2, <2>3, <1>1 DEF InOrder
  <2>7. /\ Len(outputQ'[r]) > 0
        /\ outputQ'[r][Len(outputQ'[r])] = EndOfStream
        /\ emitted'[r] = Len(yielded'[r]) + Len(outputQ'[r]) - 1
    BY <2>1, <2>2, <2>3, <1>1
  <2>8. ItemsInv(r)'
    BY <2>1, <2>4, <2>6, <2>7 DEF ItemsInv
  <2> QED
    BY <2>5, <2>8
<1> QED
  BY <1>2, <1>3, <1>4 DEF ProducerStep

\* Streams start consistent.
LEMMA StreamInit == Init => StreamInv
BY DEF Init, StreamInv, TasksInv, ItemsInv

\* Every step keeps every stream consistent.
LEMMA StreamStep == SlotInv /\ StreamInv /\ [Next]_vars => StreamInv'
<1> SUFFICES ASSUME SlotInv, StreamInv, [Next]_vars PROVE StreamInv'
  OBVIOUS
<1>0. TypeOK /\ NewInv
  BY DEF SlotInv
<1>1. ASSUME NEW r \in Requests, OneStep(r)
      PROVE  StreamInv'
  <2> SUFFICES ASSUME NEW q \in Requests PROVE TasksInv(q)' /\ ItemsInv(q)'
    BY DEF StreamInv
  <2>1. CASE q # r
    BY <2>1, <1>0, <1>1, OthersUntouched, OthersKept
  <2>2. CASE q = r
    BY <2>2, <1>0, <1>1, OwnConsumerStep, OwnClientStep, OwnProducerStep DEF OneStep
  <2> QED
    BY <2>1, <2>2
<1>2. CASE UNCHANGED vars
  <2> SUFFICES ASSUME NEW q \in Requests PROVE TasksInv(q)' /\ ItemsInv(q)'
    BY DEF StreamInv
  <2> QED
    BY <1>2, OthersKept DEF vars, Local
<1> QED
  BY <1>1, <1>2 DEF Next, AllFinished, OneStep

\* Slots and streams are always consistent.
LEMMA StreamInvariant == Spec => [](SlotInv /\ StreamInv)
<1>1. Init => SlotInv /\ StreamInv
  BY SlotInit, StreamInit
<1>2. (SlotInv /\ StreamInv) /\ [Next]_vars => (SlotInv /\ StreamInv)'
  BY SlotStep, StreamStep
<1> QED
  BY <1>1, <1>2, PTL DEF Spec

\* A normal return means a complete stream; an error comes after every item.
THEOREM StreamSafety == Spec => []NoSilentTruncation
<1>1. SlotInv /\ StreamInv => NoSilentTruncation
  BY DEF StreamInv, TasksInv, ItemsInv, NoSilentTruncation
<1> QED
  BY <1>1, StreamInvariant, PTL

\* A call that ends before its producer has asked the producer to stop.
THEOREM OrphanSafety == Spec => []OrphanIsCancelled
<1>1. SlotInv /\ StreamInv => OrphanIsCancelled
  <2> SUFFICES ASSUME SlotInv, StreamInv, NEW r \in Requests, Finished(r),
                      producer[r] \notin {"none", "done"}
               PROVE  cancelled[r]
    BY DEF OrphanIsCancelled
  <2>1. TasksInv(r) /\ leaving[r] \in {"no", "sentinel", "cancel"}
    BY DEF StreamInv, SlotInv, TypeOK
  <2> QED
    BY <2>1 DEF TasksInv, Finished
<1> QED
  BY <1>1, StreamInvariant, PTL
-----------------------------------------------------------------------------
(***************************************************************************)
(* TwoPhaseScheduler implements BoundedStreams: every step of the          *)
(* scheduler is one step of the abstract specification, or changes nothing *)
(* that it talks about.                                                    *)
(***************************************************************************)
phaseMap == [q \in Requests |-> PhaseOf(q)]
readerMap == [q \in Requests |-> ReaderOf(q)]

\* A new scheduler is an abstract one with nothing asked of it.
LEMMA InitMapped == Init => Promise!Init
<1> SUFFICES ASSUME Init PROVE Promise!Init
  OBVIOUS
<1>1. \A q \in Requests : PhaseOf(q) = "idle" /\ ReaderOf(q) = "open"
  BY DEF Init, PhaseOf, ReaderOf
<1> QED
  BY <1>1 DEF Init, Promise!Init

\* Nobody else moves in the abstract state.
LEMMA OthersMapped ==
    ASSUME TypeOK, NEW r \in Requests, OneStep(r), NEW q \in Requests, q # r
    PROVE  PhaseOf(q)' = PhaseOf(q) /\ ReaderOf(q)' = ReaderOf(q)
<1>1. /\ consumer'[q] = consumer[q] /\ leaving'[q] = leaving[q]
      /\ cancelled'[q] = cancelled[q] /\ failed'[q] = failed[q]
  BY OthersUntouched DEF Local
<1>2. \/ producer'[q] = producer[q]
      \/ producer[q] = "waiting" /\ producer'[q] = "granted"
  BY OthersUntouched
<1>3. PhaseOf(q)' = PhaseOf(q)
  BY <1>1, <1>2 DEF PhaseOf
<1>4. ReaderOf(q)' = ReaderOf(q)
  BY <1>1 DEF ReaderOf
<1> QED
  BY <1>3, <1>4

\* A step that moves one request and perhaps wakes others moves one abstract request.
LEMMA MapsMove ==
    ASSUME TypeOK, NEW r \in Requests, OneStep(r)
    PROVE  /\ phaseMap' = [phaseMap EXCEPT ![r] = PhaseOf(r)']
           /\ readerMap' = [readerMap EXCEPT ![r] = ReaderOf(r)']
           /\ phaseMap[r] = PhaseOf(r) /\ readerMap[r] = ReaderOf(r)
<1>1. \A q \in Requests : q # r =>
         PhaseOf(q)' = PhaseOf(q) /\ ReaderOf(q)' = ReaderOf(q)
  BY OthersMapped
<1> QED
  BY <1>1 DEF phaseMap, readerMap

\* A step in which the request keeps its phase and its reader, and no item is
\* made or seen, is a stutter of the abstract specification.
LEMMA Stutter ==
    ASSUME TypeOK, NEW r \in Requests, OneStep(r),
           PhaseOf(r)' = PhaseOf(r), ReaderOf(r)' = ReaderOf(r),
           UNCHANGED <<emitted, yielded>>
    PROVE  UNCHANGED Promise!vars
<1>1. phaseMap' = phaseMap /\ readerMap' = readerMap
  BY MapsMove DEF phaseMap, readerMap
<1> QED
  BY <1>1 DEF Promise!vars, phaseMap, readerMap

\* The instance's Cardinality is Cardinality.
LEMMA SameCardinality == \A S : Promise!Cardinality(S) = Cardinality(S)
BY DEF Promise!Cardinality, Cardinality

\* Fewer than max_concurrency decode when a slot is free, or is in use by a
\* producer that does not decode yet.
LEMMA RoomToAdmit ==
    ASSUME SlotInv, NEW r \in Requests,
           \/ value > 0
           \/ producer[r] = "granted"
    PROVE  Cardinality(Promise!Running) < MaxConcurrency
<1> DEFINE Decoding == {q \in Requests : producer[q] = "decoding"}
<1>1. Promise!Running = Decoding
  <2>1. \A q \in Requests : phaseMap[q] = "running" <=> producer[q] = "decoding"
    BY DEF phaseMap, PhaseOf, SlotInv, TypeOK, ProducerStates
  <2> QED
    BY <2>1 DEF Promise!Running, phaseMap
<1>2. InUse \in SUBSET Requests /\ Decoding \in SUBSET InUse
  BY DEF InUse
<1>3. /\ IsFiniteSet(InUse) /\ Cardinality(InUse) \in Nat
      /\ IsFiniteSet(Decoding) /\ Cardinality(Decoding) \in Nat
  BY <1>2, InUseFinite
<1>4. CASE value > 0
  <2>1. Cardinality(Decoding) <= Cardinality(InUse)
    BY <1>2, <1>3, FS_Subset
  <2> QED
    BY <1>1, <1>3, <1>4, <2>1, SchedulerAssumption DEF SlotInv, SlotsConserved, TypeOK
<1>5. CASE producer[r] = "granted"
  <2>1. Decoding \in SUBSET (InUse \ {r}) /\ InUse \ {r} \in SUBSET Requests
    BY <1>5, <1>2 DEF InUse
  <2>2. IsFiniteSet(InUse \ {r})
    BY <2>1, InUseFinite
  <2>3. Cardinality(Decoding) <= Cardinality(InUse \ {r})
    BY <2>1, <2>2, FS_Subset
  <2>4. Cardinality(InUse \ {r}) = Cardinality(InUse) - 1
    BY <1>5, InUseMinus
  <2> QED
    BY <1>1, <1>3, <2>3, <2>4, SchedulerAssumption DEF SlotInv, SlotsConserved, TypeOK
<1> QED
  BY <1>4, <1>5

-----------------------------------------------------------------------------
\* Steps of run() are abstract steps or stutter.
LEMMA ConsumerMapped ==
    ASSUME SlotInv, StreamInv, NEW r \in Requests, ConsumerStep(r)
    PROVE  [Promise!Next]_(Promise!vars)
<1>0. TypeOK /\ TasksInv(r) /\ ItemsInv(r) /\ OneStep(r)
  BY DEF SlotInv, StreamInv, OneStep
<1>m. /\ phaseMap' = [phaseMap EXCEPT ![r] = PhaseOf(r)']
      /\ readerMap' = [readerMap EXCEPT ![r] = ReaderOf(r)']
      /\ phaseMap[r] = PhaseOf(r) /\ readerMap[r] = ReaderOf(r)
  BY <1>0, MapsMove
<1>1. CASE Joined(r) /\ leaving[r] = "cancel"
  <2>1. /\ consumer[r] = "joining" /\ consumer'[r] = "gone" /\ producer[r] = "done"
        /\ UNCHANGED <<producer, leaving, yielded, cancelled, failed, emitted, outputQ>>
    BY <1>0, <1>1 DEF Joined, TypeOK
  <2>2. /\ PhaseOf(r)' = PhaseOf(r) /\ PhaseOf(r) # "idle"
        /\ ReaderOf(r) = "turned" /\ ReaderOf(r)' = "gone"
    BY <1>1, <2>1 DEF PhaseOf, ReaderOf
  <2>3. Promise!TurnAway(r)
    BY <1>m, <2>1, <2>2 DEF Promise!TurnAway, phaseMap, readerMap
  <2> QED
    BY <2>3 DEF Promise!Next
<1>2. CASE Joined(r) /\ leaving[r] # "cancel"
  <2>1. /\ consumer[r] = "joining" /\ producer[r] = "done" /\ leaving[r] = "sentinel"
        /\ consumer'[r] = IF failed[r] THEN "raised" ELSE "returned"
        /\ ~cancelled[r] /\ emitted[r] = Len(yielded[r])
        /\ UNCHANGED <<producer, leaving, yielded, cancelled, failed, emitted, outputQ>>
    BY <1>0, <1>2 DEF Joined, TypeOK, TasksInv, ItemsInv
  <2>2. /\ PhaseOf(r)' = PhaseOf(r)
        /\ PhaseOf(r) = IF failed[r] THEN "failed" ELSE "complete"
        /\ ReaderOf(r) = "open"
        /\ ReaderOf(r)' = IF failed[r] THEN "error" ELSE "ok"
    BY <2>1 DEF PhaseOf, ReaderOf
  <2>3. Promise!Conclude(r)
    BY <1>m, <2>1, <2>2 DEF Promise!Conclude, phaseMap, readerMap
  <2> QED
    BY <2>3 DEF Promise!Next
<1>3. CASE GetItem(r) /\ Head(outputQ[r]) = EndOfStream
  <2>1. /\ consumer[r] = "get" /\ consumer'[r] = "joining" /\ leaving'[r] = "sentinel"
        /\ cancelled'[r] = (producer[r] # "done") /\ ~cancelled[r]
        /\ UNCHANGED <<producer, failed, emitted, yielded>>
    BY <1>0, <1>3 DEF GetItem, LeaveTry, TypeOK, TasksInv
  <2>2. PhaseOf(r)' = PhaseOf(r) /\ ReaderOf(r)' = ReaderOf(r)
    BY <2>1 DEF PhaseOf, ReaderOf
  <2>3. UNCHANGED Promise!vars
    BY <1>0, <2>1, <2>2, Stutter
  <2> QED
    BY <2>3
<1>4. CASE GetItem(r) /\ Head(outputQ[r]) # EndOfStream
  <2> DEFINE q == outputQ[r]
             y == yielded[r]
  <2>1. /\ consumer[r] = "get" /\ consumer'[r] = "yield" /\ q # <<>>
        /\ q \in Seq(Items) /\ y \in Seq(Items) /\ leaving[r] = "no"
        /\ yielded' = [yielded EXCEPT ![r] = Append(@, Head(q))]
        /\ UNCHANGED <<producer, leaving, cancelled, failed, emitted>>
    BY <1>0, <1>4 DEF GetItem, TypeOK, TasksInv
  <2>2. /\ Len(q) \in Nat \ {0} /\ Len(y) \in Nat /\ Head(q) = q[1]
    BY <2>1, EmptySeq
  <2>3. producer[r] \in {"decoding", "done"}
    BY <1>0, <2>1 DEF TasksInv, ItemsInv, TypeOK, ProducerStates
  <2>4. Head(q) = Len(y) + 1 /\ Len(y) < emitted[r]
    <3>1. CASE producer[r] = "decoding"
      <4>1. /\ emitted[r] = Len(y) + Len(q)
            /\ \A i \in 1..Len(q) : q[i] = Len(y) + i
        BY <1>0, <3>1 DEF ItemsInv, InOrder
      <4>2. q[1] = Len(y) + 1
        BY <4>1, <2>2
      <4>3. Len(y) < emitted[r]
        <5>1. \A m, n \in Nat : n # 0 => m < m + n
          OBVIOUS
        <5> QED
          BY <5>1, <4>1, <2>2
      <4> QED
        BY <4>2, <4>3, <2>2, Zenon
    <3>2. CASE producer[r] = "done"
      <4>1. /\ emitted[r] = Len(y) + Len(q) - 1 /\ q[Len(q)] = EndOfStream
            /\ \A i \in 1..(Len(q) - 1) : q[i] = Len(y) + i
        BY <1>0, <2>1, <3>2 DEF ItemsInv, InOrder
      <4>2. Len(q) > 1
        BY <4>1, <1>4, <2>2
      <4>3. q[1] = Len(y) + 1
        BY <4>1, <4>2, <2>2
      <4>4. Len(y) < emitted[r]
        <5>1. \A m, n \in Nat : n > 1 => m < m + n - 1
          OBVIOUS
        <5> QED
          BY <5>1, <4>1, <4>2, <2>2
      <4> QED
        BY <4>3, <4>4, <2>2, Zenon
    <3> QED
      BY <2>3, <3>1, <3>2
  <2>5. PhaseOf(r)' = PhaseOf(r) /\ ReaderOf(r)' = ReaderOf(r) /\ ReaderOf(r) = "open"
    BY <2>1 DEF PhaseOf, ReaderOf
  <2>6. phaseMap' = phaseMap /\ readerMap' = readerMap
    BY <1>m, <2>5 DEF phaseMap, readerMap
  <2>7. Promise!See(r)
    BY <1>m, <2>1, <2>4, <2>5, <2>6 DEF Promise!See, phaseMap, readerMap
  <2> QED
    BY <2>7 DEF Promise!Next
<1> QED
  BY <1>1, <1>2, <1>3, <1>4 DEF ConsumerStep

\* Steps of a client are abstract steps or stutter.
LEMMA ClientMapped ==
    ASSUME SlotInv, StreamInv, NEW r \in Requests, ClientStep(r)
    PROVE  [Promise!Next]_(Promise!vars)
<1>0. TypeOK /\ TasksInv(r) /\ ItemsInv(r) /\ OneStep(r) /\ NewInv
  BY DEF SlotInv, StreamInv, OneStep
<1>m. /\ phaseMap' = [phaseMap EXCEPT ![r] = PhaseOf(r)']
      /\ readerMap' = [readerMap EXCEPT ![r] = ReaderOf(r)']
      /\ phaseMap[r] = PhaseOf(r) /\ readerMap[r] = ReaderOf(r)
  BY <1>0, MapsMove
<1>1. CASE Start(r)
  <2>1. /\ producer[r] = "none" /\ producer'[r] = "created"
        /\ consumer[r] = "new" /\ consumer'[r] = "get"
        /\ UNCHANGED <<leaving, yielded, cancelled, failed, emitted, outputQ>>
    BY <1>0, <1>1 DEF Start, NewInv, TypeOK
  <2>2. /\ PhaseOf(r) = "idle" /\ PhaseOf(r)' = "queued"
        /\ ReaderOf(r) = "open" /\ ReaderOf(r)' = "open"
    BY <2>1 DEF PhaseOf, ReaderOf
  <2>3. readerMap' = readerMap
    BY <1>m, <2>2 DEF readerMap
  <2>4. Promise!Accept(r)
    BY <1>m, <2>1, <2>2, <2>3 DEF Promise!Accept, Promise!Move, phaseMap, readerMap
  <2> QED
    BY <2>4 DEF Promise!Next
<1>2. CASE PhaseOneRaises(r)
  <2>1. /\ producer[r] = "none"
        /\ consumer[r] = "new" /\ consumer'[r] = "raised"
        /\ UNCHANGED <<producer, leaving, yielded, cancelled, failed, emitted, outputQ>>
    BY <1>0, <1>2 DEF PhaseOneRaises, NewInv, TypeOK
  <2>2. /\ PhaseOf(r) = "idle" /\ PhaseOf(r)' = "idle"
        /\ ReaderOf(r) = "open" /\ ReaderOf(r)' = "error"
    BY <2>1 DEF PhaseOf, ReaderOf
  <2>3. phaseMap' = phaseMap
    BY <1>m, <2>2 DEF phaseMap
  <2>4. Promise!Reject(r)
    BY <1>m, <2>1, <2>2, <2>3 DEF Promise!Reject, phaseMap, readerMap
  <2> QED
    BY <2>4 DEF Promise!Next
<1>3. CASE ClientNext(r)
  <2>1. /\ consumer[r] = "yield" /\ consumer'[r] = "get"
        /\ UNCHANGED <<producer, leaving, yielded, cancelled, failed, emitted, outputQ>>
    BY <1>0, <1>3 DEF ClientNext, TypeOK
  <2>2. PhaseOf(r)' = PhaseOf(r) /\ ReaderOf(r)' = ReaderOf(r)
    BY <2>1 DEF PhaseOf, ReaderOf
  <2> QED
    BY <1>0, <2>1, <2>2, Stutter
<1>4. CASE ClientCloses(r) \/ CancelClient(r)
  <2>1. /\ producer[r] # "none"
        /\ UNCHANGED <<producer, yielded, failed, emitted, outputQ>>
    BY <1>0, <1>4 DEF ClientCloses, CancelClient, TasksInv
  <2>2. PhaseOf(r)' = PhaseOf(r) /\ PhaseOf(r) # "idle"
        /\ ReaderOf(r) \in {"open", "turned"} /\ ReaderOf(r)' \in {"turned", "gone"}
    <3>1. CASE ClientCloses(r) \/ (CancelClient(r) /\ consumer[r] = "get")
      <4>1. /\ consumer[r] \in {"get", "yield"} /\ consumer'[r] = "joining"
            /\ leaving'[r] = "cancel" /\ cancelled'[r] = (producer[r] # "done")
            /\ ~cancelled[r]
        BY <1>0, <3>1 DEF ClientCloses, CancelClient, LeaveTry, TypeOK, TasksInv
      <4>2. producer[r] \in ProducerStates
        BY <1>0 DEF TypeOK
      <4> QED
        BY <4>1, <4>2, <2>1 DEF PhaseOf, ReaderOf, ProducerStates
    <3>2. CASE CancelClient(r) /\ consumer[r] # "get"
      <4>1. /\ consumer[r] = "joining" /\ consumer'[r] = "gone"
            /\ UNCHANGED <<leaving, cancelled>>
        BY <1>0, <3>2 DEF CancelClient, TypeOK
      <4>2. producer[r] \in ProducerStates
        BY <1>0 DEF TypeOK
      <4> QED
        BY <4>1, <4>2, <2>1 DEF PhaseOf, ReaderOf, ProducerStates
    <3> QED
      BY <1>4, <3>1, <3>2
  <2>3. phaseMap' = phaseMap
    BY <1>m, <2>2 DEF phaseMap
  <2>4. Promise!TurnAway(r)
    BY <1>m, <2>1, <2>2, <2>3 DEF Promise!TurnAway, phaseMap, readerMap
  <2> QED
    BY <2>4 DEF Promise!Next
<1> QED
  BY <1>1, <1>2, <1>3, <1>4 DEF ClientStep

\* Steps of a producer are abstract steps or stutter.
LEMMA ProducerMapped ==
    ASSUME SlotInv, StreamInv, NEW r \in Requests, ProducerStep(r)
    PROVE  [Promise!Next]_(Promise!vars)
<1>0. TypeOK /\ TasksInv(r) /\ ItemsInv(r) /\ OneStep(r)
  BY DEF SlotInv, StreamInv, OneStep
<1>m. /\ phaseMap' = [phaseMap EXCEPT ![r] = PhaseOf(r)']
      /\ readerMap' = [readerMap EXCEPT ![r] = ReaderOf(r)']
      /\ phaseMap[r] = PhaseOf(r) /\ readerMap[r] = ReaderOf(r)
  BY <1>0, MapsMove
<1>r. ASSUME UNCHANGED <<consumer, leaving>> PROVE readerMap' = readerMap
  <2>1. ReaderOf(r)' = ReaderOf(r)
    BY <1>r DEF ReaderOf
  <2> QED
    BY <1>m, <2>1 DEF readerMap
<1>t. ASSUME cancelled[r] PROVE ReaderOf(r) \in {"turned", "gone"}
  BY <1>0, <1>t DEF ReaderOf, TasksInv, TypeOK, ConsumerStates
<1>1. CASE ProducerStarts(r) /\ Locked
  <2>1. /\ producer[r] = "created" /\ producer'[r] = "waiting"
        /\ UNCHANGED <<consumer, leaving, yielded, cancelled, failed, emitted>>
    BY <1>0, <1>1 DEF ProducerStarts, TypeOK, consumerVars
  <2>2. PhaseOf(r)' = PhaseOf(r) /\ ReaderOf(r)' = ReaderOf(r)
    BY <2>1 DEF PhaseOf, ReaderOf
  <2> QED
    BY <1>0, <2>1, <2>2, Stutter
<1>2. CASE (ProducerStarts(r) /\ ~Locked) \/ AcquireResumes(r)
  <2>1. /\ producer[r] \in {"created", "granted"} /\ producer'[r] = "decoding"
        /\ UNCHANGED <<consumer, leaving, yielded, cancelled, failed, emitted>>
        /\ value > 0 \/ producer[r] = "granted"
    <3>1. CASE ProducerStarts(r) /\ ~Locked
      BY <1>0, <3>1 DEF ProducerStarts, TypeOK, consumerVars, Locked
    <3>2. CASE AcquireResumes(r)
      BY <1>0, <3>2, MoveSeen DEF AcquireResumes, consumerVars
    <3> QED
      BY <1>2, <3>1, <3>2
  <2>2. PhaseOf(r) = "queued" /\ PhaseOf(r)' = "running"
    BY <2>1 DEF PhaseOf
  <2>3. Cardinality(Promise!Running) < MaxConcurrency
    BY <2>1, RoomToAdmit
  <2>4. readerMap' = readerMap
    BY <1>r, <2>1
  <2>5. /\ [q \in Requests |-> PhaseOf(q)][r] = "queued"
        /\ [q \in Requests |-> PhaseOf(q)]'
             = [[q \in Requests |-> PhaseOf(q)] EXCEPT ![r] = "running"]
    BY <1>m, <2>2 DEF phaseMap
  <2>6. Promise!Move(r, "queued", "running")
    BY <2>5 DEF Promise!Move
  <2>7. Promise!Admit(r)
    <3>1. Promise!Cardinality(Promise!Running) < MaxConcurrency
      BY <2>3, SameCardinality
    <3> QED
      BY <2>1, <3>1, <2>4, <2>6, Zenon DEF Promise!Admit, readerMap
  <2> QED
    BY <2>7 DEF Promise!Next
<1>3. CASE ProducerNeverStarts(r) \/ AcquireCancelled(r) \/ PhaseTwoCancelled(r)
  <2>1. /\ producer[r] \in {"created", "waiting", "granted", "decoding"}
        /\ producer'[r] = "done" /\ cancelled[r]
        /\ UNCHANGED <<consumer, leaving, yielded, cancelled, emitted>>
    <3>1. CASE ProducerNeverStarts(r)
      BY <1>0, <3>1 DEF ProducerNeverStarts, TypeOK, consumerVars
    <3>2. CASE AcquireCancelled(r)
      BY <1>0, <3>2, MoveSeen DEF AcquireCancelled, consumerVars
    <3>3. CASE PhaseTwoCancelled(r)
      BY <1>0, <3>3, MoveSeen DEF PhaseTwoCancelled, Release, consumerVars
    <3> QED
      BY <1>3, <3>1, <3>2, <3>3
  <2>2. PhaseOf(r) \in {"queued", "running"} /\ PhaseOf(r)' = "withdrawn"
    BY <2>1 DEF PhaseOf
  <2>3. Promise!Withdraw(r)
    BY <1>m, <1>r, <1>t, <2>1, <2>2
       DEF Promise!Withdraw, Promise!Move, phaseMap, readerMap
  <2> QED
    BY <2>3 DEF Promise!Next
<1>4. CASE Emit(r)
  <2>1. /\ producer[r] = "decoding"
        /\ emitted' = [emitted EXCEPT ![r] = @ + 1]
        /\ UNCHANGED <<consumer, leaving, yielded, cancelled, failed, producer>>
    BY <1>4 DEF Emit, consumerVars
  <2>2. PhaseOf(r) = "running" /\ PhaseOf(r)' = PhaseOf(r)
    BY <2>1 DEF PhaseOf
  <2>3. phaseMap' = phaseMap
    BY <1>m, <2>2 DEF phaseMap
  <2>4. Promise!Make(r)
    BY <1>m, <1>r, <2>1, <2>2, <2>3 DEF Promise!Make, phaseMap, readerMap
  <2> QED
    BY <2>4 DEF Promise!Next
<1>5. CASE PhaseTwoEnds(r)
  <2>1. /\ producer[r] = "decoding" /\ producer'[r] = "done" /\ ~cancelled[r]
        /\ UNCHANGED <<consumer, leaving, yielded, cancelled, emitted>>
    BY <1>0, <1>5, MoveSeen DEF PhaseTwoEnds, Release, consumerVars
  <2>2. PhaseOf(r) = "running" /\ PhaseOf(r)' \in {"complete", "failed"}
    BY <2>1 DEF PhaseOf
  <2>3. Promise!End(r)
    BY <1>m, <1>r, <2>1, <2>2 DEF Promise!End, Promise!Move, phaseMap, readerMap
  <2> QED
    BY <2>3 DEF Promise!Next
<1> QED
  BY <1>1, <1>2, <1>3, <1>4, <1>5 DEF ProducerStep

\* The scheduler keeps the promise of BoundedStreams: bounded concurrency, items
\* in order, a verdict only at the true end, withdrawal only of a reader that left.
THEOREM Refinement == Spec => KeepsPromise
<1>1. SlotInv /\ StreamInv /\ [Next]_vars => [Promise!Next]_(Promise!vars)
  <2> SUFFICES ASSUME SlotInv, StreamInv, [Next]_vars
               PROVE  [Promise!Next]_(Promise!vars)
    OBVIOUS
  <2>1. ASSUME NEW r \in Requests, OneStep(r)
        PROVE  [Promise!Next]_(Promise!vars)
    BY <2>1, ConsumerMapped, ClientMapped, ProducerMapped DEF OneStep
  <2>2. CASE UNCHANGED vars
    <3>1. UNCHANGED Promise!vars
      BY <2>2 DEF vars, Promise!vars, PhaseOf, ReaderOf
    <3> QED
      BY <3>1
  <2> QED
    BY <2>1, <2>2 DEF Next, AllFinished, OneStep
<1> QED
  BY <1>1, InitMapped, StreamInvariant, PTL DEF Spec, KeepsPromise, Promise!Spec
=============================================================================
