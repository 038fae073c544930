--------------------------- MODULE AlgorithmProofs ---------------------------
(***************************************************************************)
(* Proofs about the pure algorithms: the greedy TDT loop, the energy       *)
(* detector, the three ways a recording is cut, and the stitching of the   *)
(* words of its pieces.                                                    *)
(*                                                                         *)
(* The chunkers are recursive functions of what a detector hears.  What    *)
(* such a function computes is proved by induction over its index, from    *)
(* the well-foundedness of < over Nat: a property is the set of the        *)
(* indices that have it (FromTo), and the recursive function exists        *)
(* because it can be built step by step (Iterates).                        *)
(***************************************************************************)
EXTENDS TDTDecode, Stitching, SequenceTheorems, WellFoundedInduction, TLAPS

-----------------------------------------------------------------------------
(***************************************************************************)
(* The budget of the greedy TDT loop, for windows of any length and models *)
(* that answer anything.  The argument: a round either counts one more     *)
(* token on the frame or leaves the frame, and a frame is left at the      *)
(* latest with its max_symbols-th token.                                   *)
(***************************************************************************)
\* While it runs the loop is on a frame of the window.
OnAFrame == ended = "no" => framePtr < T

Budget == DecodeTypeOK /\ FrameBudget /\ FrameCount /\ OnAFrame /\ CapIsLastResort

\* A frame more is max_symbols tokens more.
LEMMA FrameWorth ==
    ASSUME NEW m \in Nat, NEW p \in Nat, NEW q \in Nat, p < q
    PROVE  m * p + m <= m * q
<1>1. PICK d \in Nat : q = p + 1 + d
  <2>1. q - p - 1 \in Nat /\ q = p + 1 + (q - p - 1)
    OBVIOUS
  <2> QED BY <2>1
<1>2. m * (p + 1 + d) = m * p + m + m * d
  OBVIOUS
<1>3. m * p \in Nat /\ m * d \in Nat /\ m * q \in Nat
  OBVIOUS
<1> QED BY <1>1, <1>2, <1>3

\* Said once for the solver, which does not see it in a larger goal.
LEMMA ProductIsNat ==
    ASSUME NEW m \in Nat, NEW p \in Nat
    PROVE  m * p \in Nat
  OBVIOUS

\* The linear part of the argument, with the products named: a frame is left
\* with its budget (a, b: the budgets of the frames before and after) ...
LEMMA FrameLeft ==
    ASSUME NEW a \in Nat, NEW b \in Nat, NEW m \in Nat, NEW p \in Nat,
           NEW s \in 0..m - 1, p <= a + s, a + m <= b
    PROVE  p + 1 <= b + 0
  OBVIOUS

\* ... and a whole budget b spent but for one token leaves no slack.
LEMMA NoSlack ==
    ASSUME NEW a \in Nat, NEW b \in Nat, NEW m \in Nat, NEW p \in Nat,
           NEW s \in 0..m - 1, p <= a + s, a + m <= b, 1 + p >= b
    PROVE  p = b - 1 /\ s = m - 1 /\ a + m = b
  OBVIOUS

\* The loop starts within its budget.
LEMMA BudgetInit == DecodeInit => Budget
<1> USE DecodeAssumption
<1> SUFFICES ASSUME DecodeInit PROVE Budget
  OBVIOUS
<1>1. DecodeTypeOK
  BY DEF DecodeInit, DecodeTypeOK
<1>2. FrameBudget
  BY DEF DecodeInit, FrameBudget
<1>3. FrameCount
  BY DEF DecodeInit, FrameCount
<1>4. OnAFrame
  BY DEF DecodeInit, OnAFrame
<1>5. CapIsLastResort
  BY DEF DecodeInit, CapIsLastResort
<1> QED BY <1>1, <1>2, <1>3, <1>4, <1>5 DEF Budget

\* What one round does to the pointer and the counts.
LEMMA RoundEffect ==
    ASSUME Budget, NEW token \in Tokens, NEW duration \in Durations,
           Step(token, duration)
    PROVE  /\ produced' = produced + 1 /\ produced' \in Nat
           /\ framePtr' \in Nat
           /\ symbols' \in 0..MaxSymbols - 1
           /\ \/ framePtr' = framePtr /\ symbols' = symbols + 1 /\ arrived' = arrived
              \/ framePtr' > framePtr /\ symbols' = 0 /\ arrived' = produced'
<1> DEFINE selected == Advance(token, duration)
           stays    == token # "blank" /\ selected = 0
           advance  == IF stays /\ symbols + 1 >= MaxSymbols THEN 1 ELSE selected
<1>1. selected \in Nat /\ (selected = 0 => token # "blank")
  BY DecodeAssumption DEF Advance
<1>2. framePtr \in Nat /\ produced \in Nat /\ symbols \in 0..MaxSymbols - 1
      /\ MaxSymbols \in Nat \ {0}
  BY DecodeAssumption DEF Budget, DecodeTypeOK
<1>3. /\ symbols' = IF stays /\ symbols + 1 < MaxSymbols THEN symbols + 1 ELSE 0
      /\ framePtr' = framePtr + advance
      /\ produced' = produced + 1
      /\ arrived' = IF advance > 0 THEN produced' ELSE arrived
  BY DEF Step, CountSymbols
<1> HIDE DEF selected
<1>4. CASE stays /\ symbols + 1 < MaxSymbols
  <2>1. advance = 0
    BY <1>2, <1>4
  <2>2. arrived' = arrived /\ framePtr' = framePtr + 0 /\ symbols' = symbols + 1
    BY <2>1, <1>3, <1>4
  <2> QED BY ONLY <2>2, <1>2, <1>3, <1>4
<1>5. CASE stays /\ symbols + 1 >= MaxSymbols
  <2>1. advance = 1
    BY <1>5
  <2>2. arrived' = produced' /\ framePtr' = framePtr + 1 /\ symbols' = 0
    BY <2>1, <1>2, <1>3, <1>5
  <2> QED BY ONLY <2>2, <1>2, <1>3
<1>6. CASE ~stays
  <2>1. advance \in Nat /\ advance > 0
    BY <1>1, <1>6
  <2>2. arrived' = produced' /\ symbols' = 0
    BY <2>1, <1>3, <1>6
  <2>3. framePtr' = framePtr + advance
    BY <1>3
  <2> HIDE DEF advance
  <2> QED BY ONLY <2>1, <2>2, <2>3, <1>2, <1>3
<1> QED BY <1>4, <1>5, <1>6, <1>2

\* A round keeps the loop within its budget.
LEMMA BudgetStep ==
    ASSUME Budget, NEW token \in Tokens, NEW duration \in Durations,
           Step(token, duration)
    PROVE  Budget'
<1> DEFINE M == MaxSymbols
<1>1. M \in Nat \ {0} /\ T \in Nat \ {0} /\ T \in 1..MaxFrames /\ MaxFrames \in Nat
  BY DecodeAssumption DEF Budget, DecodeTypeOK
<1>2. framePtr \in Nat /\ produced \in Nat /\ symbols \in 0..M - 1
  BY DEF Budget, DecodeTypeOK
<1>3. ended = "no" /\ T' = T
  BY DEF Step
<1>4. framePtr < T
  BY <1>3 DEF Budget, OnAFrame
<1>5. /\ produced' = produced + 1 /\ produced' \in Nat
      /\ framePtr' \in Nat
      /\ symbols' \in 0..M - 1
      /\ \/ framePtr' = framePtr /\ symbols' = symbols + 1 /\ arrived' = arrived
         \/ framePtr' > framePtr /\ symbols' = 0 /\ arrived' = produced'
  BY RoundEffect
<1>6. ended' = IF framePtr' >= T THEN "exhausted"
               ELSE IF token = "eos" THEN "eos"
               ELSE IF 1 + produced' >= M * T THEN "length" ELSE "no"
  BY DEF Step, Stop, MaxProduced
<1>7. produced <= M * framePtr + symbols
  BY DEF Budget, FrameBudget
<1>8. M * framePtr \in Nat /\ M * framePtr' \in Nat /\ M * T \in Nat
  BY <1>1, <1>2, <1>5, ProductIsNat
<1>9. produced' <= M * framePtr' + symbols'
  <2>1. CASE framePtr' = framePtr /\ symbols' = symbols + 1
    BY <2>1, <1>1, <1>2, <1>5, <1>7, <1>8
  <2>2. CASE framePtr' > framePtr /\ symbols' = 0
    <3>1. M * framePtr + M <= M * framePtr'
      BY <2>2, <1>1, <1>2, <1>5, FrameWorth
    <3>2. produced + 1 <= M * framePtr' + 0
      BY ONLY <3>1, <1>1, <1>2, <1>7, <1>8, FrameLeft
    <3> QED BY <3>2, <2>2, <1>5
  <2> QED BY <2>1, <2>2, <1>5
<1>10. FrameBudget'
  BY <1>9 DEF FrameBudget
<1>11. DecodeTypeOK'
  <2>1. arrived \in Nat
    BY DEF Budget, DecodeTypeOK
  <2> QED BY <2>1, <1>1, <1>3, <1>5, <1>6 DEF DecodeTypeOK
<1>12. OnAFrame'
  BY <1>1, <1>3, <1>5, <1>6 DEF OnAFrame
<1>14. FrameCount'
  <2>1. produced - arrived = symbols /\ arrived \in Nat
    BY DEF Budget, FrameCount, DecodeTypeOK
  <2>2. produced' - arrived' = symbols' /\ symbols' < M
    BY ONLY <2>1, <1>1, <1>2, <1>5
  <2> QED BY <2>2 DEF FrameCount
<1>13. CapIsLastResort'
  <2> SUFFICES ASSUME ended' = "length"
               PROVE  framePtr' = T - 1 /\ produced' = M * T - 1 /\ symbols' = M - 1
    BY <1>3 DEF CapIsLastResort, MaxProduced
  <2>1. framePtr' < T /\ 1 + produced' >= M * T
    BY <1>1, <1>5, <1>6
  <2>2. M * framePtr' + M <= M * T
    BY <2>1, <1>1, <1>5, FrameWorth
  <2>3. produced' = M * T - 1 /\ symbols' = M - 1 /\ M * framePtr' + M = M * T
    <3> DEFINE a == M * framePtr'
               b == M * T
    <3>1. a \in Nat /\ b \in Nat /\ M \in Nat /\ produced' \in Nat /\ symbols' \in 0..M - 1
      BY <1>1, <1>5, <1>8
    <3>2. produced' <= a + symbols' /\ a + M <= b /\ 1 + produced' >= b
      BY <2>1, <2>2, <1>9
    <3> HIDE DEF a, b, M
    <3>3. produced' = b - 1 /\ symbols' = M - 1 /\ a + M = b
      BY ONLY <3>1, <3>2, NoSlack
    <3> QED BY <3>3 DEF a, b, M
  <2>4. framePtr' = T - 1
    <3> SUFFICES ASSUME framePtr' < T - 1 PROVE FALSE
      BY <2>1, <1>1, <1>5
    <3>0. framePtr' \in Nat /\ T \in Nat /\ framePtr' < T - 1
      BY <1>1, <1>5
    <3>1. framePtr' + 1 \in Nat /\ framePtr' + 1 < T
      <4>1. \A x, y \in Nat : x < y - 1 => x + 1 \in Nat /\ x + 1 < y
        OBVIOUS
      <4> QED BY ONLY <4>1, <3>0
    <3>2. M * (framePtr' + 1) + M <= M * T
      BY <3>1, <1>1, FrameWorth
    <3>3. M * (framePtr' + 1) = M * framePtr' + M
      BY <1>1, <1>5
    <3> QED BY <3>2, <3>3, <2>3, <1>1, <1>8
  <2> QED BY <2>3, <2>4
<1> QED BY <1>10, <1>11, <1>12, <1>13, <1>14 DEF Budget

\* The five facts hold of every decode.
THEOREM BudgetKept == DecodeSpec => []Budget
<1>1. Budget /\ [DecodeNext]_decodeVars => Budget'
  <2> SUFFICES ASSUME Budget, [DecodeNext]_decodeVars PROVE Budget'
    OBVIOUS
  <2>1. CASE \E token \in Tokens, duration \in Durations : Step(token, duration)
    BY <2>1, BudgetStep
  <2>2. CASE UNCHANGED decodeVars
    BY <2>2 DEF decodeVars, Budget, DecodeTypeOK, FrameBudget, FrameCount, OnAFrame,
                CapIsLastResort, MaxProduced
  <2> QED BY <2>1, <2>2 DEF DecodeNext, Finished
<1> QED BY <1>1, BudgetInit, PTL DEF DecodeSpec

\* DecodeTypeOK, for every window, cap and set of durations.
THEOREM DecodeTypes == DecodeSpec => []DecodeTypeOK
<1>1. Budget => DecodeTypeOK
  BY DEF Budget
<1> QED BY <1>1, BudgetKept, PTL

\* No frame emits more than max_symbols tokens.
THEOREM DecodeBudget == DecodeSpec => []FrameBudget
<1>1. Budget => FrameBudget
  BY DEF Budget
<1> QED BY <1>1, BudgetKept, PTL

\* symbols_on_frame is the number of tokens of the frame the loop is on, and
\* less than max_symbols, for any durations, leaps included.
THEOREM SymbolsAreCounted == DecodeSpec => []FrameCount
<1>1. Budget => FrameCount
  BY DEF Budget
<1> QED BY <1>1, BudgetKept, PTL

\* The length cap never cuts a window that had budget left.
THEOREM LengthCap == DecodeSpec => []CapIsLastResort
<1>1. Budget => CapIsLastResort
  BY DEF Budget
<1> QED BY <1>1, BudgetKept, PTL

-----------------------------------------------------------------------------
(***************************************************************************)
(* Induction over data.                                                    *)
(***************************************************************************)
\* A set of numbers that has a member has a least one.
LEMMA LeastNumber ==
    ASSUME NEW S \in SUBSET Nat, S # {}
    PROVE  \E x \in S : \A y \in S : x <= y
<1>1. PICK x \in S : \A y \in S : ~ (<<y, x>> \in OpToRel(<, Nat))
  BY WFMin, NatLessThanWellFounded, Zenon
<1>2. \A y \in S : y < x => <<y, x>> \in OpToRel(<, Nat)
  BY Zenon DEF OpToRel
<1>3. \A y \in S : ~ (y < x)
  BY <1>1, <1>2, Zenon
<1> QED BY <1>3

\* Induction from a to b, a property being the set of the numbers that have it.
LEMMA FromTo ==
    ASSUME NEW a \in Int, NEW b \in Int, NEW S, a \in S,
           \A k \in a..(b - 1) : k \in S => k + 1 \in S
    PROVE  a..b \subseteq S
<1> SUFFICES ASSUME NEW z \in a..b, z \notin S  PROVE FALSE
  OBVIOUS
<1> DEFINE D == {d \in Nat : a + d \in a..b /\ a + d \notin S}
<1>1. z - a \in D
  OBVIOUS
<1>2. PICK d \in D : \A e \in D : d <= e
  <2>1. D \in SUBSET Nat /\ D # {}
    BY <1>1
  <2> HIDE DEF D
  <2> QED BY <2>1, LeastNumber
<1>3. d # 0
  BY <1>2
<1>4. d - 1 \notin D
  BY <1>2, <1>3
<1>5. a + (d - 1) \in a..(b - 1) /\ a + (d - 1) \in S
  BY <1>2, <1>3, <1>4
<1>6. (a + (d - 1)) + 1 \in S
  BY <1>5
<1> QED BY <1>2, <1>3, <1>6

\* A function over a..b that begins with a value, each next one being made of
\* the one before by a step.
Iteration(h, a, b, St, base, step) ==
    /\ h \in [a..b -> St]
    /\ h[a] = base
    /\ \A k \in a + 1..b : h[k] = step[k][h[k - 1]]

\* There is one.
LEMMA Iterates ==
    ASSUME NEW St, NEW a \in Int, NEW b \in Int, NEW base \in St,
           NEW step \in [a + 1..b -> [St -> St]], a <= b
    PROVE  \E h : Iteration(h, a, b, St, base, step)
<1> DEFINE Upto(n) == \E h \in [a..n -> St] :
                         /\ h[a] = base
                         /\ \A k \in a + 1..n : h[k] = step[k][h[k - 1]]
           S == {n \in a..b : Upto(n)}
<1>1. Upto(a)
  <2>1. [k \in a..a |-> base] \in [a..a -> St]
    OBVIOUS
  <2>2. [k \in a..a |-> base][a] = base
    OBVIOUS
  <2>3. a + 1..a = {}
    OBVIOUS
  <2> QED BY <2>1, <2>2, <2>3, Zenon
<1>2. ASSUME NEW n \in a..(b - 1), Upto(n)  PROVE Upto(n + 1)
  <2>1. PICK h \in [a..n -> St] :
           h[a] = base /\ \A k \in a + 1..n : h[k] = step[k][h[k - 1]]
    BY <1>2
  <2> DEFINE g == [k \in a..(n + 1) |-> IF k <= n THEN h[k] ELSE step[n + 1][h[n]]]
  <2>2. g \in [a..(n + 1) -> St]
    <3>1. n + 1 \in a + 1..b /\ h[n] \in St
      OBVIOUS
    <3>2. step[n + 1][h[n]] \in St
      BY <3>1
    <3> QED BY <3>2
  <2>3. g[a] = base
    BY <2>1
  <2>4. ASSUME NEW k \in a + 1..(n + 1)  PROVE g[k] = step[k][g[k - 1]]
    <3>1. CASE k = n + 1
      BY <3>1
    <3>2. CASE k \in a + 1..n
      BY <3>2, <2>1
    <3> QED BY <3>1, <3>2
  <2> HIDE DEF g
  <2> QED BY <2>2, <2>3, <2>4
<1>3. a..b \subseteq S
  <2>1. a \in S
    BY <1>1
  <2>2. \A n \in a..(b - 1) : n \in S => n + 1 \in S
    <3> SUFFICES ASSUME NEW n \in a..(b - 1), n \in S  PROVE n + 1 \in S
      OBVIOUS
    <3>1. Upto(n + 1)
      BY <1>2
    <3> HIDE DEF Upto
    <3> QED BY <3>1
  <2> HIDE DEF S
  <2> QED BY <2>1, <2>2, FromTo
<1>4. Upto(b)
  BY <1>3
<1> QED BY <1>4 DEF Iteration

-----------------------------------------------------------------------------
(***************************************************************************)
(* Arithmetic.                                                             *)
(***************************************************************************)
LEMMA MinOfTwo ==
    ASSUME NEW a \in Int, NEW b \in Int
    PROVE  Min({a, b}) = IF a <= b THEN a ELSE b
  BY DEF Min

LEMMA MaxOfTwo ==
    ASSUME NEW a \in Int, NEW b \in Int
    PROVE  Max({a, b}) = IF a <= b THEN b ELSE a
  BY DEF Max

LEMMA DivMod ==
    ASSUME NEW n \in Nat, NEW f \in Nat \ {0}
    PROVE  /\ n = f * (n \div f) + (n % f)
           /\ n \div f \in Nat /\ f * (n \div f) \in Nat
           /\ n % f \in 0..(f - 1)
<1>1. n = f * (n \div f) + (n % f) /\ n \div f \in Nat /\ n % f \in 0..(f - 1)
  OBVIOUS
<1> QED BY <1>1

\* Different multiples are a whole factor apart.
LEMMA OneMore ==
    ASSUME NEW f \in Nat, NEW x \in Nat, NEW y \in Nat
    PROVE  /\ f * x + f <= f * y \/ f * y + f <= f * x \/ f * x = f * y
           /\ x < y => f * x + f <= f * y
<1>1. ASSUME NEW u \in Nat, NEW v \in Nat, u < v  PROVE f * u + f <= f * v
  <2>1. v - u - 1 \in Nat /\ f * (v - u - 1) \in Nat
    BY <1>1
  <2>2. f * v = f * u + f + f * (v - u - 1)
    OBVIOUS
  <2> QED BY <2>1, <2>2
<1>2. CASE x < y
  BY <1>1, <1>2
<1>3. CASE y < x
  BY <1>1, <1>3
<1>4. CASE x = y
  BY <1>4
<1> QED BY <1>2, <1>3, <1>4

\* Division rounded up: n pieces of size b are enough for a, one less is not.
LEMMA CeilDivBounds ==
    ASSUME NEW a \in Nat, NEW b \in Nat \ {0}
    PROVE  /\ CeilDiv(a, b) \in Nat
           /\ a <= CeilDiv(a, b) * b
           /\ CeilDiv(a, b) * b < a + b
           /\ (a > 0 => CeilDiv(a, b) > 0)
<1> DEFINE q == (a + b - 1) \div b
           r == (a + b - 1) % b
<1>1. a + b - 1 = b * q + r /\ q \in Nat /\ r \in 0..(b - 1)
  OBVIOUS
<1>2. q * b = b * q /\ b * q \in Nat
  BY <1>1
<1>3. a > 0 => q > 0
  <2> SUFFICES ASSUME a > 0, q = 0  PROVE FALSE
    BY <1>1
  <2>1. b * q = 0
    OBVIOUS
  <2> QED BY <2>1, <1>1
<1> HIDE DEF q, r
<1>4. a <= q * b /\ q * b < a + b
  BY <1>1, <1>2
<1> QED BY <1>1, <1>3, <1>4 DEF CeilDiv, q

LEMMA ConstantTypes ==
    /\ MaxSamples \in Nat \ {0} /\ Target \in Nat \ {0} /\ Hard \in Nat \ {0}
    /\ Frame \in Nat \ {0} /\ MinSil \in Nat \ {0}
    /\ ChunkLength \in Nat \ {0} /\ MinGap \in Nat \ {0}
    /\ Least \in Nat /\ Window \in Nat /\ MaxTotal \in Nat
    /\ Least <= Target /\ Target <= Hard
    /\ Window + 4 * MinGap <= ChunkLength + 1
  BY ChunkingAssumption

-----------------------------------------------------------------------------
(***************************************************************************)
(* The recording.                                                          *)
(***************************************************************************)
\* Spans in order, the last one before the end.
Ordered(heard, end) ==
    /\ heard \in Seq(Int \X Int)
    /\ \A i \in 1..Len(heard) :
           0 <= heard[i][1] /\ heard[i][1] <= heard[i][2] /\ heard[i][2] <= end
    /\ \A i, j \in 1..Len(heard) : i < j => heard[i][2] <= heard[j][1]

NoneEmpty(heard) == \A i \in 1..Len(heard) : heard[i][1] < heard[i][2]

\* What the two detectors keep true of the recording.
Recorded ==
    /\ detector \in {"silero", "energy"}
    /\ total \in Nat
    /\ Ordered(spans, total) /\ NoneEmpty(spans)
    /\ frames \in Seq(BOOLEAN)
    /\ detector = "energy" => Len(frames) * Frame + (total % Frame) = total
    /\ detector = "silero" => frames = <<>>

\* A span after the end keeps spans in order.
LEMMA AppendOrdered ==
    ASSUME NEW h, NEW end \in Nat, Ordered(h, end), NoneEmpty(h),
           NEW a \in Nat, NEW b \in Nat, end <= a, a < b
    PROVE  Ordered(Append(h, <<a, b>>), b) /\ NoneEmpty(Append(h, <<a, b>>))
<1> DEFINE g == Append(h, <<a, b>>)
<1>1. PICK n \in Nat : n = Len(h)
  BY DEF Ordered
<1>2. /\ g \in Seq(Int \X Int) /\ Len(g) = n + 1 /\ g[n + 1] = <<a, b>>
      /\ \A i \in 1..n : g[i] = h[i] /\ h[i] \in Int \X Int
  BY <1>1 DEF Ordered
<1> HIDE DEF g
<1>3. ASSUME NEW i \in 1..n
      PROVE  0 <= g[i][1] /\ g[i][1] < g[i][2] /\ g[i][2] <= end /\ g[i][2] \in Int
             /\ g[i][1] \in Int
  BY <1>1, <1>2 DEF Ordered, NoneEmpty
<1>4. g[n + 1][1] = a /\ g[n + 1][2] = b
  BY <1>2
<1>5. \A i \in 1..n + 1 :
         0 <= g[i][1] /\ g[i][1] < g[i][2] /\ g[i][2] <= b /\ g[i][1] <= g[i][2]
  BY <1>3, <1>4
<1>6. \A i, j \in 1..n + 1 : i < j => g[i][2] <= g[j][1]
  <2> SUFFICES ASSUME NEW i \in 1..n + 1, NEW j \in 1..n + 1, i < j
               PROVE  g[i][2] <= g[j][1]
    OBVIOUS
  <2>1. CASE j = n + 1
    BY <2>1, <1>3, <1>4
  <2>2. CASE j \in 1..n
    <3>1. i \in 1..n /\ h[i][2] <= h[j][1]
      BY <2>2, <1>1 DEF Ordered
    <3> QED BY <3>1, <2>2, <1>2
  <2> QED BY <2>1, <2>2
<1>7. Ordered(g, b) /\ NoneEmpty(g)
  BY <1>2, <1>5, <1>6 DEF Ordered, NoneEmpty
<1> QED BY <1>7 DEF g

LEMMA Remainders ==
    ASSUME NEW n \in Nat, NEW f \in Nat \ {0}, NEW p \in Nat, NEW p1 \in Nat,
           NEW r \in 0..(f - 1), NEW r1 \in 0..(f - 1),
           n = p + r, n + 1 = p1 + r1, p1 + f <= p \/ p + f <= p1 \/ p = p1
    PROVE  r1 = IF r + 1 = f THEN 0 ELSE r + 1
<1>1. CASE p1 + f <= p
  BY <1>1
<1>2. CASE p + f <= p1
  BY <1>2
<1>3. CASE p = p1
  BY <1>3
<1> QED BY <1>1, <1>2, <1>3

\* One sample more: the last frame is whole then, or not yet.
LEMMA NextSample ==
    ASSUME NEW n \in Nat, NEW f \in Nat \ {0}
    PROVE  /\ n % f \in 0..(f - 1)
           /\ (n + 1) % f = IF (n % f) + 1 = f THEN 0 ELSE (n % f) + 1
<1>1. n = f * (n \div f) + (n % f) /\ f * (n \div f) \in Nat /\ n % f \in 0..(f - 1)
  BY DivMod
<1>2. n + 1 = f * ((n + 1) \div f) + ((n + 1) % f) /\ f * ((n + 1) \div f) \in Nat
      /\ (n + 1) % f \in 0..(f - 1)
  BY DivMod, n + 1 \in Nat
<1>3. LET p == f * (n \div f)  p1 == f * ((n + 1) \div f)
      IN  p1 + f <= p \/ p + f <= p1 \/ p = p1
  <2>1. n \div f \in Nat /\ (n + 1) \div f \in Nat
    BY DivMod, n + 1 \in Nat
  <2> QED BY <2>1, OneMore
<1> QED BY <1>1, <1>2, <1>3, Remainders

\* The whole frames and the rest are the recording, one sample later too.
LEMMA WholeFrames ==
    ASSUME NEW L \in Nat, NEW f \in Nat \ {0}, NEW n \in Nat, L * f + (n % f) = n
    PROVE  IF (n + 1) % f = 0 THEN (L + 1) * f + ((n + 1) % f) = n + 1
                              ELSE L * f + ((n + 1) % f) = n + 1
<1>1. L * f \in Nat /\ L * f + f = (L + 1) * f
  OBVIOUS
<1>2. n % f \in Nat /\ (n + 1) % f \in Nat
  BY DivMod, n + 1 \in Nat
<1>3. (n + 1) % f = IF (n % f) + 1 = f THEN 0 ELSE (n % f) + 1
  BY NextSample, Zenon
<1>4. IF (n + 1) % f = 0 THEN (L * f + f) + ((n + 1) % f) = n + 1
                        ELSE L * f + ((n + 1) % f) = n + 1
  <2>1. CASE (n % f) + 1 = f
    BY <2>1, <1>1, <1>2, <1>3
  <2>2. CASE (n % f) + 1 # f
    BY <2>2, <1>1, <1>2, <1>3
  <2> QED BY <2>1, <2>2
<1> QED BY <1>1, <1>4, Zenon

\* Every step keeps what is true of the recording.
LEMMA RecordedStep == Recorded /\ [Next]_vars => Recorded'
<1> SUFFICES ASSUME Recorded, [Next]_vars  PROVE Recorded'
  OBVIOUS
<1>1. ASSUME NEW gap \in 0..MaxTotal, NEW length \in 1..MaxTotal, HearSpeech(gap, length)
      PROVE  Recorded'
  <2>1. /\ total \in Nat /\ total' = total + gap + length /\ total' \in Nat
        /\ detector = "silero" /\ UNCHANGED <<detector, frames>>
        /\ spans' = Append(spans, <<total + gap, total'>>)
        /\ total + gap \in Nat /\ total <= total + gap /\ total + gap < total'
    BY <1>1, ConstantTypes DEF HearSpeech, Recorded
  <2>2. Ordered(spans', total') /\ NoneEmpty(spans')
    <3>1. Ordered(spans, total) /\ NoneEmpty(spans)
      BY DEF Recorded
    <3> QED BY <2>1, <3>1, AppendOrdered
  <2> QED BY <2>1, <2>2 DEF Recorded
<1>2. ASSUME NEW length \in 1..MaxTotal, HearSilence(length)  PROVE Recorded'
  <2>1. total \in Nat /\ total' \in Nat /\ total <= total'
        /\ detector = "silero" /\ UNCHANGED <<detector, spans, frames>>
    BY <1>2, ConstantTypes DEF HearSilence, Recorded
  <2>2. Ordered(spans, total') /\ NoneEmpty(spans)
    BY <2>1 DEF Recorded, Ordered
  <2> QED BY <2>1, <2>2 DEF Recorded
<1>3. ASSUME NEW loud \in BOOLEAN, HearMore(loud)  PROVE Recorded'
  <2>1. /\ total \in Nat /\ total' = total + 1 /\ total' \in Nat
        /\ UNCHANGED <<detector, spans>>
        /\ detector = "energy" /\ frames \in Seq(BOOLEAN)
        /\ Len(frames) * Frame + (total % Frame) = total
        /\ frames' = IF total' % Frame = 0 THEN Append(frames, loud) ELSE frames
    BY <1>3 DEF HearMore, Recorded
  <2>2. Ordered(spans', total') /\ NoneEmpty(spans')
    BY <2>1 DEF Recorded, Ordered, NoneEmpty
  <2>3. Append(frames, loud) \in Seq(BOOLEAN) /\ Len(Append(frames, loud)) = Len(frames) + 1
        /\ Len(frames) \in Nat
    <3>1. frames \in Seq(BOOLEAN)
      BY DEF Recorded
    <3> QED BY ONLY <3>1, loud \in BOOLEAN
  <2>4. IF total' % Frame = 0 THEN (Len(frames) + 1) * Frame + (total' % Frame) = total'
                              ELSE Len(frames) * Frame + (total' % Frame) = total'
    <3>1. Frame \in Nat \ {0}
      BY ConstantTypes
    <3> QED BY <3>1, <2>1, <2>3, WholeFrames, Zenon
  <2>5. frames' \in Seq(BOOLEAN) /\ Len(frames') * Frame + (total' % Frame) = total'
    BY <2>1, <2>3, <2>4, Zenon
  <2>6. detector' = "energy" /\ detector' # "silero" /\ total' \in Nat
    BY <2>1
  <2> QED BY <2>2, <2>5, <2>6, Zenon DEF Recorded
<1>4. CASE UNCHANGED vars
  BY <1>4 DEF vars, Recorded, Ordered, NoneEmpty
<1> QED BY <1>1, <1>2, <1>3, <1>4 DEF Next, Full

THEOREM RecordedAlways == Spec => []Recorded
<1>1. Init => Recorded
  <2>1. 0 % Frame = 0 /\ 0 * Frame = 0
    BY ConstantTypes
  <2> QED BY <2>1 DEF Init, Recorded, Ordered, NoneEmpty
<1> QED BY <1>1, RecordedStep, PTL DEF Spec

-----------------------------------------------------------------------------
(***************************************************************************)
(* The energy detector.                                                    *)
(***************************************************************************)
HearingStates == [open : Int, quiet : Int, found : Seq(Int \X Int)]

Silent == [open |-> Nowhere, quiet |-> 0, found |-> <<>>]

\* Hearing is the recursion it is written as.
LEMMA HearingDef ==
    ASSUME frames \in Seq(BOOLEAN)
    PROVE  Hearing = [i \in 0..Len(frames) |->
                         IF i = 0 THEN Silent ELSE HearFrame(Hearing[i - 1], i)]
<1> DEFINE n == Len(frames)
           step == [i \in 0 + 1..n |-> [s \in HearingStates |-> HearFrame(s, i)]]
<1>1. \A s \in HearingStates, i \in 0 + 1..n : HearFrame(s, i) \in HearingStates
  <2> SUFFICES ASSUME NEW s \in HearingStates, NEW i \in 0 + 1..n
               PROVE  HearFrame(s, i) \in HearingStates
    OBVIOUS
  <2>1. CountQuiet(frames[i], s.quiet) \in Int
    BY DEF CountQuiet, HearingStates
  <2>2. Append(s.found, <<s.open, i - 1 - CountQuiet(frames[i], s.quiet)>>) \in Seq(Int \X Int)
    BY <2>1 DEF HearingStates
  <2>3. /\ [s EXCEPT !.open = i - 1, !.quiet = 0] \in HearingStates
        /\ [s EXCEPT !.quiet = CountQuiet(frames[i], s.quiet)] \in HearingStates
    <3>1. i - 1 \in Int /\ 0 \in Int
      OBVIOUS
    <3> QED BY <2>1, <3>1, Zenon DEF HearingStates
  <2>4. [open |-> Nowhere, quiet |-> 0,
         found |-> Append(s.found, <<s.open, i - 1 - CountQuiet(frames[i], s.quiet)>>)]
           \in HearingStates
    BY <2>2 DEF HearingStates, Nowhere
  <2> QED BY <2>3, <2>4, Zenon DEF HearFrame
<1>2. step \in [0 + 1..n -> [HearingStates -> HearingStates]]
  BY <1>1
<1>3. Silent \in HearingStates /\ n \in Nat
  BY DEF Silent, HearingStates, Nowhere
<1>4. PICK h : Iteration(h, 0, n, HearingStates, Silent, step)
  <2>1. 0 \in Int /\ n \in Int /\ 0 <= n
    BY <1>3
  <2> HIDE DEF step, n
  <2> QED BY <1>2, <1>3, <2>1, Iterates
<1>5. \A k \in 0..n : h[k] = IF k = 0 THEN Silent ELSE HearFrame(h[k - 1], k)
  <2> SUFFICES ASSUME NEW k \in 0..n, k # 0  PROVE h[k] = HearFrame(h[k - 1], k)
    BY <1>4 DEF Iteration
  <2>1. k \in 0 + 1..n /\ h[k - 1] \in HearingStates
    BY <1>4 DEF Iteration
  <2> QED BY <2>1, <1>4 DEF Iteration
<1>6. h = [i \in 0..n |-> IF i = 0 THEN Silent ELSE HearFrame(h[i - 1], i)]
  BY <1>4, <1>5 DEF Iteration
<1> QED BY <1>6 DEF Hearing, Silent

\* The spans found in the first i frames: each begins with a loud frame ...
FoundLoud(found, i) ==
    \A k \in 1..Len(found) :
        /\ 0 <= found[k][1] /\ found[k][1] <= found[k][2] /\ found[k][2] < i
        /\ found[k][1] < Len(frames) /\ frames[found[k][1] + 1]

\* ... and they are apart, from one another and from the frame where the next
\* one begins or may begin.
FoundApart(found, next) ==
    /\ \A j, k \in 1..Len(found) : j < k => found[k][1] - found[j][2] > MinSil
    /\ \A k \in 1..Len(found) : next - found[k][2] > MinSil

InFound(found, j) == \E k \in 1..Len(found) : found[k][1] < j /\ j <= found[k][2] + 1

\* What is true after i frames: loud frames are in a span that was found or in
\* the open one.
Listened(s, i) ==
    /\ s \in HearingStates
    /\ FoundLoud(s.found, i)
    /\ FoundApart(s.found, IF s.open = Nowhere THEN i ELSE s.open)
    /\ s.open # Nowhere => /\ 0 <= s.open /\ frames[s.open + 1]
                           /\ 0 <= s.quiet /\ s.open + s.quiet < i
    /\ \A j \in 1..i :
           frames[j] => \/ InFound(s.found, j)
                        \/ s.open # Nowhere /\ s.open < j /\ j <= i - s.quiet

\* A span more, which ends before frame i.
LEMMA FoundMore ==
    ASSUME NEW found \in Seq(Int \X Int), NEW i \in Nat, NEW a \in Int, NEW b \in Int,
           NEW next \in Int, FoundLoud(found, i), FoundApart(found, a),
           0 <= a, a <= b, b < i, next - b > MinSil, a < Len(frames), frames[a + 1]
    PROVE  LET more == Append(found, <<a, b>>)
           IN  /\ more \in Seq(Int \X Int)
               /\ FoundLoud(more, i) /\ FoundApart(more, next)
               /\ \A j : InFound(found, j) => InFound(more, j)
               /\ \A j \in Int : a < j /\ j <= b + 1 => InFound(more, j)
<1> DEFINE more == Append(found, <<a, b>>)
<1>1. PICK n \in Nat : n = Len(found)
  OBVIOUS
<1>2. /\ more \in Seq(Int \X Int) /\ Len(more) = n + 1
      /\ more[n + 1] = <<a, b>> /\ \A k \in 1..n : more[k] = found[k] /\ found[k] \in Int \X Int
  BY <1>1
<1> HIDE DEF more
<1>3. more[n + 1][1] = a /\ more[n + 1][2] = b
  BY <1>2
<1>4. MinSil \in Nat
  BY ConstantTypes
<1>5. ASSUME NEW k \in 1..n
      PROVE  /\ more[k][1] \in Int /\ more[k][2] \in Int
             /\ 0 <= more[k][1] /\ more[k][1] <= more[k][2] /\ more[k][2] < i
             /\ more[k][1] < Len(frames) /\ frames[more[k][1] + 1]
             /\ a - more[k][2] > MinSil
  BY <1>1, <1>2 DEF FoundLoud, FoundApart
<1>6. FoundLoud(more, i)
  <2> SUFFICES ASSUME NEW k \in 1..n + 1
               PROVE  /\ 0 <= more[k][1] /\ more[k][1] <= more[k][2] /\ more[k][2] < i
                      /\ more[k][1] < Len(frames) /\ frames[more[k][1] + 1]
    BY <1>2 DEF FoundLoud
  <2>1. CASE k = n + 1
    BY <2>1, <1>3
  <2>2. CASE k \in 1..n
    BY <2>2, <1>5
  <2>3. k = n + 1 \/ k \in 1..n
    OBVIOUS
  <2> QED BY <2>1, <2>2, <2>3, Zenon
<1>7. FoundApart(more, next)
  <2>1. ASSUME NEW j \in 1..n + 1, NEW k \in 1..n + 1, j < k
        PROVE  more[k][1] - more[j][2] > MinSil
    <3>1. CASE k = n + 1
      <4>1. j \in 1..n
        BY <3>1, <2>1
      <4>2. more[k][1] = a /\ a - more[j][2] > MinSil
        BY <3>1, <4>1, <1>3, <1>5, Zenon
      <4> QED BY <4>2, Zenon
    <3>2. CASE k \in 1..n
      <4>1. j \in 1..n
        BY <3>2, <2>1
      <4> QED BY <4>1, <3>2, <2>1, <1>1, <1>2 DEF FoundApart
    <3>3. k = n + 1 \/ k \in 1..n
      OBVIOUS
    <3> QED BY <3>1, <3>2, <3>3, Zenon
  <2>2. ASSUME NEW k \in 1..n + 1  PROVE next - more[k][2] > MinSil
    <3>1. CASE k = n + 1
      BY <3>1, <1>3
    <3>2. CASE k \in 1..n
      <4>1. more[k][2] \in Int /\ a - more[k][2] > MinSil
        BY <3>2, <1>5, Zenon
      <4> QED BY <4>1, <1>4
    <3> QED BY <3>1, <3>2
  <2> QED BY <2>1, <2>2, <1>2 DEF FoundApart
<1>8. \A j : InFound(found, j) => InFound(more, j)
  BY <1>1, <1>2 DEF InFound
<1>9. \A j \in Int : a < j /\ j <= b + 1 => InFound(more, j)
  <2>1. n + 1 \in 1..Len(more)
    BY <1>2
  <2> QED BY <2>1, <1>3, Zenon DEF InFound
<1> QED BY <1>2, <1>6, <1>7, <1>8, <1>9 DEF more

\* A frame more.
LEMMA HearStep ==
    ASSUME frames \in Seq(BOOLEAN), NEW i \in 1..Len(frames), NEW s, Listened(s, i - 1)
    PROVE  Listened(HearFrame(s, i), i)
<1> DEFINE q == CountQuiet(frames[i], s.quiet)
<1>0. i \in Nat \ {0} /\ frames[i] \in BOOLEAN /\ Len(frames) \in Nat /\ i <= Len(frames)
  OBVIOUS
<1>1. /\ s.open \in Int /\ s.quiet \in Int /\ s.found \in Seq(Int \X Int)
      /\ s = [open |-> s.open, quiet |-> s.quiet, found |-> s.found]
  BY DEF Listened, HearingStates
<1>2. FoundLoud(s.found, i - 1) /\ FoundApart(s.found, IF s.open = Nowhere THEN i - 1 ELSE s.open)
  BY DEF Listened
<1>3. FoundLoud(s.found, i)
  <2> SUFFICES ASSUME NEW k \in 1..Len(s.found)
               PROVE  /\ 0 <= s.found[k][1] /\ s.found[k][1] <= s.found[k][2]
                      /\ s.found[k][2] < i
                      /\ s.found[k][1] < Len(frames) /\ frames[s.found[k][1] + 1]
    BY DEF FoundLoud
  <2>1. s.found[k][2] \in Int
    BY <1>1
  <2> QED BY <1>2, <2>1 DEF FoundLoud
<1>4. ASSUME NEW n \in Int, n >= i - 1, s.open = Nowhere  PROVE FoundApart(s.found, n)
  <2>1. MinSil \in Nat
    BY ConstantTypes
  <2>2. \A k \in 1..Len(s.found) : s.found[k][2] \in Int
    BY <1>1
  <2>3. \A k \in 1..Len(s.found) : i - 1 - s.found[k][2] > MinSil
    BY <1>2, <1>4 DEF FoundApart
  <2>4. ASSUME NEW k \in 1..Len(s.found)  PROVE n - s.found[k][2] > MinSil
    <3>1. i - 1 - s.found[k][2] > MinSil /\ s.found[k][2] \in Int
      BY <2>2, <2>3, Zenon
    <3> QED BY ONLY <1>0, <1>4, <2>1, <3>1
  <2>5. \A j, k \in 1..Len(s.found) : j < k => s.found[k][1] - s.found[j][2] > MinSil
    BY <1>2, Zenon DEF FoundApart
  <2> QED BY <2>4, <2>5, Zenon DEF FoundApart
<1>5. ASSUME NEW j \in 1..i - 1, frames[j]
      PROVE  InFound(s.found, j) \/ (s.open # Nowhere /\ s.open < j /\ j <= i - 1 - s.quiet)
  BY <1>5 DEF Listened
<1>6. CASE s.open = Nowhere /\ frames[i]
  <2> DEFINE t == [open |-> i - 1, quiet |-> 0, found |-> s.found]
  <2>1. HearFrame(s, i) = t
    BY <1>1, <1>6 DEF HearFrame
  <2>2. t \in HearingStates /\ i - 1 # Nowhere
    BY <1>1 DEF HearingStates, Nowhere
  <2>3. FoundApart(s.found, i - 1)
    BY <1>4, <1>6
  <2>4. frames[(i - 1) + 1]
    BY <1>6
  <2>5. \A j \in 1..i : frames[j] => InFound(s.found, j) \/ (i - 1 < j /\ j <= i - 0)
    BY <1>5, <1>6
  <2> QED BY <1>3, <2>1, <2>2, <2>3, <2>4, <2>5 DEF Listened
<1>7. CASE s.open = Nowhere /\ ~ frames[i]
  <2>1. HearFrame(s, i) = s
    BY <1>7 DEF HearFrame
  <2>2. s \in HearingStates
    BY DEF Listened
  <2>3. FoundApart(s.found, i)
    BY <1>4, <1>7
  <2>4. \A j \in 1..i : frames[j] => InFound(s.found, j)
    BY <1>5, <1>7
  <2> QED BY <1>3, <1>7, <2>1, <2>2, <2>3, <2>4 DEF Listened
<1>8. ASSUME s.open # Nowhere
      PROVE  /\ 0 <= s.open /\ frames[s.open + 1] /\ 0 <= s.quiet
             /\ s.open + s.quiet < i - 1 /\ FoundApart(s.found, s.open)
             /\ q = IF frames[i] THEN 0 ELSE s.quiet + 1
  BY <1>8 DEF Listened, CountQuiet
<1>9. CASE s.open # Nowhere /\ (frames[i] \/ q < MinSil)
  <2> DEFINE t == [open |-> s.open, quiet |-> q, found |-> s.found]
  <2>1. HearFrame(s, i) = t
    BY <1>1, <1>9 DEF HearFrame
  <2>2. q \in Int /\ 0 <= q /\ s.open + q < i /\ i - q >= i - 1 - s.quiet
    BY <1>1, <1>8, <1>9
  <2>3. t \in HearingStates
    BY <1>1, <2>2 DEF HearingStates
  <2>4. \A j \in 1..i : frames[j] => InFound(s.found, j) \/ (s.open < j /\ j <= i - q)
    <3> SUFFICES ASSUME NEW j \in 1..i, frames[j]
                 PROVE  InFound(s.found, j) \/ (s.open < j /\ j <= i - q)
      OBVIOUS
    <3>1. CASE j = i
      BY <3>1, <1>1, <1>8, <1>9
    <3>2. CASE j \in 1..i - 1
      BY <3>2, <1>1, <1>5, <2>2
    <3> QED BY <3>1, <3>2
  <2> HIDE DEF q
  <2> QED BY <1>3, <1>8, <1>9, <2>1, <2>2, <2>3, <2>4 DEF Listened
<1>10. CASE s.open # Nowhere /\ ~ frames[i] /\ ~ (q < MinSil)
  <2> DEFINE b == i - 1 - q
             more == Append(s.found, <<s.open, b>>)
             t == [open |-> Nowhere, quiet |-> 0, found |-> more]
  <2>1. HearFrame(s, i) = t
    BY <1>1, <1>10 DEF HearFrame
  <2>0. MinSil \in Nat
    BY ConstantTypes
  <2>2. q = s.quiet + 1 /\ b \in Int /\ s.open <= b /\ i - b > MinSil
    <3>1. q = s.quiet + 1
      BY <1>8, <1>10
    <3> HIDE DEF q
    <3>2. b \in Int /\ s.open <= b
      BY <3>1, <1>1, <1>8, <1>10
    <3>3. i - b = q + 1
      BY <3>1, <1>1
    <3> QED BY <1>10, <2>0, <3>1, <3>2, <3>3, <1>1
  <2> HIDE DEF b, q
  <2>3. /\ more \in Seq(Int \X Int)
        /\ FoundLoud(more, i) /\ FoundApart(more, i)
        /\ \A j : InFound(s.found, j) => InFound(more, j)
        /\ \A j \in Int : s.open < j /\ j <= b + 1 => InFound(more, j)
    <3>1. b < i
      BY <2>0, <2>2
    <3>2. s.open < Len(frames)
      BY <1>0, <1>1, <1>8, <1>10
    <3>3. i \in Nat /\ i \in Int
      BY <1>0
    <3> HIDE DEF more
    <3> QED BY <1>1, <1>3, <1>8, <1>10, <2>2, <3>1, <3>2, <3>3, FoundMore DEF more
  <2>4. \A j \in 1..i : frames[j] => InFound(more, j)
    <3> SUFFICES ASSUME NEW j \in 1..i, frames[j]  PROVE InFound(more, j)
      OBVIOUS
    <3>1. j \in 1..i - 1
      BY <1>10
    <3>2. b + 1 = i - 1 - s.quiet
      BY <1>1, <2>2 DEF b
    <3>3. InFound(s.found, j) \/ (s.open < j /\ j <= b + 1)
      BY <3>1, <3>2, <1>5
    <3> HIDE DEF more, t
    <3> QED BY <3>3, <2>3
  <2>5. t \in HearingStates
    BY <2>3 DEF HearingStates, Nowhere
  <2> HIDE DEF more
  <2> QED BY <2>1, <2>3, <2>4, <2>5 DEF Listened
<1> QED BY <1>6, <1>7, <1>9, <1>10

\* So it is after every frame.
LEMMA HearingListens ==
    ASSUME frames \in Seq(BOOLEAN)
    PROVE  \A i \in 0..Len(frames) : Listened(Hearing[i], i)
<1> DEFINE n == Len(frames)
           S == {i \in 0..n : Listened(Hearing[i], i)}
<1>1. n \in Nat /\ \A i \in 1..n : frames[i] \in BOOLEAN
  OBVIOUS
<1>2. Hearing[0] = Silent /\ \A i \in 1..n : Hearing[i] = HearFrame(Hearing[i - 1], i)
  <2>1. \A i \in 0..n : Hearing[i] = IF i = 0 THEN Silent ELSE HearFrame(Hearing[i - 1], i)
    BY HearingDef, Zenon
  <2> QED BY <2>1, <1>1
<1>3. Listened(Silent, 0)
  BY DEF Listened, Silent, HearingStates, FoundLoud, FoundApart, Nowhere
<1>4. 0 \in S
  BY <1>1, <1>2, <1>3
<1>5. \A i \in 0..(n - 1) : i \in S => i + 1 \in S
  <2> SUFFICES ASSUME NEW i \in 0..(n - 1), Listened(Hearing[i], i)
               PROVE  Listened(Hearing[i + 1], i + 1)
    BY <1>1
  <2>1. (i + 1) - 1 = i /\ i + 1 \in 1..n
    BY <1>1
  <2>2. Listened(HearFrame(Hearing[i], i + 1), i + 1)
    BY <1>1, <2>1, HearStep
  <2> QED BY <1>2, <2>1, <2>2
<1> HIDE DEF S
<1>6. 0..n \subseteq S
  <2>1. 0 \in Int /\ n \in Int
    BY <1>1
  <2> QED BY <1>4, <1>5, <2>1, FromTo
<1> QED BY <1>6 DEF S

\* What the detector returns, in frames.
LEMMA FrameSpansFound ==
    ASSUME frames \in Seq(BOOLEAN)
    PROVE  /\ FrameSpans \in Seq(Int \X Int)
           /\ FoundLoud(FrameSpans, Len(frames) + 1)
           /\ \A j, k \in 1..Len(FrameSpans) :
                  j < k => FrameSpans[k][1] - FrameSpans[j][2] > MinSil
           /\ \A j \in 1..Len(frames) : frames[j] => InFound(FrameSpans, j)
<1> DEFINE s == Hearing[Len(frames)]
<1>1. PICK n \in Nat : n = Len(frames)
  OBVIOUS
<1>2. Listened(s, n)
  BY <1>1, HearingListens
<1> HIDE DEF s
<1>3. s.open \in Int /\ s.quiet \in Int /\ s.found \in Seq(Int \X Int)
  BY <1>2 DEF Listened, HearingStates
<1>4. FoundLoud(s.found, n + 1)
  <2> SUFFICES ASSUME NEW k \in 1..Len(s.found)
               PROVE  /\ 0 <= s.found[k][1] /\ s.found[k][1] <= s.found[k][2]
                      /\ s.found[k][2] < n + 1
                      /\ s.found[k][1] < Len(frames) /\ frames[s.found[k][1] + 1]
    BY DEF FoundLoud
  <2>1. s.found[k][2] \in Int
    BY <1>3
  <2> QED BY <1>2, <2>1 DEF FoundLoud, Listened
<1>5. CASE s.open = Nowhere
  <2>1. FrameSpans = s.found
    BY <1>1, <1>5 DEF FrameSpans, s
  <2> QED BY <1>1, <1>2, <1>3, <1>4, <1>5, <2>1 DEF Listened, FoundApart
<1>6. CASE s.open # Nowhere
  <2> DEFINE b == n - s.quiet
             more == Append(s.found, <<s.open, b>>)
             next == b + MinSil + 1
  <2>1. FrameSpans = more
    BY <1>1, <1>6 DEF FrameSpans, s
  <2>2. MinSil \in Nat
    BY ConstantTypes
  <2>3. /\ 0 <= s.open /\ frames[s.open + 1] /\ 0 <= s.quiet /\ s.open + s.quiet < n
        /\ FoundApart(s.found, s.open)
    BY <1>2, <1>6 DEF Listened
  <2>7. s.open < Len(frames)
    BY <1>1, <1>3, <2>3
  <2>4. /\ b \in Int /\ next \in Int /\ n + 1 \in Nat
        /\ s.open <= b /\ b < n + 1 /\ next - b > MinSil
    <3>1. s.open \in Int /\ s.quiet \in Int /\ 0 <= s.quiet /\ s.open + s.quiet < n
      BY <1>3, <2>3, Zenon
    <3> QED BY ONLY <3>1, <2>2, n \in Nat
  <2> HIDE DEF next
  <2>5. /\ more \in Seq(Int \X Int) /\ FoundLoud(more, n + 1) /\ FoundApart(more, next)
        /\ \A j : InFound(s.found, j) => InFound(more, j)
        /\ \A j \in Int : s.open < j /\ j <= b + 1 => InFound(more, j)
    <3> HIDE DEF b
    <3> QED BY <1>3, <1>4, <2>3, <2>4, <2>7, FoundMore
  <2>6. \A j \in 1..n : frames[j] => InFound(more, j)
    <3> SUFFICES ASSUME NEW j \in 1..n, frames[j]  PROVE InFound(more, j)
      OBVIOUS
    <3>1. InFound(s.found, j) \/ (s.open < j /\ j <= b + 1)
      BY <1>2, <1>3 DEF Listened
    <3> HIDE DEF more, b
    <3> QED BY <2>5, <3>1
  <2> HIDE DEF more
  <2> QED BY <1>1, <2>1, <2>5, <2>6 DEF FoundApart
<1> QED BY <1>5, <1>6

\* Spans that are in order and either not empty or apart: what an algorithm
\* below may be given.
Apart(heard) == \A i, j \in 1..Len(heard) : i < j => heard[i][2] + 2 <= heard[j][1]

IsHeard(heard) == Ordered(heard, total) /\ (NoneEmpty(heard) \/ Apart(heard))

\* In samples, spans that are apart in frames are apart too.
LEMMA InSamples ==
    ASSUME NEW f \in Nat \ {0}, NEW a \in Int, NEW b \in Int, NEW m \in Nat \ {0}, b - a > m
    PROVE  a * f + 2 <= b * f
<1>1. b - a - 2 \in Nat /\ (b - a - 2) * f \in Nat
  OBVIOUS
<1>2. b * f = a * f + 2 * f + (b - a - 2) * f
  OBVIOUS
<1>3. a * f \in Int /\ 2 * f >= 2
  OBVIOUS
<1> QED BY <1>1, <1>2, <1>3

LEMMA InSamplesOrdered ==
    ASSUME NEW f \in Nat \ {0}, NEW a \in Int, NEW b \in Int, a <= b
    PROVE  a * f \in Int /\ b * f \in Int /\ a * f <= b * f /\ (0 <= a => 0 <= a * f)
<1>1. b - a \in Nat /\ (b - a) * f \in Nat /\ b * f = a * f + (b - a) * f
  OBVIOUS
<1>2. a * f \in Int /\ b * f \in Int
  OBVIOUS
<1>3. 0 <= a => 0 <= a * f
  OBVIOUS
<1> QED BY <1>1, <1>2, <1>3

\* Both detectors give such spans.
LEMMA SpansAreHeard ==
    ASSUME Recorded, total > 0
    PROVE  IsHeard(Spans)
<1>1. CASE detector = "silero"
  BY <1>1 DEF Recorded, IsHeard, Spans
<1>2. CASE detector = "energy" /\ FrameSpans = <<>>
  <2>1. Spans = << <<0, total>> >>
    BY <1>2 DEF Spans, EnergySpans
  <2>2. total \in Nat
    BY DEF Recorded
  <2> QED BY <2>1, <2>2 DEF IsHeard, Ordered, NoneEmpty
<1>3. CASE detector = "energy" /\ FrameSpans # <<>>
  <2> DEFINE found == FrameSpans
             h == EnergySpans(found)
             n == Len(frames)
  <2>1. Spans = h
    BY <1>3 DEF Spans
  <2>2. /\ found \in Seq(Int \X Int) /\ FoundLoud(found, n + 1)
        /\ \A j, k \in 1..Len(found) : j < k => found[k][1] - found[j][2] > MinSil
    BY FrameSpansFound DEF Recorded
  <2> HIDE DEF found
  <2>3. h = [k \in 1..Len(found) |-> <<found[k][1] * Frame, found[k][2] * Frame>>]
    BY <1>3, <2>2 DEF EnergySpans, found
  <2>4. /\ Frame \in Nat \ {0} /\ MinSil \in Nat \ {0} /\ n \in Nat /\ total \in Nat
        /\ n * Frame <= total
    <3>1. /\ Frame \in Nat \ {0} /\ MinSil \in Nat \ {0} /\ n \in Nat /\ total \in Nat
          /\ n * Frame + (total % Frame) = total
      BY <1>3, ConstantTypes DEF Recorded
    <3>2. total % Frame \in Nat
      BY <3>1, DivMod
    <3>3. n * Frame \in Nat
      BY <3>1
    <3> QED BY <3>1, <3>2, <3>3
  <2> HIDE DEF h, n
  <2>5. ASSUME NEW k \in 1..Len(found)
        PROVE  /\ found[k][1] \in Int /\ found[k][2] \in Int
               /\ h[k][1] = found[k][1] * Frame /\ h[k][2] = found[k][2] * Frame
               /\ h[k][1] \in Int /\ h[k][2] \in Int
               /\ 0 <= h[k][1] /\ h[k][1] <= h[k][2] /\ h[k][2] <= total
    <3>1. /\ found[k][1] \in Int /\ found[k][2] \in Int
          /\ 0 <= found[k][1] /\ found[k][1] <= found[k][2] /\ found[k][2] <= n
      <4>1. found[k][1] \in Int /\ found[k][2] \in Int
        BY <2>2
      <4>2. 0 <= found[k][1] /\ found[k][1] <= found[k][2] /\ found[k][2] < n + 1
        BY <2>2, Zenon DEF FoundLoud
      <4> QED BY ONLY <4>1, <4>2, <2>4
    <3>2. h[k] = <<found[k][1] * Frame, found[k][2] * Frame>>
      BY <2>3
    <3>3. /\ found[k][1] * Frame \in Int /\ found[k][2] * Frame \in Int
          /\ 0 <= found[k][1] * Frame /\ found[k][1] * Frame <= found[k][2] * Frame
      BY <2>4, <3>1, InSamplesOrdered
    <3>4. found[k][2] * Frame <= n * Frame /\ n * Frame \in Int
      BY <2>4, <3>1, InSamplesOrdered
    <3> QED BY <3>1, <3>2, <3>3, <3>4, <2>4
  <2>6. h \in Seq(Int \X Int) /\ Len(h) = Len(found)
    <3>1. \A k \in 1..Len(found) : <<found[k][1] * Frame, found[k][2] * Frame>> \in Int \X Int
      BY <2>5
    <3>2. Len(found) \in Nat
      BY <2>2
    <3> QED BY <2>3, <3>1, <3>2
  <2>7. \A j, k \in 1..Len(found) : j < k => h[j][2] + 2 <= h[k][1]
    BY <2>2, <2>4, <2>5, InSamples
  <2>8. Apart(h)
    BY <2>6, <2>7, Zenon DEF Apart
  <2>9. \A j, k \in 1..Len(found) : j < k => h[j][2] <= h[k][1]
    <3> SUFFICES ASSUME NEW j \in 1..Len(found), NEW k \in 1..Len(found), j < k
                 PROVE  h[j][2] <= h[k][1]
      OBVIOUS
    <3>1. h[j][2] + 2 <= h[k][1] /\ h[j][2] \in Int /\ h[k][1] \in Int
      BY <2>5, <2>7, Zenon
    <3> QED BY ONLY <3>1
  <2>10. Ordered(h, total)
    BY <2>5, <2>6, <2>9, Zenon DEF Ordered
  <2> QED BY <2>1, <2>8, <2>10, Zenon DEF IsHeard
<1> QED BY <1>1, <1>2, <1>3 DEF Recorded

\* The energy detector hears what it should, in recordings of any length and
\* for frames and pauses of any length.
THEOREM EnergyDetector == Spec => []EnergyHears
<1>1. Recorded => EnergyHears
  <2> SUFFICES ASSUME Recorded
               PROVE  LET found == FrameSpans
                          loud == {i \in DOMAIN frames : frames[i]}
                      IN  /\ \A i \in loud : \E s \in ToSet(found) : s[1] < i /\ i <= s[2] + 1
                          /\ \A s \in ToSet(found) : s[1] + 1 \in loud
                          /\ \A k \in 1..(Len(found) - 1) : found[k + 1][1] - found[k][2] > MinSil
    BY DEF EnergyHears
  <2> DEFINE found == FrameSpans
             loud == {i \in DOMAIN frames : frames[i]}
  <2>1. PICK n \in Nat : n = Len(frames) /\ DOMAIN frames = 1..n
    BY DEF Recorded
  <2>2. /\ found \in Seq(Int \X Int) /\ FoundLoud(found, n + 1)
        /\ \A j, k \in 1..Len(found) : j < k => found[k][1] - found[j][2] > MinSil
        /\ \A j \in 1..n : frames[j] => InFound(found, j)
    BY <2>1, FrameSpansFound DEF Recorded
  <2> HIDE DEF found
  <2>3. ToSet(found) = {found[k] : k \in 1..Len(found)}
    BY <2>2 DEF ToSet
  <2>4. \A i \in loud : \E s \in ToSet(found) : s[1] < i /\ i <= s[2] + 1
    BY <2>1, <2>2, <2>3 DEF InFound
  <2>5. \A s \in ToSet(found) : s[1] + 1 \in loud
    <3> SUFFICES ASSUME NEW k \in 1..Len(found)  PROVE found[k][1] + 1 \in loud
      BY <2>3
    <3>1. found[k][1] \in Int /\ found[k][2] \in Int
      BY <2>2
    <3>2. found[k][1] + 1 \in 1..n /\ frames[found[k][1] + 1]
      <4>1. /\ 0 <= found[k][1] /\ found[k][1] <= found[k][2] /\ found[k][2] < n + 1
            /\ found[k][1] < n /\ frames[found[k][1] + 1]
        BY <2>1, <2>2, Zenon DEF FoundLoud
      <4>2. found[k][1] + 1 \in 1..n
        BY <3>1, <4>1
      <4> QED BY <4>1, <4>2, Zenon
    <3> QED BY <2>1, <3>2
  <2>6. \A k \in 1..(Len(found) - 1) : found[k + 1][1] - found[k][2] > MinSil
    <3>1. Len(found) \in Nat
      BY <2>2
    <3>2. \A k \in 1..(Len(found) - 1) :
             k \in 1..Len(found) /\ k + 1 \in 1..Len(found) /\ k < k + 1
      BY <3>1
    <3> QED BY <2>2, <3>2, Zenon
  <2> QED BY <2>4, <2>5, <2>6 DEF found
<1> QED BY <1>1, RecordedAlways, PTL

-----------------------------------------------------------------------------
(***************************************************************************)
(* Ranges that follow one another from a to b, none of them empty.         *)
(***************************************************************************)
Run(r, a, b) ==
    /\ r \in Seq(Int \X Int) /\ Len(r) > 0
    /\ r[1][1] = a /\ r[Len(r)][2] = b
    /\ \A i \in 1..Len(r) : r[i][1] < r[i][2]
    /\ \A i \in 1..Len(r) - 1 : r[i][2] = r[i + 1][1]

Short(r, size) == \A i \in 1..Len(r) : r[i][2] - r[i][1] <= size

\* One range.
LEMMA RunOne ==
    ASSUME NEW a \in Int, NEW b \in Int, a < b
    PROVE  Run(<< <<a, b>> >>, a, b)
  BY DEF Run

\* One run after another.
LEMMA RunConcat ==
    ASSUME NEW r, NEW s, NEW a \in Int, NEW b \in Int, NEW c \in Int,
           Run(r, a, b), Run(s, b, c)
    PROVE  /\ Run(r \o s, a, c)
           /\ \A size \in Int : Short(r, size) /\ Short(s, size) => Short(r \o s, size)
<1> DEFINE t == r \o s
<1>1. PICK m \in Nat, n \in Nat : m = Len(r) /\ n = Len(s) /\ m > 0 /\ n > 0
  BY DEF Run
<1>2. r \in Seq(Int \X Int) /\ s \in Seq(Int \X Int)
  BY DEF Run
<1>3. /\ t \in Seq(Int \X Int) /\ Len(t) = m + n
      /\ \A i \in 1..m : t[i] = r[i]
      /\ \A i \in 1..n : t[m + i] = s[i]
  BY <1>1, <1>2
<1> HIDE DEF t
<1>4. \A i \in 1..m + n : i \in 1..m \/ \E k \in 1..n : i = m + k
  <2> SUFFICES ASSUME NEW i \in 1..m + n, i \notin 1..m  PROVE \E k \in 1..n : i = m + k
    OBVIOUS
  <2>1. i - m \in 1..n /\ i = m + (i - m)
    OBVIOUS
  <2> QED BY <2>1
<1>5. ASSUME NEW i \in 1..m + n  PROVE t[i][1] < t[i][2]
  <2>1. CASE i \in 1..m
    BY <2>1, <1>1, <1>3 DEF Run
  <2>2. ASSUME NEW k \in 1..n, i = m + k  PROVE t[i][1] < t[i][2]
    BY <2>2, <1>1, <1>3 DEF Run
  <2> QED BY <2>1, <2>2, <1>4
<1>6. t[1][1] = a /\ t[m + n][2] = c
  <2>1. 1 \in 1..m /\ n \in 1..n
    BY <1>1
  <2>2. t[1] = r[1] /\ t[m + n] = s[n]
    BY <1>3, <2>1
  <2> QED BY <2>2, <1>1 DEF Run
<1>7. ASSUME NEW i \in 1..(m + n) - 1  PROVE t[i][2] = t[i + 1][1]
  <2>1. CASE i < m
    <3>1. i \in 1..m - 1 /\ i \in 1..m /\ i + 1 \in 1..m
      BY <2>1
    <3>2. t[i] = r[i] /\ t[i + 1] = r[i + 1]
      BY <1>3, <3>1
    <3> QED BY <3>1, <3>2, <1>1 DEF Run
  <2>2. CASE i = m
    <3>1. m \in 1..m /\ 1 \in 1..n
      BY <1>1
    <3>2. t[m] = r[m] /\ t[m + 1] = s[1]
      BY <1>3, <3>1
    <3> QED BY <2>2, <3>2, <1>1 DEF Run
  <2>3. CASE i > m
    <3>1. PICK k \in 1..n - 1 : i = m + k
      <4>1. i - m \in 1..n - 1 /\ i = m + (i - m)
        BY <2>3
      <4> QED BY <4>1
    <3>2. k \in 1..n /\ k + 1 \in 1..n /\ i + 1 = m + (k + 1)
      BY <3>1
    <3>3. t[i] = s[k] /\ t[i + 1] = s[k + 1]
      BY <1>3, <3>1, <3>2
    <3> QED BY <3>3, <1>1 DEF Run
  <2> QED BY <2>1, <2>2, <2>3
<1>8. Run(t, a, c)
  BY <1>1, <1>3, <1>5, <1>6, <1>7 DEF Run
<1>9. \A size \in Int : Short(r, size) /\ Short(s, size) => Short(t, size)
  <2> SUFFICES ASSUME NEW size \in Int, Short(r, size), Short(s, size), NEW i \in 1..m + n
               PROVE  t[i][2] - t[i][1] <= size
    BY <1>3 DEF Short
  <2>1. CASE i \in 1..m
    BY <2>1, <1>1, <1>3 DEF Short
  <2>2. ASSUME NEW k \in 1..n, i = m + k  PROVE t[i][2] - t[i][1] <= size
    BY <2>2, <1>1, <1>3 DEF Short
  <2> QED BY <2>1, <2>2, <1>4
<1> QED BY <1>8, <1>9 DEF t

\* A range at the end of a run.
LEMMA RunAppend ==
    ASSUME NEW r, NEW a \in Int, NEW b \in Int, NEW c \in Int, Run(r, a, b), b < c
    PROVE  Run(Append(r, <<b, c>>), a, c)
<1>1. Append(r, <<b, c>>) = r \o << <<b, c>> >>
  <2>1. r \in Seq(Int \X Int) /\ <<b, c>> \in Int \X Int
    BY DEF Run
  <2> QED BY <2>1, AppendIsConcat
<1>2. Run(<< <<b, c>> >>, b, c)
  BY RunOne
<1> QED BY <1>1, <1>2, RunConcat

\* The ranges of a run are in the order of their numbers.
LEMMA RunOrder ==
    ASSUME NEW r, NEW a \in Int, NEW b \in Int, Run(r, a, b)
    PROVE  \A j \in 1..Len(r), i \in 1..Len(r) : i <= j => r[i][1] <= r[j][1] /\ r[i][2] <= r[j][2]
<1> SUFFICES ASSUME NEW i \in 1..Len(r)
             PROVE  \A j \in i..Len(r) : r[i][1] <= r[j][1] /\ r[i][2] <= r[j][2]
  BY DEF Run
<1>1. PICK n \in Nat : n = Len(r)
  BY DEF Run
<1>2. \A k \in 1..n : r[k][1] \in Int /\ r[k][2] \in Int /\ r[k][1] < r[k][2]
  BY <1>1 DEF Run
<1>3. \A k \in 1..n - 1 : r[k][2] = r[k + 1][1]
  BY <1>1 DEF Run
<1> DEFINE S == {j \in i..n : r[i][1] <= r[j][1] /\ r[i][2] <= r[j][2]}
<1>4. i \in S
  BY <1>1, <1>2
<1>5. \A k \in i..(n - 1) : k \in S => k + 1 \in S
  <2> SUFFICES ASSUME NEW k \in i..(n - 1), r[i][1] <= r[k][1], r[i][2] <= r[k][2]
               PROVE  r[i][1] <= r[k + 1][1] /\ r[i][2] <= r[k + 1][2]
    BY <1>1
  <2>1. k \in 1..n - 1 /\ k \in 1..n /\ k + 1 \in 1..n /\ i \in 1..n
    BY <1>1
  <2>2. r[k][2] = r[k + 1][1] /\ r[k][1] < r[k][2] /\ r[k + 1][1] < r[k + 1][2]
    BY <2>1, <1>2, <1>3
  <2>3. /\ r[i][1] \in Int /\ r[i][2] \in Int /\ r[k][1] \in Int /\ r[k][2] \in Int
        /\ r[k + 1][1] \in Int /\ r[k + 1][2] \in Int
    BY <2>1, <1>2
  <2> QED BY ONLY <2>2, <2>3, r[i][1] <= r[k][1], r[i][2] <= r[k][2]
<1> HIDE DEF S
<1>6. i..n \subseteq S
  <2>1. i \in Int /\ n \in Int
    BY <1>1
  <2> QED BY <2>1, <1>4, <1>5, FromTo
<1> QED BY <1>1, <1>6 DEF S

\* Every number from a up to b is in a range of the run.
LEMMA RunCovers ==
    ASSUME NEW r, NEW a \in Int, NEW b \in Int, Run(r, a, b), NEW t \in Int, a <= t, t < b
    PROVE  \E i \in 1..Len(r) : r[i][1] <= t /\ t < r[i][2]
<1>1. PICK n \in Nat : n = Len(r) /\ n > 0
  BY DEF Run
<1>2. \A k \in 1..n : r[k][1] \in Int /\ r[k][2] \in Int /\ r[k][1] < r[k][2]
  BY <1>1 DEF Run
<1>3. \A k \in 1..n - 1 : r[k][2] = r[k + 1][1]
  BY <1>1 DEF Run
<1>4. r[1][1] = a /\ r[n][2] = b
  BY <1>1 DEF Run
<1> DEFINE D == {k \in 1..n : t < r[k][2]}
<1>5. PICK k \in D : \A j \in D : k <= j
  <2>1. n \in D /\ D \in SUBSET Nat
    BY <1>1, <1>4
  <2> HIDE DEF D
  <2> QED BY <2>1, LeastNumber
<1>6. CASE k = 1
  BY <1>1, <1>4, <1>5, <1>6
<1>7. CASE k # 1
  <2>1. k - 1 \in 1..n - 1 /\ k - 1 \in 1..n /\ (k - 1) + 1 = k
    BY <1>5, <1>7
  <2>2. k - 1 \notin D
    BY <1>5
  <2>3. r[k - 1][2] <= t
    BY <2>1, <2>2, <1>2
  <2>4. r[k - 1][2] = r[k][1]
    BY <2>1, <1>3
  <2> QED BY <2>3, <2>4, <1>1, <1>5
<1> QED BY <1>6, <1>7

\* FlattenSeq of the community modules is the recursion it is written as.
LEMMA FlattenDef ==
    ASSUME NEW X, NEW seqs \in Seq(Seq(X)), Len(seqs) > 0
    PROVE  \E f : /\ FlattenSeq(seqs) = f[Len(seqs)]
                  /\ f[1] = seqs[1]
                  /\ \A i \in 2..Len(seqs) : f[i] = f[i - 1] \o seqs[i]
<1>1. PICK n \in Nat : n = Len(seqs) /\ n > 0
  OBVIOUS
<1>2. \A i \in 1..n : seqs[i] \in Seq(X)
  BY <1>1
<1> DEFINE step == [i \in 1 + 1..n |-> [s \in Seq(X) |-> s \o seqs[i]]]
<1>3. step \in [1 + 1..n -> [Seq(X) -> Seq(X)]]
  <2>1. \A i \in 1 + 1..n, s \in Seq(X) : s \o seqs[i] \in Seq(X)
    BY <1>2
  <2> QED BY <2>1
<1>4. PICK h : Iteration(h, 1, n, Seq(X), seqs[1], step)
  <2>1. 1 \in Int /\ n \in Int /\ 1 <= n /\ seqs[1] \in Seq(X)
    BY <1>1, <1>2
  <2> HIDE DEF step
  <2> QED BY <1>3, <2>1, Iterates
<1>5. \A i \in 1..n : h[i] = IF i = 1 THEN seqs[i] ELSE h[i - 1] \o seqs[i]
  <2> SUFFICES ASSUME NEW i \in 1..n, i # 1  PROVE h[i] = h[i - 1] \o seqs[i]
    BY <1>4 DEF Iteration
  <2>1. i \in 1 + 1..n /\ h[i - 1] \in Seq(X)
    BY <1>4 DEF Iteration
  <2> QED BY <2>1, <1>4 DEF Iteration
<1>6. h = [i \in 1..n |-> IF i = 1 THEN seqs[i] ELSE h[i - 1] \o seqs[i]]
  BY <1>4, <1>5 DEF Iteration
<1> DEFINE f == CHOOSE f : f = [i \in 1..n |-> IF i = 1 THEN seqs[i] ELSE f[i - 1] \o seqs[i]]
<1>7. FlattenSeq(seqs) = f[n]
  BY <1>1 DEF FlattenSeq
<1>8. f = [i \in 1..n |-> IF i = 1 THEN seqs[i] ELSE f[i - 1] \o seqs[i]]
  BY <1>6
<1> HIDE DEF f
<1>9. f[1] = seqs[1] /\ \A i \in 2..n : f[i] = f[i - 1] \o seqs[i]
  <2>1. \A i \in 1..n : f[i] = IF i = 1 THEN seqs[i] ELSE f[i - 1] \o seqs[i]
    BY <1>8
  <2>2. 1 \in 1..n /\ \A i \in 2..n : i \in 1..n /\ i # 1
    BY <1>1
  <2> QED BY <2>1, <2>2
<1> QED BY <1>1, <1>7, <1>9

\* Runs that follow one another, end to end, are a run.
LEMMA FlattenRuns ==
    ASSUME NEW n \in Nat \ {0}, NEW cut \in [1..n + 1 -> Int], NEW size \in Int,
           NEW seqs \in Seq(Seq(Int \X Int)), Len(seqs) = n,
           \A i \in 1..n : Run(seqs[i], cut[i], cut[i + 1]) /\ Short(seqs[i], size)
    PROVE  Run(FlattenSeq(seqs), cut[1], cut[n + 1]) /\ Short(FlattenSeq(seqs), size)
<1>1. PICK f : /\ FlattenSeq(seqs) = f[n]
               /\ f[1] = seqs[1]
               /\ \A i \in 2..n : f[i] = f[i - 1] \o seqs[i]
  <2>1. Len(seqs) > 0
    OBVIOUS
  <2>2. \E f : /\ FlattenSeq(seqs) = f[Len(seqs)]
               /\ f[1] = seqs[1]
               /\ \A i \in 2..Len(seqs) : f[i] = f[i - 1] \o seqs[i]
    BY <2>1, FlattenDef, Zenon
  <2> QED BY <2>2, Zenon
<1> DEFINE S == {i \in 1..n : Run(f[i], cut[1], cut[i + 1]) /\ Short(f[i], size)}
<1>2. 1 \in S
  BY <1>1
<1>3. \A i \in 1..(n - 1) : i \in S => i + 1 \in S
  <2> SUFFICES ASSUME NEW i \in 1..(n - 1), Run(f[i], cut[1], cut[i + 1]), Short(f[i], size)
               PROVE  Run(f[i + 1], cut[1], cut[(i + 1) + 1]) /\ Short(f[i + 1], size)
    <3>1. \A i \in 1..(n - 1) : i + 1 \in 1..n
      OBVIOUS
    <3> QED BY <3>1, Zenon
  <2>1. i + 1 \in 2..n /\ i + 1 \in 1..n /\ (i + 1) - 1 = i
        /\ 1 \in 1..n + 1 /\ i + 1 \in 1..n + 1 /\ (i + 1) + 1 \in 1..n + 1
    OBVIOUS
  <2>2. f[i + 1] = f[i] \o seqs[i + 1]
    BY <1>1, <2>1
  <2>3. Run(seqs[i + 1], cut[i + 1], cut[(i + 1) + 1]) /\ Short(seqs[i + 1], size)
    BY <2>1
  <2>4. cut[1] \in Int /\ cut[i + 1] \in Int /\ cut[(i + 1) + 1] \in Int
    BY <2>1
  <2>5. Run(f[i] \o seqs[i + 1], cut[1], cut[(i + 1) + 1])
    BY <2>3, <2>4, RunConcat
  <2>6. Short(f[i] \o seqs[i + 1], size)
    BY <2>3, <2>4, RunConcat
  <2> QED BY <2>2, <2>5, <2>6
<1> HIDE DEF S
<1>4. 1..n \subseteq S
  <2>1. 1 \in Int /\ n \in Int
    OBVIOUS
  <2> QED BY <1>2, <1>3, <2>1, FromTo
<1>5. n \in S
  BY <1>4
<1> QED BY <1>1, <1>5 DEF S

-----------------------------------------------------------------------------
(***************************************************************************)
(* Ranges that are too long are cut into pieces.                           *)
(***************************************************************************)
\* The slices of a range are a run of the same length.
LEMMA SlicesRun ==
    ASSUME NEW s \in Int, NEW e \in Int, NEW size \in Nat \ {0}, s < e
    PROVE  Run(Slices(s, e, size), s, e) /\ Short(Slices(s, e, size), size)
<1>0. CASE e - s <= size
  <2>1. Slices(s, e, size) = << <<s, e>> >>
    BY <1>0 DEF Slices
  <2>2. Short(<< <<s, e>> >>, size)
    BY <1>0 DEF Short
  <2> QED BY <2>1, <2>2, RunOne
<1> SUFFICES ASSUME ~(e - s <= size)
             PROVE  Run(Slices(s, e, size), s, e) /\ Short(Slices(s, e, size), size)
  BY <1>0
<1> DEFINE n == CeilDiv(e - s, size)
           r == Slices(s, e, size)
           at(k) == k * size
<1>1. /\ n \in Nat /\ n > 0
      /\ e - s <= at(n) /\ at(n) < e - s + size
  <2>1. e - s \in Nat /\ e - s > 0
    OBVIOUS
  <2> QED BY <2>1, CeilDivBounds
<1> HIDE DEF n
<1>2. /\ \A k \in 0..n : at(k) \in Int
      /\ \A k \in 1..n : at(k) = at(k - 1) + size
      /\ at(0) = 0
  OBVIOUS
<1>3. at(n - 1) < e - s
  BY <1>1, <1>2
<1>4. ASSUME NEW k \in 0..n - 1  PROVE at(k) <= at(n - 1)
  <2>1. n - 1 - k \in Nat /\ (n - 1 - k) * size \in Nat
    BY <1>1
  <2>2. (n - 1) * size = k * size + (n - 1 - k) * size
    BY <1>1
  <2> QED BY <1>1, <1>2, <2>1, <2>2
<1>5. r = [k \in 1..n |-> <<s + at(k - 1), Min({s + at(k), e})>>]
  BY DEF Slices, n
<1> HIDE DEF at, r
<1>6. ASSUME NEW k \in 1..n
      PROVE  /\ r[k] = <<s + at(k - 1), IF k = n THEN e ELSE s + at(k)>>
             /\ k # n => s + at(k) < e
  <2>1. s + at(k) \in Int /\ Min({s + at(k), e}) = IF s + at(k) <= e THEN s + at(k) ELSE e
    BY <1>2, MinOfTwo
  <2>2. CASE k = n
    <3>1. s + at(k) >= e
      BY <2>1, <2>2, <1>1, <1>2
    <3>2. Min({s + at(k), e}) = e
      BY <2>1, <3>1
    <3> QED BY <2>2, <3>2, <1>5
  <2>3. CASE k # n
    <3>1. k \in 0..n - 1 /\ n - 1 \in 0..n /\ k \in 0..n
      BY <2>3, <1>1
    <3>2. at(k) < e - s
      BY <3>1, <1>2, <1>3, <1>4
    <3>3. s + at(k) < e
      BY <3>1, <3>2, <1>2
    <3> QED BY <2>1, <2>3, <3>3, <1>5
  <2> QED BY <2>2, <2>3
<1>7. ASSUME NEW k \in 1..n
      PROVE  /\ r[k] \in Int \X Int /\ r[k][1] < r[k][2]
             /\ r[k][2] - r[k][1] <= size
  <2>1. k - 1 \in 0..n - 1 /\ k - 1 \in 0..n /\ k \in 0..n /\ n - 1 \in 0..n
    BY <1>1
  <2>2. /\ at(k - 1) \in Int /\ at(k) \in Int /\ at(k) = at(k - 1) + size
        /\ s + at(k - 1) \in Int /\ s + at(k) \in Int
    BY <2>1, <1>2
  <2>3. s + at(k - 1) < e
    BY <2>1, <2>2, <1>2, <1>3, <1>4
  <2>4. k = n => e - (s + at(k - 1)) <= size
    BY <2>2, <1>1
  <2> QED BY <2>2, <2>3, <2>4, <1>6
<1>8. r \in Seq(Int \X Int) /\ Len(r) = n
  <2>1. \A k \in 1..n : r[k] \in Int \X Int
    BY <1>7
  <2>2. r \in [1..n -> Int \X Int]
    BY <2>1, <1>5
  <2> QED BY <2>2, <1>1
<1>9. \A k \in 1..n - 1 : r[k][2] = r[k + 1][1]
  <2> SUFFICES ASSUME NEW k \in 1..n - 1  PROVE r[k][2] = r[k + 1][1]
    OBVIOUS
  <2>1. k \in 1..n /\ k + 1 \in 1..n /\ k # n /\ (k + 1) - 1 = k
    BY <1>1
  <2> QED BY <2>1, <1>6
<1>10. r[1][1] = s /\ r[n][2] = e
  <2>1. 1 \in 1..n /\ n \in 1..n /\ 1 - 1 = 0
    BY <1>1
  <2>2. r[1] = <<s + at(0), IF 1 = n THEN e ELSE s + at(1)>>
    BY <2>1, <1>6
  <2> QED BY <2>1, <2>2, <1>2, <1>6
<1>11. Run(r, s, e) /\ Short(r, size)
  BY <1>1, <1>7, <1>8, <1>9, <1>10 DEF Run, Short
<1> QED BY <1>11 DEF r

\* Ranges of one length, the last one being what is left.
LEMMA TimeSplitRun ==
    ASSUME NEW s \in Int, NEW e \in Int, s < e
    PROVE  Run(TimeSplit(s, e), s, e) /\ Short(TimeSplit(s, e), Hard)
<1> DEFINE n == IF e - s <= Hard THEN 0 ELSE CeilDiv(e - s - Hard, Target)
           at(k) == k * Target
           front == [k \in 1..n |-> <<s + (k - 1) * Target, s + k * Target>>]
           tail == <<s + n * Target, e>>
           r == Append(front, tail)
<1>0. Target \in Nat \ {0} /\ Hard \in Nat \ {0} /\ Target <= Hard
  BY ConstantTypes
<1>1. /\ n \in Nat /\ e - s - Hard <= n * Target
      /\ n * Target < e - s
  <2>1. CASE e - s <= Hard
    <3>1. n = 0
      BY <2>1
    <3> HIDE DEF n
    <3> QED BY <1>0, <2>1, <3>1
  <2>2. CASE ~ (e - s <= Hard)
    <3>1. e - s - Hard \in Nat
      BY <1>0, <2>2
    <3>2. /\ CeilDiv(e - s - Hard, Target) \in Nat
          /\ e - s - Hard <= CeilDiv(e - s - Hard, Target) * Target
          /\ CeilDiv(e - s - Hard, Target) * Target < (e - s - Hard) + Target
      BY <1>0, <3>1, CeilDivBounds
    <3>3. n = CeilDiv(e - s - Hard, Target)
      BY <2>2
    <3> HIDE DEF n
    <3>4. n \in Nat /\ n * Target \in Int
      BY <1>0, <3>2, <3>3
    <3> QED BY <1>0, <3>2, <3>3, <3>4
  <2> QED BY <2>1, <2>2
<1>2. TimeSplit(s, e) = front \o << tail >>
  BY DEF TimeSplit
<1> HIDE DEF n
<1>3. /\ \A k \in 0..n : at(k) \in Int
      /\ \A k \in 1..n : at(k) = at(k - 1) + Target
      /\ at(0) = 0
  BY <1>0, <1>1
<1>4. front = [k \in 1..n |-> <<s + at(k - 1), s + at(k)>>] /\ tail = <<s + at(n), e>>
      /\ e - s - Hard <= at(n) /\ at(n) < e - s
  BY <1>1
<1> HIDE DEF at, front, tail
<1>5. ASSUME NEW k \in 1..n
      PROVE  /\ front[k] = <<s + at(k - 1), s + at(k)>> /\ front[k] \in Int \X Int
             /\ front[k][1] = s + at(k - 1) /\ front[k][2] = s + at(k)
             /\ at(k - 1) \in Int /\ at(k) = at(k - 1) + Target
  <2>1. k - 1 \in 0..n /\ k \in 0..n
    BY <1>1
  <2>2. at(k - 1) \in Int /\ at(k) \in Int
    BY <2>1, <1>3
  <2> QED BY <2>2, <1>3, <1>4
<1>6. /\ front \in Seq(Int \X Int) /\ Len(front) = n
      /\ tail \in Int \X Int /\ tail[1] = s + at(n) /\ tail[2] = e /\ at(n) \in Int
  BY <1>1, <1>3, <1>4, <1>5
<1>7. /\ r \in Seq(Int \X Int) /\ Len(r) = n + 1 /\ r[n + 1] = tail
      /\ \A k \in 1..n : r[k] = front[k]
  BY <1>1, <1>6
<1>70. r = front \o << tail >>
  BY <1>6, AppendIsConcat
<1> HIDE DEF r
<1>8. ASSUME NEW k \in 1..n + 1
      PROVE  r[k][1] < r[k][2] /\ r[k][2] - r[k][1] <= Hard
  <2>1. CASE k = n + 1
    BY <2>1, <1>0, <1>4, <1>6, <1>7
  <2>2. CASE k \in 1..n
    <3>1. r[k][1] = s + at(k - 1) /\ r[k][2] = s + at(k)
      BY <2>2, <1>5, <1>7, Zenon
    <3>2. at(k - 1) \in Int /\ at(k) = at(k - 1) + Target
      BY <2>2, <1>5, Zenon
    <3> QED BY <3>1, <3>2, <1>0
  <2> QED BY <2>1, <2>2, <1>1
<1>9. ASSUME NEW k \in 1..(n + 1) - 1  PROVE r[k][2] = r[k + 1][1]
  <2>1. k \in 1..n /\ r[k][2] = s + at(k)
    BY <1>1, <1>5, <1>7
  <2>2. CASE k = n
    BY <2>1, <2>2, <1>6, <1>7
  <2>3. CASE k # n
    <3>1. k + 1 \in 1..n /\ (k + 1) - 1 = k
      BY <2>1, <2>3, <1>1
    <3> QED BY <2>1, <3>1, <1>5, <1>7
  <2> QED BY <2>2, <2>3
<1>10. r[1][1] = s
  <2>1. CASE n = 0
    BY <2>1, <1>3, <1>6, <1>7
  <2>2. CASE n # 0
    <3>1. 1 \in 1..n /\ 1 - 1 = 0
      BY <2>2, <1>1
    <3>2. r[1][1] = s + at(0)
      BY <3>1, <1>5, <1>7, Zenon
    <3> QED BY <3>2, <1>3
  <2> QED BY <2>1, <2>2
<1>11. Run(r, s, e) /\ Short(r, Hard)
  <2>1. n + 1 \in Int /\ n + 1 > 0 /\ r[n + 1][2] = e
    BY <1>1, <1>6, <1>7
  <2> QED BY <2>1, <1>7, <1>8, <1>9, <1>10, Zenon DEF Run, Short
<1> QED BY <1>2, <1>70, <1>11

-----------------------------------------------------------------------------
(***************************************************************************)
(* split_on_silence.                                                       *)
(***************************************************************************)
PackStates == [cuts : Seq(Int), start : Int, end : Int]

FirstSpan(heard) ==
    [cuts |-> <<heard[1][1]>>, start |-> heard[1][1], end |-> heard[1][2]]

\* SpanPacking is the recursion it is written as.
LEMMA SpanPackingDef ==
    ASSUME NEW heard \in Seq(Int \X Int), Len(heard) > 0
    PROVE  SpanPacking(heard) =
               [i \in 1..Len(heard) |-> IF i = 1 THEN FirstSpan(heard)
                                        ELSE PackSpan(SpanPacking(heard)[i - 1], heard[i])]
<1> DEFINE step == [i \in 1 + 1..Len(heard) |-> [p \in PackStates |-> PackSpan(p, heard[i])]]
<1>1. PICK n \in Nat : n = Len(heard) /\ n > 0
  OBVIOUS
<1>2. \A i \in 1..n : heard[i][1] \in Int /\ heard[i][2] \in Int
  BY <1>1
<1>3. \A p \in PackStates, i \in 1 + 1..n : PackSpan(p, heard[i]) \in PackStates
  <2> SUFFICES ASSUME NEW p \in PackStates, NEW i \in 1 + 1..n
               PROVE  PackSpan(p, heard[i]) \in PackStates
    OBVIOUS
  <2>1. heard[i][1] \in Int /\ heard[i][2] \in Int
    BY <1>2
  <2>2. (p.end + heard[i][1]) \div 2 \in Int
    <3>1. p.end \in Int
      BY DEF PackStates
    <3> QED BY ONLY <2>1, <3>1
  <2>3. [p EXCEPT !.end = heard[i][2]] \in PackStates
    BY <2>1 DEF PackStates
  <2>4. \A mid \in Int :
           [cuts |-> Append(p.cuts, mid), start |-> mid, end |-> heard[i][2]] \in PackStates
    BY <2>1 DEF PackStates
  <2> QED BY <2>2, <2>3, <2>4, Zenon DEF PackSpan
<1>4. step \in [1 + 1..n -> [PackStates -> PackStates]]
  BY <1>1, <1>3
<1>5. FirstSpan(heard) \in PackStates
  BY <1>1, <1>2 DEF FirstSpan, PackStates
<1>6. PICK h : Iteration(h, 1, n, PackStates, FirstSpan(heard), step)
  <2>1. 1 \in Int /\ n \in Int /\ 1 <= n
    BY <1>1
  <2> HIDE DEF step
  <2> QED BY <1>4, <1>5, <2>1, Iterates
<1>7. \A k \in 1..n : h[k] = IF k = 1 THEN FirstSpan(heard) ELSE PackSpan(h[k - 1], heard[k])
  <2> SUFFICES ASSUME NEW k \in 1..n, k # 1  PROVE h[k] = PackSpan(h[k - 1], heard[k])
    BY <1>6 DEF Iteration
  <2>1. k \in 1 + 1..n /\ h[k - 1] \in PackStates
    BY <1>6 DEF Iteration
  <2> QED BY <2>1, <1>1, <1>6 DEF Iteration
<1>8. h = [i \in 1..n |-> IF i = 1 THEN FirstSpan(heard) ELSE PackSpan(h[i - 1], heard[i])]
  BY <1>6, <1>7 DEF Iteration
<1> QED BY <1>1, <1>8 DEF SpanPacking, FirstSpan

\* What is packed with the first i spans: the cuts are in order, the last one
\* is where the open chunk begins, and that chunk is empty at most when no cut
\* was made and a span is empty.
CutsInOrder(p, heard, i) ==
    /\ p \in PackStates
    /\ Len(p.cuts) > 0
    /\ p.cuts[1] = heard[1][1] /\ p.cuts[Len(p.cuts)] = p.start
    /\ \A k \in 1..Len(p.cuts) - 1 : p.cuts[k] < p.cuts[k + 1]
    /\ p.end = heard[i][2]
    /\ p.start <= p.end
    /\ NoneEmpty(heard) \/ Len(p.cuts) > 1 => p.start < p.end

\* The middle of a pause is in it, and not where the pause ends if it is long.
LEMMA MiddleOfPause ==
    ASSUME NEW a \in Int, NEW b \in Int, a <= b
    PROVE  LET mid == (a + b) \div 2
           IN  /\ mid \in Int /\ a <= mid /\ mid <= b
               /\ a + 2 <= b => a < mid /\ mid < b
  OBVIOUS

LEMMA PackSpanStep ==
    ASSUME NEW heard, IsHeard(heard), total \in Nat, NEW i \in 2..Len(heard), NEW p,
           CutsInOrder(p, heard, i - 1)
    PROVE  CutsInOrder(PackSpan(p, heard[i]), heard, i)
<1> DEFINE a == heard[i][1]
           b == heard[i][2]
<1>1. /\ i - 1 \in 1..Len(heard) /\ i \in 1..Len(heard) /\ i - 1 < i
      /\ heard \in Seq(Int \X Int)
  BY DEF IsHeard, Ordered
<1>2. /\ a \in Int /\ b \in Int /\ heard[i - 1][2] \in Int
      /\ heard[i - 1][2] <= a /\ a <= b
      /\ NoneEmpty(heard) => a < b
      /\ NoneEmpty(heard) \/ heard[i - 1][2] + 2 <= a
  <2>1. a \in Int /\ b \in Int /\ heard[i - 1][2] \in Int
    BY <1>1
  <2>2. heard[i - 1][2] <= a /\ a <= b
    BY <1>1 DEF IsHeard, Ordered
  <2>3. NoneEmpty(heard) => a < b
    BY <1>1 DEF NoneEmpty
  <2>4. NoneEmpty(heard) \/ heard[i - 1][2] + 2 <= a
    BY <1>1 DEF IsHeard, Apart
  <2> QED BY <2>1, <2>2, <2>3, <2>4
<1>3. /\ p.cuts \in Seq(Int) /\ p.start \in Int /\ p.end \in Int
      /\ p = [cuts |-> p.cuts, start |-> p.start, end |-> p.end]
      /\ p.end = heard[i - 1][2] /\ p.start <= p.end
      /\ NoneEmpty(heard) \/ Len(p.cuts) > 1 => p.start < p.end
  BY DEF CutsInOrder, PackStates
<1> HIDE DEF a, b
<1>4. CASE b - p.start <= MaxSamples
  <2> DEFINE t == [cuts |-> p.cuts, start |-> p.start, end |-> b]
  <2>1. PackSpan(p, heard[i]) = t
    BY <1>3, <1>4 DEF PackSpan, b
  <2>2. t \in PackStates
    BY <1>2, <1>3 DEF PackStates
  <2>3. p.start <= b /\ (NoneEmpty(heard) \/ Len(p.cuts) > 1 => p.start < b)
    BY <1>2, <1>3
  <2> QED BY <2>1, <2>2, <2>3 DEF CutsInOrder, b
<1>5. CASE ~ (b - p.start <= MaxSamples)
  <2> DEFINE mid == (p.end + a) \div 2
             more == Append(p.cuts, mid)
             t == [cuts |-> more, start |-> mid, end |-> b]
  <2>1. PackSpan(p, heard[i]) = t
    BY <1>5 DEF PackSpan, a, b
  <2>2. mid \in Int /\ p.start < mid /\ mid < b
    <3>1. mid \in Int /\ p.end <= mid /\ mid <= a /\ (p.end + 2 <= a => p.end < mid /\ mid < a)
      BY <1>2, <1>3, MiddleOfPause
    <3> HIDE DEF mid
    <3> QED BY <3>1, <1>2, <1>3
  <2> HIDE DEF mid
  <2>3. PICK n \in Nat : n = Len(p.cuts) /\ n > 0
    <3>1. p.cuts \in Seq(Int) /\ Len(p.cuts) > 0
      BY <1>3, Zenon DEF CutsInOrder
    <3>2. Len(p.cuts) \in Nat
      BY ONLY <3>1
    <3> QED BY <3>1, <3>2, Zenon
  <2>4. /\ more \in Seq(Int) /\ Len(more) = n + 1 /\ more[n + 1] = mid
        /\ \A k \in 1..n : more[k] = p.cuts[k]
    BY <1>3, <2>2, <2>3
  <2> HIDE DEF more
  <2>5. ASSUME NEW k \in 1..(n + 1) - 1  PROVE more[k] < more[k + 1]
    <3>1. CASE k = n
      <4>1. n \in 1..n /\ p.cuts[n] = p.start
        BY <2>3 DEF CutsInOrder
      <4>2. more[n] = p.start /\ more[n + 1] = mid
        BY <4>1, <2>4
      <4> QED BY <3>1, <4>2, <2>2
    <3>2. CASE k # n
      <4>1. k \in 1..n - 1 /\ k \in 1..n /\ k + 1 \in 1..n
        BY <3>2
      <4> QED BY <4>1, <2>3, <2>4 DEF CutsInOrder
    <3> QED BY <3>1, <3>2
  <2>6. more[1] = heard[1][1]
    BY <2>3, <2>4 DEF CutsInOrder
  <2>7. t \in PackStates
    BY <1>2, <2>2, <2>4 DEF PackStates
  <2>8. n + 1 > 0 /\ mid <= b /\ t.cuts = more /\ t.start = mid /\ t.end = b
    BY <1>2, <2>2, <2>3
  <2> HIDE DEF t
  <2> QED BY <2>1, <2>2, <2>4, <2>5, <2>6, <2>7, <2>8 DEF CutsInOrder, b
<1> QED BY <1>4, <1>5

LEMMA SpanPackingInOrder ==
    ASSUME NEW heard, IsHeard(heard), total \in Nat, heard # <<>>
    PROVE  CutsInOrder(SpanPacking(heard)[Len(heard)], heard, Len(heard))
<1> DEFINE p == SpanPacking(heard)
           S == {i \in 1..Len(heard) : CutsInOrder(p[i], heard, i)}
<1>1. PICK n \in Nat : n = Len(heard) /\ n > 0 /\ heard \in Seq(Int \X Int)
  BY DEF IsHeard, Ordered
<1>2. \A i \in 1..n : p[i] = IF i = 1 THEN FirstSpan(heard) ELSE PackSpan(p[i - 1], heard[i])
  <2>1. p = [i \in 1..n |-> IF i = 1 THEN FirstSpan(heard) ELSE PackSpan(p[i - 1], heard[i])]
    BY <1>1, SpanPackingDef
  <2> HIDE DEF p
  <2> QED BY <2>1, Zenon
<1> HIDE DEF p
<1>3. 1 \in S
  <2>1. /\ heard[1][1] \in Int /\ heard[1][2] \in Int /\ heard[1][1] <= heard[1][2]
        /\ NoneEmpty(heard) => heard[1][1] < heard[1][2]
    BY <1>1 DEF IsHeard, Ordered, NoneEmpty
  <2>2. CutsInOrder(FirstSpan(heard), heard, 1)
    BY <2>1 DEF CutsInOrder, FirstSpan, PackStates
  <2> QED BY <2>2, <1>1, <1>2
<1>4. \A i \in 1..(n - 1) : i \in S => i + 1 \in S
  <2> SUFFICES ASSUME NEW i \in 1..(n - 1), CutsInOrder(p[i], heard, i)
               PROVE  i + 1 \in 1..n /\ CutsInOrder(p[i + 1], heard, i + 1)
    BY <1>1
  <2>1. i + 1 \in 2..n /\ i + 1 \in 1..n /\ (i + 1) - 1 = i /\ i + 1 # 1
    BY <1>1
  <2>2. p[i + 1] = PackSpan(p[i], heard[i + 1])
    BY <1>2, <2>1
  <2>3. CutsInOrder(PackSpan(p[i], heard[i + 1]), heard, i + 1)
    BY <1>1, <2>1, PackSpanStep
  <2> QED BY <2>1, <2>2, <2>3
<1> HIDE DEF S
<1>5. 1..n \subseteq S
  <2>1. 1 \in Int /\ n \in Int
    BY <1>1
  <2> QED BY <1>3, <1>4, <2>1, FromTo
<1>6. n \in S
  <2>1. n \in 1..n
    BY <1>1
  <2> QED BY <2>1, <1>5
<1> QED BY <1>1, <1>6 DEF S, p

\* A run from the beginning to the end of the recording covers it.
LEMMA RunIsRecording ==
    ASSUME NEW heard, NEW r, total \in Nat, Run(r, 0, total),
           heard # <<>> => Short(r, MaxSamples)
    PROVE  Covers(heard, r)
<1>1. PICK n \in Nat : n = Len(r) /\ n > 0 /\ DOMAIN r = 1..n
  BY DEF Run
<1>2. \A k \in 1..n : r[k][1] \in Int /\ r[k][2] \in Int
  BY <1>1 DEF Run
<1>3. /\ r[1][1] = 0 /\ r[n][2] = total
      /\ \A k \in 1..n : r[k][1] < r[k][2]
      /\ \A k \in 1..n - 1 : r[k][2] = r[k + 1][1]
  BY <1>1 DEF Run
<1>4. Head(r) = r[1] /\ Last(r) = r[n]
  BY <1>1 DEF Run, Last
<1>5. \A k \in 1..n - 1 : r[k][2] <= r[k + 1][1]
  <2>1. \A k \in 1..n - 1 : k \in 1..n
    OBVIOUS
  <2> QED BY <2>1, <1>2, <1>3
<1>6. InOrder(r) /\ Consecutive(r)
  BY <1>1, <1>3, <1>5 DEF InOrder, Consecutive
<1>7. heard # <<>> => AtMost(r, MaxSamples)
  BY <1>1 DEF Short, AtMost, ToSet
<1> QED BY <1>3, <1>4, <1>6, <1>7 DEF Covers

\* The pieces, sliced, are the recording.
LEMMA SlicedRun ==
    ASSUME NEW cuts \in Seq(Int), Len(cuts) > 1, NEW end \in Nat,
           0 <= cuts[1], cuts[Len(cuts)] = end, end > 0,
           \A k \in 2..Len(cuts) - 1 : cuts[k] > 0 /\ cuts[k] < cuts[k + 1]
    PROVE  Run(Sliced(Pieces(cuts)), 0, end) /\ Short(Sliced(Pieces(cuts)), MaxSamples)
<1>1. PICK n \in Nat \ {0} : Len(cuts) = n + 1
  <2>1. Len(cuts) - 1 \in Nat \ {0} /\ Len(cuts) = (Len(cuts) - 1) + 1
    OBVIOUS
  <2> QED BY <2>1
<1> DEFINE cut == [k \in 1..n + 1 |-> IF k = 1 THEN 0 ELSE cuts[k]]
           pieces == Pieces(cuts)
           seqs == [i \in DOMAIN pieces |-> Slices(pieces[i][1], pieces[i][2], MaxSamples)]
<1>2. cut \in [1..n + 1 -> Int]
  BY <1>1
<1>3. cut[1] = 0 /\ cut[n + 1] = end
  BY <1>1
<1>4. ASSUME NEW i \in 1..n  PROVE cut[i] < cut[i + 1]
  <2>1. CASE i = 1
    <3>1. CASE n = 1
      BY <2>1, <3>1, <1>1
    <3>2. CASE n # 1
      <4>1. 2 \in 2..Len(cuts) - 1
        BY <3>2, <1>1
      <4> QED BY <4>1, <2>1, <1>1
    <3> QED BY <3>1, <3>2
  <2>2. CASE i # 1
    <3>1. i \in 2..Len(cuts) - 1 /\ i \in 1..n + 1 /\ i + 1 \in 1..n + 1 /\ i + 1 # 1
      BY <2>2, <1>1
    <3> QED BY <3>1, <2>2
  <2> QED BY <2>1, <2>2
<1>5. pieces = [i \in 1..n |-> <<cut[i], cut[i + 1]>>]
  <2>1. \A i \in 1..n : i \in 1..n + 1 /\ i + 1 \in 1..n + 1 /\ i + 1 # 1
    OBVIOUS
  <2>2. (n + 1) - 1 = n
    OBVIOUS
  <2> QED BY <2>1, <2>2, <1>1 DEF Pieces
<1> HIDE DEF cut, pieces
<1>6. ASSUME NEW i \in 1..n
      PROVE  Run(seqs[i], cut[i], cut[i + 1]) /\ Short(seqs[i], MaxSamples)
  <2>1. i \in 1..n + 1 /\ i + 1 \in 1..n + 1
    OBVIOUS
  <2>2. cut[i] \in Int /\ cut[i + 1] \in Int /\ cut[i] < cut[i + 1]
    BY <2>1, <1>2, <1>4
  <2>3. seqs[i] = Slices(cut[i], cut[i + 1], MaxSamples)
    BY <1>5
  <2>4. MaxSamples \in Nat \ {0}
    BY ConstantTypes
  <2> QED BY <2>2, <2>3, <2>4, SlicesRun
<1>7. seqs \in Seq(Seq(Int \X Int)) /\ Len(seqs) = n
  <2>1. DOMAIN seqs = 1..n /\ seqs = [i \in 1..n |-> seqs[i]]
    BY <1>5
  <2>2. \A i \in 1..n : seqs[i] \in Seq(Int \X Int)
    BY <1>6 DEF Run
  <2> HIDE DEF seqs
  <2>3. seqs \in [1..n -> Seq(Int \X Int)]
    BY <2>1, <2>2
  <2> QED BY <2>3
<1>8. Run(FlattenSeq(seqs), 0, end) /\ Short(FlattenSeq(seqs), MaxSamples)
  <2>1. MaxSamples \in Int
    BY ConstantTypes
  <2> HIDE DEF seqs
  <2> QED BY <2>1, <1>2, <1>3, <1>6, <1>7, FlattenRuns
<1> QED BY <1>8 DEF Sliced, pieces

\* The chunks of split_on_silence are a run, and short when there is speech.
LEMMA SplitOnSilenceRun ==
    ASSUME Recorded, total > 0
    PROVE  /\ Run(SplitOnSilence(Spans), 0, total)
           /\ Spans # <<>> => Short(SplitOnSilence(Spans), MaxSamples)
<1>1. total \in Nat /\ IsHeard(Spans)
  BY SpansAreHeard DEF Recorded
<1>2. PICK heard : heard = Spans
  OBVIOUS
<1>3. CASE total <= MaxSamples \/ heard = <<>>
  <2> DEFINE r == << <<0, total>> >>
  <2>1. SplitOnSilence(heard) = r
    BY <1>3 DEF SplitOnSilence
  <2>2. Run(r, 0, total)
    BY <1>1, RunOne
  <2>3. heard # <<>> => Short(r, MaxSamples)
    BY <1>1, <1>3 DEF Short
  <2> HIDE DEF r
  <2> QED BY <2>1, <2>2, <2>3, <1>2
<1>4. CASE ~ (total <= MaxSamples \/ heard = <<>>)
  <2> DEFINE p == SpanPacking(heard)[Len(heard)]
             cuts == Append(p.cuts, total)
  <2>1. CutsInOrder(p, heard, Len(heard))
    BY <1>1, <1>2, <1>4, SpanPackingInOrder
  <2>2. SplitOnSilence(heard) = Sliced(Pieces(cuts))
    BY <1>4 DEF SplitOnSilence, Cuts
  <2> HIDE DEF p
  <2>3. PICK n \in Nat : n = Len(p.cuts) /\ n > 0 /\ p.cuts \in Seq(Int)
    BY <2>1 DEF CutsInOrder, PackStates
  <2>4. /\ cuts \in Seq(Int) /\ Len(cuts) = n + 1 /\ cuts[n + 1] = total
        /\ \A k \in 1..n : cuts[k] = p.cuts[k] /\ cuts[k] \in Int
    BY <1>1, <2>3
  <2>5. /\ 0 <= heard[1][1] /\ heard[Len(heard)][2] <= total
        /\ heard[1][1] \in Int /\ heard[Len(heard)][2] \in Int
    <3>1. heard \in Seq(Int \X Int) /\ 1 \in 1..Len(heard) /\ Len(heard) \in 1..Len(heard)
      BY <1>1, <1>2, <1>4 DEF IsHeard, Ordered
    <3> QED BY <3>1, <1>1, <1>2 DEF IsHeard, Ordered
  <2>6. cuts[1] = heard[1][1]
    BY <2>1, <2>3, <2>4 DEF CutsInOrder
  <2> HIDE DEF cuts
  <2>7. \A k \in 1..n - 1 : cuts[k] < cuts[k + 1]
    <3> SUFFICES ASSUME NEW k \in 1..n - 1  PROVE cuts[k] < cuts[k + 1]
      OBVIOUS
    <3>1. k \in 1..n /\ k + 1 \in 1..n /\ k \in 1..Len(p.cuts) - 1
      BY <2>3
    <3> QED BY <3>1, <2>1, <2>4 DEF CutsInOrder
  <2>8. n > 1 => cuts[n] < total
    <3> SUFFICES ASSUME n > 1  PROVE cuts[n] < total
      OBVIOUS
    <3>1. n \in 1..n
      BY <2>3
    <3>2. cuts[n] = p.start /\ p.start < p.end /\ p.end = heard[Len(heard)][2]
      BY <3>1, <2>1, <2>3, <2>4 DEF CutsInOrder
    <3>3. p.start \in Int /\ p.end \in Int
      BY <2>1 DEF CutsInOrder, PackStates
    <3> QED BY <3>2, <3>3, <2>5, <1>1
  <2>9. \A k \in 2..n : cuts[k] > 0
    <3> DEFINE S == {k \in 2..n : cuts[k] > 0}
    <3>1. CASE n = 1
      BY <3>1
    <3>2. CASE n > 1
      <4>1. 2 \in S
        <5>1. 1 \in 1..n - 1 /\ 1 \in 1..n /\ 2 \in 1..n /\ 1 + 1 = 2 /\ 2 \in 2..n
          BY <3>2
        <5>2. cuts[1] < cuts[2] /\ cuts[1] \in Int /\ cuts[2] \in Int
          BY <5>1, <2>4, <2>7
        <5> QED BY <5>1, <5>2, <2>5, <2>6
      <4>2. \A k \in 2..(n - 1) : k \in S => k + 1 \in S
        <5> SUFFICES ASSUME NEW k \in 2..(n - 1), cuts[k] > 0  PROVE k + 1 \in S
          OBVIOUS
        <5>1. k \in 1..n - 1 /\ k \in 1..n /\ k + 1 \in 1..n /\ k + 1 \in 2..n
          OBVIOUS
        <5>2. cuts[k] < cuts[k + 1] /\ cuts[k] \in Int /\ cuts[k + 1] \in Int
          BY <5>1, <2>4, <2>7
        <5> QED BY <5>1, <5>2
      <4> HIDE DEF S
      <4>3. 2..n \subseteq S
        <5>1. 2 \in Int /\ n \in Int
          OBVIOUS
        <5> QED BY <5>1, <4>1, <4>2, FromTo
      <4> QED BY <4>3 DEF S
    <3> QED BY <2>3, <3>1, <3>2
  <2>10. \A k \in 2..Len(cuts) - 1 : cuts[k] > 0 /\ cuts[k] < cuts[k + 1]
    <3> SUFFICES ASSUME NEW k \in 2..n  PROVE cuts[k] > 0 /\ cuts[k] < cuts[k + 1]
      BY <2>4
    <3>1. CASE k = n
      BY <3>1, <2>4, <2>8, <2>9
    <3>2. CASE k # n
      <4>1. k \in 1..n - 1
        BY <3>2
      <4> QED BY <4>1, <2>7, <2>9
    <3> QED BY <3>1, <3>2
  <2>11. Run(Sliced(Pieces(cuts)), 0, total) /\ Short(Sliced(Pieces(cuts)), MaxSamples)
    <3>1. Len(cuts) > 1 /\ 0 <= cuts[1] /\ cuts[Len(cuts)] = total
      BY <2>3, <2>4, <2>5, <2>6
    <3> QED BY <3>1, <1>1, <2>4, <2>10, SlicedRun
  <2> QED BY <2>2, <2>11, <1>2 DEF cuts
<1> QED BY <1>3, <1>4

\* split_on_silence covers recordings of any length, whatever the two detectors
\* hear in them and whatever the limit.
THEOREM SplitCoversAlways == Spec => []SplitCovers
<1>1. Recorded => SplitCovers
  <2> SUFFICES ASSUME Recorded, total > 0  PROVE Covers(Spans, SplitOnSilence(Spans))
    BY DEF SplitCovers
  <2> QED BY SplitOnSilenceRun, RunIsRecording DEF Recorded
<1> QED BY <1>1, RecordedAlways, PTL

-----------------------------------------------------------------------------
(***************************************************************************)
(* auto_chunk.                                                             *)
(***************************************************************************)
RangeStates == [ranges : Seq(Int \X Int), start : Int, end : Int]

FirstRange(heard) == [ranges |-> <<>>, start |-> heard[1][1], end |-> heard[1][2]]

\* RangePacking is the recursion it is written as.
LEMMA RangePackingDef ==
    ASSUME NEW heard \in Seq(Int \X Int), Len(heard) > 0
    PROVE  RangePacking(heard) =
               [i \in 1..Len(heard) |-> IF i = 1 THEN FirstRange(heard)
                                        ELSE PackRange(RangePacking(heard)[i - 1], heard[i])]
<1> DEFINE step == [i \in 1 + 1..Len(heard) |-> [p \in RangeStates |-> PackRange(p, heard[i])]]
<1>1. PICK n \in Nat : n = Len(heard) /\ n > 0
  OBVIOUS
<1>2. \A i \in 1..n : heard[i][1] \in Int /\ heard[i][2] \in Int
  BY <1>1
<1>3. \A p \in RangeStates, i \in 1 + 1..n : PackRange(p, heard[i]) \in RangeStates
  <2> SUFFICES ASSUME NEW p \in RangeStates, NEW i \in 1 + 1..n
               PROVE  PackRange(p, heard[i]) \in RangeStates
    OBVIOUS
  <2>1. heard[i][1] \in Int /\ heard[i][2] \in Int
    BY <1>2
  <2>2. (p.end + heard[i][1]) \div 2 \in Int
    <3>1. p.end \in Int
      BY DEF RangeStates
    <3> QED BY <2>1, <3>1
  <2>3. [p EXCEPT !.end = heard[i][2]] \in RangeStates
    BY <2>1 DEF RangeStates
  <2>4. \A cut \in Int :
           [ranges |-> Append(p.ranges, <<p.start, cut>>), start |-> cut, end |-> heard[i][2]]
               \in RangeStates
    BY <2>1 DEF RangeStates
  <2> QED BY <2>1, <2>2, <2>3, <2>4, Zenon DEF PackRange
<1>4. step \in [1 + 1..n -> [RangeStates -> RangeStates]]
  BY <1>1, <1>3
<1>5. FirstRange(heard) \in RangeStates
  BY <1>1, <1>2 DEF FirstRange, RangeStates
<1>6. PICK h : Iteration(h, 1, n, RangeStates, FirstRange(heard), step)
  <2>1. 1 \in Int /\ n \in Int /\ 1 <= n
    BY <1>1
  <2> HIDE DEF step
  <2> QED BY <1>4, <1>5, <2>1, Iterates
<1>7. \A k \in 1..n : h[k] = IF k = 1 THEN FirstRange(heard) ELSE PackRange(h[k - 1], heard[k])
  <2> SUFFICES ASSUME NEW k \in 1..n, k # 1  PROVE h[k] = PackRange(h[k - 1], heard[k])
    BY <1>6 DEF Iteration
  <2>1. k \in 1 + 1..n /\ h[k - 1] \in RangeStates
    BY <1>6 DEF Iteration
  <2> QED BY <2>1, <1>1, <1>6 DEF Iteration
<1>8. h = [i \in 1..n |-> IF i = 1 THEN FirstRange(heard) ELSE PackRange(h[i - 1], heard[i])]
  BY <1>6, <1>7 DEF Iteration
<1> QED BY <1>1, <1>8 DEF RangePacking, FirstRange

\* What is packed with the first i spans: the ranges are a run up to where the
\* open one begins.  The open one is empty after a cut that was forced, there
\* being a Least then, and after a first span that is empty.
RangesInOrder(p, heard, i) ==
    /\ p \in RangeStates
    /\ (p.ranges = <<>> /\ p.start = heard[1][1]) \/ Run(p.ranges, heard[1][1], p.start)
    /\ p.end = heard[i][2]
    /\ p.start <= p.end
    /\ p.start < p.end \/ Least > 0 \/ Apart(heard)

\* A range more.
LEMMA RangesAppend ==
    ASSUME NEW ranges, NEW a \in Int, NEW start \in Int, NEW end \in Int, start < end,
           (ranges = <<>> /\ start = a) \/ Run(ranges, a, start)
    PROVE  Run(Append(ranges, <<start, end>>), a, end)
<1>1. CASE ranges = <<>> /\ start = a
  <2>1. Append(ranges, <<start, end>>) = << <<a, end>> >>
    BY <1>1
  <2> QED BY <1>1, <2>1, RunOne
<1>2. CASE Run(ranges, a, start)
  BY <1>2, RunAppend
<1> QED BY <1>1, <1>2

LEMMA PackRangeStep ==
    ASSUME NEW heard, IsHeard(heard), total \in Nat, NEW i \in 2..Len(heard), NEW p,
           RangesInOrder(p, heard, i - 1)
    PROVE  RangesInOrder(PackRange(p, heard[i]), heard, i)
<1> DEFINE a == heard[i][1]
           b == heard[i][2]
           first == heard[1][1]
           Extended == [ranges |-> p.ranges, start |-> p.start, end |-> b]
           CutAt(cut) == [ranges |-> Append(p.ranges, <<p.start, cut>>), start |-> cut, end |-> b]
           mid == (p.end + a) \div 2
<1>1. /\ i - 1 \in 1..Len(heard) /\ i \in 1..Len(heard) /\ 1 \in 1..Len(heard) /\ i - 1 < i
      /\ heard \in Seq(Int \X Int)
  BY DEF IsHeard, Ordered
<1>2. /\ a \in Int /\ b \in Int /\ heard[i - 1][2] \in Int /\ first \in Int
      /\ heard[i - 1][2] <= a /\ a <= b
      /\ a < b \/ Apart(heard)
      /\ Apart(heard) => heard[i - 1][2] + 2 <= a
  <2>1. a \in Int /\ b \in Int /\ heard[i - 1][2] \in Int /\ first \in Int
    <3>1. heard[i] \in Int \X Int /\ heard[i - 1] \in Int \X Int /\ heard[1] \in Int \X Int
      BY <1>1
    <3> QED BY ONLY <3>1
  <2>2. heard[i - 1][2] <= a /\ a <= b
    BY <1>1 DEF IsHeard, Ordered
  <2>3. a < b \/ Apart(heard)
    BY <1>1 DEF IsHeard, NoneEmpty
  <2>4. Apart(heard) => heard[i - 1][2] + 2 <= a
    BY <1>1 DEF Apart
  <2> QED BY <2>1, <2>2, <2>3, <2>4
<1>3. /\ p.ranges \in Seq(Int \X Int) /\ p.start \in Int /\ p.end \in Int
      /\ p = [ranges |-> p.ranges, start |-> p.start, end |-> p.end]
      /\ p.end = heard[i - 1][2] /\ p.start <= p.end
      /\ p.start < p.end \/ Least > 0 \/ Apart(heard)
      /\ (p.ranges = <<>> /\ p.start = first) \/ Run(p.ranges, first, p.start)
  BY DEF RangesInOrder, RangeStates
<1>4. \/ PackRange(p, heard[i]) = Extended
      \/ p.end - p.start >= Least /\ PackRange(p, heard[i]) = CutAt(mid)
      \/ ~ (p.end - p.start >= Least) /\ b - p.start >= Hard /\ PackRange(p, heard[i]) = CutAt(b)
  BY <1>3 DEF PackRange
<1>5. Least \in Nat /\ Hard \in Nat \ {0}
  BY ConstantTypes
<1>6. mid \in Int /\ p.end <= mid /\ mid <= a /\ (Apart(heard) => p.end < mid /\ mid < a)
  BY <1>2, <1>3, MiddleOfPause
<1> HIDE DEF a, b, mid, first
<1>7. p.end < b
  <2>1. p.end \in Int /\ p.end <= a /\ (Apart(heard) => p.end + 2 <= a)
    BY <1>2, <1>3, Zenon
  <2> QED BY <2>1, <1>2
<1>8. CASE PackRange(p, heard[i]) = Extended
  <2>1. p.start < b /\ p.start <= b
    <3>1. p.start \in Int /\ p.end \in Int /\ p.start <= p.end /\ b \in Int /\ p.end < b
      BY <1>2, <1>3, <1>7, Zenon
    <3> QED BY ONLY <3>1
  <2>3. Extended \in RangeStates
    BY <1>2, <1>3 DEF RangeStates
  <2>2. Extended.ranges = p.ranges /\ Extended.start = p.start /\ Extended.end = b
    OBVIOUS
  <2> HIDE DEF Extended
  <2> QED BY <1>3, <1>8, <2>1, <2>2, <2>3, Zenon DEF RangesInOrder, first, b
<1>9. ASSUME NEW cut \in Int, p.start < cut, cut <= b, cut < b \/ Least > 0,
             PackRange(p, heard[i]) = CutAt(cut)
      PROVE  RangesInOrder(PackRange(p, heard[i]), heard, i)
  <2>1. Run(Append(p.ranges, <<p.start, cut>>), first, cut)
    BY <1>2, <1>3, <1>9, RangesAppend
  <2>2. CutAt(cut) \in RangeStates
    <3>1. Append(p.ranges, <<p.start, cut>>) \in Seq(Int \X Int)
      BY <2>1 DEF Run
    <3> QED BY <1>2, <3>1 DEF RangeStates
  <2>3. /\ CutAt(cut).ranges = Append(p.ranges, <<p.start, cut>>)
        /\ CutAt(cut).start = cut /\ CutAt(cut).end = b
    OBVIOUS
  <2> HIDE DEF CutAt
  <2> QED BY <1>9, <2>1, <2>2, <2>3, Zenon DEF RangesInOrder, first, b
<1>10. CASE p.end - p.start >= Least /\ PackRange(p, heard[i]) = CutAt(mid)
  <2>1. /\ p.start \in Int /\ p.end \in Int /\ p.start <= p.end
        /\ p.start < p.end \/ Least > 0 \/ Apart(heard)
    BY <1>3, Zenon
  <2>2. p.start < mid
    BY <1>5, <1>6, <1>10, <2>1
  <2>3. mid < b
    BY <1>2, <1>6
  <2>4. mid <= b
    BY <1>2, <1>6, <2>3
  <2> HIDE DEF CutAt
  <2> QED BY <1>6, <1>9, <1>10, <2>2, <2>3, <2>4
<1>11. CASE /\ ~ (p.end - p.start >= Least) /\ b - p.start >= Hard
            /\ PackRange(p, heard[i]) = CutAt(b)
  <2>1. p.start \in Int /\ p.end \in Int /\ p.start <= p.end /\ b \in Int
    BY <1>2, <1>3, Zenon
  <2>2. p.start < b /\ b <= b /\ Least > 0
    BY <1>5, <1>11, <2>1
  <2> HIDE DEF CutAt
  <2> QED BY <1>9, <1>11, <2>1, <2>2
<1> QED BY <1>4, <1>8, <1>10, <1>11

LEMMA RangePackingInOrder ==
    ASSUME NEW heard, IsHeard(heard), total \in Nat, heard # <<>>
    PROVE  RangesInOrder(RangePacking(heard)[Len(heard)], heard, Len(heard))
<1> DEFINE p == RangePacking(heard)
           S == {i \in 1..Len(heard) : RangesInOrder(p[i], heard, i)}
<1>1. PICK n \in Nat : n = Len(heard) /\ n > 0 /\ heard \in Seq(Int \X Int)
  BY DEF IsHeard, Ordered
<1>2. \A i \in 1..n : p[i] = IF i = 1 THEN FirstRange(heard) ELSE PackRange(p[i - 1], heard[i])
  <2>1. p = [i \in 1..n |-> IF i = 1 THEN FirstRange(heard) ELSE PackRange(p[i - 1], heard[i])]
    BY <1>1, RangePackingDef
  <2> HIDE DEF p
  <2> QED BY <2>1, Zenon
<1> HIDE DEF p
<1>3. 1 \in S
  <2>1. heard[1][1] \in Int /\ heard[1][2] \in Int /\ heard[1][1] <= heard[1][2]
    BY <1>1 DEF IsHeard, Ordered
  <2>2. heard[1][1] < heard[1][2] \/ Apart(heard)
    BY <1>1 DEF IsHeard, NoneEmpty
  <2>3. FirstRange(heard) \in RangeStates
    BY <2>1 DEF FirstRange, RangeStates
  <2>4. /\ FirstRange(heard).ranges = <<>> /\ FirstRange(heard).start = heard[1][1]
        /\ FirstRange(heard).end = heard[1][2]
    BY DEF FirstRange
  <2>5. RangesInOrder(FirstRange(heard), heard, 1)
    BY <2>1, <2>2, <2>3, <2>4, Zenon DEF RangesInOrder
  <2> QED BY <2>5, <1>1, <1>2
<1>4. \A i \in 1..(n - 1) : i \in S => i + 1 \in S
  <2> SUFFICES ASSUME NEW i \in 1..(n - 1), RangesInOrder(p[i], heard, i)
               PROVE  i + 1 \in 1..n /\ RangesInOrder(p[i + 1], heard, i + 1)
    BY <1>1
  <2>1. i + 1 \in 2..n /\ i + 1 \in 1..n /\ (i + 1) - 1 = i /\ i + 1 # 1
    BY <1>1
  <2>2. p[i + 1] = PackRange(p[i], heard[i + 1])
    BY <1>2, <2>1
  <2>3. RangesInOrder(PackRange(p[i], heard[i + 1]), heard, i + 1)
    BY <1>1, <2>1, PackRangeStep
  <2> QED BY <2>1, <2>2, <2>3
<1> HIDE DEF S
<1>5. 1..n \subseteq S
  <2>1. 1 \in Int /\ n \in Int
    BY <1>1
  <2> QED BY <1>3, <1>4, <2>1, FromTo
<1>6. n \in S
  <2>1. n \in 1..n
    BY <1>1
  <2> QED BY <2>1, <1>5
<1> QED BY <1>1, <1>6 DEF S, p

\* The ranges of a run, split on time, are a run of the same length.
LEMMA TimeSplitAllRun ==
    ASSUME NEW ranges, NEW a \in Int, NEW b \in Int, Run(ranges, a, b)
    PROVE  Run(TimeSplitAll(ranges), a, b) /\ Short(TimeSplitAll(ranges), Hard)
<1>1. PICK n \in Nat \ {0} : Len(ranges) = n /\ DOMAIN ranges = 1..n
  BY DEF Run
<1> DEFINE cut == [k \in 1..n + 1 |-> IF k = n + 1 THEN b ELSE ranges[k][1]]
           seqs == [i \in DOMAIN ranges |-> TimeSplit(ranges[i][1], ranges[i][2])]
<1>2. \A k \in 1..n : ranges[k][1] \in Int /\ ranges[k][2] \in Int /\ ranges[k][1] < ranges[k][2]
  BY <1>1 DEF Run
<1>3. cut \in [1..n + 1 -> Int] /\ cut[1] = a /\ cut[n + 1] = b
  BY <1>1, <1>2 DEF Run
<1>4. ASSUME NEW i \in 1..n  PROVE cut[i] = ranges[i][1] /\ cut[i + 1] = ranges[i][2]
  <2>1. i \in 1..n + 1 /\ i + 1 \in 1..n + 1 /\ i # n + 1
    OBVIOUS
  <2>2. CASE i = n
    BY <2>1, <2>2, <1>1 DEF Run
  <2>3. CASE i # n
    <3>1. i \in 1..n - 1 /\ i + 1 # n + 1
      BY <2>3
    <3> QED BY <2>1, <3>1, <1>1 DEF Run
  <2> QED BY <2>2, <2>3
<1> HIDE DEF cut
<1>5. ASSUME NEW i \in 1..n
      PROVE  Run(seqs[i], cut[i], cut[i + 1]) /\ Short(seqs[i], Hard)
  BY <1>1, <1>2, <1>4, TimeSplitRun
<1>6. seqs \in Seq(Seq(Int \X Int)) /\ Len(seqs) = n
  <2>1. DOMAIN seqs = 1..n /\ seqs = [i \in 1..n |-> seqs[i]]
    BY <1>1
  <2>2. \A i \in 1..n : seqs[i] \in Seq(Int \X Int)
    BY <1>5 DEF Run
  <2> HIDE DEF seqs
  <2>3. seqs \in [1..n -> Seq(Int \X Int)]
    BY <2>1, <2>2
  <2> QED BY <2>3
<1>7. Run(FlattenSeq(seqs), a, b) /\ Short(FlattenSeq(seqs), Hard)
  <2>1. Hard \in Int
    BY ConstantTypes
  <2> HIDE DEF seqs
  <2> QED BY <2>1, <1>3, <1>5, <1>6, FlattenRuns
<1> QED BY <1>7 DEF TimeSplitAll

\* A run from before the first span to after the last one keeps the speech.
LEMMA RunKeepsSpeech ==
    ASSUME NEW heard, IsHeard(heard), total \in Nat,
           NEW r, NEW a \in Int, NEW b \in Int, Run(r, a, b), b <= total + 1,
           \A i \in 1..Len(heard) : a <= heard[i][1] /\ heard[i][2] <= b,
           heard # <<>> => Short(r, Hard)
    PROVE  KeepsSpeech(heard, r)
<1>1. PICK n \in Nat : n = Len(r) /\ n > 0 /\ DOMAIN r = 1..n
  <2>1. r \in Seq(Int \X Int) /\ Len(r) > 0
    BY DEF Run
  <2>2. Len(r) \in Nat /\ DOMAIN r = 1..Len(r)
    BY ONLY <2>1
  <2> QED BY <2>1, <2>2, Zenon
<1>2. \A k \in 1..n : r[k][1] \in Int /\ r[k][2] \in Int /\ r[k][1] < r[k][2]
  BY <1>1 DEF Run
<1>3. \A k \in 1..n - 1 : r[k][2] = r[k + 1][1]
  BY <1>1 DEF Run
<1>4. InOrder(r)
  <2>1. \A k \in 1..n - 1 : r[k][2] <= r[k + 1][1]
    <3>1. \A k \in 1..n - 1 : k \in 1..n
      OBVIOUS
    <3> QED BY <3>1, <1>2, <1>3
  <2> QED BY <2>1, <1>1, <1>2 DEF InOrder
<1>5. ASSUME NEW k \in 1..n  PROVE r[k][2] <= IF k = n THEN total + 1 ELSE total
  <2>1. r[n][2] = b
    BY <1>1 DEF Run
  <2>2. CASE k = n
    BY <2>1, <2>2
  <2>3. CASE k # n
    <3>1. k \in 1..n - 1 /\ k + 1 \in 1..n /\ n \in 1..n /\ k + 1 <= n
      BY <2>3
    <3>2. r[k + 1][2] <= r[n][2]
      BY <3>1, <1>1, RunOrder
    <3>3. r[k][2] < r[k + 1][2] /\ r[k][2] \in Int /\ r[k + 1][2] \in Int
      BY <3>1, <1>2, <1>3
    <3> QED BY <2>1, <2>3, <3>2, <3>3
  <2> QED BY <2>2, <2>3
<1>6. heard # <<>> => AtMost(r, Hard)
  BY <1>1 DEF Short, AtMost, ToSet
<1>7. ASSUME NEW s \in ToSet(heard), NEW t \in s[1]..(s[2] - 1)
      PROVE  \E x \in ToSet(r) : x[1] <= t /\ t < x[2]
  <2>1. PICK i \in 1..Len(heard) : s = heard[i]
    BY DEF ToSet, IsHeard, Ordered
  <2>2. s[1] \in Int /\ s[2] \in Int
    BY <2>1 DEF IsHeard, Ordered
  <2>3. t \in Int /\ a <= t /\ t < b
    BY <2>1, <2>2
  <2>4. PICK k \in 1..Len(r) : r[k][1] <= t /\ t < r[k][2]
    BY <2>3, RunCovers
  <2> QED BY <2>4, <1>1 DEF ToSet
<1> QED BY <1>1, <1>4, <1>5, <1>6, <1>7, Zenon DEF KeepsSpeech

\* A run from before the first span to after the last one.
AroundSpeech(heard, r) ==
    \E a, b \in Int :
        /\ Run(r, a, b) /\ b <= total + 1
        /\ \A i \in 1..Len(heard) : a <= heard[i][1] /\ heard[i][2] <= b
        /\ heard # <<>> => Short(r, Hard)

\* The ranges of auto_chunk are one.
LEMMA AutoChunkRun ==
    ASSUME Recorded, total > 0
    PROVE  AroundSpeech(Spans, AutoChunk(Spans))
<1>1. total \in Nat /\ IsHeard(Spans)
  BY SpansAreHeard DEF Recorded
<1>2. PICK heard : heard = Spans
  OBVIOUS
<1>3. /\ heard \in Seq(Int \X Int) /\ Len(heard) \in Nat
      /\ \A i \in 1..Len(heard) : heard[i][1] \in Int /\ heard[i][2] \in Int
      /\ \A i \in 1..Len(heard) :
             0 <= heard[i][1] /\ heard[i][1] <= heard[i][2] /\ heard[i][2] <= total
      /\ \A i, j \in 1..Len(heard) : i < j => heard[i][2] <= heard[j][1]
  BY <1>1, <1>2 DEF IsHeard, Ordered
<1>4. CASE total <= Hard \/ heard = <<>>
  <2> DEFINE r == << <<0, total>> >>
  <2>1. AutoChunk(heard) = r
    BY <1>4 DEF AutoChunk
  <2>2. Run(r, 0, total)
    BY <1>1, RunOne
  <2>3. heard # <<>> => Short(r, Hard)
    BY <1>1, <1>4 DEF Short
  <2> HIDE DEF r
  <2>4. total <= total + 1 /\ 0 \in Int /\ total \in Int
    BY <1>1
  <2>5. AroundSpeech(heard, r)
    BY <2>2, <2>3, <2>4, <1>3 DEF AroundSpeech
  <2> QED BY <2>1, <2>5, <1>2
<1>5. CASE ~ (total <= Hard \/ heard = <<>>)
  <2> DEFINE p == RangePacking(heard)[Len(heard)]
             end == Max({p.end, p.start + 1})
             packed == Append(p.ranges, <<p.start, end>>)
             first == heard[1][1]
  <2>1. AutoChunk(heard) = TimeSplitAll(packed)
    BY <1>5 DEF AutoChunk, Packed
  <2>2. RangesInOrder(p, heard, Len(heard))
    BY <1>1, <1>2, <1>5, RangePackingInOrder
  <2> HIDE DEF p
  <2>3. 1 \in 1..Len(heard) /\ Len(heard) \in 1..Len(heard)
    BY <1>3, <1>5
  <2>4. /\ first \in Int /\ p.start \in Int /\ p.end \in Int
        /\ p.start <= p.end /\ p.end = heard[Len(heard)][2] /\ p.end <= total
        /\ (p.ranges = <<>> /\ p.start = first) \/ Run(p.ranges, first, p.start)
    BY <1>3, <2>2, <2>3 DEF RangesInOrder, RangeStates
  <2>5. end \in Int /\ p.start < end /\ p.end <= end /\ end <= total + 1
    <3>1. end = IF p.end <= p.start + 1 THEN p.start + 1 ELSE p.end
      <4>1. p.start + 1 \in Int /\ p.end \in Int
        BY <2>4
      <4> QED BY <4>1, MaxOfTwo
    <3> HIDE DEF end
    <3>2. p.start \in Int /\ p.end \in Int /\ p.start <= p.end /\ p.end <= total
      BY <2>4, Zenon
    <3> QED BY <3>1, <3>2, <1>1
  <2> HIDE DEF end, first
  <2>6. Run(packed, first, end)
    BY <2>4, <2>5, RangesAppend
  <2> HIDE DEF packed
  <2>7. Run(TimeSplitAll(packed), first, end) /\ Short(TimeSplitAll(packed), Hard)
    BY <2>4, <2>5, <2>6, TimeSplitAllRun
  <2>8. ASSUME NEW i \in 1..Len(heard)  PROVE first <= heard[i][1] /\ heard[i][2] <= end
    <3>1. first <= heard[i][1]
      <4>1. CASE i = 1
        BY <4>1, <1>3 DEF first
      <4>2. CASE i # 1
        <5>1. heard[1][1] <= heard[1][2] /\ heard[1][2] <= heard[i][1]
          BY <4>2, <1>3, <2>3
        <5> QED BY <5>1, <1>3, <2>3 DEF first
      <4> QED BY <4>1, <4>2
    <3>2. heard[i][2] <= heard[Len(heard)][2]
      <4>1. CASE i = Len(heard)
        BY <4>1, <1>3
      <4>2. CASE i # Len(heard)
        <5>1. /\ heard[i][2] <= heard[Len(heard)][1]
              /\ heard[Len(heard)][1] <= heard[Len(heard)][2]
          BY <4>2, <1>3, <2>3
        <5> QED BY <5>1, <1>3, <2>3
      <4> QED BY <4>1, <4>2
    <3>3. heard[i][2] \in Int /\ heard[Len(heard)][2] <= end /\ heard[Len(heard)][2] \in Int
      BY <1>3, <2>3, <2>4, <2>5
    <3> QED BY <3>1, <3>2, <3>3, <2>5
  <2>9. AroundSpeech(heard, TimeSplitAll(packed))
    BY <2>4, <2>5, <2>7, <2>8 DEF AroundSpeech
  <2> QED BY <2>1, <2>9, <1>2 DEF packed
<1> QED BY <1>4, <1>5

\* auto_chunk keeps the speech of recordings of any length, whatever the two
\* detectors hear in them and whatever the three lengths.
THEOREM AutoKeepsSpeechAlways == Spec => []AutoKeepsSpeech
<1>1. Recorded => AutoKeepsSpeech
  <2> SUFFICES ASSUME Recorded, total > 0  PROVE KeepsSpeech(Spans, AutoChunk(Spans))
    BY DEF AutoKeepsSpeech
  <2>1. total \in Nat /\ IsHeard(Spans)
    BY SpansAreHeard DEF Recorded
  <2>2. AroundSpeech(Spans, AutoChunk(Spans))
    BY AutoChunkRun
  <2> QED BY <2>1, <2>2, RunKeepsSpeech DEF AroundSpeech
<1> QED BY <1>1, RecordedAlways, PTL

-----------------------------------------------------------------------------
(***************************************************************************)
(* The split points of app.py.                                             *)
(***************************************************************************)
\* Silences as silencedetect reports them: within the recording.
Silences == {c \in Int \X Int : c[2] <= total}

LEMMA PausesAreSilences ==
    ASSUME Recorded
    PROVE  Pauses \subseteq Silences
<1> DEFINE n == Len(spans)
           from(k) == IF k = 0 THEN 0 ELSE spans[k][2]
           to(k) == IF k = n THEN total ELSE spans[k + 1][1]
<1>1. n \in Nat /\ total \in Nat /\ Ordered(spans, total) /\ spans \in Seq(Int \X Int)
  BY DEF Recorded, Ordered
<1>2. ASSUME NEW k \in 0..n  PROVE <<from(k), to(k)>> \in Int \X Int /\ to(k) <= total
  <2>1. from(k) \in Int
    <3>1. CASE k = 0
      BY <3>1
    <3>2. CASE k # 0
      <4>1. k \in 1..n
        BY <3>2, <1>1
      <4> QED BY <4>1, <3>2, <1>1
    <3> QED BY <3>1, <3>2
  <2>2. to(k) \in Int /\ to(k) <= total
    <3>1. CASE k = n
      BY <3>1, <1>1
    <3>2. CASE k # n
      <4>1. k + 1 \in 1..n
        BY <3>2, <1>1
      <4>2. /\ spans[k + 1][1] \in Int /\ spans[k + 1][2] \in Int
            /\ spans[k + 1][1] <= spans[k + 1][2] /\ spans[k + 1][2] <= total
        BY <4>1, <1>1 DEF Ordered
      <4> QED BY <3>2, <4>2, <1>1
    <3> QED BY <3>1, <3>2
  <2> QED BY <2>1, <2>2
<1>3. Pauses = {<<from(k), to(k)>> : k \in {j \in 0..n : from(j) < to(j)}}
  BY DEF Pauses
<1> HIDE DEF n, from, to
<1>4. ASSUME NEW k \in 0..n  PROVE <<from(k), to(k)>> \in Silences
  BY <1>2 DEF Silences
<1> QED BY <1>3, <1>4, Zenon

LEMMA AbsNat == ASSUME NEW a \in Int  PROVE Abs(a) \in Nat
  BY DEF Abs

\* A set of numbers that has a member has a nearest one.
LEMMA Nearest ==
    ASSUME NEW S \in SUBSET Nat, S # {}, NEW target \in Int
    PROVE  \E m \in S : \A d \in S :
               \/ Abs(m - target) < Abs(d - target)
               \/ Abs(m - target) = Abs(d - target) /\ m <= d
<1> DEFINE away(m) == Abs(m - target)
           D == {away(m) : m \in S}
<1>1. \A m \in S : away(m) \in Nat
  BY AbsNat
<1> HIDE DEF away
<1>2. D \in SUBSET Nat /\ D # {}
  BY <1>1
<1> HIDE DEF D
<1>3. PICK x \in D : \A y \in D : x <= y
  BY <1>2, LeastNumber
<1> DEFINE U == {m \in S : away(m) = x}
<1>4. U \in SUBSET Nat /\ U # {}
  BY <1>3 DEF D
<1> HIDE DEF U
<1>5. PICK m \in U : \A y \in U : m <= y
  BY <1>4, LeastNumber
<1>6. m \in S /\ away(m) = x
  BY <1>5 DEF U
<1>7. ASSUME NEW d \in S  PROVE away(m) < away(d) \/ (away(m) = away(d) /\ m <= d)
  <2>1. x <= away(d) /\ x \in Nat /\ away(d) \in Nat
    BY <1>1, <1>2, <1>3 DEF D
  <2>2. CASE away(d) = x
    BY <2>2, <1>5, <1>6 DEF U
  <2>3. CASE away(d) # x
    BY <2>1, <2>3, <1>6
  <2> QED BY <2>2, <2>3
<1> QED BY <1>6, <1>7 DEF away

\* The next split is far enough from the one before; it is the middle of a
\* silence near the target, or the target, or as near the one before as may be.
LEMMA NextSplitBounds ==
    ASSUME NEW silences \in SUBSET Silences, total \in Nat, NEW prev \in Nat, NEW i \in Nat
    PROVE  LET m == NextSplit(silences, prev, i)
           IN  /\ m \in Nat
               /\ m >= prev + 2 * MinGap
               /\ m <= prev + 2 * MinGap \/ m <= 2 * (total - MinGap)
               /\ \/ m <= prev + 2 * MinGap
                  \/ m <= 2 * (i * ChunkLength)
                  \/ m <= total + i * ChunkLength + Window
<1> DEFINE t == i * ChunkLength
           target == 2 * i * ChunkLength
           middles == Candidates(silences, prev, i)
           best(m) == \A d \in middles :
                          \/ Abs(m - target) < Abs(d - target)
                          \/ Abs(m - target) = Abs(d - target) /\ m <= d
           fallback == Max({prev + 2 * MinGap, Min({target, 2 * (total - MinGap)})})
<1>1. MinGap \in Nat \ {0} /\ ChunkLength \in Nat \ {0} /\ Window \in Nat
  BY ConstantTypes
<1>2. t \in Nat /\ target = 2 * t
  BY <1>1
<1>3. NextSplit(silences, prev, i) = IF middles # {} THEN CHOOSE m \in middles : best(m)
                                     ELSE fallback
  BY DEF NextSplit
<1>4. ASSUME NEW m \in middles
      PROVE  /\ m \in Nat /\ m > prev + 2 * MinGap /\ m <= 2 * (total - MinGap)
             /\ m <= total + t + Window
  <2>1. PICK c \in Near(silences, i) : m = Middle(c)
    BY DEF Candidates
  <2>2. c[1] \in Int /\ c[2] \in Int /\ c[2] <= total /\ m = c[1] + c[2]
        /\ c[1] <= Min({total, t + Window})
    BY <2>1 DEF Near, Silences, Middle
  <2>3. prev + 2 * MinGap < m /\ m <= 2 * (total - MinGap)
    BY DEF Candidates
  <2> HIDE DEF t, middles
  <2>4. Min({total, t + Window}) = IF total <= t + Window THEN total ELSE t + Window
    <3>1. t + Window \in Int /\ total \in Int
      BY <1>1, <1>2
    <3> QED BY <3>1, MinOfTwo
  <2>5. c[1] <= t + Window
    BY <2>2, <2>4, <1>1, <1>2
  <2> QED BY <2>2, <2>3, <2>5, <1>1, <1>2
<1> HIDE DEF t, target, middles
<1>5. CASE middles # {}
  <2>1. middles \in SUBSET Nat
    BY <1>4
  <2>2. \E m \in middles : best(m)
    <3>1. target \in Int
      BY <1>2
    <3> QED BY <1>5, <2>1, <3>1, Nearest
  <2> HIDE DEF best
  <2>3. (CHOOSE m \in middles : best(m)) \in middles
    BY <2>2
  <2>4. NextSplit(silences, prev, i) \in middles
    BY <1>3, <1>5, <2>3
  <2> QED BY <2>4, <1>1, <1>4 DEF t
<1>6. CASE middles = {}
  <2> DEFINE low == Min({target, 2 * (total - MinGap)})
  <2>1. /\ target \in Int /\ 2 * (total - MinGap) \in Int
        /\ prev + 2 * MinGap \in Nat
    BY <1>1, <1>2
  <2>2. low = IF target <= 2 * (total - MinGap) THEN target ELSE 2 * (total - MinGap)
    BY <2>1, MinOfTwo
  <2> HIDE DEF low
  <2>3. low \in Int /\ low <= target /\ low <= 2 * (total - MinGap)
    BY <2>1, <2>2
  <2>4. fallback = IF prev + 2 * MinGap <= low THEN low ELSE prev + 2 * MinGap
    <3>1. fallback = Max({prev + 2 * MinGap, low})
      BY DEF low
    <3> HIDE DEF fallback
    <3> QED BY <2>1, <2>3, <3>1, MaxOfTwo
  <2>5. NextSplit(silences, prev, i) = fallback
    BY <1>3, <1>6
  <2> HIDE DEF fallback
  <2>6. /\ fallback \in Nat /\ fallback >= prev + 2 * MinGap
        /\ fallback <= prev + 2 * MinGap \/ fallback <= 2 * (total - MinGap)
        /\ fallback <= prev + 2 * MinGap \/ fallback <= 2 * t
    BY <2>1, <2>3, <2>4, <1>2
  <2> QED BY <2>5, <2>6 DEF t
<1> QED BY <1>5, <1>6

\* A window around a target leaves room for the gaps of the splits that follow.
LEMMA RoomForGaps ==
    ASSUME NEW c \in Nat \ {0}, NEW g \in Nat \ {0}, NEW w \in Nat, w + 4 * g <= c + 1,
           NEW n \in Nat, NEW i \in Nat, i + 2 <= n
    PROVE  i * c + w + 2 * (g * (n - i)) <= (n - 1) * c + 1
<1> DEFINE k == n - 1 - i
<1>1. k \in Nat /\ k - 1 \in Nat /\ n - i = k + 1 /\ n - 1 = i + k
  OBVIOUS
<1>2. c - w - 4 * g + 1 \in Nat /\ 2 * g - 1 \in Nat
  OBVIOUS
<1> HIDE DEF k
<1>3. /\ k * (c - w - 4 * g + 1) \in Nat
      /\ (k - 1) * w \in Nat /\ (k - 1) * (2 * g - 1) \in Nat
  BY <1>1, <1>2
<1>4. k * c + 1 = w + 2 * (g * (k + 1)) + k * (c - w - 4 * g + 1)
                    + (k - 1) * w + (k - 1) * (2 * g - 1)
  BY <1>1
<1>5. (i + k) * c = i * c + k * c
  BY <1>1
<1>6. i * c \in Nat /\ k * c \in Nat /\ g * (k + 1) \in Nat
  BY <1>1
<1> QED BY <1>1, <1>3, <1>4, <1>5, <1>6

\* SplitPoints is the recursion it is written as.
LEMMA SplitPointsDef ==
    ASSUME NEW silences \in SUBSET Silences, total \in Nat, NumChunks \in Nat \ {0}
    PROVE  /\ SplitPoints(silences) \in [0..(NumChunks - 1) -> Nat]
           /\ SplitPoints(silences)[0] = 0
           /\ \A i \in 1..(NumChunks - 1) :
                  SplitPoints(silences)[i] = NextSplit(silences, SplitPoints(silences)[i - 1], i)
<1> DEFINE n == NumChunks - 1
           step == [i \in 0 + 1..n |-> [prev \in Nat |-> NextSplit(silences, prev, i)]]
<1>1. n \in Nat
  OBVIOUS
<1>2. \A prev \in Nat, i \in 0 + 1..n : NextSplit(silences, prev, i) \in Nat
  BY <1>1, NextSplitBounds
<1>3. step \in [0 + 1..n -> [Nat -> Nat]]
  BY <1>2
<1>4. PICK h : Iteration(h, 0, n, Nat, 0, step)
  <2>1. 0 \in Int /\ n \in Int /\ 0 <= n /\ 0 \in Nat
    BY <1>1
  <2> HIDE DEF step, n
  <2> QED BY <1>3, <2>1, Iterates
<1>5. \A k \in 0..n : h[k] = IF k = 0 THEN 0 ELSE NextSplit(silences, h[k - 1], k)
  <2> SUFFICES ASSUME NEW k \in 0..n, k # 0  PROVE h[k] = NextSplit(silences, h[k - 1], k)
    BY <1>4 DEF Iteration
  <2>1. k \in 0 + 1..n /\ h[k - 1] \in Nat
    BY <1>4 DEF Iteration
  <2> QED BY <2>1, <1>4 DEF Iteration
<1>6. h = [i \in 0..n |-> IF i = 0 THEN 0 ELSE NextSplit(silences, h[i - 1], i)]
  BY <1>4, <1>5 DEF Iteration
<1> DEFINE f == CHOOSE f : f = [i \in 0..n |-> IF i = 0 THEN 0
                                               ELSE NextSplit(silences, f[i - 1], i)]
<1>7. SplitPoints(silences) = f
  BY DEF SplitPoints
<1>8. f = [i \in 0..n |-> IF i = 0 THEN 0 ELSE NextSplit(silences, f[i - 1], i)]
  BY <1>6
<1> HIDE DEF f
<1>9. \A i \in 0..n : f[i] = IF i = 0 THEN 0 ELSE NextSplit(silences, f[i - 1], i)
  BY <1>8, Zenon
<1>10. f[0] = 0 /\ \A i \in 1..n : f[i] = NextSplit(silences, f[i - 1], i)
  BY <1>1, <1>9
<1> DEFINE S == {i \in 0..n : f[i] \in Nat}
<1>11. 0..n \subseteq S
  <2>1. 0 \in S
    BY <1>1, <1>10
  <2>2. \A i \in 0..(n - 1) : i \in S => i + 1 \in S
    <3> SUFFICES ASSUME NEW i \in 0..(n - 1), f[i] \in Nat
                 PROVE  i + 1 \in 0..n /\ f[i + 1] \in Nat
      BY <1>1
    <3>1. i + 1 \in 1..n /\ (i + 1) - 1 = i /\ i + 1 \in 0 + 1..n /\ i + 1 \in 0..n
      BY <1>1
    <3> QED BY <3>1, <1>2, <1>10
  <2>3. 0 \in Int /\ n \in Int
    BY <1>1
  <2> HIDE DEF S
  <2> QED BY <2>1, <2>2, <2>3, FromTo
<1>12. f \in [0..n -> Nat]
  <2>1. \A i \in 0..n : f[i] \in Nat
    BY <1>11
  <2> HIDE DEF n
  <2> QED BY <1>8, <2>1
<1> QED BY <1>7, <1>10, <1>12

\* The splits are apart, and there is room for those that follow.
LEMMA SplitsApart ==
    ASSUME NEW silences \in SUBSET Silences, total \in Nat, total > 0, NumChunks \in Nat,
           NumChunks > 1, (NumChunks - 1) * ChunkLength + 1 <= total
    PROVE  LET split == SplitPoints(silences)
           IN  \A i \in 0..(NumChunks - 1) :
                   /\ i > 0 => split[i] >= split[i - 1] + 2 * MinGap
                   /\ split[i] <= 2 * total - 2 * (MinGap * (NumChunks - i))
<1> DEFINE n == NumChunks
           split == SplitPoints(silences)
           gaps(i) == MinGap * (n - i)
           S == {i \in 0..(n - 1) :
                    /\ i > 0 => split[i] >= split[i - 1] + 2 * MinGap
                    /\ split[i] <= 2 * total - 2 * gaps(i)}
<1>1. MinGap \in Nat \ {0} /\ ChunkLength \in Nat \ {0} /\ Window \in Nat
      /\ Window + 4 * MinGap <= ChunkLength + 1
  BY ConstantTypes
<1>2. /\ split \in [0..(n - 1) -> Nat] /\ split[0] = 0
      /\ \A i \in 1..(n - 1) : split[i] = NextSplit(silences, split[i - 1], i)
  <2>1. NumChunks \in Nat \ {0}
    OBVIOUS
  <2> QED BY <2>1, SplitPointsDef
<1>3. \A i \in 0..(n - 1) : gaps(i) \in Nat /\ (i > 0 => gaps(i - 1) = gaps(i) + MinGap)
  BY <1>1
<1>4. gaps(n - 1) = MinGap
  BY <1>1
<1>5. ASSUME NEW i \in 0..(n - 1), i + 2 <= n
      PROVE  i * ChunkLength \in Nat /\ i * ChunkLength + Window + 2 * gaps(i) <= total
  <2>1. i * ChunkLength + Window + 2 * gaps(i) <= (n - 1) * ChunkLength + 1
    BY <1>1, <1>5, RoomForGaps
  <2>2. (n - 1) * ChunkLength \in Nat /\ i * ChunkLength \in Nat
    BY <1>1
  <2>3. gaps(i) \in Nat
    BY <1>3
  <2> HIDE DEF gaps
  <2> QED BY <2>1, <2>2, <2>3, <1>1
<1> HIDE DEF split, gaps
<1>6. 0 \in S
  <2>1. 0 \in 0..(n - 1) /\ 0 + 2 <= n /\ 0 * ChunkLength = 0
    BY <1>1
  <2>2. 2 * gaps(0) <= total /\ gaps(0) \in Nat
    BY <1>1, <1>3, <1>5, <2>1
  <2> QED BY <1>2, <2>1, <2>2
<1>7. ASSUME NEW i \in 0..((n - 1) - 1), i \in S  PROVE i + 1 \in S
  <2> DEFINE m == split[i + 1]
             t == (i + 1) * ChunkLength
  <2>1. i + 1 \in 1..(n - 1) /\ i + 1 \in 0..(n - 1) /\ (i + 1) - 1 = i /\ i + 1 \in Nat
        /\ i \in 0..(n - 1)
    OBVIOUS
  <2>2. split[i] \in Nat /\ split[i] <= 2 * total - 2 * gaps(i) /\ m \in Nat
        /\ m = NextSplit(silences, split[i], i + 1)
    BY <1>2, <1>7, <2>1
  <2>3. /\ m >= split[i] + 2 * MinGap
        /\ m <= split[i] + 2 * MinGap \/ m <= 2 * (total - MinGap)
        /\ \/ m <= split[i] + 2 * MinGap
           \/ m <= 2 * t
           \/ m <= total + t + Window
    BY <2>1, <2>2, NextSplitBounds
  <2>4. gaps(i) = gaps(i + 1) + MinGap /\ gaps(i) \in Nat /\ gaps(i + 1) \in Nat
    BY <1>3, <2>1
  <2> HIDE DEF m
  <2>5. m <= 2 * total - 2 * gaps(i + 1)
    <3>1. CASE m <= split[i] + 2 * MinGap
      BY <3>1, <2>2, <2>4, <1>1
    <3>2. CASE i + 1 = n - 1 /\ m <= 2 * (total - MinGap)
      BY <3>2, <2>2, <1>1, <1>4
    <3>3. CASE i + 1 # n - 1 /\ (m <= 2 * t \/ m <= total + t + Window)
      <4>1. t \in Nat /\ t + Window + 2 * gaps(i + 1) <= total
        <5>1. (i + 1) + 2 <= n
          BY <3>3, <2>1
        <5> QED BY <5>1, <2>1, <1>5
      <4> HIDE DEF t
      <4> QED BY <4>1, <3>3, <2>2, <2>4, <1>1
    <3> QED BY <2>3, <3>1, <3>2, <3>3
  <2> QED BY <2>1, <2>3, <2>5 DEF m
<1> HIDE DEF S
<1>8. 0..(n - 1) \subseteq S
  <2>1. 0 \in Int /\ n - 1 \in Int
    OBVIOUS
  <2> HIDE DEF n
  <2> QED BY <2>1, <1>6, <1>7, FromTo
<1> QED BY <1>8 DEF S, split, gaps

\* Boundaries are apart when there are silences to split at, and in order when
\* there are none.
LEMMA BoundariesApart ==
    ASSUME NEW silences \in SUBSET Silences, total \in Nat, total > 0
    PROVE  LET b == Boundaries(silences)
           IN  /\ NumChunks \in Nat \ {0}
               /\ b \in [1..NumChunks + 1 -> Nat]
               /\ b[1] = 0 /\ b[NumChunks + 1] = 2 * total
               /\ \A i \in 1..NumChunks :
                      b[i + 1] - b[i] >= IF silences # {} /\ NumChunks > 1
                                         THEN 2 * MinGap ELSE 1
<1> DEFINE n == NumChunks
           b == Boundaries(silences)
           at(i) == IF i = n THEN 2 * total
                    ELSE IF silences = {} THEN 2 * Min({i * ChunkLength, total})
                    ELSE SplitPoints(silences)[i]
           gap == IF silences # {} /\ n > 1 THEN 2 * MinGap ELSE 1
<1>1. MinGap \in Nat \ {0} /\ ChunkLength \in Nat \ {0}
  BY ConstantTypes
<1>2. n \in Nat \ {0} /\ (n - 1) * ChunkLength + 1 <= total
  <2>1. /\ n \in Nat /\ n > 0 /\ n * ChunkLength < total + ChunkLength
    BY <1>1, CeilDivBounds DEF NumChunks
  <2>2. n * ChunkLength = (n - 1) * ChunkLength + ChunkLength /\ (n - 1) * ChunkLength \in Int
    BY <1>1, <2>1
  <2> HIDE DEF n
  <2> QED BY <1>1, <2>1, <2>2
<1>3. b = [i \in 1..n + 1 |-> at(i - 1)]
  BY DEF Boundaries
<1>4. at(n) = 2 * total
  OBVIOUS
<1>5. at(0) = 0
  <2>1. 0 * ChunkLength = 0 /\ Min({0, total}) = 0
    BY <1>1, MinOfTwo
  <2>2. SplitPoints(silences)[0] = 0
    BY <1>2, SplitPointsDef
  <2> QED BY <1>2, <2>1, <2>2
<1>6. ASSUME NEW i \in 0..n  PROVE at(i) \in Nat
  <2>1. CASE i = n
    BY <2>1
  <2>2. CASE i # n /\ silences = {}
    <3>1. i * ChunkLength \in Nat
      BY <1>1, <1>2
    <3>2. Min({i * ChunkLength, total}) \in Nat
      BY <3>1, MinOfTwo
    <3> QED BY <2>2, <3>2
  <2>3. CASE i # n /\ silences # {}
    <3>1. i \in 0..(n - 1)
      BY <2>3, <1>2
    <3>2. SplitPoints(silences)[i] \in Nat
      BY <3>1, <1>2, SplitPointsDef
    <3> QED BY <2>3, <3>2
  <2> QED BY <2>1, <2>2, <2>3
<1>7. ASSUME NEW i \in 0..(n - 1)  PROVE at(i + 1) - at(i) >= gap
  <2>0. i \in 0..n /\ i + 1 \in 0..n /\ i # n
    BY <1>2
  <2>1. CASE n = 1
    BY <2>1, <1>4, <1>5
  <2>2. CASE n > 1 /\ silences = {}
    <3>1. \A j \in 0..(n - 1) : /\ j * ChunkLength \in Nat
                                /\ j * ChunkLength <= (n - 1) * ChunkLength
                                /\ (j + 1) * ChunkLength = j * ChunkLength + ChunkLength
      <4> SUFFICES ASSUME NEW j \in 0..(n - 1)
                   PROVE  /\ j * ChunkLength \in Nat
                          /\ j * ChunkLength <= (n - 1) * ChunkLength
                          /\ (j + 1) * ChunkLength = j * ChunkLength + ChunkLength
        OBVIOUS
      <4>1. j * ChunkLength \in Nat /\ (n - 1 - j) * ChunkLength \in Nat
        BY <1>1, <1>2
      <4>2. (n - 1) * ChunkLength = j * ChunkLength + (n - 1 - j) * ChunkLength
        BY <1>1, <1>2
      <4>3. (j + 1) * ChunkLength = j * ChunkLength + ChunkLength
        BY <1>1
      <4>4. (n - 1) * ChunkLength \in Nat
        BY <1>1, <1>2
      <4> HIDE DEF n
      <4> QED BY <4>1, <4>2, <4>3, <4>4
    <3>2. \A j \in 0..(n - 1) : at(j) = 2 * (j * ChunkLength)
      <4> SUFFICES ASSUME NEW j \in 0..(n - 1)  PROVE at(j) = 2 * (j * ChunkLength)
        OBVIOUS
      <4>1. j * ChunkLength \in Nat /\ j * ChunkLength <= total
        <5>1. (n - 1) * ChunkLength \in Int
          BY <1>1, <1>2
        <5> QED BY <5>1, <3>1, <1>2
      <4>2. Min({j * ChunkLength, total}) = j * ChunkLength
        BY <4>1, MinOfTwo
      <4>3. j # n
        BY <1>2
      <4> QED BY <4>2, <4>3, <2>2
    <3>3. gap = 1
      BY <2>2
    <3>4. CASE i + 1 = n
      <4>1. at(i) = 2 * (i * ChunkLength) /\ i * ChunkLength \in Nat
            /\ i * ChunkLength + 1 <= total
        <5>1. i = n - 1
          BY <3>4, <1>2
        <5> QED BY <5>1, <3>1, <3>2, <1>2
      <4>2. at(i + 1) = 2 * total
        BY <3>4
      <4> HIDE DEF at
      <4> QED BY <4>1, <4>2, <3>3
    <3>5. CASE i + 1 # n
      <4>1. i + 1 \in 0..(n - 1)
        BY <3>5, <1>2
      <4>2. /\ at(i) = 2 * (i * ChunkLength) /\ at(i + 1) = 2 * ((i + 1) * ChunkLength)
            /\ (i + 1) * ChunkLength = i * ChunkLength + ChunkLength
            /\ i * ChunkLength \in Nat
        BY <4>1, <3>1, <3>2
      <4> HIDE DEF at
      <4> QED BY <4>2, <1>1, <3>3
    <3> QED BY <3>4, <3>5
  <2>3. CASE n > 1 /\ silences # {}
    <3> DEFINE split == SplitPoints(silences)
    <3>1. \A j \in 0..(n - 1) :
             /\ j > 0 => split[j] >= split[j - 1] + 2 * MinGap
             /\ split[j] <= 2 * total - 2 * (MinGap * (n - j))
      BY <1>2, <2>3, SplitsApart
    <3>2. \A j \in 0..(n - 1) : at(j) = split[j] /\ split[j] \in Nat
      <4>1. \A j \in 0..(n - 1) : j # n
        BY <1>2
      <4> QED BY <4>1, <1>2, <2>3, SplitPointsDef
    <3>3. gap = 2 * MinGap
      BY <2>3
    <3> HIDE DEF split, at
    <3>4. CASE i + 1 = n
      <4>1. MinGap * (n - i) = MinGap
        BY <3>4, <1>1, <1>2
      <4>2. split[i] <= 2 * total - 2 * MinGap
        BY <4>1, <3>1
      <4> QED BY <4>2, <3>2, <3>3, <3>4, <1>1, <1>4
    <3>5. CASE i + 1 # n
      <4>1. i + 1 \in 0..(n - 1) /\ (i + 1) - 1 = i /\ i + 1 > 0
        BY <3>5, <1>2
      <4>2. split[i + 1] >= split[i] + 2 * MinGap
        BY <3>1, <4>1
      <4> QED BY <4>1, <4>2, <3>2, <3>3, <1>1
    <3> QED BY <3>4, <3>5
  <2> QED BY <2>1, <2>2, <2>3, <1>2
<1> HIDE DEF at
<1>8. b \in [1..n + 1 -> Nat]
  <2>1. \A i \in 1..n + 1 : i - 1 \in 0..n
    BY <1>2
  <2> HIDE DEF n
  <2> QED BY <2>1, <1>3, <1>6
<1>9. \A i \in 1..n + 1 : b[i] = at(i - 1)
  BY <1>3, Zenon
<1> HIDE DEF b
<1>10. b[1] = 0 /\ b[n + 1] = 2 * total
  <2>1. 1 \in 1..n + 1 /\ n + 1 \in 1..n + 1 /\ 1 - 1 = 0 /\ (n + 1) - 1 = n
    BY <1>2
  <2> QED BY <2>1, <1>4, <1>5, <1>9
<1>11. ASSUME NEW i \in 1..n  PROVE b[i + 1] - b[i] >= gap
  <2>1. i - 1 \in 0..(n - 1) /\ i \in 1..n + 1 /\ i + 1 \in 1..n + 1 /\ (i + 1) - 1 = (i - 1) + 1
    BY <1>2
  <2>2. b[i] = at(i - 1) /\ b[i + 1] = at((i - 1) + 1)
    BY <2>1, <1>9
  <2> HIDE DEF gap
  <2> QED BY <2>1, <2>2, <1>7
<1> QED BY <1>2, <1>8, <1>10, <1>11 DEF b

\* The boundaries of app.py are where they should be in recordings of any
\* length, for chunks, windows and gaps of any length that fit together.
THEOREM BoundariesSpreadAlways == Spec => []BoundariesSpread
<1>1. Recorded => BoundariesSpread
  <2> SUFFICES ASSUME Recorded, total > 0, NEW silences \in {Pauses, {}}
               PROVE  LET b == Boundaries(silences)
                      IN  /\ b[1] = 0 /\ Last(b) = 2 * total
                          /\ Len(b) = NumChunks + 1
                          /\ \A i \in 1..(Len(b) - 1) :
                                 b[i + 1] - b[i] >= IF silences # {} /\ NumChunks > 1
                                                    THEN 2 * MinGap ELSE 1
    BY Zenon DEF BoundariesSpread
  <2>1. silences \in SUBSET Silences /\ total \in Nat
    BY PausesAreSilences DEF Recorded
  <2> DEFINE b == Boundaries(silences)
  <2>2. /\ NumChunks \in Nat \ {0}
        /\ b \in [1..NumChunks + 1 -> Nat]
        /\ b[1] = 0 /\ b[NumChunks + 1] = 2 * total
        /\ \A i \in 1..NumChunks :
               b[i + 1] - b[i] >= IF silences # {} /\ NumChunks > 1
                                  THEN 2 * MinGap ELSE 1
    BY <2>1, BoundariesApart
  <2> HIDE DEF b
  <2>3. Len(b) = NumChunks + 1 /\ Last(b) = b[NumChunks + 1] /\ (NumChunks + 1) - 1 = NumChunks
    BY <2>2 DEF Last
  <2> QED BY <2>2, <2>3, Zenon DEF b
<1> QED BY <1>1, RecordedAlways, PTL

-----------------------------------------------------------------------------
(***************************************************************************)
(* Words put back together.                                                *)
(***************************************************************************)
\* Tell, with numbers: words that begin at these times, one after another.
Told(words, times) ==
    /\ words \in Seq(Int \X Int)
    /\ {words[i][1] : i \in 1..Len(words)} = times
    /\ \A i, j \in 1..Len(words) : i < j => words[i][1] < words[j][1]
    /\ \A i \in 1..Len(words) : words[i][1] <= words[i][2]

\* Beginnings of words: times in order.
Starts(starts, times) ==
    /\ starts \in Seq(Int)
    /\ {starts[i] : i \in 1..Len(starts)} = times
    /\ \A i, j \in 1..Len(starts) : i < j => starts[i] < starts[j]

LEMMA ToldTells ==
    ASSUME NEW words, NEW times, Told(words, times)
    PROVE  Tell(words, times)
<1>1. DOMAIN words = 1..Len(words) /\ ToSet(words) = {words[i] : i \in 1..Len(words)}
  BY DEF Told, ToSet
<1>2. {w[1] : w \in ToSet(words)} = {words[i][1] : i \in 1..Len(words)}
  BY <1>1
<1> QED BY <1>1, <1>2 DEF Told, Tell

\* Words after words.
LEMMA ToldConcat ==
    ASSUME NEW v, NEW w, NEW S, NEW U, Told(v, S), Told(w, U),
           \A s \in S, t \in U : s < t
    PROVE  Told(v \o w, S \cup U)
<1> DEFINE u == v \o w
<1>1. PICK m \in Nat, n \in Nat : m = Len(v) /\ n = Len(w)
  BY DEF Told
<1>2. /\ u \in Seq(Int \X Int) /\ Len(u) = m + n
      /\ \A i \in 1..m : u[i] = v[i]
      /\ \A i \in 1..n : u[m + i] = w[i]
  BY <1>1 DEF Told
<1> HIDE DEF u
<1>3. \A i \in 1..m + n : i \in 1..m \/ \E k \in 1..n : i = m + k
  <2> SUFFICES ASSUME NEW i \in 1..m + n, i \notin 1..m  PROVE \E k \in 1..n : i = m + k
    OBVIOUS
  <2>1. i - m \in 1..n /\ i = m + (i - m)
    OBVIOUS
  <2> QED BY <2>1
<1>4. /\ \A i \in 1..m : v[i][1] \in S /\ v[i][1] <= v[i][2]
      /\ \A i \in 1..n : w[i][1] \in U /\ w[i][1] <= w[i][2]
      /\ \A s \in S : \E i \in 1..m : v[i][1] = s
      /\ \A t \in U : \E i \in 1..n : w[i][1] = t
  BY <1>1 DEF Told
<1>5. \A i \in 1..m : i \in 1..m + n
  OBVIOUS
<1>6. \A i \in 1..n : m + i \in 1..m + n
  OBVIOUS
<1>7. {u[i][1] : i \in 1..m + n} = S \cup U
  <2>1. ASSUME NEW i \in 1..m + n  PROVE u[i][1] \in S \cup U
    <3>1. CASE i \in 1..m
      BY <3>1, <1>2, <1>4
    <3>2. ASSUME NEW k \in 1..n, i = m + k  PROVE u[i][1] \in S \cup U
      <4>1. u[i] = w[k] /\ w[k][1] \in U
        BY <3>2, <1>2, <1>4
      <4> QED BY <4>1
    <3> QED BY <3>1, <3>2, <1>3
  <2>2. ASSUME NEW s \in S  PROVE \E i \in 1..m + n : u[i][1] = s
    BY <1>2, <1>4, <1>5, Zenon
  <2>3. ASSUME NEW t \in U  PROVE \E i \in 1..m + n : u[i][1] = t
    <3>1. PICK k \in 1..n : w[k][1] = t
      BY <1>4
    <3>2. m + k \in 1..m + n /\ u[m + k][1] = t
      BY <3>1, <1>2, <1>6
    <3> QED BY <3>2
  <2> QED BY <2>1, <2>2, <2>3
<1>8. ASSUME NEW i \in 1..m + n  PROVE u[i][1] <= u[i][2]
  <2>1. CASE i \in 1..m
    BY <2>1, <1>2, <1>4
  <2>2. ASSUME NEW k \in 1..n, i = m + k  PROVE u[i][1] <= u[i][2]
    <3>1. u[i] = w[k] /\ w[k][1] <= w[k][2]
      BY <2>2, <1>2, <1>4
    <3> QED BY <3>1
  <2> QED BY <2>1, <2>2, <1>3
<1>9. ASSUME NEW i \in 1..m + n, NEW j \in 1..m + n, i < j  PROVE u[i][1] < u[j][1]
  <2>1. CASE i \in 1..m /\ j \in 1..m
    BY <2>1, <1>1, <1>2, <1>9 DEF Told
  <2>2. ASSUME NEW k \in 1..n, j = m + k, i \in 1..m  PROVE u[i][1] < u[j][1]
    BY <2>2, <1>2, <1>4
  <2>3. ASSUME NEW l \in 1..n, NEW k \in 1..n, i = m + l, j = m + k  PROVE u[i][1] < u[j][1]
    <3>1. l < k
      BY <2>3, <1>9
    <3> QED BY <2>3, <3>1, <1>1, <1>2 DEF Told
  <2>4. ASSUME NEW l \in 1..n, i = m + l, j \in 1..m  PROVE FALSE
    BY <2>4, <1>9
  <2> QED BY <2>1, <2>2, <2>3, <2>4, <1>3
<1>10. Told(u, S \cup U)
  BY <1>2, <1>7, <1>8, <1>9 DEF Told
<1> QED BY <1>10 DEF u

\* The words of the ranges of a run, one range after another.
LEMMA ToldFlatten ==
    ASSUME NEW r, NEW a \in Int, NEW b \in Int, Run(r, a, b),
           NEW times \in SUBSET Int, NEW seqs, DOMAIN seqs = 1..Len(r),
           seqs = [i \in 1..Len(r) |-> seqs[i]],
           \A i \in 1..Len(r) : Told(seqs[i], {t \in times : r[i][1] <= t /\ t < r[i][2]})
    PROVE  Told(FlattenSeq(seqs), {t \in times : a <= t /\ t < b})
<1>1. PICK n \in Nat \ {0} : n = Len(r)
  <2>1. r \in Seq(Int \X Int) /\ Len(r) > 0
    BY DEF Run
  <2>2. Len(r) \in Nat \ {0}
    BY ONLY <2>1
  <2> QED BY ONLY <2>2
<1>2. \A k \in 1..n : r[k][1] \in Int /\ r[k][2] \in Int /\ r[k][1] < r[k][2]
  BY <1>1 DEF Run
<1>3. \A k \in 1..n - 1 : r[k][2] = r[k + 1][1]
  BY <1>1 DEF Run
<1>4. r[1][1] = a /\ r[n][2] = b
  BY <1>1 DEF Run
<1>5. seqs \in Seq(Seq(Int \X Int)) /\ Len(seqs) = n
  <2>1. \A i \in 1..n : seqs[i] \in Seq(Int \X Int)
    BY <1>1 DEF Told
  <2>2. seqs \in [1..n -> Seq(Int \X Int)]
    BY <2>1, <1>1
  <2> QED BY <2>2
<1>6. PICK f : /\ FlattenSeq(seqs) = f[n]
               /\ f[1] = seqs[1]
               /\ \A i \in 2..n : f[i] = f[i - 1] \o seqs[i]
  <2>1. Len(seqs) > 0
    BY <1>5
  <2>2. \E f : /\ FlattenSeq(seqs) = f[Len(seqs)]
               /\ f[1] = seqs[1]
               /\ \A i \in 2..Len(seqs) : f[i] = f[i - 1] \o seqs[i]
    BY <1>5, <2>1, FlattenDef, Zenon
  <2> QED BY <1>5, <2>2, Zenon
<1> DEFINE upto(i) == {t \in times : a <= t /\ t < r[i][2]}
           in(i) == {t \in times : r[i][1] <= t /\ t < r[i][2]}
           S == {i \in 1..n : Told(f[i], upto(i))}
<1>7. 1 \in S
  <2>1. 1 \in 1..n /\ upto(1) = in(1) /\ Told(seqs[1], in(1))
    BY <1>1, <1>4
  <2> HIDE DEF upto, in
  <2> QED BY <2>1, <1>6
<1>8. \A i \in 1..(n - 1) : i \in S => i + 1 \in S
  <2> SUFFICES ASSUME NEW i \in 1..(n - 1), Told(f[i], upto(i))
               PROVE  i + 1 \in 1..n /\ Told(f[i + 1], upto(i + 1))
    OBVIOUS
  <2>1. i + 1 \in 2..n /\ i + 1 \in 1..n /\ i \in 1..n /\ (i + 1) - 1 = i /\ 1 \in 1..n
    OBVIOUS
  <2>2. f[i + 1] = f[i] \o seqs[i + 1]
    BY <1>6, <2>1
  <2>3. Told(seqs[i + 1], in(i + 1))
    BY <1>1, <2>1
  <2>4. ASSUME NEW s \in upto(i), NEW t \in in(i + 1)  PROVE s < t
    <3>1. s \in Int /\ t \in Int /\ s < r[i][2] /\ r[i + 1][1] <= t
      OBVIOUS
    <3>2. r[i][2] = r[i + 1][1] /\ r[i][2] \in Int
      BY <1>2, <1>3, <2>1
    <3> QED BY ONLY <3>1, <3>2
  <2>5. upto(i + 1) = upto(i) \cup in(i + 1)
    <3>1. a <= r[i][1]
      BY <1>1, <1>4, <2>1, RunOrder
    <3>2. /\ r[i][2] = r[i + 1][1] /\ r[i][1] < r[i][2] /\ r[i + 1][1] < r[i + 1][2]
          /\ r[i][1] \in Int /\ r[i][2] \in Int /\ r[i + 1][2] \in Int
      BY <1>2, <1>3, <2>1
    <3>3. ASSUME NEW t \in times
          PROVE  t \in upto(i + 1) <=> t \in upto(i) \/ t \in in(i + 1)
      <4>1. t \in Int
        OBVIOUS
      <4>2. (a <= t /\ t < r[i + 1][2]) <=> (\/ a <= t /\ t < r[i][2]
                                             \/ r[i + 1][1] <= t /\ t < r[i + 1][2])
        BY ONLY <3>1, <3>2, <4>1, a \in Int
      <4> QED BY <4>2, Zenon
    <3>4. upto(i + 1) \subseteq times /\ upto(i) \subseteq times /\ in(i + 1) \subseteq times
      BY Zenon
    <3> HIDE DEF upto, in
    <3> QED BY <3>3, <3>4
  <2> HIDE DEF upto, in
  <2>6. Told(f[i] \o seqs[i + 1], upto(i) \cup in(i + 1))
    BY <2>3, <2>4, ToldConcat
  <2> QED BY <2>1, <2>2, <2>5, <2>6
<1> HIDE DEF S
<1>9. 1..n \subseteq S
  <2>1. 1 \in Int /\ n \in Int
    OBVIOUS
  <2> QED BY <2>1, <1>7, <1>8, FromTo
<1>10. n \in S
  BY <1>9
<1> QED BY <1>4, <1>6, <1>10 DEF S

\* Words of a piece, moved to where the piece begins.
LEMMA ToldShifted ==
    ASSUME NEW words, NEW from \in Int, NEW to \in Int, NEW spoken \in SUBSET Int,
           Told(words, {t \in 0..(to - from - 1) : from + t \in spoken})
    PROVE  Told(Shifted(words, from), {t \in spoken : from <= t /\ t < to})
<1> DEFINE w == Shifted(words, from)
           U == {t \in 0..(to - from - 1) : from + t \in spoken}
           moved == {t \in spoken : from <= t /\ t < to}
<1>1. PICK n \in Nat : n = Len(words) /\ DOMAIN words = 1..n
  BY DEF Told
<1>2. \A i \in 1..n : /\ words[i][1] \in Int /\ words[i][2] \in Int
                      /\ words[i][1] \in U /\ words[i][1] <= words[i][2]
  BY <1>1 DEF Told
<1>3. w = [i \in 1..n |-> <<words[i][1] + from, words[i][2] + from>>]
  BY <1>1 DEF Shifted
<1> HIDE DEF w
<1>4. /\ w \in Seq(Int \X Int) /\ Len(w) = n
      /\ \A i \in 1..n : w[i][1] = words[i][1] + from /\ w[i][2] = words[i][2] + from
  BY <1>2, <1>3
<1>5. \A i, j \in 1..n : i < j => words[i][1] < words[j][1]
  BY <1>1 DEF Told
<1>6. \A t \in U : \E i \in 1..n : words[i][1] = t
  BY <1>1 DEF Told
<1>7. {w[i][1] : i \in 1..n} = moved
  <2>1. ASSUME NEW i \in 1..n  PROVE w[i][1] \in moved
    <3>1. /\ words[i][1] \in 0..(to - from - 1) /\ from + words[i][1] \in spoken
          /\ w[i][1] = words[i][1] + from
      BY <1>2, <1>4
    <3>2. w[i][1] = from + words[i][1] /\ from <= w[i][1] /\ w[i][1] < to
      BY <3>1
    <3> QED BY <3>1, <3>2
  <2>2. ASSUME NEW t \in moved  PROVE \E i \in 1..n : w[i][1] = t
    <3>1. t - from \in U
      BY <2>2
    <3>2. PICK i \in 1..n : words[i][1] = t - from
      BY <3>1, <1>6
    <3>3. w[i][1] = t
      BY <3>2, <1>4
    <3> QED BY <3>3
  <2> QED BY <2>1, <2>2
<1> HIDE DEF U, moved
<1>8. Told(w, moved)
  <2>1. ASSUME NEW i \in 1..n  PROVE w[i][1] <= w[i][2]
    <3>1. /\ words[i][1] \in Int /\ words[i][2] \in Int /\ words[i][1] <= words[i][2]
          /\ w[i][1] = words[i][1] + from /\ w[i][2] = words[i][2] + from
      BY <1>2, <1>4, Zenon
    <3> QED BY <3>1
  <2>2. ASSUME NEW i \in 1..n, NEW j \in 1..n, i < j  PROVE w[i][1] < w[j][1]
    <3>1. /\ words[i][1] \in Int /\ words[j][1] \in Int /\ words[i][1] < words[j][1]
          /\ w[i][1] = words[i][1] + from /\ w[j][1] = words[j][1] + from
      BY <1>2, <1>4, <1>5, <2>2, Zenon
    <3> QED BY <3>1
  <2> QED BY <1>4, <1>7, <2>1, <2>2, Zenon DEF Told
<1> QED BY <1>8 DEF w, moved

\* The beginnings of words are words, whatever their ends.
LEMMA StartsTold ==
    ASSUME NEW starts, NEW times, Starts(starts, times), NEW words,
           words = [k \in DOMAIN starts |-> words[k]],
           \A k \in 1..Len(starts) :
               words[k] \in Int \X Int /\ words[k][1] = starts[k] /\ words[k][1] <= words[k][2]
    PROVE  Told(words, times)
<1>1. PICK n \in Nat : n = Len(starts) /\ DOMAIN starts = 1..n
  BY DEF Starts
<1>2. words \in Seq(Int \X Int) /\ Len(words) = n
  <2>1. words \in [1..n -> Int \X Int]
    BY <1>1
  <2> QED BY <2>1
<1>3. {words[i][1] : i \in 1..n} = times
  BY <1>1 DEF Starts
<1>4. \A i, j \in 1..n : i < j => words[i][1] < words[j][1]
  BY <1>1 DEF Starts
<1> QED BY <1>1, <1>2, <1>3, <1>4, Zenon DEF Told

\* The recognizer tells when the words of a piece begin, in the piece's time.
LEMMA TimestampsStart ==
    ASSUME NEW spoken \in SUBSET Int, NEW from \in Int, NEW to \in Int, from <= to
    PROVE  Starts(Timestamps(spoken, from, to), {t \in 0..(to - from - 1) : from + t \in spoken})
<1> DEFINE n == to - from
           Tick(s, t) == IF from + t - 1 \in spoken THEN Append(s, t - 1) ELSE s
           step == [t \in 0 + 1..n |-> [s \in Seq(Int) |-> Tick(s, t)]]
<1>1. n \in Nat
  OBVIOUS
<1> HIDE DEF n
<1>2. ASSUME NEW s \in Seq(Int), NEW t \in Int  PROVE Tick(s, t) \in Seq(Int)
  <2>1. t - 1 \in Int
    OBVIOUS
  <2> QED BY <2>1
<1>3. step \in [0 + 1..n -> [Seq(Int) -> Seq(Int)]]
  <2>1. \A t \in 0 + 1..n : t \in Int
    BY <1>1
  <2> HIDE DEF Tick
  <2> QED BY <1>2, <2>1
<1>4. PICK h : Iteration(h, 0, n, Seq(Int), <<>>, step)
  <2>1. 0 \in Int /\ n \in Int /\ 0 <= n /\ <<>> \in Seq(Int)
    BY <1>1
  <2> HIDE DEF step
  <2> QED BY <1>3, <2>1, Iterates
<1>5. \A t \in 0..n : h[t] = IF t = 0 THEN <<>> ELSE Tick(h[t - 1], t)
  <2> SUFFICES ASSUME NEW t \in 0..n, t # 0  PROVE h[t] = Tick(h[t - 1], t)
    BY <1>4 DEF Iteration
  <2>1. t \in 0 + 1..n /\ h[t - 1] \in Seq(Int)
    BY <1>1, <1>4 DEF Iteration
  <2> HIDE DEF Tick
  <2> QED BY <2>1, <1>4 DEF Iteration
<1> DEFINE Told0(f) == [t \in 0..n |-> IF t = 0 THEN <<>>
                                       ELSE IF from + t - 1 \in spoken THEN Append(f[t - 1], t - 1)
                                       ELSE f[t - 1]]
           told == CHOOSE f : f = Told0(f)
<1>6. h = Told0(h)
  BY <1>4, <1>5 DEF Iteration
<1>7. Timestamps(spoken, from, to) = told[n]
  BY DEF Timestamps, n
<1>8. told = Told0(told)
  BY <1>6
<1> HIDE DEF told
<1>9. \A t \in 0..n : told[t] = IF t = 0 THEN <<>> ELSE Tick(told[t - 1], t)
  BY <1>8, Zenon
<1> DEFINE before(t) == {u \in 0..(t - 1) : from + u \in spoken}
           S == {t \in 0..n : Starts(told[t], before(t))}
<1>10. 0 \in S
  <2>1. told[0] = <<>> /\ 0 \in 0..n
    <3>1. 0 \in 0..n
      BY <1>1
    <3> QED BY <3>1, <1>9, Zenon
  <2>2. before(0) = {}
    OBVIOUS
  <2>3. Starts(<<>>, {})
    BY DEF Starts
  <2> HIDE DEF before
  <2> QED BY <2>1, <2>2, <2>3
<1>11. ASSUME NEW t \in 0..(n - 1), t \in S  PROVE t + 1 \in S
  <2>1. t + 1 \in 0..n /\ t + 1 # 0 /\ (t + 1) - 1 = t /\ from + (t + 1) - 1 = from + t /\ t \in Nat
    BY <1>1
  <2>2. told[t + 1] = IF from + t \in spoken THEN Append(told[t], t) ELSE told[t]
    BY <1>9, <2>1
  <2>3. Starts(told[t], before(t))
    BY <1>11
  <2>4. CASE from + t \notin spoken
    <3>1. before(t + 1) = before(t)
      BY <2>4, <2>1
    <3> QED BY <3>1, <2>1, <2>2, <2>3, <2>4
  <2>5. CASE from + t \in spoken
    <3> DEFINE v == told[t]
               more == Append(v, t)
    <3>1. before(t + 1) = before(t) \cup {t}
      BY <2>5, <2>1
    <3>2. \A u \in before(t) : u \in Int /\ u < t
      BY <2>1
    <3> HIDE DEF v, before
    <3>3. Starts(v, before(t))
      BY <2>3 DEF v
    <3>4. PICK m \in Nat : m = Len(v)
      BY <3>3 DEF Starts
    <3>5. /\ more \in Seq(Int) /\ Len(more) = m + 1 /\ more[m + 1] = t
          /\ \A i \in 1..m : more[i] = v[i]
      BY <3>3, <3>4, <2>1 DEF Starts
    <3> HIDE DEF more
    <3>6. /\ \A i \in 1..m : v[i] \in before(t)
          /\ \A u \in before(t) : \E i \in 1..m : v[i] = u
          /\ \A i, j \in 1..m : i < j => v[i] < v[j]
      BY <3>3, <3>4 DEF Starts
    <3>7. {more[i] : i \in 1..m + 1} = before(t) \cup {t}
      <4>1. ASSUME NEW i \in 1..m + 1  PROVE more[i] \in before(t) \cup {t}
        BY <3>5, <3>6
      <4>2. ASSUME NEW u \in before(t) \cup {t}  PROVE \E i \in 1..m + 1 : more[i] = u
        <5>1. CASE u = t
          BY <5>1, <3>5
        <5>2. CASE u \in before(t)
          BY <5>2, <3>5, <3>6
        <5> QED BY <5>1, <5>2
      <4> QED BY <4>1, <4>2
    <3>8. \A i, j \in 1..m + 1 : i < j => more[i] < more[j]
      <4> SUFFICES ASSUME NEW i \in 1..m + 1, NEW j \in 1..m + 1, i < j
                   PROVE  more[i] < more[j]
        OBVIOUS
      <4>1. i \in 1..m
        OBVIOUS
      <4>2. CASE j = m + 1
        BY <4>1, <4>2, <3>2, <3>5, <3>6
      <4>3. CASE j \in 1..m
        BY <4>1, <4>3, <3>5, <3>6
      <4> QED BY <4>2, <4>3
    <3>9. Starts(more, before(t + 1))
      BY <3>1, <3>5, <3>7, <3>8 DEF Starts
    <3> QED BY <3>9, <2>1, <2>2, <2>5 DEF v, more
  <2> QED BY <2>4, <2>5
<1> HIDE DEF S
<1>12. 0..n \subseteq S
  <2>1. 0 \in Int /\ n \in Int
    BY <1>1
  <2> QED BY <2>1, <1>10, <1>11, FromTo
<1>13. Starts(told[n], before(n))
  <2>1. n \in 0..n
    BY <1>1
  <2> QED BY <2>1, <1>12 DEF S
<1>14. before(n) = {t \in 0..(to - from - 1) : from + t \in spoken}
  BY DEF n
<1> HIDE DEF before
<1> QED BY <1>7, <1>13, <1>14

\* Words of the ranges of a run, each moved to where its range begins.
LEMMA RunWords ==
    ASSUME NEW r, NEW a \in Int, NEW b \in Int, Run(r, a, b), NEW spoken \in SUBSET Int,
           \A t \in spoken : a <= t /\ t < b, NEW words,
           \A i \in 1..Len(r) :
               Told(words[i], {t \in 0..(r[i][2] - r[i][1] - 1) : r[i][1] + t \in spoken})
    PROVE  Told(FlattenSeq([i \in DOMAIN r |-> Shifted(words[i], r[i][1])]), spoken)
<1> DEFINE seqs == [i \in DOMAIN r |-> Shifted(words[i], r[i][1])]
<1>1. DOMAIN r = 1..Len(r) /\ \A i \in 1..Len(r) : r[i][1] \in Int /\ r[i][2] \in Int
  BY DEF Run
<1>2. ASSUME NEW i \in 1..Len(r)
      PROVE  Told(seqs[i], {t \in spoken : r[i][1] <= t /\ t < r[i][2]})
  <2>1. Told(Shifted(words[i], r[i][1]), {t \in spoken : r[i][1] <= t /\ t < r[i][2]})
    BY <1>1, ToldShifted
  <2>2. seqs[i] = Shifted(words[i], r[i][1])
    BY <1>1
  <2> QED BY <2>1, <2>2, Zenon
<1>3. DOMAIN seqs = 1..Len(r) /\ seqs = [i \in 1..Len(r) |-> seqs[i]]
  BY <1>1, Zenon
<1> HIDE DEF seqs
<1>4. Told(FlattenSeq(seqs), {t \in spoken : a <= t /\ t < b})
  BY <1>2, <1>3, ToldFlatten
<1>5. {t \in spoken : a <= t /\ t < b} = spoken
  OBVIOUS
<1> QED BY <1>4, <1>5 DEF seqs

\* Speech is within the recording, and within a run around it.
LEMMA SpokenWithin ==
    ASSUME NEW heard, Ordered(heard, total), total \in Nat
    PROVE  /\ Spoken(heard) \in SUBSET Int
           /\ \A t \in Spoken(heard) : 0 <= t /\ t < total
           /\ \A a \in Int, b \in Int :
                  (\A i \in 1..Len(heard) : a <= heard[i][1] /\ heard[i][2] <= b)
                      => \A t \in Spoken(heard) : a <= t /\ t < b
<1>1. ASSUME NEW t \in Spoken(heard)
      PROVE  \E i \in 1..Len(heard) :
                /\ t \in Int /\ heard[i][1] \in Int /\ heard[i][2] \in Int
                /\ heard[i][1] <= t /\ t < heard[i][2]
                /\ 0 <= heard[i][1] /\ heard[i][2] <= total
  <2>1. PICK i \in 1..Len(heard) : t \in heard[i][1]..(heard[i][2] - 1)
    BY DEF Spoken, ToSet, Ordered
  <2>2. /\ heard[i][1] \in Int /\ heard[i][2] \in Int
        /\ 0 <= heard[i][1] /\ heard[i][2] <= total
    BY DEF Ordered
  <2>3. t \in Int /\ heard[i][1] <= t /\ t < heard[i][2]
    BY <2>1, <2>2
  <2> QED BY <2>2, <2>3
<1>2. Spoken(heard) \in SUBSET Int
  BY <1>1
<1>3. ASSUME NEW t \in Spoken(heard), NEW a \in Int, NEW b \in Int,
             \A i \in 1..Len(heard) : a <= heard[i][1] /\ heard[i][2] <= b
      PROVE  a <= t /\ t < b
  <2>1. PICK i \in 1..Len(heard) :
           /\ t \in Int /\ heard[i][1] \in Int /\ heard[i][2] \in Int
           /\ heard[i][1] <= t /\ t < heard[i][2]
    BY <1>1
  <2>2. a <= heard[i][1] /\ heard[i][2] <= b
    BY <1>3
  <2> QED BY ONLY <2>1, <2>2, a \in Int, b \in Int
<1>4. \A i \in 1..Len(heard) : 0 <= heard[i][1] /\ heard[i][2] <= total
  BY DEF Ordered
<1>5. \A t \in Spoken(heard) : 0 <= t /\ t < total
  <2>1. 0 \in Int /\ total \in Int
    OBVIOUS
  <2> QED BY <1>3, <1>4, <2>1, Zenon
<1> QED BY <1>2, <1>3, <1>5, Zenon

\* The words of the vLLM service.
LEMMA EngineWordsTold ==
    ASSUME Recorded, total > 0
    PROVE  Told(EngineWords(Spoken(Spans), Spans), Spoken(Spans))
<1> DEFINE spoken == Spoken(Spans)
           r == SplitOnSilence(Spans)
           starts(i) == Timestamps(spoken, r[i][1], r[i][2])
           word(i) == [k \in DOMAIN starts(i) |-> <<starts(i)[k], starts(i)[k] + 1>>]
           words == [i \in DOMAIN r |-> word(i)]
<1>1. total \in Nat /\ Ordered(Spans, total)
  BY SpansAreHeard DEF Recorded, IsHeard
<1>2. spoken \in SUBSET Int /\ \A t \in spoken : 0 <= t /\ t < total
  BY <1>1, SpokenWithin
<1>3. Run(r, 0, total)
  BY SplitOnSilenceRun
<1>4. EngineWords(spoken, Spans) = FlattenSeq([i \in DOMAIN r |-> Shifted(word(i), r[i][1])])
  BY DEF EngineWords
<1> HIDE DEF spoken, r
<1>5. DOMAIN r = 1..Len(r)
      /\ \A i \in 1..Len(r) : r[i][1] \in Int /\ r[i][2] \in Int /\ r[i][1] < r[i][2]
  BY <1>3 DEF Run
<1>6. ASSUME NEW i \in 1..Len(r)
      PROVE  Told(words[i], {t \in 0..(r[i][2] - r[i][1] - 1) : r[i][1] + t \in spoken})
  <2> DEFINE times == {t \in 0..(r[i][2] - r[i][1] - 1) : r[i][1] + t \in spoken}
             s == starts(i)
             w == [k \in DOMAIN s |-> <<s[k], s[k] + 1>>]
  <2>1. Starts(s, times)
    <3>1. r[i][1] <= r[i][2] /\ r[i][1] \in Int /\ r[i][2] \in Int
      BY <1>5
    <3> QED BY <3>1, <1>2, TimestampsStart
  <2>2. words[i] = w
    BY <1>5
  <2> HIDE DEF s, times, words
  <2>3. DOMAIN s = 1..Len(s) /\ \A k \in 1..Len(s) : s[k] \in Int
    BY <2>1 DEF Starts
  <2>4. \A k \in 1..Len(s) : w[k] \in Int \X Int /\ w[k][1] = s[k] /\ w[k][1] <= w[k][2]
    BY <2>3
  <2>5. w = [k \in DOMAIN s |-> w[k]]
    OBVIOUS
  <2> HIDE DEF w
  <2>6. Told(w, times)
    BY <2>1, <2>4, <2>5, StartsTold
  <2> QED BY <2>2, <2>6 DEF times
<1>7. [i \in DOMAIN r |-> Shifted(word(i), r[i][1])]
        = [i \in DOMAIN r |-> Shifted(words[i], r[i][1])]
  BY Zenon
<1> HIDE DEF words, word
<1>8. Told(FlattenSeq([i \in DOMAIN r |-> Shifted(words[i], r[i][1])]), spoken)
  <2>1. 0 \in Int /\ total \in Int
    BY <1>1
  <2> QED BY <2>1, <1>2, <1>3, <1>6, RunWords
<1> QED BY <1>4, <1>7, <1>8 DEF spoken

\* Words ends no word before it begins.
LEMMA WordsTold ==
    ASSUME NEW starts, NEW times, Starts(starts, times)
    PROVE  Told(Words(starts), times)
<1> DEFINE w == Words(starts)
<1>1. PICK n \in Nat : n = Len(starts) /\ DOMAIN starts = 1..n
  BY DEF Starts
<1>2. /\ \A k \in 1..n : starts[k] \in Int
      /\ \A j, k \in 1..n : j < k => starts[j] < starts[k]
  BY <1>1 DEF Starts
<1>3. w = [i \in 1..n |-> <<starts[i], IF i < n THEN starts[i + 1]
                                       ELSE IF n > 1 THEN starts[i] ELSE starts[i] + 1>>]
  BY <1>1 DEF Words
<1>4. ASSUME NEW k \in 1..n
      PROVE  w[k] \in Int \X Int /\ w[k][1] = starts[k] /\ w[k][1] <= w[k][2]
  <2>1. CASE k < n
    <3>1. k + 1 \in 1..n /\ k < k + 1
      BY <2>1
    <3>2. starts[k] \in Int /\ starts[k + 1] \in Int /\ starts[k] < starts[k + 1]
      BY <3>1, <1>2
    <3>3. w[k] = <<starts[k], starts[k + 1]>>
      BY <2>1, <1>3
    <3> HIDE DEF w
    <3> QED BY <3>2, <3>3
  <2>2. CASE ~ (k < n)
    <3>1. w[k] = <<starts[k], IF n > 1 THEN starts[k] ELSE starts[k] + 1>>
      BY <2>2, <1>3
    <3> HIDE DEF w
    <3> QED BY <3>1, <1>2
  <2> QED BY <2>1, <2>2
<1>5. w = [k \in DOMAIN starts |-> w[k]]
  BY <1>1, <1>3
<1> HIDE DEF w
<1>6. Told(w, times)
  BY <1>1, <1>4, <1>5, StartsTold
<1> QED BY <1>6 DEF w

\* The words of the ONNX service.
LEMMA RouteWordsTold ==
    ASSUME Recorded, total > 0
    PROVE  Told(RouteWords(Spoken(Spans), Spans), Spoken(Spans))
<1> DEFINE spoken == Spoken(Spans)
           r == AutoChunk(Spans)
           word(i) == Words(Timestamps(spoken, r[i][1], r[i][2]))
           words == [i \in DOMAIN r |-> word(i)]
<1>1. total \in Nat /\ Ordered(Spans, total)
  BY SpansAreHeard DEF Recorded, IsHeard
<1>2. PICK a \in Int, b \in Int :
         Run(r, a, b) /\ \A i \in 1..Len(Spans) : a <= Spans[i][1] /\ Spans[i][2] <= b
  BY AutoChunkRun DEF AroundSpeech
<1>3. spoken \in SUBSET Int /\ \A t \in spoken : a <= t /\ t < b
  BY <1>1, <1>2, SpokenWithin
<1>4. RouteWords(spoken, Spans) = FlattenSeq([i \in DOMAIN r |-> Shifted(word(i), r[i][1])])
  BY DEF RouteWords
<1> HIDE DEF spoken, r
<1>5. DOMAIN r = 1..Len(r)
      /\ \A i \in 1..Len(r) : r[i][1] \in Int /\ r[i][2] \in Int /\ r[i][1] < r[i][2]
  BY <1>2 DEF Run
<1>6. ASSUME NEW i \in 1..Len(r)
      PROVE  Told(words[i], {t \in 0..(r[i][2] - r[i][1] - 1) : r[i][1] + t \in spoken})
  <2>1. r[i][1] <= r[i][2] /\ r[i][1] \in Int /\ r[i][2] \in Int
    BY <1>5
  <2>2. words[i] = Words(Timestamps(spoken, r[i][1], r[i][2]))
    BY <1>5
  <2> HIDE DEF words
  <2> QED BY <2>1, <2>2, <1>3, TimestampsStart, WordsTold
<1>7. [i \in DOMAIN r |-> Shifted(word(i), r[i][1])]
        = [i \in DOMAIN r |-> Shifted(words[i], r[i][1])]
  BY Zenon
<1> HIDE DEF words, word
<1>8. Told(FlattenSeq([i \in DOMAIN r |-> Shifted(words[i], r[i][1])]), spoken)
  BY <1>2, <1>3, <1>6, RunWords
<1> QED BY <1>4, <1>7, <1>8 DEF spoken

AppStates == [words : Seq(Int \X Int), offset : Int]

\* The words of a chunk are put behind those of the chunks before.
LEMMA AddChunkStep ==
    ASSUME NEW spoken \in SUBSET Int, NEW from \in Int, NEW to \in Int, from <= to,
           NEW s \in AppStates
    PROVE  LET next == AddChunk(s, spoken, from, to)
           IN  /\ next \in AppStates
               /\ s.offset = from => next.offset = to
               /\ s.offset = from /\ Told(s.words, {t \in spoken : t < from})
                      => Told(next.words, {t \in spoken : t < to})
<1> DEFINE w == Words(Timestamps(spoken, from, to))
           next == AddChunk(s, spoken, from, to)
           v == Shifted(w, s.offset)
<1>1. s.words \in Seq(Int \X Int) /\ s.offset \in Int
  BY DEF AppStates
<1>2. next = [words |-> s.words \o v, offset |-> s.offset + to - from]
  BY DEF AddChunk
<1>3. Told(w, {t \in 0..(to - from - 1) : from + t \in spoken})
  BY TimestampsStart, WordsTold
<1> HIDE DEF w
<1>4. v \in Seq(Int \X Int)
  <2>1. PICK n \in Nat : n = Len(w) /\ DOMAIN w = 1..n /\ w \in Seq(Int \X Int)
    BY <1>3 DEF Told
  <2>2. v = [i \in 1..n |-> <<w[i][1] + s.offset, w[i][2] + s.offset>>]
    BY <2>1 DEF Shifted
  <2>3. \A i \in 1..n : <<w[i][1] + s.offset, w[i][2] + s.offset>> \in Int \X Int
    BY <2>1, <1>1
  <2> QED BY <2>2, <2>3
<1> HIDE DEF next
<1>5. next \in AppStates /\ next.words = s.words \o v /\ next.offset = s.offset + to - from
  BY <1>1, <1>2, <1>4 DEF AppStates
<1>6. s.offset = from => next.offset = to
  BY <1>5
<1>7. ASSUME s.offset = from, Told(s.words, {t \in spoken : t < from})
      PROVE  Told(next.words, {t \in spoken : t < to})
  <2> DEFINE S == {t \in spoken : t < from}
             U == {t \in spoken : from <= t /\ t < to}
  <2>1. Told(v, U)
    BY <1>3, <1>7, ToldShifted
  <2>2. \A x \in S, y \in U : x < y
    <3> SUFFICES ASSUME NEW x \in S, NEW y \in U  PROVE x < y
      OBVIOUS
    <3>1. x \in Int /\ y \in Int /\ x < from /\ from <= y
      OBVIOUS
    <3> QED BY <3>1
  <2>3. {t \in spoken : t < to} = S \cup U
    <3>1. ASSUME NEW t \in spoken  PROVE (t < to) <=> (t < from \/ (from <= t /\ t < to))
      <4>1. t \in Int
        OBVIOUS
      <4> QED BY <4>1
    <3> QED BY <3>1
  <2> HIDE DEF S, U, v
  <2>4. Told(s.words \o v, S \cup U)
    BY <1>7, <2>1, <2>2, ToldConcat DEF S
  <2> QED BY <1>5, <2>3, <2>4
<1> QED BY <1>5, <1>6, <1>7 DEF next

\* The words of app.py.
LEMMA AppWordsTold ==
    ASSUME Recorded, total > 0, NEW silences \in SUBSET Silences
    PROVE  Told(AppWords(Spoken(Spans), silences), {2 * t : t \in Spoken(Spans)})
<1> DEFINE spoken == Spoken(Spans)
           twice == {2 * t : t \in spoken}
           b == Boundaries(silences)
           step == [i \in 0 + 1..Len(b) - 1 |->
                       [s \in AppStates |-> AddChunk(s, twice, b[i], b[i + 1])]]
           none == [words |-> <<>>, offset |-> 0]
<1>1. total \in Nat /\ Ordered(Spans, total)
  BY SpansAreHeard DEF Recorded, IsHeard
<1>2. spoken \in SUBSET Int /\ \A t \in spoken : 0 <= t /\ t < total
  BY <1>1, SpokenWithin
<1> HIDE DEF spoken
<1>3. twice \in SUBSET Int /\ \A t \in twice : 0 <= t /\ t < 2 * total
  <2> SUFFICES ASSUME NEW t \in spoken  PROVE 2 * t \in Int /\ 0 <= 2 * t /\ 2 * t < 2 * total
    OBVIOUS
  <2>1. t \in Int /\ 0 <= t /\ t < total
    BY <1>2
  <2> QED BY <2>1, <1>1
<1> HIDE DEF twice
<1>4. PICK n \in Nat :
         /\ b \in [1..n + 1 -> Nat] /\ b[1] = 0 /\ b[n + 1] = 2 * total
         /\ \A i \in 1..n : b[i] <= b[i + 1]
  <2> DEFINE gap == IF silences # {} /\ NumChunks > 1 THEN 2 * MinGap ELSE 1
  <2>1. /\ NumChunks \in Nat \ {0}
        /\ b \in [1..NumChunks + 1 -> Nat]
        /\ b[1] = 0 /\ b[NumChunks + 1] = 2 * total
        /\ \A i \in 1..NumChunks : b[i + 1] - b[i] >= gap
    BY <1>1, BoundariesApart
  <2>2. gap >= 0 /\ gap \in Int
    BY ConstantTypes
  <2> HIDE DEF b, gap
  <2>3. ASSUME NEW i \in 1..NumChunks  PROVE b[i] <= b[i + 1]
    <3>1. i \in 1..NumChunks + 1 /\ i + 1 \in 1..NumChunks + 1
      BY <2>1
    <3>2. b[i] \in Nat /\ b[i + 1] \in Nat /\ b[i + 1] - b[i] >= gap
      BY <2>1, <3>1
    <3> QED BY <2>2, <3>2
  <2> QED BY <2>1, <2>3
<1> HIDE DEF b
<1>5. Len(b) - 1 = n
  BY <1>4
<1>6. ASSUME NEW i \in 1..n
      PROVE  b[i] \in Int /\ b[i + 1] \in Int /\ b[i] <= b[i + 1]
  <2>1. i \in 1..n + 1 /\ i + 1 \in 1..n + 1
    OBVIOUS
  <2> QED BY <2>1, <1>4
<1>7. ASSUME NEW i \in 1..n, NEW s \in AppStates
      PROVE  LET next == AddChunk(s, twice, b[i], b[i + 1])
             IN  /\ next \in AppStates
                 /\ s.offset = b[i] => next.offset = b[i + 1]
                 /\ s.offset = b[i] /\ Told(s.words, {t \in twice : t < b[i]})
                        => Told(next.words, {t \in twice : t < b[i + 1]})
  BY <1>3, <1>6, AddChunkStep
<1>8. none \in AppStates
  BY DEF AppStates
<1>9. PICK h : Iteration(h, 0, n, AppStates, none, step)
  <2>1. step \in [0 + 1..n -> [AppStates -> AppStates]]
    <3>1. \A i \in 0 + 1..n : i \in 1..n
      OBVIOUS
    <3>2. \A i \in 0 + 1..n, s \in AppStates : AddChunk(s, twice, b[i], b[i + 1]) \in AppStates
      BY <1>7, <3>1
    <3> QED BY <1>5, <3>2
  <2>2. 0 \in Int /\ n \in Int /\ 0 <= n
    OBVIOUS
  <2> HIDE DEF step
  <2> QED BY <1>8, <2>1, <2>2, Iterates
<1>10. \A i \in 0..n : h[i] = IF i = 0 THEN none ELSE AddChunk(h[i - 1], twice, b[i], b[i + 1])
  <2> SUFFICES ASSUME NEW i \in 0..n, i # 0
               PROVE  h[i] = AddChunk(h[i - 1], twice, b[i], b[i + 1])
    BY <1>9 DEF Iteration
  <2>1. i \in 0 + 1..n /\ h[i - 1] \in AppStates
    BY <1>9 DEF Iteration
  <2> QED BY <2>1, <1>5, <1>9 DEF Iteration
<1> DEFINE Next0(f) == [i \in 0..(Len(b) - 1) |->
                          IF i = 0 THEN none ELSE AddChunk(f[i - 1], twice, b[i], b[i + 1])]
           after == CHOOSE f : f = Next0(f)
<1>11. h = Next0(h)
  BY <1>5, <1>9, <1>10 DEF Iteration
<1>12. AppWords(spoken, silences) = after[n].words
  <2>1. AppWords(spoken, silences) = after[Len(b) - 1].words
    BY Zenon DEF AppWords, b, twice
  <2> QED BY <2>1, <1>5
<1>13. after = Next0(after)
  BY <1>11
<1> HIDE DEF after
<1>14. \A i \in 0..n : after[i] = IF i = 0 THEN none
                                  ELSE AddChunk(after[i - 1], twice, b[i], b[i + 1])
  BY <1>5, <1>13, Zenon
<1> DEFINE upto(i) == {t \in twice : t < b[i]}
           S == {i \in 0..n : /\ after[i] \in AppStates /\ after[i].offset = b[i + 1]
                              /\ Told(after[i].words, upto(i + 1))}
<1>15. 0 \in S
  <2>1. 0 \in 0..n /\ 0 + 1 = 1
    OBVIOUS
  <2>2. after[0] = none
    BY <2>1, <1>14, Zenon
  <2>3. upto(1) = {}
    <3>1. \A t \in twice : ~ (t < b[1])
      BY <1>3, <1>4
    <3> QED BY <3>1
  <2>4. Told(<<>>, {})
    BY DEF Told
  <2>5. none.words = <<>> /\ none.offset = b[1]
    BY <1>4
  <2> HIDE DEF upto, none
  <2> QED BY <2>1, <2>2, <2>3, <2>4, <2>5, <1>8
<1>16. ASSUME NEW i \in 0..(n - 1), i \in S  PROVE i + 1 \in S
  <2>1. i + 1 \in 1..n /\ i + 1 \in 0..n /\ i + 1 # 0 /\ (i + 1) - 1 = i
    OBVIOUS
  <2>2. after[i + 1] = AddChunk(after[i], twice, b[i + 1], b[(i + 1) + 1])
    BY <2>1, <1>14
  <2>3. after[i] \in AppStates /\ after[i].offset = b[i + 1] /\ Told(after[i].words, upto(i + 1))
    BY <1>16
  <2>4. /\ after[i + 1] \in AppStates /\ after[i + 1].offset = b[(i + 1) + 1]
        /\ Told(after[i + 1].words, upto((i + 1) + 1))
    BY <2>1, <2>2, <2>3, <1>7
  <2> QED BY <2>1, <2>4
<1> HIDE DEF S
<1>17. 0..n \subseteq S
  <2>1. 0 \in Int /\ n \in Int
    OBVIOUS
  <2> QED BY <2>1, <1>15, <1>16, FromTo
<1>18. Told(after[n].words, upto(n + 1))
  <2>1. n \in 0..n
    OBVIOUS
  <2> QED BY <2>1, <1>17 DEF S
<1>19. upto(n + 1) = twice
  BY <1>3, <1>4
<1> HIDE DEF upto
<1> QED BY <1>12, <1>18, <1>19 DEF twice, spoken

\* The three services tell the words of recordings of any length where they are
\* spoken, whatever the recording is cut into.
THEOREM WordsInPlaceAlways == Spec => []WordsInPlace
<1>1. Recorded => WordsInPlace
  <2> SUFFICES ASSUME Recorded, total > 0
               PROVE  /\ Tell(EngineWords(Spoken(Spans), Spans), Spoken(Spans))
                      /\ Tell(RouteWords(Spoken(Spans), Spans), Spoken(Spans))
                      /\ \A silences \in {Pauses, {}} :
                             Tell(AppWords(Spoken(Spans), silences), {2 * t : t \in Spoken(Spans)})
    BY Zenon DEF WordsInPlace
  <2>1. Tell(EngineWords(Spoken(Spans), Spans), Spoken(Spans))
    BY EngineWordsTold, ToldTells
  <2>2. Tell(RouteWords(Spoken(Spans), Spans), Spoken(Spans))
    BY RouteWordsTold, ToldTells
  <2>3. ASSUME NEW silences \in {Pauses, {}}
        PROVE  Tell(AppWords(Spoken(Spans), silences), {2 * t : t \in Spoken(Spans)})
    <3>1. silences \in SUBSET Silences
      BY PausesAreSilences
    <3> QED BY <3>1, AppWordsTold, ToldTells
  <2> QED BY <2>1, <2>2, <2>3
<1> QED BY <1>1, RecordedAlways, PTL
=============================================================================
