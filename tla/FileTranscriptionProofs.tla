----------------------- MODULE FileTranscriptionProofs ----------------------
(***************************************************************************)
(* What a client of the transcription route is told, for any number of     *)
(* requests, slots, tokens and chunks, over the promise of the scheduler.  *)
(* A request by itself (One) says it all: what it has collected is what it *)
(* has seen of its stream, or the tokens of the chunks before the one that *)
(* is being decoded; steps of others do not touch it (Others).             *)
(***************************************************************************)
EXTENDS FileTranscription, SequenceTheorems, TLAPS

Tokens == Nat \X Nat
Texts(n) == [i \in 1..n |-> Partial(Upto(1, i))]

Places == {"new", "respond", "collect", "partial", "dropped", "decode", "result", "done"}

Types ==
    /\ kind \in [Requests -> {"short", "long", "stream"}]
    /\ place \in [Requests -> Places]
    /\ reply \in [Requests -> {"none", "ok", "failed", "refused", "left"}]
    /\ chunk \in [Requests -> Nat]
    /\ chunks \in [Requests -> Nat]
    /\ current \in [Requests -> Nat]
    /\ toks \in [Requests -> Seq(Tokens)]
    /\ words \in [Requests -> Seq(Tokens)]
    /\ DOMAIN sent = Requests

\* What a reader of the scheduler has been given, and knows.
Reading(r) ==
    /\ Len(seen[r]) <= made[r]
    /\ phase[r] = "idle" => made[r] = 0
    /\ reader[r] = "ok" => phase[r] = "complete" /\ Len(seen[r]) = made[r]

\* What goes through the scheduler, and recordings without speech.
Piecewise(r) ==
    kind[r] # "long" =>
        /\ place[r] # "decode"
        /\ toks[r] = Upto(1, Len(seen[r]))
        /\ place[r] \in {"new", "respond"} \/ chunks[r] = 0 => phase[r] = "idle"
        /\ chunks[r] = 1 \/ (chunks[r] = 0 /\ kind[r] = "short" /\ place[r] \in {"result", "done"})
        /\ place[r] = "result" \/ reply[r] = "ok" => chunks[r] = 0 \/ reader[r] = "ok"
        /\ words[r] = <<>> \/ (words[r] = toks[r] /\ place[r] = "done")

\* The tokens of the chunks up to c.
Chunked(t, c) ==
    /\ t = <<>> <=> c = 0
    /\ t # <<>> => t[1] = <<1, 1>> /\ t[Len(t)][1] = c
    /\ \A i \in 1..(Len(t) - 1) : Follows(t[i], t[i + 1])
    /\ \A i \in 1..Len(t) : t[i][1] <= c

Chunkwise(r) ==
    kind[r] = "long" =>
        /\ place[r] \in {"new", "decode", "result", "done"}
        /\ place[r] = "new" => chunk[r] = 1 /\ toks[r] = <<>> /\ words[r] = <<>>
        /\ place[r] = "decode" =>
               /\ chunk[r] \in 1..chunks[r]
               /\ Chunked(toks[r], chunk[r] - 1) /\ HeadsOfChunks(words[r], toks[r])
        /\ place[r] = "result" \/ reply[r] = "ok" =>
               Chunked(toks[r], chunks[r]) /\ HeadsOfChunks(words[r], toks[r])

\* The events of a stream, by where it is.
Eventwise(r) ==
    /\ kind[r] # "stream" => sent[r] = <<>> /\ place[r] \notin {"respond", "partial"}
    /\ kind[r] = "stream" =>
        /\ place[r] # "result"
        /\ place[r] \in {"new", "respond", "collect"} => sent[r] = Texts(Len(seen[r]))
        /\ place[r] = "partial" => Len(seen[r]) >= 1 /\ sent[r] = Texts(Len(seen[r]) - 1)
        /\ reply[r] = "ok" => reader[r] = "ok" /\ sent[r] = Append(Texts(Len(seen[r])), Done)
        /\ reply[r] # "ok" => \E n \in 0..Len(seen[r]) : sent[r] = Texts(n)

Ended(r) == reply[r] = "ok" => place[r] = "done"

One(r) == Reading(r) /\ Piecewise(r) /\ Chunkwise(r) /\ Eventwise(r) /\ Ended(r)

Inv == Streams!TypeOK /\ Types /\ \A r \in Requests : One(r)

-----------------------------------------------------------------------------
(***************************************************************************)
(* Tokens and events.                                                      *)
(***************************************************************************)
\* The tokens of a chunk.
LEMMA UptoFacts ==
    ASSUME NEW c \in Nat, NEW n \in Nat
    PROVE  /\ Upto(c, n) \in Seq(Tokens) /\ Len(Upto(c, n)) = n
           /\ \A k \in 1..n : Upto(c, n)[k] = <<c, k>>
<1>1. \A k \in 1..n : <<c, k>> \in Tokens
  BY DEF Tokens
<1> QED BY <1>1 DEF Upto

\* A token more.
LEMMA UptoGrows ==
    ASSUME NEW n \in Nat
    PROVE  Append(Upto(1, n), <<1, n + 1>>) = Upto(1, n + 1)
<1>1. /\ Upto(1, n) \in Seq(Tokens) /\ Len(Upto(1, n)) = n
      /\ \A k \in 1..n : Upto(1, n)[k] = <<1, k>>
  BY UptoFacts
<1>2. <<1, n + 1>> \in Tokens /\ n + 1 \in Nat
  BY DEF Tokens
<1> DEFINE a == Append(Upto(1, n), <<1, n + 1>>)
<1>3. /\ a \in Seq(Tokens) /\ Len(a) = n + 1
      /\ \A k \in 1..n : a[k] = <<1, k>>
      /\ a[n + 1] = <<1, n + 1>>
  BY <1>1, <1>2, AppendProperties
<1> HIDE DEF a
<1>4. \A k \in 1..(n + 1) : a[k] = <<1, k>>
  BY <1>3
<1>5. a = [k \in 1..(n + 1) |-> <<1, k>>]
  BY <1>3, <1>4, LenProperties
<1> QED BY <1>5 DEF a, Upto

\* The events of a stream so far.
LEMMA TextsFacts ==
    ASSUME NEW n \in Nat
    PROVE  /\ Texts(n) \in Seq(UNION {{Done}, {Partial(Upto(1, i)) : i \in Nat}})
           /\ Len(Texts(n)) = n
           /\ \A i \in 1..n : Texts(n)[i] = Partial(Upto(1, i))
  BY DEF Texts

\* An event more.
LEMMA TextsGrow ==
    ASSUME NEW n \in Nat
    PROVE  Append(Texts(n), Partial(Upto(1, n + 1))) = Texts(n + 1)
<1> DEFINE E == UNION {{Done}, {Partial(Upto(1, i)) : i \in Nat}}
           x == Partial(Upto(1, n + 1))
           a == Append(Texts(n), x)
<1>1. /\ Texts(n) \in Seq(E) /\ Len(Texts(n)) = n
      /\ \A i \in 1..n : Texts(n)[i] = Partial(Upto(1, i))
  BY TextsFacts
<1>2. x \in E /\ n + 1 \in Nat
  OBVIOUS
<1> HIDE DEF E, x
<1>3. /\ a \in Seq(E) /\ Len(a) = n + 1
      /\ \A k \in 1..n : a[k] = Partial(Upto(1, k))
      /\ a[n + 1] = x
  BY <1>1, <1>2, AppendProperties
<1> HIDE DEF a
<1>4. \A k \in 1..(n + 1) : a[k] = Partial(Upto(1, k))
  BY <1>3 DEF x
<1>5. a = [k \in 1..(n + 1) |-> Partial(Upto(1, k))]
  BY <1>3, <1>4, LenProperties
<1> QED BY <1>5 DEF a, x, Texts

\* The end of the events comes behind them and is none of them.
LEMMA TextsEnd ==
    ASSUME NEW n \in Nat
    PROVE  /\ Len(Append(Texts(n), Done)) = n + 1
           /\ \A i \in 1..n : Append(Texts(n), Done)[i] = Partial(Upto(1, i))
           /\ Append(Texts(n), Done)[n + 1] = Done
<1> DEFINE E == UNION {{Done}, {Partial(Upto(1, i)) : i \in Nat}}
<1>1. /\ Texts(n) \in Seq(E) /\ Len(Texts(n)) = n
      /\ \A i \in 1..n : Texts(n)[i] = Partial(Upto(1, i))
  BY TextsFacts
<1>2. Done \in E
  OBVIOUS
<1> HIDE DEF E
<1> QED BY <1>1, <1>2, AppendProperties

\* The events of a stream are told apart.
LEMMA NotDone == \A text : Partial(text) # Done
  BY DEF Partial, Done

\* No words, and all words of one chunk.
LEMMA WordsBegin ==
    /\ \A t : HeadsOfChunks(<<>>, t)
    /\ \A n \in Nat : HeadsOfChunks(Upto(1, n), Upto(1, n))
<1>1. \A t : HeadsOfChunks(<<>>, t)
  BY DEF HeadsOfChunks
<1>2. ASSUME NEW n \in Nat PROVE HeadsOfChunks(Upto(1, n), Upto(1, n))
  <2> DEFINE u == Upto(1, n)
  <2>1. Len(u) = n /\ \A k \in 1..n : u[k] = <<1, k>>
    BY UptoFacts
  <2> HIDE DEF u
  <2>2. ASSUME NEW i \in 1..n, NEW k \in 1..n, i < k PROVE Before(u[i], u[k])
    <3>1. u[i] = <<1, i>> /\ u[k] = <<1, k>>
      BY <2>1
    <3> QED BY <3>1, <2>2 DEF Before
  <2> QED BY <2>1, <2>2 DEF HeadsOfChunks, u
<1> QED BY <1>1, <1>2

-----------------------------------------------------------------------------
(***************************************************************************)
(* A chunk more.                                                           *)
(***************************************************************************)
\* s is the tokens a and behind them n tokens of chunk c.
Behind(s, a, c, n) ==
    /\ s \in Seq(Tokens) /\ Len(s) = Len(a) + n /\ Len(a) \in Nat
    /\ \A i \in 1..Len(a) : i \in 1..Len(s) /\ s[i] = a[i]
    /\ \A k \in 1..n : Len(a) + k \in 1..Len(s) /\ s[Len(a) + k] = <<c, k>>
    /\ \A i \in 1..Len(s) : i \in 1..Len(a) \/ \E k \in 1..n : i = Len(a) + k

\* What ChunkEnds makes.
LEMMA Joined ==
    ASSUME NEW a \in Seq(Tokens), NEW c \in Nat, NEW n \in Nat
    PROVE  Behind(a \o Upto(c, n), a, c, n)
<1> DEFINE u == Upto(c, n)
           l == Len(a)
           s == a \o u
<1>1. /\ u \in Seq(Tokens) /\ Len(u) = n /\ \A k \in 1..n : u[k] = <<c, k>>
  BY UptoFacts
<1>l. l \in Nat
  BY LenProperties
<1> HIDE DEF u
<1>2. /\ s \in Seq(Tokens) /\ Len(s) = l + n
      /\ \A i \in 1..(l + n) : s[i] = IF i <= l THEN a[i] ELSE u[i - l]
  BY <1>1, ConcatProperties
<1> HIDE DEF l, s
<1>3. \A i \in 1..l : i \in 1..Len(s) /\ s[i] = a[i]
  BY <1>l, <1>2
<1>4. ASSUME NEW k \in 1..n PROVE l + k \in 1..Len(s) /\ s[l + k] = <<c, k>>
  <2>1. l + k \in 1..(l + n) /\ ~(l + k <= l) /\ (l + k) - l = k
    BY <1>l
  <2>2. s[l + k] = u[k]
    BY <1>2, <2>1
  <2> QED BY <1>l, <1>1, <1>2, <2>1, <2>2
<1>5. ASSUME NEW i \in 1..Len(s) PROVE i \in 1..l \/ \E k \in 1..n : i = l + k
  <2>1. i <= l \/ (i - l \in 1..n /\ i = l + (i - l))
    BY <1>l, <1>1, <1>2
  <2> QED BY <2>1, <1>l, <1>2
<1> QED BY <1>l, <1>l, <1>1, <1>2, <1>3, <1>4, <1>5 DEF l, s, u, Behind

\* The tokens of the next chunk go behind those of the ones before.
LEMMA ChunkedGrows ==
    ASSUME NEW t \in Seq(Tokens), NEW c \in Nat \ {0}, NEW n \in Nat \ {0},
           Chunked(t, c - 1)
    PROVE  Chunked(t \o Upto(c, n), c)
<1> DEFINE s == t \o Upto(c, n)
<1>0. Behind(s, t, c, n)
  BY Joined
<1> HIDE DEF s
<1>1. /\ s \in Seq(Tokens) /\ Len(s) = Len(t) + n /\ Len(t) \in Nat
      /\ \A i \in 1..Len(t) : i \in 1..Len(s) /\ s[i] = t[i]
      /\ \A k \in 1..n : Len(t) + k \in 1..Len(s) /\ s[Len(t) + k] = <<c, k>>
      /\ \A i \in 1..Len(s) : i \in 1..Len(t) \/ \E k \in 1..n : i = Len(t) + k
  BY <1>0 DEF Behind
<1>4. s # <<>> /\ c # 0
  BY <1>1
<1>5. s[Len(s)][1] = c
  <2>1. n \in 1..n /\ Len(s) = Len(t) + n
    BY <1>1
  <2>2. s[Len(t) + n] = <<c, n>>
    BY <1>1, <2>1
  <2> QED BY <2>1, <2>2
<1>6. s[1] = <<1, 1>>
  <2>1. CASE t = <<>>
    <3>1. c = 1 /\ Len(t) = 0 /\ Len(t) + 1 = 1
      BY <2>1 DEF Chunked
    <3>2. s[Len(t) + 1] = <<c, 1>>
      BY <1>1
    <3> QED BY <3>1, <3>2
  <2>2. CASE t # <<>>
    <3>1. t[1] = <<1, 1>> /\ 1 \in 1..Len(t)
      BY <2>2, <1>1 DEF Chunked
    <3> QED BY <3>1, <1>1
  <2> QED BY <2>1, <2>2
<1>7. ASSUME NEW i \in 1..Len(s) PROVE s[i][1] <= c
  <2>1. CASE i \in 1..Len(t)
    <3>1. s[i] = t[i] /\ t[i][1] <= c - 1 /\ t[i] \in Tokens
      BY <2>1, <1>1 DEF Chunked
    <3> QED BY <3>1 DEF Tokens
  <2>2. ASSUME NEW k \in 1..n, i = Len(t) + k PROVE s[i][1] <= c
    <3>1. s[i] = <<c, k>>
      BY <2>2, <1>1
    <3> QED BY <3>1
  <2> QED BY <2>1, <2>2, <1>1
<1>8. ASSUME NEW i \in 1..(Len(s) - 1) PROVE Follows(s[i], s[i + 1])
  <2>0. i \in 1..Len(s) /\ i + 1 \in 1..Len(s) /\ i \in Nat
    BY <1>1
  <2>1. CASE i \in 1..Len(t) /\ i + 1 \in 1..Len(t)
    <3>1. i \in 1..(Len(t) - 1)
      BY <2>1, <1>1
    <3>2. s[i] = t[i] /\ s[i + 1] = t[i + 1]
      BY <2>1, <1>1
    <3> QED BY <3>1, <3>2 DEF Chunked
  <2>2. ASSUME i \in 1..Len(t), NEW k \in 1..n, i + 1 = Len(t) + k
        PROVE  Follows(s[i], s[i + 1])
    <3>1. k = 1 /\ i = Len(t) /\ t # <<>>
      BY <2>2, <1>1
    <3>2. s[i] = t[i] /\ t[i][1] = c - 1
      BY <2>2, <3>1, <1>1 DEF Chunked
    <3>3. s[i + 1] = <<c, 1>>
      BY <2>2, <3>1, <1>1
    <3> QED BY <3>2, <3>3 DEF Follows
  <2>3. ASSUME NEW k \in 1..n, i = Len(t) + k, NEW m \in 1..n, i + 1 = Len(t) + m
        PROVE  Follows(s[i], s[i + 1])
    <3>1. m = k + 1
      BY <2>3, <1>1
    <3>2. s[i] = <<c, k>> /\ s[i + 1] = <<c, m>>
      BY <2>3, <1>1
    <3> QED BY <3>1, <3>2 DEF Follows
  <2>4. ASSUME NEW k \in 1..n, i = Len(t) + k, i + 1 \in 1..Len(t) PROVE FALSE
    BY <2>4, <1>1
  <2> QED BY <2>0, <2>1, <2>2, <2>3, <2>4, <1>1
<1> QED BY <1>4, <1>5, <1>6, <1>7, <1>8 DEF Chunked, s

\* Words of the chunk are added, the first b of them.
LEMMA WordsGrow ==
    ASSUME NEW t \in Seq(Tokens), NEW w \in Seq(Tokens), NEW c \in Nat \ {0},
           NEW n \in Nat \ {0}, NEW b \in 0..n, Chunked(t, c - 1), HeadsOfChunks(w, t)
    PROVE  HeadsOfChunks(w \o Upto(c, b), t \o Upto(c, n))
<1> DEFINE s == t \o Upto(c, n)
           v == w \o Upto(c, b)
<1>0. Behind(s, t, c, n) /\ Behind(v, w, c, b)
  BY Joined
<1> HIDE DEF s, v
<1>1. Len(t) \in Nat /\ Len(w) \in Nat
  OBVIOUS
<1>4. /\ \A i \in 1..Len(t) : i \in 1..Len(s) /\ s[i] = t[i]
      /\ \A k \in 1..n : Len(t) + k \in 1..Len(s) /\ s[Len(t) + k] = <<c, k>>
      /\ \A i \in 1..Len(s) : i \in 1..Len(t) \/ \E k \in 1..n : i = Len(t) + k
  BY <1>0 DEF Behind
<1>5. /\ \A i \in 1..Len(w) : i \in 1..Len(v) /\ v[i] = w[i]
      /\ \A k \in 1..b : Len(w) + k \in 1..Len(v) /\ v[Len(w) + k] = <<c, k>>
      /\ \A i \in 1..Len(v) : i \in 1..Len(w) \/ \E k \in 1..b : i = Len(w) + k
  BY <1>0 DEF Behind
\* What was there is of the chunks before.
<1>6. /\ \A i \in 1..Len(t) : t[i] \in Tokens /\ t[i][1] < c
      /\ \A i \in 1..Len(w) : w[i] \in Tokens /\ w[i][1] < c
  <2>1. ASSUME NEW i \in 1..Len(t) PROVE t[i] \in Tokens /\ t[i][1] < c
    <3>1. t[i] \in Tokens /\ t[i][1] <= c - 1
      BY DEF Chunked
    <3> QED BY <3>1 DEF Tokens
  <2> QED BY <2>1 DEF HeadsOfChunks
<1>8. HeadsOfChunks(v, s)
  <2>1. ASSUME NEW i \in 1..Len(v), NEW k \in 1..Len(v), i < k PROVE Before(v[i], v[k])
    <3>1. CASE k \in 1..Len(w)
      <4>1. i \in 1..Len(w)
        BY <2>1, <3>1, <1>1
      <4> QED BY <2>1, <3>1, <4>1, <1>5 DEF HeadsOfChunks
    <3>2. ASSUME NEW m \in 1..b, k = Len(w) + m PROVE Before(v[i], v[k])
      <4>1. v[k] = <<c, m>>
        BY <3>2, <1>5
      <4>2. CASE i \in 1..Len(w)
        <5>1. v[i] = w[i] /\ w[i][1] < c
          BY <4>2, <1>5, <1>6
        <5> QED BY <4>1, <5>1 DEF Before
      <4>3. ASSUME NEW l \in 1..b, i = Len(w) + l PROVE Before(v[i], v[k])
        <5>1. l < m
          BY <2>1, <3>2, <4>3, <1>1
        <5>2. v[i] = <<c, l>>
          BY <4>3, <1>5
        <5> QED BY <4>1, <5>1, <5>2 DEF Before
      <4> QED BY <4>2, <4>3, <1>5
    <3> QED BY <3>1, <3>2, <1>5
  <2>2. ASSUME NEW i \in 1..Len(v) PROVE \E k \in 1..Len(s) : s[k] = v[i]
    <3>1. CASE i \in 1..Len(w)
      <4>1. PICK k \in 1..Len(t) : t[k] = w[i]
        BY <3>1 DEF HeadsOfChunks
      <4> QED BY <3>1, <4>1, <1>4, <1>5
    <3>2. ASSUME NEW m \in 1..b, i = Len(w) + m PROVE \E k \in 1..Len(s) : s[k] = v[i]
      <4>1. m \in 1..n
        OBVIOUS
      <4> QED BY <3>2, <4>1, <1>4, <1>5
    <3> QED BY <3>1, <3>2, <1>5
  <2>3. ASSUME NEW k \in 1..Len(s), NEW j \in 1..Len(v),
               v[j][1] = s[k][1], v[j][2] >= s[k][2]
        PROVE  \E i \in 1..Len(v) : v[i] = s[k]
    <3>1. CASE k \in 1..Len(t)
      <4>1. s[k] = t[k] /\ t[k][1] < c
        BY <3>1, <1>4, <1>6
      <4>2. j \in 1..Len(w)
        <5> SUFFICES ASSUME NEW m \in 1..b, j = Len(w) + m PROVE FALSE
          BY <1>5
        <5>1. v[j] = <<c, m>>
          BY <1>5
        <5>2. v[j][1] = c
          BY <5>1
        <5> QED BY <5>2, <4>1, <2>3
      <4>3. PICK i \in 1..Len(w) : w[i] = t[k]
        BY <2>3, <3>1, <4>1, <4>2, <1>5 DEF HeadsOfChunks
      <4> QED BY <4>1, <4>3, <1>5
    <3>2. ASSUME NEW m \in 1..n, k = Len(t) + m PROVE \E i \in 1..Len(v) : v[i] = s[k]
      <4>1. s[k] = <<c, m>>
        BY <3>2, <1>4
      <4>2. v[j][1] = c /\ v[j][2] >= m
        BY <2>3, <4>1
      <4>3. ~(j \in 1..Len(w))
        <5> SUFFICES ASSUME j \in 1..Len(w) PROVE FALSE
          OBVIOUS
        <5>1. v[j] = w[j] /\ w[j][1] < c
          BY <1>5, <1>6
        <5> QED BY <4>2, <5>1
      <4>4. PICK l \in 1..b : j = Len(w) + l
        BY <4>3, <1>5
      <4>5. v[j] = <<c, l>>
        BY <4>4, <1>5
      <4>6. m \in 1..b
        BY <4>2, <4>5
      <4> QED BY <4>1, <4>6, <1>5
    <3> QED BY <3>1, <3>2, <1>4
  <2> QED BY <2>1, <2>2, <2>3 DEF HeadsOfChunks
<1> QED BY <1>8 DEF s, v

-----------------------------------------------------------------------------
(***************************************************************************)
(* The steps.                                                              *)
(***************************************************************************)
Step(r) == Arrive(r) \/ Work(r) \/ SendPartial(r) \/ Leave(r) \/ Decode(r)

\* Nothing of q changes.
Same(q) ==
    /\ kind'[q] = kind[q] /\ place'[q] = place[q] /\ reply'[q] = reply[q]
    /\ chunk'[q] = chunk[q] /\ chunks'[q] = chunks[q] /\ current'[q] = current[q]
    /\ toks'[q] = toks[q] /\ words'[q] = words[q] /\ sent'[q] = sent[q]
    /\ phase'[q] = phase[q] /\ reader'[q] = reader[q]
    /\ made'[q] = made[q] /\ seen'[q] = seen[q]

\* The functions of the scheduler change at r only.
StreamOnly(r) ==
    \A q \in Requests : q # r =>
        /\ phase'[q] = phase[q] /\ reader'[q] = reader[q]
        /\ made'[q] = made[q] /\ seen'[q] = seen[q]

\* A step of the scheduler leaves the types and what it says of the others.
LEMMA StreamStep ==
    ASSUME Streams!TypeOK, NEW r \in Requests,
           \/ Streams!Accept(r) \/ Streams!Reject(r) \/ Streams!Admit(r) \/ Streams!Make(r)
           \/ Streams!End(r) \/ Streams!Withdraw(r) \/ Streams!See(r) \/ Streams!Conclude(r)
           \/ Streams!TurnAway(r)
    PROVE  Streams!TypeOK' /\ StreamOnly(r)
<1> USE DEF Streams!TypeOK, Streams!Phases, Streams!Readers, Streams!Move, StreamOnly
<1>1. CASE Streams!Accept(r) \/ Streams!Reject(r) \/ Streams!Admit(r)
  BY <1>1 DEF Streams!Accept, Streams!Reject, Streams!Admit
<1>2. CASE Streams!Make(r)
  <2>1. made[r] \in Nat /\ made[r] + 1 \in Nat
    OBVIOUS
  <2>2. made' = [made EXCEPT ![r] = made[r] + 1] /\ UNCHANGED <<phase, reader, seen>>
    BY <1>2 DEF Streams!Make
  <2> QED BY <2>1, <2>2
<1>3. CASE Streams!End(r)
  BY <1>3 DEF Streams!End
<1>4. CASE Streams!Withdraw(r)
  BY <1>4 DEF Streams!Withdraw
<1>5. CASE Streams!See(r)
  <2>1. seen[r] \in Seq(Nat) /\ Append(seen[r], Len(seen[r]) + 1) \in Seq(Nat)
    OBVIOUS
  <2>2. seen' = [seen EXCEPT ![r] = Append(seen[r], Len(seen[r]) + 1)]
        /\ UNCHANGED <<phase, reader, made>>
    BY <1>5 DEF Streams!See
  <2> QED BY <2>1, <2>2
<1>6. CASE Streams!Conclude(r) \/ Streams!TurnAway(r)
  BY <1>6 DEF Streams!Conclude, Streams!TurnAway
<1> QED BY <1>1, <1>2, <1>3, <1>4, <1>5, <1>6

\* A request that concludes is told how its decode ended.
LEMMA ReadingStep ==
    ASSUME Streams!TypeOK, NEW r \in Requests, Reading(r),
           \/ Streams!Accept(r) \/ Streams!Reject(r) \/ Streams!Admit(r) \/ Streams!Make(r)
           \/ Streams!End(r) \/ Streams!Withdraw(r) \/ Streams!See(r) \/ Streams!Conclude(r)
           \/ Streams!TurnAway(r)
    PROVE  Reading(r)'
<1> USE DEF Streams!TypeOK, Streams!Phases, Streams!Readers, Streams!Move, Reading
<1>0. Len(seen[r]) \in Nat /\ made[r] \in Nat
  OBVIOUS
<1>1. CASE Streams!Accept(r) \/ Streams!Reject(r) \/ Streams!Admit(r)
  BY <1>1 DEF Streams!Accept, Streams!Reject, Streams!Admit
<1>2. CASE Streams!Make(r)
  BY <1>0, <1>2 DEF Streams!Make
<1>3. CASE Streams!End(r)
  BY <1>3 DEF Streams!End
<1>4. CASE Streams!Withdraw(r)
  BY <1>4 DEF Streams!Withdraw
<1>5. CASE Streams!See(r)
  <2>1. /\ seen'[r] = Append(seen[r], Len(seen[r]) + 1)
        /\ Len(seen[r]) < made[r] /\ reader[r] = "open" /\ UNCHANGED <<phase, reader, made>>
    BY <1>5 DEF Streams!See
  <2>2. Len(seen'[r]) = Len(seen[r]) + 1
    BY <2>1
  <2> QED BY <1>0, <2>1, <2>2
<1>6. CASE Streams!Conclude(r) \/ Streams!TurnAway(r)
  BY <1>6 DEF Streams!Conclude, Streams!TurnAway
<1> QED BY <1>1, <1>2, <1>3, <1>4, <1>5, <1>6

\* A step without the scheduler.
LEMMA NoStream ==
    ASSUME UNCHANGED scheduler, NEW r \in Requests
    PROVE  StreamOnly(r) /\ (Streams!TypeOK => Streams!TypeOK') /\ (Reading(r) => Reading(r)')
  BY DEF scheduler, StreamOnly, Streams!TypeOK, Streams!Phases, Streams!Readers, Reading

\* A request in which nothing changes stays as it is.
LEMMA SameOne == ASSUME NEW q \in Requests, Same(q), One(q) PROVE One(q)'
  BY DEF Same, One, Reading, Piecewise, Chunkwise, Eventwise, Ended

Others(r) == \A q \in Requests : q # r => Same(q)

\* The step of a request leaves the types, and the other requests alone.
LEMMA TypesStep ==
    ASSUME Streams!TypeOK, Types, NEW r \in Requests, Step(r)
    PROVE  Streams!TypeOK' /\ Types' /\ Others(r)
<1> USE DEF Types, Places, Others, Same, Goes, Replies
<1>1. ASSUME UNCHANGED scheduler PROVE Streams!TypeOK' /\ StreamOnly(r)
  BY <1>1, NoStream
<1>2. CASE Refuse(r) \/ Respond(r) \/ SendPartial(r) \/ Leave(r) \/ LongFails(r) \/ ResultFails(r)
  <2>1. UNCHANGED scheduler
    BY <1>2 DEF Refuse, Respond, SendPartial, Leave, LongFails, ResultFails
  <2>2. /\ UNCHANGED result /\ kind' = kind /\ DOMAIN sent' = Requests
        /\ \E where \in Places : place' = [place EXCEPT ![r] = where]
        /\ \/ reply' = reply
           \/ \E what \in {"refused", "left", "failed"} : reply' = [reply EXCEPT ![r] = what]
    <3>1. CASE Refuse(r) \/ Respond(r) \/ SendPartial(r)
      BY <3>1 DEF Refuse, Respond, SendPartial, result
    <3>2. CASE Leave(r) \/ LongFails(r) \/ ResultFails(r)
      BY <3>2 DEF Leave, LongFails, ResultFails, result
    <3> QED BY <1>2, <3>1, <3>2
  <2>3. Types'
    <3>1. place' \in [Requests -> Places]
      <4>1. PICK where \in Places : place' = [place EXCEPT ![r] = where]
        BY <2>2
      <4> QED BY <4>1
    <3>2. reply' \in [Requests -> {"none", "ok", "failed", "refused", "left"}]
      BY <2>2
    <3> QED BY <2>2, <3>1, <3>2 DEF result
  <2>4. ASSUME NEW q \in Requests, q # r PROVE sent'[q] = sent[q]
    BY <1>2, <2>4 DEF Refuse, Respond, SendPartial, Leave, LongFails, ResultFails
  <2>5. Others(r)
    <3> SUFFICES ASSUME NEW q \in Requests, q # r PROVE Same(q)
      OBVIOUS
    <3>1. place'[q] = place[q] /\ reply'[q] = reply[q]
      BY <2>2
    <3> QED BY <1>1, <2>1, <2>2, <2>4, <3>1 DEF result, StreamOnly
  <2> QED BY <1>1, <2>1, <2>3, <2>5
<1>3. CASE Silence(r) \/ Split(r)
  <2>1. UNCHANGED scheduler
    BY <1>3 DEF Silence, Split
  <2>2. \E n \in Nat : chunks' = [chunks EXCEPT ![r] = n]
    BY <1>3, FileAssumption DEF Silence, Split
  <2>3. /\ UNCHANGED <<kind, toks, chunk, current, words, sent, reply>>
        /\ \E where \in {"result", "decode"} : place' = [place EXCEPT ![r] = where]
    BY <1>3 DEF Silence, Split
  <2>4. Types'
    BY <2>2, <2>3
  <2> QED BY <1>1, <2>1, <2>2, <2>3, <2>4 DEF StreamOnly
<1>4. CASE Run(r) \/ RunFails(r) \/ CloseDropped(r)
  <2>1. Streams!Accept(r) \/ Streams!Reject(r) \/ Streams!TurnAway(r)
    BY <1>4 DEF Run, RunFails, CloseDropped
  <2>2. Streams!TypeOK' /\ StreamOnly(r)
    BY <2>1, StreamStep
  <2>3. /\ UNCHANGED <<kind, toks, chunk, chunks, current, words, sent>>
        /\ \E where \in Places : place' = [place EXCEPT ![r] = where]
        /\ reply' = reply \/ reply' = [reply EXCEPT ![r] = "failed"]
    BY <1>4 DEF Run, RunFails, CloseDropped, result
  <2>4. Types'
    <3>1. place' \in [Requests -> Places]
      BY <2>3
    <3>2. reply' \in [Requests -> {"none", "ok", "failed", "refused", "left"}]
      BY <2>3
    <3> QED BY <2>3, <3>1, <3>2
  <2> QED BY <2>2, <2>3, <2>4 DEF StreamOnly
<1>5. CASE StreamEnds(r) \/ RunEnds(r)
  <2>1. Streams!Conclude(r)
    BY <1>5 DEF StreamEnds, RunEnds
  <2>2. Streams!TypeOK' /\ StreamOnly(r)
    BY <2>1, StreamStep
  <2>3. Types'
    BY <1>5 DEF StreamEnds, RunEnds, result
  <2> QED BY <1>5, <2>2, <2>3 DEF StreamEnds, RunEnds, result, StreamOnly
<1>6. CASE Collect(r)
  <2>1. Streams!TypeOK' /\ StreamOnly(r)
    BY <1>6, StreamStep DEF Collect
  <2>2. <<1, Len(toks[r]) + 1>> \in Tokens
    <3>1. Len(toks[r]) \in Nat
      OBVIOUS
    <3> QED BY <3>1 DEF Tokens
  <2>3. Append(toks[r], <<1, Len(toks[r]) + 1>>) \in Seq(Tokens)
    BY <2>2
  <2>4. Types'
    BY <1>6, <2>3 DEF Collect
  <2> QED BY <1>6, <2>1, <2>4 DEF Collect, StreamOnly
<1>7. CASE DecodeToken(r)
  <2>1. UNCHANGED scheduler /\ current[r] + 1 \in Nat
    BY <1>7 DEF DecodeToken
  <2>2. Types'
    BY <1>7, <2>1 DEF DecodeToken
  <2> QED BY <1>1, <1>7, <2>1, <2>2 DEF DecodeToken, StreamOnly
<1>8. CASE ChunkEnds(r)
  <2>1. UNCHANGED scheduler
    BY <1>8 DEF ChunkEnds
  <2> DEFINE ours == Upto(chunk[r], current[r])
  <2>2. ours \in Seq(Tokens)
    BY UptoFacts
  <2> HIDE DEF ours
  <2>c. PICK n \in 0..current[r] : words' = [words EXCEPT ![r] = words[r] \o Upto(chunk[r], n)]
    BY <1>8 DEF ChunkEnds
  <2> DEFINE heads == Upto(chunk[r], n)
  <2>h. heads \in Seq(Tokens)
    <3>1. chunk[r] \in Nat /\ current[r] \in Nat
      OBVIOUS
    <3>2. n \in Nat
      BY <3>1
    <3> QED BY <3>1, <3>2, UptoFacts
  <2> HIDE DEF heads
  <2>3. /\ toks' = [toks EXCEPT ![r] = toks[r] \o ours]
        /\ words' = [words EXCEPT ![r] = words[r] \o heads]
        /\ UNCHANGED <<kind, chunks, sent, reply>>
    BY <1>8, <2>c DEF ChunkEnds, ours, heads
  <2>4. /\ chunk' = [chunk EXCEPT ![r] = chunk[r] + 1] /\ chunk[r] + 1 \in Nat
        /\ current' = [current EXCEPT ![r] = 0]
    BY <1>8 DEF ChunkEnds, NextChunk
  <2>p. \E where \in {"result", "decode"} : place' = [place EXCEPT ![r] = where]
    <3>1. place' = [place EXCEPT ![r] = IF chunk[r] = chunks[r] THEN "result" ELSE "decode"]
      BY <1>8 DEF ChunkEnds, NextChunk
    <3> QED BY <3>1
  <2>5. toks[r] \o ours \in Seq(Tokens) /\ words[r] \o heads \in Seq(Tokens)
    BY <2>2, <2>h, ConcatProperties
  <2>6. Types'
    <3>1. toks' \in [Requests -> Seq(Tokens)] /\ words' \in [Requests -> Seq(Tokens)]
      <4>1. toks \in [Requests -> Seq(Tokens)] /\ words \in [Requests -> Seq(Tokens)]
        OBVIOUS
      <4>2. toks' \in [Requests -> Seq(Tokens)]
        BY <4>1, <2>3, <2>5
      <4>3. words' \in [Requests -> Seq(Tokens)]
        BY <4>1, <2>3, <2>5
      <4> QED BY <4>2, <4>3
    <3>2. chunk' \in [Requests -> Nat] /\ current' \in [Requests -> Nat]
      BY <2>4
    <3>3. place' \in [Requests -> Places]
      BY <2>p
    <3> QED BY <2>3, <3>1, <3>2, <3>3
  <2>7. Others(r)
    <3> SUFFICES ASSUME NEW q \in Requests, q # r PROVE Same(q)
      OBVIOUS
    <3>1. toks'[q] = toks[q] /\ words'[q] = words[q]
      BY <2>3
    <3>2. chunk'[q] = chunk[q] /\ current'[q] = current[q] /\ place'[q] = place[q]
      BY <2>4, <2>p
    <3> QED BY <1>1, <2>1, <2>3, <3>1, <3>2 DEF StreamOnly
  <2> QED BY <1>1, <2>1, <2>6, <2>7
<1>9. CASE Result(r)
  <2>1. UNCHANGED scheduler
    BY <1>9 DEF Result
  <2>2. /\ UNCHANGED <<kind, toks, chunk, chunks, current, sent>>
        /\ place' = [place EXCEPT ![r] = "done"] /\ reply' = [reply EXCEPT ![r] = "ok"]
        /\ words' = words \/ words' = [words EXCEPT ![r] = toks[r]]
    BY <1>9 DEF Result
  <2>3. Types'
    BY <2>2
  <2>4. Others(r)
    BY <1>1, <2>1, <2>2 DEF StreamOnly
  <2> QED BY <1>1, <2>1, <2>3, <2>4
<1>10. CASE Decode(r)
  <2>1. Streams!TypeOK' /\ StreamOnly(r)
    BY <1>10, StreamStep DEF Decode
  <2>2. UNCHANGED <<kind, place, result, sent, reply>>
    BY <1>10 DEF Decode
  <2> QED BY <2>1, <2>2 DEF result, StreamOnly
<1> QED BY <1>2, <1>3, <1>4, <1>5, <1>6, <1>7, <1>8, <1>9, <1>10 DEF Step, Arrive, Work

\* What it has collected, sent and answered stays true of the request itself:
\* before anything is decoded,
LEMMA ArriveStep ==
    ASSUME Streams!TypeOK, Types, NEW r \in Requests, One(r), Arrive(r)
    PROVE  One(r)'
<1> USE DEF Types, Goes, Replies
<1>1. CASE Refuse(r) \/ Respond(r)
  <2>1. /\ UNCHANGED scheduler /\ place[r] = "new" /\ place'[r] \in {"done", "respond"}
        /\ place'[r] = "respond" => kind[r] = "stream" /\ reply'[r] = reply[r]
        /\ reply'[r] # "ok"
        /\ UNCHANGED <<kind, toks, chunk, chunks, current, words, sent>>
    BY <1>1 DEF Refuse, Respond, result, One, Ended
  <2>2. Reading(r)'
    BY <2>1, NoStream DEF One
  <2>3. Piecewise(r)' /\ Chunkwise(r)' /\ Ended(r)'
    BY <2>1 DEF One, Piecewise, Chunkwise, Ended, scheduler
  <2>4. Eventwise(r)'
    <3>1. Len(seen[r]) \in 0..Len(seen[r])
      BY DEF Streams!TypeOK
    <3> QED BY <2>1, <3>1 DEF One, Eventwise, scheduler
  <2> QED BY <2>2, <2>3, <2>4 DEF One
<1>2. CASE Silence(r)
  <2>1. /\ UNCHANGED scheduler /\ place[r] = "new" /\ kind[r] # "stream" /\ place'[r] = "result"
        /\ chunks'[r] = 0
        /\ UNCHANGED <<kind, toks, chunk, current, words, sent, reply>>
    BY <1>2 DEF Silence
  <2>2. Reading(r)'
    BY <2>1, NoStream DEF One
  <2>3. Piecewise(r)'
    BY <2>1 DEF One, Piecewise, Ended, scheduler
  <2>4. Chunkwise(r)'
    <3>1. Chunked(<<>>, 0) /\ HeadsOfChunks(<<>>, <<>>)
      BY WordsBegin DEF Chunked
    <3> QED BY <2>1, <3>1 DEF One, Chunkwise
  <2>5. Eventwise(r)' /\ Ended(r)'
    BY <2>1 DEF One, Eventwise, Ended
  <2> QED BY <2>2, <2>3, <2>4, <2>5 DEF One
<1>3. CASE Run(r) \/ RunFails(r)
  <2>1. /\ Streams!Accept(r) \/ Streams!Reject(r)
        /\ Ready(r) /\ UNCHANGED <<kind, toks, chunk, chunks, current, words, sent>>
        /\ \/ place'[r] = "collect" /\ reply'[r] = reply[r]
           \/ place'[r] = "done" /\ reply'[r] = "failed"
    BY <1>3 DEF Run, RunFails, result
  <2>2. Reading(r)'
    BY <2>1, ReadingStep DEF One
  <2>3. place[r] \in {"new", "respond"} /\ kind[r] # "long" /\ UNCHANGED seen
    BY <2>1 DEF Ready, Streams!Accept, Streams!Reject, One, Chunkwise
  <2>4. reply[r] # "ok" /\ reply'[r] # "ok"
    BY <2>1, <2>3 DEF One, Ended
  <2>5. chunks[r] = 1
    BY <2>3 DEF One, Piecewise
  <2>6. Piecewise(r)' /\ Chunkwise(r)' /\ Ended(r)'
    BY <2>1, <2>3, <2>4, <2>5 DEF One, Piecewise, Chunkwise, Ended
  <2>7. Eventwise(r)'
    <3>1. Len(seen[r]) \in 0..Len(seen[r])
      BY DEF Streams!TypeOK
    <3> QED BY <2>1, <2>3, <2>4, <3>1 DEF One, Eventwise
  <2> QED BY <2>2, <2>6, <2>7 DEF One
<1>4. CASE Split(r)
  <2>1. /\ UNCHANGED scheduler /\ place[r] = "new" /\ kind[r] = "long" /\ place'[r] = "decode"
        /\ UNCHANGED <<kind, toks, chunk, current, words, sent, reply>>
    BY <1>4 DEF Split
  <2>2. chunks'[r] \in Nat \ {0}
    BY <1>4, FileAssumption DEF Split
  <2>3. Reading(r)'
    BY <2>1, NoStream DEF One
  <2>4. Chunked(<<>>, 0) /\ HeadsOfChunks(<<>>, <<>>)
    BY WordsBegin DEF Chunked
  <2>5. Chunkwise(r)'
    <3>1. chunk'[r] = 1 /\ toks'[r] = <<>> /\ words'[r] = <<>> /\ chunk'[r] - 1 = 0
      BY <2>1 DEF One, Chunkwise
    <3>2. reply'[r] # "ok"
      BY <2>1 DEF One, Ended
    <3> QED BY <2>1, <2>2, <2>4, <3>1, <3>2 DEF Chunkwise
  <2>6. Piecewise(r)' /\ Eventwise(r)' /\ Ended(r)'
    BY <2>1 DEF One, Piecewise, Eventwise, Ended
  <2> QED BY <2>3, <2>5, <2>6 DEF One
<1> QED BY <1>1, <1>2, <1>3, <1>4 DEF Arrive

\* while the scheduler's deltas are collected and sent,
LEMMA CollectStep ==
    ASSUME Streams!TypeOK, Types, NEW r \in Requests, One(r),
           Collect(r) \/ SendPartial(r) \/ StreamEnds(r) \/ RunEnds(r)
    PROVE  One(r)'
<1> USE DEF Types, Goes, Replies
<1> DEFINE n == Len(seen[r])
<1>1. /\ place[r] \in {"collect", "partial"} /\ kind[r] # "long"
      /\ UNCHANGED <<kind, chunk, chunks, current, words>>
  BY DEF Collect, SendPartial, StreamEnds, RunEnds, result, One, Chunkwise, Eventwise
<1>2. /\ n \in Nat /\ toks[r] = Upto(1, n) /\ chunks[r] = 1 /\ words[r] = <<>>
      /\ Len(toks[r]) = n
  <2>1. n \in Nat
    BY DEF Streams!TypeOK
  <2>2. toks[r] = Upto(1, n) /\ chunks[r] = 1 /\ words[r] = <<>>
    BY <1>1 DEF One, Piecewise
  <2> HIDE DEF n
  <2>3. Len(Upto(1, n)) = n
    BY <2>1, UptoFacts
  <2> QED BY <2>1, <2>2, <2>3
<1>3. Reading(r)'
  <2>1. Streams!See(r) \/ Streams!Conclude(r) \/ UNCHANGED scheduler
    BY DEF Collect, SendPartial, StreamEnds, RunEnds
  <2> QED BY <2>1, NoStream, ReadingStep DEF One
<1>4. reply[r] # "ok"
  BY <1>1 DEF One, Ended
<1>5. Chunkwise(r)'
  BY <1>1 DEF Chunkwise
<1>6. CASE Collect(r)
  <2>1. /\ seen'[r] = Append(seen[r], n + 1) /\ UNCHANGED phase
        /\ toks'[r] = Append(toks[r], <<1, n + 1>>)
        /\ place'[r] = IF kind[r] = "stream" THEN "partial" ELSE "collect"
        /\ UNCHANGED <<sent, reply>>
    BY <1>2, <1>6 DEF Collect, Streams!See, Streams!TypeOK
  <2>2. Len(seen'[r]) = n + 1
    BY <2>1, <1>2 DEF Streams!TypeOK
  <2>3. toks'[r] = Upto(1, n + 1)
    BY <2>1, <1>2, UptoGrows
  <2>4. Piecewise(r)' /\ Ended(r)'
    BY <1>1, <1>2, <1>4, <2>1, <2>2, <2>3 DEF Piecewise, Ended
  <2>5. Eventwise(r)'
    <3>1. place[r] = "collect"
      BY <1>6 DEF Collect
    <3>2. kind[r] = "stream" => sent[r] = Texts(n)
      BY <3>1 DEF One, Eventwise
    <3>3. n + 1 >= 1 /\ (n + 1) - 1 = n /\ n \in 0..(n + 1)
      BY <1>2
    <3>4. kind[r] # "stream" => sent[r] = <<>>
      BY DEF One, Eventwise
    <3> HIDE DEF n
    <3> QED BY <1>1, <1>4, <2>1, <2>2, <3>2, <3>3, <3>4 DEF Eventwise
  <2> QED BY <1>3, <1>5, <2>4, <2>5 DEF One
<1>7. CASE SendPartial(r)
  <2>1. /\ UNCHANGED <<scheduler, toks, reply>> /\ place[r] = "partial" /\ place'[r] = "collect"
        /\ sent'[r] = Append(sent[r], Partial(toks[r]))
    BY <1>7 DEF SendPartial, result
  <2>2. UNCHANGED <<seen, phase, reader>>
    BY <2>1 DEF scheduler
  <2>3. Piecewise(r)' /\ Ended(r)'
    BY <1>1, <1>2, <1>4, <2>1, <2>2 DEF Piecewise, Ended
  <2>4. kind[r] = "stream"
    BY <2>1, <1>7 DEF SendPartial, One, Eventwise, Piecewise
  <2>5. n >= 1 /\ sent[r] = Texts(n - 1)
    BY <2>1, <2>4 DEF One, Eventwise
  <2>6. sent'[r] = Texts(n)
    <3>1. n - 1 \in Nat /\ (n - 1) + 1 = n
      BY <1>2, <2>5
    <3>2. Append(Texts(n - 1), Partial(Upto(1, (n - 1) + 1))) = Texts((n - 1) + 1)
      BY <3>1, TextsGrow
    <3> QED BY <2>1, <2>5, <1>2, <3>1, <3>2
  <2>7. Eventwise(r)'
    <3>1. n \in 0..n
      BY <1>2
    <3> QED BY <1>1, <1>4, <2>1, <2>2, <2>4, <2>6, <3>1 DEF Eventwise
  <2> QED BY <1>3, <1>5, <2>3, <2>7 DEF One
<1>8. CASE StreamEnds(r)
  <2>1. /\ kind[r] = "stream" /\ place[r] = "collect" /\ place'[r] = "done"
        /\ UNCHANGED <<toks, seen, phase>>
    BY <1>8 DEF StreamEnds, Streams!Conclude, result
  <2>2. \/ /\ reader'[r] = "ok" /\ reply'[r] = "ok"
           /\ sent'[r] = Append(sent[r], Done)
        \/ reply'[r] = "failed" /\ sent'[r] = sent[r]
    BY <1>8 DEF StreamEnds
  <2>3. sent[r] = Texts(n)
    BY <2>1 DEF One, Eventwise
  <2>4. Piecewise(r)' /\ Ended(r)'
    BY <1>1, <1>2, <2>1, <2>2 DEF Piecewise, Ended
  <2>5. Eventwise(r)'
    <3>1. n \in 0..n
      BY <1>2
    <3> QED BY <1>1, <2>1, <2>2, <2>3, <3>1 DEF Eventwise
  <2> QED BY <1>3, <1>5, <2>4, <2>5 DEF One
<1>9. CASE RunEnds(r)
  <2>1. /\ kind[r] = "short" /\ UNCHANGED <<toks, seen, phase, sent>>
        /\ \/ reader'[r] = "ok" /\ place'[r] = "result" /\ reply'[r] = reply[r]
           \/ place'[r] = "done" /\ reply'[r] = "failed"
    BY <1>9 DEF RunEnds, Streams!Conclude, result
  <2>2. Piecewise(r)' /\ Ended(r)'
    BY <1>1, <1>2, <1>4, <2>1 DEF Piecewise, Ended
  <2>3. Eventwise(r)'
    BY <1>1, <2>1 DEF One, Eventwise
  <2> QED BY <1>3, <1>5, <2>2, <2>3 DEF One
<1> QED BY <1>6, <1>7, <1>8, <1>9

\* when the client of a stream leaves,
LEMMA LeaveStep ==
    ASSUME Streams!TypeOK, Types, NEW r \in Requests, One(r), Leave(r) \/ CloseDropped(r)
    PROVE  One(r)'
<1> USE DEF Types, Goes, Replies
<1>1. Len(seen[r]) \in Nat
  BY DEF Streams!TypeOK
<1>2. CASE Leave(r)
  <2>1. /\ UNCHANGED scheduler /\ kind[r] = "stream"
        /\ place[r] \in {"respond", "collect", "partial"} /\ place'[r] \in {"done", "dropped"}
        /\ reply'[r] = "left"
        /\ UNCHANGED <<kind, toks, chunk, chunks, current, words, sent>>
    BY <1>2 DEF Leave, result
  <2>2. Reading(r)'
    BY <2>1, NoStream DEF One
  <2>3. Piecewise(r)' /\ Chunkwise(r)' /\ Ended(r)'
    BY <2>1 DEF One, Piecewise, Chunkwise, Ended, scheduler
  <2>4. Eventwise(r)'
    <3>1. reply[r] # "ok"
      BY <2>1 DEF One, Ended
    <3>2. \E n \in 0..Len(seen[r]) : sent[r] = Texts(n)
      BY <2>1, <3>1 DEF One, Eventwise
    <3> QED BY <2>1, <3>2 DEF Eventwise, scheduler
  <2> QED BY <2>2, <2>3, <2>4 DEF One
<1>3. CASE CloseDropped(r)
  <2>1. /\ Streams!TurnAway(r) /\ place[r] = "dropped" /\ place'[r] \in {"done", "dropped"}
        /\ UNCHANGED <<kind, toks, chunk, chunks, current, words, sent, reply>>
    BY <1>3 DEF CloseDropped, result
  <2>2. UNCHANGED <<phase, seen>>
    BY <2>1 DEF Streams!TurnAway
  <2>3. Reading(r)'
    BY <2>1, ReadingStep DEF One
  <2>4. reply[r] # "ok"
    BY <2>1 DEF One, Ended
  <2>5. Piecewise(r)' /\ Chunkwise(r)' /\ Ended(r)'
    BY <2>1, <2>2, <2>4 DEF One, Piecewise, Chunkwise, Ended
  <2>6. Eventwise(r)'
    BY <2>1, <2>2, <2>4 DEF One, Eventwise
  <2> QED BY <2>3, <2>5, <2>6 DEF One
<1> QED BY <1>2, <1>3

\* from one chunk of a long recording to the next,
LEMMA LongStep ==
    ASSUME Streams!TypeOK, Types, NEW r \in Requests, One(r),
           DecodeToken(r) \/ ChunkEnds(r) \/ LongFails(r)
    PROVE  One(r)'
<1> USE DEF Types, Goes, Replies
<1>1. /\ kind[r] = "long" /\ UNCHANGED <<scheduler, kind, chunks, sent>>
      /\ place[r] \in {"new", "decode"}
  BY DEF DecodeToken, ChunkEnds, LongFails, One, Piecewise, result
<1>p. place'[r] \in {"decode", "result", "done"}
  BY <1>1 DEF DecodeToken, ChunkEnds, LongFails, NextChunk
<1>2. Reading(r)' /\ Piecewise(r)' /\ Eventwise(r)'
  <2>1. Reading(r)'
    BY <1>1, NoStream DEF One
  <2> QED BY <1>1, <1>p, <2>1 DEF One, Piecewise, Eventwise
<1>3. reply[r] # "ok"
  BY <1>1 DEF One, Ended
<1>4. CASE DecodeToken(r)
  <2>1. UNCHANGED <<place, toks, chunk, words, reply>>
    BY <1>4 DEF DecodeToken
  <2> QED BY <1>1, <1>2, <2>1 DEF One, Chunkwise, Ended
<1>5. CASE LongFails(r)
  <2>1. place'[r] = "done" /\ reply'[r] = "failed"
    BY <1>5 DEF LongFails
  <2> QED BY <1>1, <1>2, <2>1 DEF One, Chunkwise, Ended
<1>6. CASE ChunkEnds(r)
  <2> DEFINE c == chunk[r]
             ours == Upto(c, current[r])
  <2>1. /\ place[r] = "decode" /\ current[r] \in Nat \ {0} /\ reply' = reply
        /\ toks'[r] = toks[r] \o ours
    BY <1>6 DEF ChunkEnds
  <2>b. PICK b \in 0..current[r] : words'[r] = words[r] \o Upto(c, b)
    BY <1>6 DEF ChunkEnds
  <2>2. chunk'[r] = c + 1 /\ place'[r] = IF c = chunks[r] THEN "result" ELSE "decode"
    BY <1>6 DEF ChunkEnds, NextChunk
  <2>3. /\ c \in 1..chunks[r] /\ Chunked(toks[r], c - 1) /\ HeadsOfChunks(words[r], toks[r])
    BY <1>1, <2>1 DEF One, Chunkwise
  <2>4. c \in Nat \ {0} /\ toks[r] \in Seq(Tokens) /\ words[r] \in Seq(Tokens)
    BY <2>3
  <2>5. Chunked(toks'[r], c)
    BY <2>1, <2>3, <2>4, ChunkedGrows
  <2>6. HeadsOfChunks(words'[r], toks'[r])
    <3>1. HeadsOfChunks(words[r] \o Upto(c, b), toks[r] \o ours)
      BY <2>1, <2>3, <2>4, WordsGrow
    <3> QED BY <2>1, <2>b, <3>1
  <2> HIDE DEF c, ours
  <2>7. /\ chunks[r] \in Nat
        /\ (c + 1) - 1 = c
        /\ c # chunks[r] => c + 1 \in 1..chunks[r]
    BY <2>3, <2>4
  <2>8. reply'[r] # "ok" /\ chunks'[r] = chunks[r] /\ chunk'[r] - 1 = c
    <3>1. reply'[r] # "ok" /\ chunks'[r] = chunks[r]
      BY <1>1, <1>3, <2>1
    <3>2. chunk'[r] - 1 = c
      BY <2>2, <2>7
    <3> QED BY <3>1, <3>2
  <2>9. CASE c = chunks[r]
    <3>1. place'[r] = "result" /\ Chunked(toks'[r], chunks'[r])
      BY <2>2, <2>5, <2>8, <2>9
    <3>2. Chunkwise(r)' /\ Ended(r)'
      BY <2>6, <2>8, <3>1 DEF Chunkwise, Ended
    <3> QED BY <1>2, <3>2 DEF One
  <2>10. CASE c # chunks[r]
    <3>1. /\ place'[r] = "decode" /\ Chunked(toks'[r], chunk'[r] - 1)
          /\ chunk'[r] \in 1..chunks'[r]
      BY <2>2, <2>5, <2>7, <2>8, <2>10
    <3>2. Chunkwise(r)' /\ Ended(r)'
      BY <2>6, <2>8, <3>1 DEF Chunkwise, Ended
    <3> QED BY <1>2, <3>2 DEF One
  <2> QED BY <2>9, <2>10
<1> QED BY <1>4, <1>5, <1>6

\* when the response is made,
LEMMA ResultStep ==
    ASSUME Streams!TypeOK, Types, NEW r \in Requests, One(r), Result(r) \/ ResultFails(r)
    PROVE  One(r)'
<1> USE DEF Types, Goes, Replies
<1>1. /\ UNCHANGED <<scheduler, kind, toks, chunk, chunks, sent>> /\ place[r] = "result"
      /\ place'[r] = "done" /\ reply'[r] \in {"ok", "failed"}
      /\ words'[r] = words[r] \/ (WordsMissing(r) /\ words'[r] = toks[r])
  BY DEF Result, ResultFails, result
<1>2. Reading(r)'
  BY <1>1, NoStream DEF One
<1>3. kind[r] # "stream"
  BY <1>1 DEF One, Eventwise
<1>4. Piecewise(r)' /\ Ended(r)'
  BY <1>1 DEF One, Piecewise, Ended, scheduler
<1>5. Eventwise(r)'
  BY <1>1, <1>3 DEF One, Eventwise
<1>6. Chunkwise(r)'
  <2> SUFFICES ASSUME kind[r] = "long" PROVE Chunkwise(r)'
    BY <1>1 DEF Chunkwise
  <2>1. Chunked(toks[r], chunks[r]) /\ HeadsOfChunks(words[r], toks[r])
    BY <1>1 DEF One, Chunkwise
  <2>2. CASE words'[r] = words[r]
    BY <1>1, <2>1, <2>2 DEF Chunkwise
  <2>3. CASE chunks[r] = 0 /\ words'[r] = toks[r]
    <3>1. toks[r] = <<>>
      BY <2>1, <2>3 DEF Chunked
    <3>2. HeadsOfChunks(words'[r], toks'[r])
      BY <1>1, <2>3, <3>1, WordsBegin
    <3> QED BY <1>1, <2>1, <3>2 DEF Chunkwise
  <2> QED BY <1>1, <2>2, <2>3 DEF WordsMissing
<1> QED BY <1>2, <1>4, <1>5, <1>6 DEF One

\* and while the scheduler decodes.
LEMMA DecodeStep ==
    ASSUME Streams!TypeOK, Types, NEW r \in Requests, One(r), Decode(r)
    PROVE  One(r)'
<1>1. /\ UNCHANGED <<kind, place, toks, chunk, chunks, current, words, sent, reply>>
      /\ UNCHANGED <<reader, seen>> /\ phase[r] # "idle"
  BY DEF Decode, result, Streams!Admit, Streams!Make, Streams!End, Streams!Withdraw, Streams!Move
<1>2. Reading(r)'
  BY ReadingStep DEF One, Decode
<1>3. Piecewise(r)' /\ Chunkwise(r)' /\ Eventwise(r)' /\ Ended(r)'
  BY <1>1 DEF One, Piecewise, Chunkwise, Eventwise, Ended
<1> QED BY <1>2, <1>3 DEF One

-----------------------------------------------------------------------------
\* The argument's invariant holds in the beginning,
LEMMA InvInit == Init => Inv
<1> SUFFICES ASSUME Init PROVE Inv
  OBVIOUS
<1> USE DEF Init, Streams!Init
<1>1. Streams!TypeOK /\ Types
  BY DEF Streams!TypeOK, Streams!Phases, Streams!Readers, Types, Places
<1>2. ASSUME NEW r \in Requests PROVE One(r)
  <2>1. <<>> = Upto(1, 0) /\ <<>> = Texts(0) /\ Len(<<>>) = 0 /\ 0 \in 0..0
    BY DEF Upto, Texts
  <2>2. Len(seen[r]) = 0
    OBVIOUS
  <2>3. Reading(r) /\ Ended(r) /\ Chunkwise(r)
    BY <2>2 DEF Reading, Ended, Chunkwise
  <2>4. Piecewise(r) /\ Eventwise(r)
    BY <2>1, <2>2 DEF Piecewise, Eventwise
  <2> QED BY <2>3, <2>4 DEF One
<1> QED BY <1>1, <1>2 DEF Inv

\* and in every state.
LEMMA InvAlways == Spec => []Inv
<1>1. Inv /\ [Next]_vars => Inv'
  <2> SUFFICES ASSUME Inv, [Next]_vars PROVE Inv'
    OBVIOUS
  <2>1. ASSUME NEW r \in Requests, Step(r) PROVE Inv'
    <3>1. Streams!TypeOK' /\ Types' /\ Others(r)
      BY <2>1, TypesStep DEF Inv
    <3>2. One(r)'
      BY <2>1, ArriveStep, CollectStep, LeaveStep, LongStep, ResultStep, DecodeStep
         DEF Inv, Step, Work
    <3>3. ASSUME NEW q \in Requests, q # r PROVE One(q)'
      BY <3>1, <3>3, SameOne DEF Inv, Others
    <3> QED BY <3>1, <3>2, <3>3 DEF Inv
  <2>2. CASE UNCHANGED vars
    <3>1. Streams!TypeOK' /\ Types'
      BY <2>2 DEF Inv, vars, scheduler, result, Types, Places,
                  Streams!TypeOK, Streams!Phases, Streams!Readers
    <3>2. ASSUME NEW q \in Requests PROVE One(q)'
      <4>1. Same(q)
        BY <2>2 DEF vars, scheduler, result, Same
      <4> QED BY <4>1, SameOne DEF Inv
    <3> QED BY <3>1, <3>2 DEF Inv
  <2> QED BY <2>1, <2>2 DEF Next, Quiet, Step
<1> QED BY <1>1, InvInit, PTL DEF Spec

-----------------------------------------------------------------------------
\* A response with a text has every token of every chunk, in order, and of every
\* chunk the first words.
THEOREM RepliesAreWhole == Spec => []ReplyIsWhole
<1>1. Inv => ReplyIsWhole
  <2> SUFFICES ASSUME Inv, NEW r \in Requests, reply[r] = "ok"
               PROVE  /\ IF toks[r] = <<>> THEN chunks[r] = 0 \/ kind[r] # "long"
                         ELSE toks[r][1] = <<1, 1>> /\ toks[r][Len(toks[r])][1] = chunks[r]
                      /\ \A i \in 1..(Len(toks[r]) - 1) : Follows(toks[r][i], toks[r][i + 1])
                      /\ kind[r] # "long" /\ chunks[r] > 0 =>
                             phase[r] = "complete" /\ Len(toks[r]) = made[r]
                      /\ HeadsOfChunks(words[r], toks[r])
                      /\ kind[r] # "long" => words[r] \in {<<>>, toks[r]}
    BY DEF ReplyIsWhole
  <2>1. One(r)
    BY DEF Inv
  <2>2. CASE kind[r] = "long"
    BY <2>1, <2>2 DEF One, Chunkwise, Chunked
  <2>3. CASE kind[r] # "long"
    <3> DEFINE t == toks[r]
               n == Len(seen[r])
    <3>1. n \in Nat /\ made[r] \in Nat
      BY DEF Inv, Streams!TypeOK
    <3>2. t = Upto(1, n) /\ (words[r] = <<>> \/ words[r] = t)
      BY <2>1, <2>3 DEF One, Piecewise
    <3>3. Len(t) = n /\ \A k \in 1..n : t[k] = <<1, k>>
      <4>1. 1 \in Nat /\ n \in Nat
        BY <3>1
      <4> HIDE DEF n, t
      <4>2. Len(Upto(1, n)) = n /\ \A k \in 1..n : Upto(1, n)[k] = <<1, k>>
        BY <4>1, UptoFacts
      <4> QED BY <3>2, <4>2
    <3>4. HeadsOfChunks(words[r], t) /\ words[r] \in {<<>>, t}
      BY <3>1, <3>2, WordsBegin
    <3>5. chunks[r] > 0 => chunks[r] = 1 /\ phase[r] = "complete" /\ n = made[r]
      BY <2>1, <2>3 DEF One, Piecewise, Reading
    <3>6. chunks[r] = 0 => n = 0
      BY <2>1, <2>3, <3>1 DEF One, Piecewise, Reading
    <3>7. chunks[r] = 1 \/ chunks[r] = 0
      BY <2>1, <2>3 DEF One, Piecewise
    <3>8. t \in Seq(Tokens)
      BY DEF Inv, Types
    <3> HIDE DEF t, n
    <3>9. ASSUME t # <<>> PROVE t[1] = <<1, 1>> /\ t[Len(t)][1] = chunks[r]
      <4>1. n # 0 /\ n \in 1..n /\ 1 \in 1..n
        BY <3>1, <3>3, <3>8, <3>9
      <4>2. chunks[r] = 1 /\ t[1] = <<1, 1>> /\ t[n] = <<1, n>>
        BY <3>3, <3>6, <3>7, <4>1
      <4> QED BY <3>3, <4>2
    <3>10. ASSUME NEW i \in 1..(Len(t) - 1) PROVE Follows(t[i], t[i + 1])
      <4>1. i \in 1..n /\ i + 1 \in 1..n
        BY <3>1, <3>3
      <4>2. t[i] = <<1, i>> /\ t[i + 1] = <<1, i + 1>>
        BY <3>3, <4>1
      <4> QED BY <4>2 DEF Follows
    <3> QED BY <2>3, <3>3, <3>4, <3>5, <3>9, <3>10 DEF t
  <2> QED BY <2>2, <2>3
<1> QED BY <1>1, InvAlways, PTL

\* The events of a stream grow by one delta each, and [DONE] is behind all of
\* them and is sent for a complete decode only.
THEOREM StreamsAreTold == Spec => []StreamTold
<1>1. Inv => StreamTold
  <2> SUFFICES ASSUME Inv, NEW r \in Requests
               PROVE  /\ \A i \in DOMAIN sent[r] : sent[r][i] \in {Done, Partial(Upto(1, i))}
                      /\ \A i \in DOMAIN sent[r] : sent[r][i] = Done =>
                             /\ i = Len(sent[r])
                             /\ phase[r] = "complete" /\ made[r] = i - 1
                      /\ kind[r] = "stream" /\ reply[r] = "ok" =>
                             sent[r] # <<>> /\ sent[r][Len(sent[r])] = Done
    BY DEF StreamTold
  <2>1. One(r) /\ Len(seen[r]) \in Nat /\ made[r] \in Nat
    BY DEF Inv, Streams!TypeOK
  <2>2. CASE kind[r] # "stream"
    <3>1. sent[r] = <<>>
      BY <2>1, <2>2 DEF One, Eventwise
    <3> QED BY <2>2, <3>1
  <2>3. CASE kind[r] = "stream" /\ reply[r] # "ok"
    <3>1. PICK n \in 0..Len(seen[r]) : sent[r] = Texts(n)
      BY <2>1, <2>3 DEF One, Eventwise
    <3>2. n \in Nat /\ DOMAIN Texts(n) = 1..n
      BY DEF Texts
    <3>3. \A i \in 1..n : Texts(n)[i] = Partial(Upto(1, i))
      BY <3>2, TextsFacts
    <3> QED BY <2>3, <3>1, <3>2, <3>3, NotDone
  <2>4. CASE kind[r] = "stream" /\ reply[r] = "ok"
    <3> DEFINE n == Len(seen[r])
               s == Append(Texts(n), Done)
    <3>1. sent[r] = s /\ reader[r] = "ok"
      BY <2>1, <2>4 DEF One, Eventwise
    <3>2. phase[r] = "complete" /\ made[r] = n
      BY <2>1, <3>1 DEF One, Reading
    <3>3. /\ Len(s) = n + 1 /\ s[n + 1] = Done
          /\ \A i \in 1..n : s[i] = Partial(Upto(1, i))
      BY <2>1, TextsEnd
    <3>4. DOMAIN s = 1..(n + 1)
      <4>1. Texts(n) \in Seq(UNION {{Done}, {Partial(Upto(1, i)) : i \in Nat}})
        BY <2>1, TextsFacts
      <4>2. s \in Seq(UNION {{Done}, {Partial(Upto(1, i)) : i \in Nat}})
        BY <4>1, AppendProperties
      <4> QED BY <3>3, <4>2, LenProperties
    <3>5. n \in Nat
      BY <2>1
    <3> HIDE DEF n, s
    <3>6. s # <<>>
      BY <3>3, <3>5
    <3>7. \A i \in 1..(n + 1) : i \in 1..n \/ i = n + 1
      BY <3>5
    <3>8. ASSUME NEW i \in 1..(n + 1)
          PROVE  /\ s[i] \in {Done, Partial(Upto(1, i))}
                 /\ s[i] = Done => i = n + 1 /\ n = i - 1
      <4>1. CASE i \in 1..n
        BY <3>3, <4>1, NotDone
      <4>2. CASE i = n + 1
        BY <3>3, <3>5, <4>2
      <4> QED BY <3>7, <4>1, <4>2
    <3> QED BY <3>1, <3>2, <3>3, <3>4, <3>6, <3>8
  <2> QED BY <2>2, <2>3, <2>4
<1> QED BY <1>1, InvAlways, PTL
=============================================================================
