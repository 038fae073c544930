------------------------------ MODULE Chunking ------------------------------
(***************************************************************************)
(* The three ways this repository cuts a long recording into pieces:       *)
(* split_on_silence (parakeet_vllm/streaming/chunker.py), auto_chunk       *)
(* (parakeet_service/chunker.py) and the split points of app.py; and the   *)
(* energy detector the first two fall back on.                             *)
(*                                                                         *)
(* They are pure functions of a recording's length and of what a detector  *)
(* hears in it.  The state is that input: a recording that grows, as heard *)
(* by Silero (any spans in order) or frame by frame by the energy detector.*)
(* Samples and seconds are counted in small units; a span or a range       *)
(* <<s, e>> is half open, as a Python slice.                               *)
(***************************************************************************)
EXTENDS Integers, Sequences, FiniteSetsExt, SequencesExt

CONSTANTS MaxSamples,           \* split_on_silence: max_chunk_s
          Target, Hard, Least,  \* auto_chunk: CHUNK_TARGET/MAX/MIN_SEC
          Frame, MinSil,        \* energy detector: a frame, a pause in frames
          ChunkLength, Window, MinGap,  \* app.py: CHUNK_MINUTE,
                                        \* SILENCE_SEARCH_WINDOW, MIN_SPLIT_GAP
          MaxTotal              \* bound: the length of a recording

\* CHUNK_MIN/TARGET/MAX_SEC are 20, 60 and 75 s.  The window and the gaps of two
\* splits fit into a chunk of app.py: 30 + 4 * 5 s into 90 s.
ASSUME ChunkingAssumption ==
    /\ {MaxSamples, Target, Hard, Frame, MinSil, ChunkLength, MinGap} \subseteq Nat \ {0}
    /\ {Least, Window, MaxTotal} \subseteq Nat
    /\ Least <= Target /\ Target <= Hard
    /\ Window + 4 * MinGap <= ChunkLength + 1

VARIABLES detector,  \* "silero" or "energy"
          total,     \* the length of the recording
          spans,     \* what Silero hears
          frames     \* for each whole frame: is its energy above the threshold?

vars == <<detector, total, spans, frames>>

CeilDiv(a, b) == (a + b - 1) \div b

-----------------------------------------------------------------------------
(***************************************************************************)
(* The energy detector.  A span is open from its first loud frame until    *)
(* MinSil quiet frames have been counted.                                  *)
(***************************************************************************)
Nowhere == -1

\* Mutant: the count of quiet frames is not reset by a loud one.
CountEveryQuiet(loud, quiet) == IF loud THEN quiet ELSE quiet + 1

CountQuiet(loud, quiet) == IF loud THEN 0 ELSE quiet + 1

\* One frame, i - 1 being its number in the code.  The quiet frames that end
\* a span are counted with the one that is being looked at, and then taken
\* from the number of that frame: the span ends before its last loud frame.
HearFrame(s, i) ==
    LET quiet == CountQuiet(frames[i], s.quiet)
    IN  IF s.open = Nowhere
        THEN IF frames[i] THEN [s EXCEPT !.open = i - 1, !.quiet = 0] ELSE s
        ELSE IF frames[i] \/ quiet < MinSil THEN [s EXCEPT !.quiet = quiet]
        ELSE [open |-> Nowhere, quiet |-> 0,
              found |-> Append(s.found, <<s.open, i - 1 - quiet>>)]

\* What is known after each frame, and before the first.
Hearing ==
    LET after[i \in 0..Len(frames)] ==
            IF i = 0 THEN [open |-> Nowhere, quiet |-> 0, found |-> <<>>]
            ELSE HearFrame(after[i - 1], i)
    IN  after

\* In frames.
FrameSpans ==
    LET n == Len(frames)
        s == Hearing[n]
    IN  IF s.open = Nowhere THEN s.found
        ELSE Append(s.found, <<s.open, n - s.quiet>>)

\* In samples; when no frame is loud, all of the recording.
EnergySpans(found) ==
    IF found = <<>> THEN << <<0, total>> >>
    ELSE [k \in DOMAIN found |-> <<found[k][1] * Frame, found[k][2] * Frame>>]

Spans == IF detector = "silero" THEN spans ELSE EnergySpans(FrameSpans)

-----------------------------------------------------------------------------
(***************************************************************************)
(* split_on_silence: pack spans while they fit, cut in the middle of the   *)
(* pause otherwise; then cut what is still too long.                       *)
(***************************************************************************)
\* A range that is too long is sliced into pieces of "size" samples; one that
\* is not is kept, also if it were empty.
Slices(s, e, size) ==
    IF e - s <= size THEN << <<s, e>> >>
    ELSE [k \in 1..CeilDiv(e - s, size) |->
             <<s + (k - 1) * size, Min({s + k * size, e})>>]

PackSpan(p, span) ==
    IF span[2] - p.start <= MaxSamples THEN [p EXCEPT !.end = span[2]]
    ELSE LET mid == (p.end + span[1]) \div 2
         IN  [cuts |-> Append(p.cuts, mid), start |-> mid, end |-> span[2]]

\* What is packed with each span.
SpanPacking(heard) ==
    LET packed[i \in 1..Len(heard)] ==
            IF i = 1
            THEN [cuts |-> <<heard[1][1]>>, start |-> heard[1][1], end |-> heard[1][2]]
            ELSE PackSpan(packed[i - 1], heard[i])
    IN  packed

\* Where chunks begin, and the end of the recording.
Cuts(heard) == Append(SpanPacking(heard)[Len(heard)].cuts, total)

\* Mutant: the silence before the first span is left out.
PiecesLate(cuts) == [i \in 1..(Len(cuts) - 1) |-> <<cuts[i], cuts[i + 1]>>]

\* The first cut is moved to 0, whatever precedes the first span.
Pieces(cuts) ==
    [i \in 1..(Len(cuts) - 1) |-> <<IF i = 1 THEN 0 ELSE cuts[i], cuts[i + 1]>>]

\* What is too long is sliced.
Sliced(pieces) ==
    FlattenSeq([i \in DOMAIN pieces |-> Slices(pieces[i][1], pieces[i][2], MaxSamples)])

SplitOnSilence(heard) ==
    IF total <= MaxSamples \/ heard = <<>> THEN << <<0, total>> >>
    ELSE Sliced(Pieces(Cuts(heard)))

-----------------------------------------------------------------------------
(***************************************************************************)
(* auto_chunk: pack spans up to Target, cut in the pause once past Least,  *)
(* force a cut past Hard; then cut what is still too long.                 *)
(***************************************************************************)
PackRange(p, span) ==
    IF span[2] - p.start <= Target THEN [p EXCEPT !.end = span[2]]
    ELSE IF p.end - p.start >= Least
    THEN LET mid == (p.end + span[1]) \div 2
         IN  [ranges |-> Append(p.ranges, <<p.start, mid>>), start |-> mid, end |-> span[2]]
    ELSE IF span[2] - p.start >= Hard
    THEN [ranges |-> Append(p.ranges, <<p.start, span[2]>>), start |-> span[2], end |-> span[2]]
    ELSE [p EXCEPT !.end = span[2]]

RangePacking(heard) ==
    LET packed[i \in 1..Len(heard)] ==
            IF i = 1 THEN [ranges |-> <<>>, start |-> heard[1][1], end |-> heard[1][2]]
            ELSE PackRange(packed[i - 1], heard[i])
    IN  packed

\* The tail is at least one sample long, even when a forced cut left nothing.
Packed(heard) ==
    LET p == RangePacking(heard)[Len(heard)]
    IN  Append(p.ranges, <<p.start, Max({p.end, p.start + 1})>>)

\* Mutant: what is left is not appended.
TimeSplitNoTail(s, e) ==
    [k \in 1..Max({1, (e - s) \div Target}) |->
        <<s + (k - 1) * Target, Min({s + k * Target, e})>>]

\* Pieces of Target samples, until what is left fits into Hard.
TimeSplit(s, e) ==
    LET n == IF e - s <= Hard THEN 0 ELSE CeilDiv(e - s - Hard, Target)
    IN  [k \in 1..n |-> <<s + (k - 1) * Target, s + k * Target>>]
            \o << <<s + n * Target, e>> >>

\* What is too long is split on time.
TimeSplitAll(ranges) ==
    FlattenSeq([i \in DOMAIN ranges |-> TimeSplit(ranges[i][1], ranges[i][2])])

AutoChunk(heard) ==
    IF total <= Hard \/ heard = <<>> THEN << <<0, total>> >>
    ELSE TimeSplitAll(Packed(heard))

-----------------------------------------------------------------------------
(***************************************************************************)
(* app.py.  The middle of a silence is a float there: boundaries are       *)
(* counted in half units here, the middle of <<s, e>> being s + e.         *)
(***************************************************************************)
\* What silencedetect reports: the pauses; or nothing, when ffmpeg fails or
\* takes too long.
Pauses ==
    LET n       == Len(spans)
        from(k) == IF k = 0 THEN 0 ELSE spans[k][2]
        to(k)   == IF k = n THEN total ELSE spans[k + 1][1]
    IN  {<<from(k), to(k)>> : k \in {j \in 0..n : from(j) < to(j)}}

Abs(n) == IF n < 0 THEN -n ELSE n

\* The silences that overlap the window around the i-th target.
Near(silences, i) ==
    {c \in silences : /\ c[1] <= Min({total, i * ChunkLength + Window})
                     /\ c[2] >= Max({0, i * ChunkLength - Window})}

Middle(silence) == silence[1] + silence[2]

\* Mutant: no distance is kept from the split before.
CandidatesClose(silences, prev, i) == {Middle(c) : c \in Near(silences, i)}

\* The middles of those that are far enough from the split before and from
\* the end.
Candidates(silences, prev, i) ==
    {m \in {Middle(c) : c \in Near(silences, i)} :
        prev + 2 * MinGap < m /\ m <= 2 * (total - MinGap)}

\* The nearest middle, the earlier one of two; the target itself, kept away
\* from the split before and from the end, when there is none.
NextSplit(silences, prev, i) ==
    LET target  == 2 * i * ChunkLength
        middles == Candidates(silences, prev, i)
        away(m) == Abs(m - target)
    IN  IF middles # {}
        THEN CHOOSE m \in middles : \A d \in middles :
                 away(m) < away(d) \/ (away(m) = away(d) /\ m <= d)
        ELSE Max({prev + 2 * MinGap, Min({target, 2 * (total - MinGap)})})

NumChunks == CeilDiv(total, ChunkLength)

\* A split behind the end would be None, and the next round would raise.
SplitPoints(silences) ==
    LET split[i \in 0..(NumChunks - 1)] ==
            IF i = 0 THEN 0 ELSE NextSplit(silences, split[i - 1], i)
    IN  split

\* Split points, if there are any; else chunks of one length.
Boundaries(silences) ==
    LET at(i) == IF i = NumChunks THEN 2 * total
                 ELSE IF silences = {} THEN 2 * Min({i * ChunkLength, total})
                 ELSE SplitPoints(silences)[i]
    IN  [i \in 1..(NumChunks + 1) |-> at(i - 1)]

-----------------------------------------------------------------------------
\* The first frame may be incomplete for ever: a recording shorter than one.
Init ==
    /\ detector \in {"silero", "energy"}
    /\ total = 0
    /\ spans = <<>>
    /\ frames = <<>>

\* External: Silero's spans are in order and not empty.  With padding they may touch.
HearSpeech(gap, length) ==
    /\ detector = "silero"
    /\ total + gap + length <= MaxTotal
    /\ total' = total + gap + length
    /\ spans' = Append(spans, <<total + gap, total + gap + length>>)
    /\ UNCHANGED <<detector, frames>>

HearSilence(length) ==
    /\ detector = "silero"
    /\ total + length <= MaxTotal
    /\ total' = total + length
    /\ UNCHANGED <<detector, spans, frames>>

\* The samples behind the last whole frame are not looked at.
HearMore(loud) ==
    /\ detector = "energy"
    /\ total < MaxTotal
    /\ total' = total + 1
    /\ frames' = IF total' % Frame = 0 THEN Append(frames, loud) ELSE frames
    /\ UNCHANGED <<detector, spans>>

Full == /\ total = MaxTotal
        /\ UNCHANGED vars

Next == \/ \E gap \in 0..MaxTotal, length \in 1..MaxTotal : HearSpeech(gap, length)
        \/ \E length \in 1..MaxTotal : HearSilence(length)
        \/ \E loud \in BOOLEAN : HearMore(loud)
        \/ Full

Spec == Init /\ [][Next]_vars
-----------------------------------------------------------------------------
(***************************************************************************)
(* Properties.                                                             *)
(***************************************************************************)
Consecutive(ranges) ==
    \A i \in 1..(Len(ranges) - 1) : ranges[i][2] = ranges[i + 1][1]

InOrder(ranges) ==
    /\ \A i \in DOMAIN ranges : ranges[i][1] < ranges[i][2]
    /\ \A i \in 1..(Len(ranges) - 1) : ranges[i][2] <= ranges[i + 1][1]

AtMost(ranges, size) == \A r \in ToSet(ranges) : r[2] - r[1] <= size

\* The chunks are the recording, and short enough.
Covers(heard, chunks) ==
    /\ Head(chunks)[1] = 0 /\ Last(chunks)[2] = total
    /\ Consecutive(chunks) /\ InOrder(chunks)
    /\ heard # <<>> => AtMost(chunks, MaxSamples)

\* split_on_silence loses no sample and takes none twice, whatever the spans:
\* its chunks are the recording.  None is empty, and when there is speech none
\* is longer than the limit.
SplitCovers == total > 0 => Covers(Spans, SplitOnSilence(Spans))

\* The ranges are in order, short enough, and hold every sample of the spans.
KeepsSpeech(heard, ranges) ==
    /\ InOrder(ranges)
    /\ \A i \in DOMAIN ranges :
           ranges[i][2] <= IF i = Len(ranges) THEN total + 1 ELSE total
    /\ heard # <<>> => AtMost(ranges, Hard)
    /\ \A s \in ToSet(heard) : \A t \in s[1]..(s[2] - 1) :
           \E r \in ToSet(ranges) : r[1] <= t /\ t < r[2]

\* auto_chunk drops silence only: every sample of a span is in one range.  No
\* range is longer than the limit, and only the last can reach behind the end,
\* by one sample, being then the only one that may lie outside the recording.
AutoKeepsSpeech == total > 0 => KeepsSpeech(Spans, AutoChunk(Spans))

\* The energy detector hears every loud frame but the one a span ends before,
\* starts a span with a loud frame, and never splits at a pause that is short.
EnergyHears ==
    detector = "energy" =>
        LET loud  == {i \in DOMAIN frames : frames[i]}
            found == FrameSpans
        IN  /\ \A i \in loud : \E s \in ToSet(found) : s[1] < i /\ i <= s[2] + 1
            /\ \A s \in ToSet(found) : s[1] + 1 \in loud
            /\ \A k \in 1..(Len(found) - 1) : found[k + 1][1] - found[k][2] > MinSil

\* The chunks of app.py fill the recording, and with silence to split at they
\* are as many as planned, none shorter than the minimum gap.
BoundariesSpread ==
    total > 0 => \A silences \in {Pauses, {}} :
        LET b == Boundaries(silences)
        IN  /\ b[1] = 0 /\ Last(b) = 2 * total
            /\ Len(b) = NumChunks + 1
            /\ \A i \in 1..(Len(b) - 1) :
                   b[i + 1] - b[i] >= IF silences # {} /\ NumChunks > 1
                                      THEN 2 * MinGap ELSE 1
=============================================================================
