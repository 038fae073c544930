------------------------------ MODULE Stitching ------------------------------
(***************************************************************************)
(* How the three services put the recognized pieces of a recording back    *)
(* together: a recognizer counts time from the beginning of its piece, a   *)
(* response from the beginning of the recording.                           *)
(*                                                                         *)
(* Pieces are those of Chunking.  A word is <<start, end>>, and a word is  *)
(* spoken in every unit in which the detector hears speech; text is left   *)
(* out.  A segment of a response begins with its first word and ends with  *)
(* its last.                                                               *)
(***************************************************************************)
EXTENDS Chunking

\* External: when the words of the piece <<from, to>> begin, in its own time.
Timestamps(spoken, from, to) ==
    LET told[t \in 0..(to - from)] ==
            IF t = 0 THEN <<>>
            ELSE IF from + t - 1 \in spoken THEN Append(told[t - 1], t - 1)
            ELSE told[t - 1]
    IN  told[to - from]

Shifted(words, offset) == [i \in DOMAIN words |-> <<words[i][1] + offset, words[i][2] + offset>>]

\* A word ends where the next of its piece begins; the last one ends where it
\* begins, or a moment later when it is the only one.
Words(starts) ==
    [i \in DOMAIN starts |->
        <<starts[i], IF i < Len(starts) THEN starts[i + 1]
                     ELSE IF Len(starts) > 1 THEN starts[i] ELSE starts[i] + 1>>]

\* ASREngine.transcribe: each chunk has the offset it was cut at.  The ends
\* are the processor's.
EngineWords(spoken, heard) ==
    LET chunks == SplitOnSilence(heard)
        starts(i) == Timestamps(spoken, chunks[i][1], chunks[i][2])
    IN  FlattenSeq([i \in DOMAIN chunks |->
            Shifted([k \in DOMAIN starts(i) |-> <<starts(i)[k], starts(i)[k] + 1>>],
                    chunks[i][1])])

\* transcribe of the ONNX service: the offset is where the range begins.
RouteWords(spoken, heard) ==
    LET ranges == AutoChunk(heard)
    IN  FlattenSeq([i \in DOMAIN ranges |->
            Shifted(Words(Timestamps(spoken, ranges[i][1], ranges[i][2])), ranges[i][1])])

\* Mutant: a chunk without text is skipped before its duration is added.
AddChunkIfText(s, spoken, from, to) ==
    LET starts == Timestamps(spoken, from, to)
    IN  IF starts = <<>> THEN s
        ELSE [words |-> s.words \o Shifted(Words(starts), s.offset),
              offset |-> s.offset + to - from]

\* app.py: cumulative_time_offset is the sum of the chunks' planned durations.
AddChunk(s, spoken, from, to) ==
    [words |-> s.words \o Shifted(Words(Timestamps(spoken, from, to)), s.offset),
     offset |-> s.offset + to - from]

\* In half units, as boundaries are.
AppWords(spoken, silences) ==
    LET b == Boundaries(silences)
        after[i \in 0..(Len(b) - 1)] ==
            IF i = 0 THEN [words |-> <<>>, offset |-> 0]
            ELSE AddChunk(after[i - 1], {2 * t : t \in spoken}, b[i], b[i + 1])
    IN  after[Len(b) - 1].words

-----------------------------------------------------------------------------
Spoken(heard) == UNION {s[1]..(s[2] - 1) : s \in ToSet(heard)}

\* The words begin at these times, one after another, and no word ends before
\* it begins.
Tell(words, times) ==
    /\ {w[1] : w \in ToSet(words)} = times
    /\ \A i, j \in DOMAIN words : i < j => words[i][1] < words[j][1]
    /\ \A w \in ToSet(words) : w[1] <= w[2]

\* Wherever a recording is cut, and however much silence is dropped or is a
\* chunk without a word: a response has every word once, in order, at the time
\* it is spoken in the recording.
WordsInPlace ==
    total > 0 =>
        LET spoken == Spoken(Spans)
        IN  /\ Tell(EngineWords(spoken, Spans), spoken)
            /\ Tell(RouteWords(spoken, Spans), spoken)
            /\ \A silences \in {Pauses, {}} :
                   Tell(AppWords(spoken, silences), {2 * t : t \in spoken})
=============================================================================
