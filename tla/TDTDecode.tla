------------------------------ MODULE TDTDecode ----------------------------
(***************************************************************************)
(* decode_stream of parakeet_vllm/decode/reference_tdt.py, the greedy TDT  *)
(* loop over the T encoder frames of one window, with split_joint of       *)
(* tdt_step.py.  What the model answers is not known: at every step the    *)
(* joint may select any token and any of the configured durations.         *)
(***************************************************************************)
EXTENDS Integers

CONSTANTS MaxFrames,    \* bound: frames of a window
          MaxSymbols,   \* max_symbols
          Durations     \* durations

ASSUME DecodeAssumption ==
    /\ MaxFrames \in Nat \ {0}
    /\ MaxSymbols \in Nat \ {0}
    /\ Durations \subseteq Nat

VARIABLES T,          \* int(encoder_lengths[0]), at least one frame
          framePtr,   \* frame_ptr
          produced,   \* tokens emitted after the start token
          symbols,    \* symbols_on_frame
          ended,      \* why the loop was left, "no" while it runs
          arrived     \* history: produced, when the loop came to this frame

decodeVars == <<T, framePtr, produced, symbols, ended, arrived>>

Tokens == {"blank", "eos", "word"}

-----------------------------------------------------------------------------
\* Mutant: a blank may stay on its frame.
AdvanceUnforced(token, duration) == duration

\* split_joint: a blank of duration 0 advances one frame.
Advance(token, duration) == IF token = "blank" /\ duration = 0 THEN 1 ELSE duration

\* max_produced, the start token counted.
MaxProduced == MaxSymbols * T

DecodeInit ==
    /\ T \in 1..MaxFrames
    /\ framePtr = 0
    /\ produced = 0
    /\ symbols = 0
    /\ ended = "no"
    /\ arrived = 0

\* Mutant: only the forced advance sets the count back.
CountSymbolsStale(stays) ==
    symbols' = IF ~stays THEN symbols
               ELSE IF symbols + 1 < MaxSymbols THEN symbols + 1 ELSE 0

\* A token that stays on the frame is counted; any other sets the count back,
\* and so does the last one a frame may have.
CountSymbols(stays) ==
    symbols' = IF stays /\ symbols + 1 < MaxSymbols THEN symbols + 1 ELSE 0

\* Mutant: exhaustion is tested on the frame just decoded.
StopBehind(token, advance) ==
    ended' = IF framePtr >= T THEN "exhausted"
             ELSE IF token = "eos" THEN "eos"
             ELSE IF 1 + produced' >= MaxProduced THEN "length" ELSE "no"

\* Why the loop stops after this token, in the order of the tests.
Stop(token, advance) ==
    ended' = IF framePtr + advance >= T THEN "exhausted"
             ELSE IF token = "eos" THEN "eos"
             ELSE IF 1 + produced' >= MaxProduced THEN "length" ELSE "no"

\* One round of the loop.  The last token a frame may have moves on from it.
Step(token, duration) ==
    /\ ended = "no"
    /\ LET selected == Advance(token, duration)
           stays    == token # "blank" /\ selected = 0
           advance  == IF stays /\ symbols + 1 >= MaxSymbols THEN 1 ELSE selected
       IN  /\ CountSymbols(stays)
           /\ framePtr' = framePtr + advance
           /\ produced' = produced + 1
           /\ arrived' = IF advance > 0 THEN produced' ELSE arrived
           /\ Stop(token, advance)
    /\ UNCHANGED T

\* The final TokenDelta(finished=True) has been yielded.
Finished == ended # "no" /\ UNCHANGED decodeVars

DecodeNext == \/ \E token \in Tokens, duration \in Durations : Step(token, duration)
              \/ Finished

DecodeSpec == DecodeInit /\ [][DecodeNext]_decodeVars
-----------------------------------------------------------------------------
\* The variables are numbers in their ranges and a reason to stop.
DecodeTypeOK ==
    /\ T \in 1..MaxFrames
    /\ framePtr \in Nat
    /\ produced \in Nat
    /\ symbols \in 0..MaxSymbols - 1
    /\ ended \in {"no", "exhausted", "eos", "length"}
    /\ arrived \in Nat

\* No frame emits more than max_symbols tokens: the tokens so far fit in the
\* frames left behind and the count of the current one.
FrameBudget == produced <= MaxSymbols * framePtr + symbols

\* symbols_on_frame counts what its name says, whatever blanks, steps and leaps
\* came before: the tokens of this frame, fewer than max_symbols.  So a frame
\* emits no more than max_symbols, also behind a leap, where the frames leapt
\* over leave FrameBudget slack, and none is left early for the tokens of
\* another.
FrameCount == produced - arrived = symbols /\ symbols < MaxSymbols

\* The length cap is a last resort: it cuts a window only on its last frame,
\* when every frame has used its whole budget, and drops one token at most.
CapIsLastResort ==
    ended = "length" => /\ framePtr = T - 1
                        /\ produced = MaxProduced - 1
                        /\ symbols = MaxSymbols - 1
=============================================================================
