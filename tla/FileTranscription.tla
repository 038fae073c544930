-------------------------- MODULE FileTranscription --------------------------
(***************************************************************************)
(* POST /v1/audio/transcriptions of parakeet_vllm: the route               *)
(* (api/routes.py), ASREngine (engine/asr_engine.py) and the stream of     *)
(* server-sent events (streaming/file_stream.py), over the scheduler.      *)
(*                                                                         *)
(* Of the scheduler there is what it promises, BoundedStreams: a step of a *)
(* request is a step of its reader, and decoding goes on beside it.  Short *)
(* recordings and streams go through it.  A long recording is encoded as a *)
(* batch and decoded chunk by chunk beside it.                             *)
(*                                                                         *)
(* A token is <<chunk, number>>.  The delta that ends a decode has no      *)
(* tokens and is left out.  Where the chunks are cut is in Chunking.       *)
(***************************************************************************)
EXTENDS Integers, Sequences, FiniteSets

CONSTANTS Requests, MaxConcurrency,
          MaxTokens,  \* bound: tokens of a decode
          MaxChunks   \* bound: chunks of a recording

ASSUME FileAssumption == {MaxConcurrency, MaxTokens, MaxChunks} \subseteq Nat \ {0}

VARIABLES phase, reader, made, seen,  \* the scheduler's
          kind,       \* "short" or "long" recording, or "stream": true
          place,      \* where the request's task is
          toks,       \* all_toks
          chunk,      \* the chunk being decoded
          chunks,     \* len(vad_chunks), 1 for what the scheduler decodes
          current,    \* toks_i: how many tokens the chunk has so far
          words,      \* words of the result, in tokens
          sent,       \* what the client of a stream got
          reply       \* the status of the response, or how a stream ended

Streams == INSTANCE BoundedStreams

scheduler == <<phase, reader, made, seen>>
result == <<toks, chunk, chunks, current, words>>
vars == <<scheduler, kind, place, result, sent, reply>>

\* The events of a stream.
Partial(text) == <<"partial", text>>
Done == <<"[DONE]", <<>>>>

Init ==
    /\ Streams!Init
    /\ kind \in [Requests -> {"short", "long", "stream"}]
    /\ place = [r \in Requests |-> "new"]
    /\ toks = [r \in Requests |-> <<>>]
    /\ chunk = [r \in Requests |-> 1]
    /\ chunks = [r \in Requests |-> 1]
    /\ current = [r \in Requests |-> 0]
    /\ words = [r \in Requests |-> <<>>]
    /\ sent = [r \in Requests |-> <<>>]
    /\ reply = [r \in Requests |-> "none"]

Goes(r, where) == place' = [place EXCEPT ![r] = where]

Replies(r, what) ==
    /\ Goes(r, "done")
    /\ reply' = [reply EXCEPT ![r] = what]

Upto(c, n) == [k \in 1..n |-> <<c, k>>]

-----------------------------------------------------------------------------
(***************************************************************************)
(* Before anything is decoded.                                             *)
(***************************************************************************)
\* Too large, empty, or not audio: 413 or 422.
Refuse(r) ==
    /\ place[r] = "new"
    /\ Replies(r, "refused")
    /\ UNCHANGED <<scheduler, kind, result, sent>>

\* Silence of any length, or less than one hop.  A stream is not looked at.
Silence(r) ==
    /\ place[r] = "new" /\ kind[r] # "stream"
    /\ chunks' = [chunks EXCEPT ![r] = 0]
    /\ Goes(r, "result")
    /\ UNCHANGED <<scheduler, kind, toks, chunk, current, words, sent, reply>>

\* A stream's status has been sent before its generator is first asked.
Respond(r) ==
    /\ place[r] = "new" /\ kind[r] = "stream"
    /\ Goes(r, "respond")
    /\ UNCHANGED <<scheduler, kind, result, sent, reply>>

Ready(r) == IF kind[r] = "stream" THEN place[r] = "respond"
            ELSE place[r] = "new" /\ kind[r] = "short"

\* Encoded, and handed to the scheduler.
Run(r) ==
    /\ Ready(r)
    /\ Streams!Accept(r)
    /\ Goes(r, "collect")
    /\ UNCHANGED <<kind, result, sent, reply>>

\* Encoding raises: a stream just ends.
RunFails(r) ==
    /\ Ready(r)
    /\ Streams!Reject(r)
    /\ Replies(r, "failed")
    /\ UNCHANGED <<kind, result, sent>>

-----------------------------------------------------------------------------
(***************************************************************************)
(* The next delta of the scheduler, in transcribe() and transcribe_stream().*)
(***************************************************************************)
Collect(r) ==
    /\ place[r] = "collect"
    /\ Streams!See(r)
    /\ toks' = [toks EXCEPT ![r] = Append(@, <<1, Len(@) + 1>>)]
    /\ Goes(r, IF kind[r] = "stream" THEN "partial" ELSE "collect")
    /\ UNCHANGED <<kind, chunk, chunks, current, words, sent, reply>>

\* What is sent is all the text so far.
SendPartial(r) ==
    /\ place[r] = "partial"
    /\ sent' = [sent EXCEPT ![r] = Append(@, Partial(toks[r]))]
    /\ Goes(r, "collect")
    /\ UNCHANGED <<scheduler, kind, result, reply>>

\* Mutant: the end of the events is sent in a finally block.
StreamEndsAnyway(r) ==
    /\ place[r] = "collect" /\ kind[r] = "stream"
    /\ Streams!Conclude(r)
    /\ sent' = [sent EXCEPT ![r] = Append(@, Done)]
    /\ Replies(r, reader'[r])
    /\ UNCHANGED <<kind, result>>

\* [DONE] follows the last partial.  A decode that failed raises out of the
\* generators, and the connection is closed.
StreamEnds(r) ==
    /\ place[r] = "collect" /\ kind[r] = "stream"
    /\ Streams!Conclude(r)
    /\ IF reader'[r] = "ok"
       THEN sent' = [sent EXCEPT ![r] = Append(@, Done)] /\ Replies(r, "ok")
       ELSE UNCHANGED sent /\ Replies(r, "failed")
    /\ UNCHANGED <<kind, result>>

\* Mutant: an error of the scheduler is not noticed.
RunEndsWell(r) ==
    /\ place[r] = "collect" /\ kind[r] = "short"
    /\ Streams!Conclude(r)
    /\ reader'[r] = "ok" /\ Goes(r, "result") /\ UNCHANGED reply
    /\ UNCHANGED <<kind, result, sent>>

RunEnds(r) ==
    /\ place[r] = "collect" /\ kind[r] = "short"
    /\ Streams!Conclude(r)
    /\ IF reader'[r] = "ok" THEN Goes(r, "result") /\ UNCHANGED reply
       ELSE Replies(r, "failed")
    /\ UNCHANGED <<kind, result, sent>>

-----------------------------------------------------------------------------
(***************************************************************************)
(* A client that goes away from a stream.  While the next delta is waited  *)
(* for, the generators are cancelled.  While a partial is being sent,      *)
(* nobody closes them: they are dropped, and closed by the interpreter.    *)
(***************************************************************************)
\* So they are when the text of a partial cannot be made.
Leave(r) ==
    /\ place[r] \in {"respond", "collect", "partial"} /\ kind[r] = "stream"
    /\ reply' = [reply EXCEPT ![r] = "left"]
    /\ Goes(r, IF place[r] = "respond" THEN "done" ELSE "dropped")
    /\ UNCHANGED <<scheduler, kind, result, sent>>

CloseDropped(r) ==
    /\ place[r] = "dropped"
    /\ Streams!TurnAway(r)
    /\ Goes(r, IF reader'[r] = "gone" THEN "done" ELSE "dropped")
    /\ UNCHANGED <<kind, result, sent, reply>>

-----------------------------------------------------------------------------
(***************************************************************************)
(* A long recording: transcribe() beside the scheduler.                    *)
(***************************************************************************)
Split(r) ==
    /\ place[r] = "new" /\ kind[r] = "long"
    /\ \E n \in 1..MaxChunks : chunks' = [chunks EXCEPT ![r] = n]
    /\ Goes(r, "decode")
    /\ UNCHANGED <<scheduler, kind, toks, chunk, current, words, sent, reply>>

\* The model takes its time: other requests go on between two tokens.
DecodeToken(r) ==
    /\ place[r] = "decode"
    /\ current[r] < MaxTokens
    /\ current' = [current EXCEPT ![r] = @ + 1]
    /\ UNCHANGED <<scheduler, kind, place, toks, chunk, chunks, words, sent, reply>>

\* On to the next chunk, or to the response after the last.
NextChunk(r) ==
    /\ chunk' = [chunk EXCEPT ![r] = @ + 1]
    /\ current' = [current EXCEPT ![r] = 0]
    /\ Goes(r, IF chunk[r] = chunks[r] THEN "result" ELSE "decode")

\* Mutant: timestamps that fail leave the tokens out.
ChunkEndsInTry(r) ==
    /\ place[r] = "decode"
    /\ current[r] > 0
    /\ LET ours == Upto(chunk[r], current[r])
       IN  \/ /\ words' = [words EXCEPT ![r] = @ \o ours]
              /\ toks' = [toks EXCEPT ![r] = @ \o ours]
           \/ UNCHANGED <<words, toks>>
    /\ NextChunk(r)
    /\ UNCHANGED <<scheduler, kind, chunks, sent, reply>>

\* A chunk has at least its start token.  Timestamps that fail leave out the
\* words of the chunk, or those behind the first that cannot be shifted.
ChunkEnds(r) ==
    /\ place[r] = "decode"
    /\ current[r] > 0
    /\ LET ours == Upto(chunk[r], current[r])
       IN  toks' = [toks EXCEPT ![r] = @ \o ours]
    /\ \E n \in 0..current[r] : words' = [words EXCEPT ![r] = @ \o Upto(chunk[r], n)]
    /\ NextChunk(r)
    /\ UNCHANGED <<scheduler, kind, chunks, sent, reply>>

\* Splitting, encoding or a decode raises: 500, and nothing of the others.
LongFails(r) ==
    /\ kind[r] = "long"
    /\ place[r] \in {"new", "decode"}
    /\ Replies(r, "failed")
    /\ UNCHANGED <<scheduler, kind, result, sent>>

-----------------------------------------------------------------------------
(***************************************************************************)
(* The response of what is not a stream.                                   *)
(***************************************************************************)
\* A long recording has its words already; those of others are made here, when
\* the client has asked for them.
WordsMissing(r) == kind[r] = "short" \/ chunks[r] = 0

Result(r) ==
    /\ place[r] = "result"
    /\ Replies(r, "ok")
    /\ \/ UNCHANGED words
       \/ WordsMissing(r) /\ words' = [words EXCEPT ![r] = toks[r]]
    /\ UNCHANGED <<scheduler, kind, toks, chunk, chunks, current, sent>>

\* Here nothing catches timestamps that fail, nor a text that cannot be made.
ResultFails(r) ==
    /\ place[r] = "result"
    /\ WordsMissing(r)
    /\ Replies(r, "failed")
    /\ UNCHANGED <<scheduler, kind, result, sent>>

-----------------------------------------------------------------------------
\* The scheduler's own steps, as far as BoundedStreams tells them.
Decode(r) ==
    /\ \/ Streams!Admit(r)
       \/ made[r] < MaxTokens /\ Streams!Make(r)
       \/ Streams!End(r)
       \/ Streams!Withdraw(r)
    /\ UNCHANGED <<kind, place, result, sent, reply>>

Arrive(r) == Refuse(r) \/ Silence(r) \/ Respond(r) \/ Run(r) \/ RunFails(r) \/ Split(r)

Work(r) == \/ Collect(r) \/ StreamEnds(r) \/ RunEnds(r) \/ CloseDropped(r)
           \/ DecodeToken(r) \/ ChunkEnds(r) \/ LongFails(r)
           \/ Result(r) \/ ResultFails(r)

Quiet == /\ \A r \in Requests : place[r] = "done" /\ phase[r] \notin {"queued", "running"}
         /\ UNCHANGED vars

Next == \/ \E r \in Requests :
               Arrive(r) \/ Work(r) \/ SendPartial(r) \/ Leave(r) \/ Decode(r)
        \/ Quiet

\* The event loop and the scheduler go on.  That a queued call is admitted and
\* decoding ends is what EveryProducerEnds and EveryWaitEnds show of the
\* scheduler.  A client of a stream may never read.
Fairness == \A r \in Requests : /\ WF_vars(Arrive(r))
                                /\ WF_vars(Work(r))
                                /\ WF_vars(Decode(r))

Spec == Init /\ [][Next]_vars /\ Fairness
-----------------------------------------------------------------------------
(***************************************************************************)
(* Properties.                                                             *)
(***************************************************************************)
\* Token b comes right after token a.
Follows(a, b) == b = <<a[1], a[2] + 1>> \/ b = <<a[1] + 1, 1>>

Before(a, b) == a[1] < b[1] \/ (a[1] = b[1] /\ a[2] < b[2])

\* The words w are some of the tokens t, in order: of a chunk, the first ones.
HeadsOfChunks(w, t) ==
    /\ \A i, k \in 1..Len(w) : i < k => Before(w[i], w[k])
    /\ \A i \in 1..Len(w) : \E k \in 1..Len(t) : t[k] = w[i]
    /\ \A k \in 1..Len(t) :
           (\E i \in 1..Len(w) : w[i][1] = t[k][1] /\ w[i][2] >= t[k][2])
               => \E i \in 1..Len(w) : w[i] = t[k]

\* A response with a text has every token of every chunk, in order, whoever
\* else was decoding.  Its words are in the same order, none twice, and where
\* timestamps failed they lack the last words of a chunk, or all of it; a short
\* recording has all of its words or none.
ReplyIsWhole ==
    \A r \in Requests : reply[r] = "ok" =>
        LET t == toks[r]
        IN  /\ IF t = <<>> THEN chunks[r] = 0 \/ kind[r] # "long"
               ELSE t[1] = <<1, 1>> /\ t[Len(t)][1] = chunks[r]
            /\ \A i \in 1..(Len(t) - 1) : Follows(t[i], t[i + 1])
            /\ kind[r] # "long" /\ chunks[r] > 0 =>
                   phase[r] = "complete" /\ Len(t) = made[r]
            /\ HeadsOfChunks(words[r], t)
            /\ kind[r] # "long" => words[r] \in {<<>>, t}

\* The events of a stream are texts that grow by one delta, and [DONE] behind
\* the last of them if and only if the decode is complete and all of it told.
StreamTold ==
    \A r \in Requests :
        LET s == sent[r]
        IN  /\ \A i \in DOMAIN s : s[i] \in {Done, Partial(Upto(1, i))}
            /\ \A i \in DOMAIN s : s[i] = Done =>
                   /\ i = Len(s)
                   /\ phase[r] = "complete" /\ made[r] = i - 1
            /\ kind[r] = "stream" /\ reply[r] = "ok" => s # <<>> /\ s[Len(s)] = Done

\* Every request is answered, a stream by its status.
EveryRequestAnswered ==
    \A r \in Requests : <>(reply[r] # "none" \/ kind[r] = "stream")
=============================================================================
