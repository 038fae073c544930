# Verification of the Parakeet streaming transcription server

TLA+ models, TLC runs and TLAPS proofs for the repository's speech-to-text
servers: the vLLM-era server (`parakeet_vllm/`), the ONNX micro-batching service
(`parakeet_service/`) and the legacy Flask application (`app.py`). Paths below
are relative to the repository root.

## 1. Inventory

### parakeet_vllm: file transcription

| Part | State | Operations | Talks to |
|---|---|---|---|
| `scheduling/two_phase_scheduler.py` `TwoPhaseScheduler` | one `asyncio.Semaphore`; per call: `output_q`, `error_holder`, the producer task | `run()`, an async generator: phase 1 inline, phase 2 in a producer task under the semaphore | the engine's phase functions; the client through `async for`, `aclose()` and task cancellation |
| `engine/asr_engine.py` `ASREngine` | the scheduler, the decode backend | `transcribe` (short path through the scheduler, long path by chunks without it), `transcribe_stream` | scheduler, chunker, decode loop |
| `decode/reference_tdt.py`, `decode/tdt_step.py` | per call: `frame_ptr`, counters, the decoder cache | `decode_stream`: one joint per round, advance by the predicted duration | encoder frames in, `TokenDelta`s out |
| `streaming/chunker.py` | none | `split_on_silence` | VAD segments in, chunks out |
| `streaming/file_stream.py` | none | SSE framing, word timestamps | engine, HTTP layer |
| `api/routes.py` | the engine singleton | `POST /v1/audio/transcriptions` | engine |

### parakeet_vllm: realtime

| Part | State | Operations | Talks to |
|---|---|---|---|
| `realtime/session.py` `LiveSession` | segment, `_since_hop`, `_speaking`, `_manual`, `_closed`, the outbound queue, an `asyncio.Lock` | `feed_pcm`, `handle_client_event`, `events`, `close` | VAD, local agreement, the injected `decode_fn` |
| `realtime/vad.py` `StreamingVAD` | buffered samples, `VADIterator.triggered` | `push`, `reset` | session |
| `realtime/localagreement.py` `LocalAgreement` | the last n hypotheses, the committed words | `commit` | session |
| `realtime/ws_app.py` | the receive loop's sample rate, the pump task | dispatch of client events, the pump, the drain at disconnect | the websocket, session |
| `realtime/protocol.py`, `decoder_stream.py` | an event counter | event validation; one window decoded to words | ws_app, session |

### The other two servers

| Part | State | Operations | Talks to |
|---|---|---|---|
| `parakeet_service/batchworker.py` `BatchWorker` | job queue, the batch being collected, futures | `submit`, `submit_many`, the batch loop, `stop` | routes, ONNX models in a thread |
| `parakeet_service/batchworker.py` `InferencePool` | an executor with its work queue, futures | `submit`, `submit_many`, `stop` | routes, ONNX models in its threads |
| `parakeet_service/chunker.py` | none | `auto_chunk` | routes |
| `parakeet_service/routes.py`, `model.py`, `main.py` | the model cache, the audio pool | HTTP endpoints, lifespan | either worker, chunker |
| `app.py` | model cache, progress tracker, both under Flask threads | upload, chunk, transcribe, `/progress`, `/status` | ffmpeg, ONNX models |

Encoder, feature extraction, audio decoding, model loading and the vLLM model
classes compute tensors and keep no protocol state.

### What is hard here

* **Cancellation at every await.** A client may leave between any two steps of
  a scheduler call; its producer may be unborn, queued for a slot, promised a
  slot it has not taken, decoding, or done.
* **Two tasks over one queue and one error cell.** A failed decode must reach
  the reader after the items before it, and never look like a short success.
* **A fair lock between a session's decodes and its `close()`.** Fairness decides
  what comes before the sentinel and what after it.
* **Two opinions of who is speaking.** The VAD has heard a whole push before the
  session handles its first event, and handling an event may reset the VAD.
* **Contradicting hypotheses.** Nothing obliges a decode of a longer window to
  repeat what a shorter one said, and yet emitted text cannot be taken back.
* **Counters at their limits** in the greedy loop: tokens of duration 0, the
  per-frame budget, the length cap that counts the start token.
* **A batch loop that takes before it decides.** A job taken in the window may
  be for another model and go back; the window may close, a client leave or the
  worker be stopped at that moment.
* **A pool shut down under its requests.** When the lifespan ends, pieces are
  running, queued, or still being decoded by a handler that will submit them
  later; each request must be told, and nothing may begin any more.
* **Agreement across segments.** What counts as agreed depends on hypotheses of
  earlier decodes, and a segment can be ended by a finalize, a clear or the cap
  between any two of them.
* **Times put together from pieces.** The three services add three kinds of
  offsets to times that count from the beginning of a piece; pieces may be silent,
  and silence between pieces may be dropped.
* **A drain with a deadline.** At disconnect the pump may be waiting, stuck in a
  send to a client that does not read, or failed, and the handler may be
  cancelled while it waits for it.
* **Cut points with three limits each.** Leading silence, short last words, pauses
  longer than a chunk and speech without pauses meet; a sample must not be lost
  or transcribed twice.
* **Two ways to decode.** Short recordings and streams share the scheduler's slots, long
  ones decode chunk by chunk beside it, and each of their steps may fail.
* **A dict walked while it grows.** Threads insert and change entries of the legacy
  application's tracker under a loop that looks at them one after the other, and
  every step of a transcription may fail.

The hazards, each at its line with the properties that cover it, are in
`PROJECT.json`.

## 2. Modules

    FileTranscription  <--  MCFile, FileTranscriptionProofs
      | over
    BoundedStreams  <--implements--  TwoPhaseScheduler  <--  MCScheduler
                                                        <--  TwoPhaseSchedulerProofs

    LiveSession  <------+----------  MCSession
                        |
                  LiveTranscript <-  MCTranscript, LiveTranscriptProofs
                        |
    LocalAgreement  <---+
    RealtimeConnection  <----------  MCConnection, RealtimeConnectionProofs
    TDTDecode  <-------------------  MCDecode, AlgorithmProofs

    Inference  <--implements--  BatchWorker  <--  MCBatch, BatchWorkerProofs
               <--implements--  OnnxService  <--  MCOnnx, OnnxServiceProofs

    Chunking  <--  Stitching  <----  MCChunking, AlgorithmProofs
    LegacyJobs  <------------------  MCLegacy, LegacyJobsProofs

An operator commented "Mutant:" stands before the definition it distorts. It is
a plausible bug in that code and is used by nothing; put in the place of its
original it must break the property named in `PROJECT.json`.

### TwoPhaseScheduler

Each request is two tasks of one event loop: the consumer, which is the generator
`run()` in its client's task, and the producer. An action is what one task does
between two suspensions; everything in Python that does not suspend
(`Queue.put` on the unbounded queue, leaving `async with sem`) belongs to the
action before it. So `PhaseTwoEnds` stores the error, pushes the sentinel,
releases the slot, wakes a waiter and ends the task, in one step.

| Variable | Code |
|---|---|
| `consumer`, `leaving` | where `run()` is suspended or how it ended; whether the sentinel or an exception took it out of the loop |
| `yielded`, `outputQ` | what the client got; `output_q`, 0 being `_END_OF_STREAM` |
| `producer`, `cancelled`, `failed` | where the producer task is; `cancel()` was called; `error_holder` is not empty |
| `value`, `waiters` | `Semaphore._value` and `Semaphore._waiters` |

The semaphore is modelled from CPython 3.12, the version the README installs:
`locked()`, the deque of futures, a granted waiter that stays in the deque until
its task runs, the slot put back by a cancelled one, and the wake-ups that
follow. `CancelClient` is a `CancelledError` in the client's task: in `get()` it
starts the finally block, in that block's own await it ends the call.

`BoundedStreams` is what a caller may rely on: no tasks, queue, semaphore or
sentinel, only decoding phases and what a reader has seen.

### FileTranscription

The route, the engine and the event stream of `parakeet_vllm`, composed with the
scheduler through its promise: the module instantiates `BoundedStreams`, a step
of a request is joined with the step of the reader it makes (`Run` with `Accept`,
`Collect` with `See`, the ends with `Conclude`, a dropped generator with `TurnAway`),
and `Decode` is what the scheduler does by itself. Since `TwoPhaseScheduler` implements
`BoundedStreams`, what holds here holds over the code's scheduler.

`place` is where a request's task is. `toks`, `current` and `words` are `all_toks`,
`toks_i` and the words of the result, a token being its chunk and its number there.
`sent` is what the client of a stream got. A stream's status is sent before its
generator is first asked, so later failures can only end it. `get_engine()` makes the
one engine without an await; form parsing and the texts are left out.

### LiveSession

The receiver calls `feed_pcm` and `handle_client_event` one after the other; the
closer calls `close()` once, at any moment. That is the class's own contract
(session.py:24-25) and what `test_close_during_finalize_does_not_lose_events`
does; `ws_app.py` closes from the connection's task and is the special case in
which the closer waits for the end of a call. No audio or event is fed after
`close()`: `feed_pcm` would return at once, and no caller sends an event then.

The steps between two suspensions (the loop over VAD events, the hop test, the
cap test) are actions of their own, so that each is read beside its lines; the
closer is only allowed where the receiver really suspends or is between calls, so
the split adds no interleaving. `Acquire` and `LockGranted` are `asyncio.Lock`
with its waiters. The production `decode_window` has no real suspension; a
`decode_fn` is injected and may suspend, so the model lets it.

`seg` counts samples. `turn` is what a reader has been told of the current turn,
`owed` and `orphaned` record what the two close properties are about. The VAD is
`vadOn` and a report of alternating starts and stops; its model and its 512-sample
windows are left out. `Faults` says which calls may raise: decodes, the VAD's
`push` (`FeedFails`: its events are lost) and its `reset`; `vadRaised` records that the
VAD did and has reported nothing since.

### RealtimeConnection

The handler task and the pump task of one `/v1/realtime` connection. Of the
session there is its outbound queue: a call emits events 1, 2, 3, ... and returns
or raises; `close()` puts the sentinel at once, since here nobody else can hold
the session's lock. `LiveSession` is where calls and `close()` are modelled.

`handler` is where the handler waits: for a message, for a session call, for a
send of an error (which bypasses the queue), or, in the finally block, for the
pump. `pump` is where the pump waits, or how it ended. An event being sent is left
at the head of `out` until it is sent. `Init` is the moment after the connection
is accepted, `session.created` sent and the pump created. The sample rate and the
audio's conversion are left out.

The finally block awaits the pump twice: in `wait_for()` with a time limit
(`handler` is "drain") and, whatever came of that, by itself ("join"). Each await
returns or raises when the pump has ended (`WaitForEnds`, `Joined`); the deadline
cancels the pump and goes on waiting (`DrainTimeout`); a `CancelledError` that
finds the handler in either await is passed on to the pump (`CancelDrain`). From
3.12 on that is all. Before, `wait_for()` that has cancelled its pump waits for it
on a future of its own: one more `CancelledError` ends that wait while the pump
still runs, and it is the second await that joins it. The model allows both
versions. `cut` records that the deadline or a cancellation reached the pump.

### LocalAgreement

`commit()` on any sequence of words, with `_common_prefix` as zip() and the first
difference, a deque of maxlen n, and the text `_hop_decode` makes of the newly
committed words. `heard` is what a client has, end to end.

### LiveTranscript

The session composed with the local agreement it owns; the two share no variable,
and their actions are joined where the code calls from one into the other. A hop
decode (`HopDecoded`) commits a hypothesis and emits a delta exactly when that
committed words, where `LiveSession` alone leaves that open. The three callers of
`_reset_segment` (`SegmentOver`) begin a new agreement. Everything else leaves
agreement alone, a decode that raises included, which it does before it commits.

### TDTDecode

The loop of `decode_stream` with `split_joint`'s forced advance. The joint's
answer is any token class and any configured duration. `arrived` is the number of
tokens there were when the loop came to its frame, which the code does not keep.
Windows have at least one
frame: `decode_window` and the engine never pass an empty one on, and what the
network does with an empty slice is not in this code.

### BatchWorker

Callers, the worker task, the inner task of `wait_for()` and `stop()` are four
kinds of actors. `request` and `future` are the calls and their jobs' futures;
`queue`, `held` and `batch` are the three places a job can be in; `worker` is
where the task waits: `get` for the first job, `collect` in the window, `infer`
for the thread. Time is left out: the window may close whenever nothing is held.
A batch fails as a whole, since `get_model` and `recognize` are in one `try`;
`recognize` is taken at its word that it returns one result per waveform.

`wait_for()` differs between Python versions when it is cancelled with a job in
hand: 3.12, which the README names, leaves the job in the queue and raises; 3.10,
which the Docker images install, returns the job and forgets the cancellation.
`Swallows` chooses. `EachJobOnce` and every step `Inference` allows hold for both
(they are proved without an assumption on it); with `TRUE`, `stop()` can wait for
ever for a worker that has not noticed.

### Inference

What a caller of `submit_many()` is promised, by either worker: no queue, window,
thread or executor, only calls, futures and `stop()`. Jobs settled together are for
one model and no more than `Largest`; a call is answered when each piece has a
result and fails only by a piece of its own; `stop()` may cancel what has not begun.
Its fairness is the promise: while nobody stops the worker every job is inferred,
every call that can end does, and `stop()` returns. `BatchWorker` implements it with
`Largest` = `max_batch`, `OnnxService` with 1.

### OnnxService

The service of `parakeet_service` with `PARAKEET_BATCHED=0`: both handlers of
`routes.py` from the refusals to the answer, `InferencePool` under them, the model
cache, the audio pool that decodes the files of a batch, and the end of the lifespan.
`handler` is where a request's handler waits, `queue` and `running` the executor's
work queue and threads. A model is loaded on the event loop, without an await, so
that looking it up and loading it is one step. A handler in "decoding" when
the pools are shut down goes on: what has a thread is decoded, the rest may be
cancelled, and a later `submit_many()` raises. A cancelled future's job is skipped
by the thread that takes it; one that runs goes on and its result is dropped.
Refinement: `Call` maps a handler to its call of `submit_many()`, a handler
that has not got there, or was refused before, being "new".

### Chunking

`split_on_silence`, `auto_chunk` and the split points of `app.py` are pure
functions, and so is the energy detector the first two fall back on. A loop is a
recursive function of the rounds it has made (`Hearing`, `SpanPacking`,
`RangePacking`, `SplitPoints`). The state is their input: a recording that
grows sample by sample, as Silero or as the energy detector hears it, so that the
reachable states are all recordings up to a length and an invariant says what
the functions make of each of them. Silero is external: it reports any spans in
order, touching ones included. A frame of the energy detector is loud or
not; the samples behind the last whole frame belong to none.

The middle of a silence is a float in `app.py`; its boundaries are counted in half
units. ffmpeg's silences are the complement of the spans, or none, when
`detect_silence_points` gives up. `ChunkingAssumption` orders the limits as the
configuration does (20, 60 and 75 s) and lets the search window and the gaps of two
splits fit into a chunk of `app.py` (30 s and four times 5 s into 90 s): without that a
split moved late could leave no room for the next.

### Stitching

The other half of each chunker: how the words recognized in the pieces get their
times in the recording. `ASREngine` adds where the chunk was cut, the ONNX route
where the range begins, `app.py` the sum of the planned durations of the chunks
before. The recognizer is external: it finds a word in every unit with speech and
counts from the beginning of its piece. The module extends `Chunking` and is
checked over the same recordings.

### LegacyJobs

The requests of `app.py` under waitress' threads, and `GET /status`. `place` is
where a request's thread is. An operation of a Python dict is atomic, so an
action is one such operation with what the thread does by itself before the
next. `tracker` is the keys of `progress_tracker` in insertion order, `status` and
`current` its entries; `scan` walks over it, and the iterator raises when the dict
has another size than at the start. The entry says "complete" (`Complete`) before the answer
is formatted inside the same `try` (`Respond`, `RespondFails`), and the files are
removed after that, in a `finally` that may raise in place of the answer
(`CleanupFails`). `files` are a request's files in `temp_uploads`,
`clean` is `temp_files_to_clean`; a step that fails may have left its file or not.
A chunk whose extraction failed has no file, and recognizing it raises, or has a
short one, and is transcribed. An unknown model has become the default before
`Lookup`. Every request has a thread of its own; a pool with fewer does less at
a time. What formatting writes and `GET /progress`, one read of the tracker, are
left out.

## 3. Runs

| Run | Instance | Shows |
|---|---|---|
| `scheduler_slots` | 4 calls, 2 slots, no items, one cancellation each | `SlotsConserved`, `NoLostWakeup`, `GrantsInOrder` |
| `scheduler_streams` | 2 calls, 1 slot, 2 items, two cancellations each, fair | `OrphanIsCancelled`, `NoSilentTruncation`, `KeepsPromise` (refinement), `EveryProducerEnds`, `EveryWaitEnds` |
| `session_close` | all client events, decodes and a VAD that raise | `CloseWaits`, `SpeakingFollowsVad`, `CloseEnds` |
| `session_turns` | session with its agreement: audio only, 3 VAD events a push, VAD pushes that raise and resets that fail; a decode a sample, segments of up to 6, n = 3, two words, hypotheses of up to 2 | `TurnOrder`, `SegmentCapped`, `DeltasSpellCommitted`, `HypothesesFresh`, `AppendOnly`, `CommitsOnlyAgreed` |
| `session_orphan` | audio only | violation of `NoOrphan` |
| `connection` | 3 messages, 3 events, 3 cancellations, fair | `EventsInOrder`, `PumpFinishes`, `DrainDelivers`, `ConnectionEnds` |
| `tdt_decode` | up to 4 frames, 3 tokens a frame, durations 0, 1, 2, 4 | `FrameBudget`, `FrameCount`, `CapIsLastResort` |
| `batch` | 3 calls, 4 jobs, 2 models, batches of 2, fair | `EachJobOnce`, `KeepsPromise` (refinement of `Inference`, liveness included) |
| `onnx_service` | a request and a batch of up to 3 pieces each, 2 models, 2 threads, fair | `JobsHeld`, `KeepsPromise` (refinement of `Inference`, liveness included), `EveryRequestEnds` |
| `chunking` | recordings of up to 12 units, chunks of 4 and 5 | `SplitCovers`, `AutoKeepsSpeech`, `EnergyHears`, `BoundariesSpread`, `WordsInPlace` |
| `file` | 2 requests of any kind, 1 slot, 2 tokens, 2 chunks, fair | `ReplyIsWhole`, `StreamTold`, `EveryRequestAnswered` |
| `legacy` | 2 requests, 2 models, 2 chunks, a poll | `StatusIsTrue`, `FilesRemoved`, `IdleIsTrue` |

Why the bounds are enough:

* Four calls for two slots is the least with two holders, a woken waiter and a
  newcomer or second waiter at once, each of which may be cancelled; items only
  pass through the queue, so that run has none. Two calls, one slot, two items
  have everything that concerns one stream while another competes for its slot.
  The second cancellation is the one that hits the join.
* A hop of 2 samples, a cap of 3 and chunks of 0, 1 and 2 let a chunk reach hop
  and cap together, either alone, or pass the cap. `SegBound` stops feeding a
  segment at twice the cap; only failed decodes get that far.
* Three events and the sentinel give a queue with one event being sent, one behind
  it and the end; three cancellations, one in the loop and two in the drain, the second
  of which may end a `wait_for()` that has cancelled the pump.
* n = 3 separates "all agree" from "first and last agree"; two words let a word
  be committed, contradicted and agreed on again. With a decode for every sample a
  segment has up to six, twice as many as must agree, so that the oldest hypotheses
  are dropped within a segment and others are left over at its end; chunks of two
  samples leave one uncounted.
* Two calls for one model and one for another, up to two pieces each: a batch can
  be full, be cut by the other model's job, and that job be put back behind a
  piece of its own call. With batches of two every put-back and every full batch
  happens at the first chance.
* Twelve units with limits of 4 and 5 leave room for three chunks and a rest by
  each of the chunkers, for leading silence, for a pause longer than a chunk and for
  speech longer than one. Frames of two samples leave an incomplete one, pauses of
  two frames let one be counted and then interrupted.
* A request and a batch for two threads: three pieces of one request have two running
  and one queued, behind it those of the other; at a shutdown some run, some wait
  and some files are still being decoded.
* Two requests have the second inserted, failing or complete while a poll looks at
  the first, the first chunk extracted and the second not, and one model loaded by
  both. Polls do not see each other.
* Two requests for one slot are two of a kind or of two kinds, one waiting or
  decoding beside the other; two tokens and two chunks have a first, a next and a
  last of each.
* Duration 4 leaps over a window from any frame; 0 stays on it.

Fairness. The event loop runs every ready task, so a consumer's and a producer's
step (`FairSpec`), the receiver's and the closer's are weakly fair. A decode ends
(each round of `TDTDecode` adds to `produced`, and `MaxProduced` of them are the
most the loop makes), a window closes and an inference
thread comes back, so a batch worker's step and a pool thread's are weakly fair too, and so
is the decode of a file by the audio pool. So are a connection's handler and
pump and the drain's two-second timer, but not a send to a client that is there:
it may never read. Nothing obliges a client to start a call, to ask for the next
item, to send audio or to go away.

## 4. Disagreements found

* **`NoOrphan`**: the docstring of `events()` says that no committed or completed
  event is ever orphaned. A feed that reaches hop and cap at once takes the lock
  twice; a `close()` that comes during the first decode is served between the
  two, and the transcript lands behind the sentinel. `CloseWaits` says what does
  hold: the decode `close()` finds is waited for.

Seen while modelling, without a run of their own:

* two_phase_scheduler.py:161-166 says the shield makes sure the producer is
  "definitively awaited before propagating the cancellation". `shield` protects the
  gather, not the await: a cancellation in the join ends `run()` with its producer
  still holding a slot. `OrphanIsCancelled` says what is left: such a producer has
  been cancelled and goes at its next step.
* The cap is documented as a bound on a segment's re-decoding, but a finalize that
  raises leaves the segment in place, and every further chunk tries a longer one.
  `SegmentCapped` is checked and proved for decodes that do not raise.
* The docstring of `split_on_silence` says that boundaries never fall inside speech.
  Packing measures from the start of the first segment, but the chunk also holds
  the silence before it (and half of every long pause); a chunk that is too long
  only for that is split on time, through the segment: with a limit of 4, three
  samples of silence and two of speech. `SplitCovers` says what holds.
* The docstrings of `ASREngine` bound decoding by the semaphore; the long path
  decodes beside it, and `FileTranscription` lets it.
* The energy detector subtracts the quiet frames from the index of the frame it
  stops at, so a span ends before its last loud frame; `EnergyHears` allows exactly
  that frame.
* `auto_chunk` promises ranges in the waveform; a forced cut at its end leaves a
  last range of one sample behind it, which `AutoKeepsSpeech` allows.
* A turn is told but not always heard. A push of audio whose last VAD event is a stop
  is dropped as a whole (session.py:144-149), speech before the stop included; with
  the start in the same push the reader is told of a turn whose transcript is
  empty. And a `push` of the VAD that raises (session.py:139) loses the events of
  its earlier windows: the session may then not speak beside a VAD that is inside
  speech, and drops what follows until the VAD stops; so it may after a `reset` that
  raises. `SpeakingFollowsVad` is about the flags between two calls, and excepts the VAD
  that raised until it reports something.
* `progress_tracker` of `app.py` says "complete" before there is an answer
  (app.py:991): when formatting raises, or a file cannot be removed (app.py:1058-1060),
  the client is told 500 for a job that is "complete". `StatusIsTrue` says which of
  the two implies the other.
* `get_status` (app.py:697) is documented to return "the most recent active job" and
  returns the oldest; a job that failed stays "processing" for ever. `StatusIsTrue` says
  what an entry can be relied on for.
* `InferencePool` calls itself the default mode (batchworker.py:31), but
  `PARAKEET_BATCHED` defaults to "1", which is `BatchWorker`. Both are modelled.
* A stopped `BatchWorker` leaves its jobs unresolved and their callers waiting;
  `InferencePool` cancels them. `Inference` promises answers only until the stop, and
  `EveryRequestEnds` says what the pool gives beyond that.

## 5. Proofs

All for every value of the constants, from the assumptions named in the modules.

* **Slots** (`TwoPhaseSchedulerProofs`). The inductive invariant is `SlotInv`:
  types, `SlotsConserved`, and that the deque holds each waiting or granted
  producer once and nothing else (`QueueInv`), since a cancelled waiter is taken
  off by position. `SlotsConserved` is not inductive alone: that `MoveAndWake`
  wakes as many as it takes slots for needs the waiters to be outside `InUse`,
  and the value to be a number. `BoundedConcurrency` follows.
* **Wake-ups** (same module). `NoLostWakeup` is inductive once the deque is known to be
  the waiters (`Wakeful`): who leaves the deque wakes as many as there are slots, a
  release either wakes one or finds nobody, and a newcomer queues behind a free slot
  only if someone in the deque is not cancelled. `SlotsGoInOrder` (`GrantsInOrder`)
  follows from `QueueInv` step by step: of the waiters a step wakes none is behind
  one it leaves, and a waiter that is not cancelled keeps the semaphore locked.
* **Streams** (same module). `StreamInv` relates the two tasks (what a consumer's
  place says of its producer) and the items (`yielded`, then `outputQ`, are the
  items made, then at most one sentinel). From it `NoSilentTruncation` and
  `OrphanIsCancelled`. A cancellation in the join leaves a producer running, so the
  second is about cancelled producers and needs the place of both tasks.
* **Refinement** (same module). Every step maps to a step of `BoundedStreams` or a
  stutter; the admission needs `SlotInv`, the conclusion `StreamInv`.
* **Session** (`LiveTranscriptProofs`, first part). `Safe` is types and the lock's invariant (who
  holds it, who is queued, and who may be woken, by the receiver's place). On top
  of it `CapInv`, `SpeechInv` and `TurnInv` for `CapHolds`, `SpeakingAlwaysFollows` and
  `TurnsAreWhole`. The first and the last name the faults and client events they
  exclude; the second excludes none.
* **Transcript** (same module). First local agreement alone:
  `CommonPrefixFacts` says what `_common_prefix` returns (the longest prefix of
  all, by counting the columns that agree), from it the types, `AppendOnly` by the
  guard that compares it with what is committed, and `CommitsOnlyAgreed`;
  `DeltasSpellCommitted` by what joining a delta does to the text so far. Then
  `SessionKeepsAgreement` shows that the session takes only steps of agreement, so
  that all of these hold inside it, and `HypothesesAreFresh` adds the audio: a kept
  hypothesis has a hop to itself, which needs the session's invariant that
  a hop is decoded before the next one is collected.
* **Connection** (`RealtimeConnectionProofs`). While the client is there, what it was
  sent followed by the queue is one stream: the events, and the sentinel from the
  close until the pump reads it. Every action moves a head across, adds at the end
  or leaves it alone; an emission needs that the handler is not over, and a
  finished pump that the queue is empty (`PumpInv`). For `DrainDelivers` the pump's
  end is the guard of the second await; that nothing was lost is not: the pump is
  cancelled only by a drain that was cut (`CutInv`), so a pump that has ended has ended
  by itself or found nobody there, and `PumpInv` says the rest.
* **Batches** (`BatchWorkerProofs`). Queue, held and batch are sequences without
  repetition that share no job (`Apart`), hold only submitted jobs and every one
  that is waited for (`Known`); a batch is of one model and not too large
  (`WorkerInv`). `EachJobOnce` follows, and every step is one of `Inference`
  (`WorkerKeepsPromise`): the jobs of a batch whose futures are pending are
  settled together, and there are no more of them than the batch is long.
* **Pool** (`OnnxServiceProofs`). A request submits once, when none of its pieces is
  known (`Unsubmitted`), what is queued was submitted and has no thread (`Placed`),
  what is waited for is in one of the two (`Held`), and nothing is queued after a
  shutdown: `JobsHeld`. `PoolKeepsPromise` maps every step to `Inference`; it also
  needs that a batch that is decoded has a file, or its call would have no piece.
* **Legacy jobs** (`LegacyJobsProofs`). Where a thread is says what its entry says
  (`Stage`), also between "complete" and the answer, and which of its files are on the
  list (`Filed`); entries a poll has
  passed never become "processing" again (`Passed`), so a poll that reaches the
  end of a dict of unchanged size has not been overtaken: `IdleIsTrue`.
* **File transcription** (`FileTranscriptionProofs`). `One(r)` says everything of a
  request by itself: a finished reader has been given all that was made (`Reading`);
  what a short recording or a stream has collected is what it has seen (`Piecewise`);
  a long recording has all tokens of the chunks before the one it decodes, and of their
  words the first ones (`Chunkwise`); the
  events are one growing text per delta (`Eventwise`). A step touches one request
  only (`Others`), so each action is shown for its own request. `RepliesAreWhole`
  and `StreamsAreTold` follow, over the promise `BoundedStreams` that `Refinement`
  proves of the scheduler.
* **Decode loop** (`AlgorithmProofs`, first part). The budget invariant is nonlinear, so
  its lemmas split the step into the four kinds of advance. `Budget` joins it with the
  types, `FrameCount` and `CapIsLastResort`: that the budget holds needs the count
  to be that of the frame, and that the cap is the last resort needs the budget.
* **Induction over loops** (same module). The library's induction theorems take an
  operator, which no prover here can instantiate. `FromTo` states induction over a
  range of numbers for a set instead, the set of the rounds after which something
  holds, from the well-foundedness of `<`. `Iterates` does the same for
  existence: a recursive function has the values its equation says once each of
  its states has a successor of the right type. Each loop is then a lemma `...Def`
  from `Iterates`, a lemma `...Step` that one round keeps the loop's invariant, and
  the conclusion from `FromTo`.
* **Detectors** (same module). `RecordedAlways`: spans are in order within the
  recording, and there is a frame for every `Frame` samples. After each frame, what has
  been found and what is open is `Listened`: every loud frame so far is in a found or
  the open span, a found span begins loud and more than `MinSil` frames pass to
  the next, and the open span has no loud frame among the quiet ones counted.
  `EnergyDetector` is that after the last frame. A span can be empty (one loud frame,
  then a pause), so the chunkers are proved for spans that are `NoneEmpty` (Silero's)
  or lie `Apart` (these).
* **Cuts** (same module). `Run(r, a, b)` is a sequence of ranges, none of them empty,
  that lead from `a` to `b` one after another; slicing (`SlicesRun`, `TimeSplitRun`) and
  concatenation (`FlattenRuns`) keep it. `split_on_silence` keeps its cuts increasing,
  each at or before the end of the span packed last (`CutsInOrder`), so that its
  chunks are a run from 0 to the end: `SplitCoversAlways`. `auto_chunk` keeps its ranges
  a run from the first span to where the open range starts (`RangesInOrder`); the
  open range is empty only after a forced cut, or behind an empty first span, and
  then the tail of one sample is what makes the last range one:
  `AutoKeepsSpeechAlways`.
* **Split points** (same module). Split i leaves at least a gap for each of the splits
  to come (`SplitsApart`), whatever the silences; the assumption on the window is what
  makes room (`RoomForGaps`). `BoundariesSpreadAlways` follows.
* **Words** (same module). `Told(words, times)` says that words begin at these times,
  one after another; it is kept by a shift (`ToldShifted`) and by putting pieces
  together that follow one another (`ToldFlatten`, `AddChunkStep`).
  With the runs of the chunkers `WordsInPlaceAlways` follows for all three services,
  for `app.py` because the planned durations add up to where a chunk begins.

Every invariant and every safety action property of the passing runs is stated by a
theorem. Only model-checked are the liveness properties `EveryProducerEnds`,
`EveryWaitEnds`, `CloseEnds`, `ConnectionEnds`, `EveryRequestAnswered` and
`EveryRequestEnds`, and the liveness part of both `KeepsPromise` of `Inference`: fairness
and `ENABLED` are out of the prover's reach. `KeepsPromise` of the scheduler has no
liveness part and is proved as a whole. The types of the scheduler, the session, the
connection, local agreement, the decode loop and the recording are proved and no
run repeats them.

## 6. What is left

`close()` from the connection's own task in one model with `LiveSession`: today each of
the two modules abstracts the other. `LiveSession` lets close() come at any moment,
`RealtimeConnection` lets a call emit any events at any moment until the session is
closed, so each covers the other's orders and more.

## 7. Not modelled

* Encoder, features, audio decoding, model loading, configuration: tensors and
  environment variables, no protocol state. What the models answer is
  nondeterministic wherever it matters.
* The vLLM engine integration (`vllm_engine/`, `decode/vllm_backend.py`): spikes
  that ended in a recorded "no go"; the backend's constructor always raises, so
  none of it is reached from a server.
* Parsing of forms and uploads, the wording of responses, event and subtitle
  formatting, `GET /progress` (one read of a dict).
* Launchers, benchmarks, spikes and the page template: tools and user interface.

`PROJECT.json` gives the reason for each part.
