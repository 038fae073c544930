----------------------------- MODULE LegacyJobs -----------------------------
(***************************************************************************)
(* The Flask application app.py under waitress' threads: transcriptions,   *)
(* each with its temporary files, its entry in progress_tracker and a      *)
(* model out of model_cache, and GET /status, which walks over the tracker *)
(* while they change it.                                                   *)
(*                                                                         *)
(* An action is what a thread does between two points at which the others  *)
(* can be noticed.  An operation of a dict is atomic.  How a recording is  *)
(* cut is in Chunking; here it has some number of chunks.  Every request   *)
(* and the poll have a thread; a smaller pool does less at a time.         *)
(***************************************************************************)
EXTENDS Integers, Sequences

CONSTANTS Requests,      \* POST /v1/audio/transcriptions
          Models,        \* the keys of MODEL_CONFIGS
          Default,       \* the model that is loaded at startup
          MaxChunks,     \* bound: chunks of a recording
          MaxScans       \* bound: GET /status

ASSUME LegacyAssumption ==
    /\ Default \in Models
    /\ MaxChunks \in Nat \ {0}
    /\ MaxScans \in Nat

VARIABLES place,     \* where the request's thread is
          asked,     \* the model the request names
          model,     \* model_to_use
          cache,     \* the keys of model_cache
          files,     \* the request's files in temp_uploads
          clean,     \* temp_files_to_clean
          chunks,    \* num_chunks
          chunk,     \* chunks extracted, then chunks recognized
          reply,     \* what the client will be told
          tracker,   \* the keys of progress_tracker, in insertion order
          status,    \* progress_tracker[unique_id]["status"]
          current,   \* progress_tracker[unique_id]["current_chunk"]
          scan,      \* 0 or the entry GET /status looks at next
          scanSize,  \* the size of the tracker when its iterator was made
          answer,    \* what GET /status said last
          scans      \* calls of GET /status so far

request == <<place, asked, model, files, clean, chunks, chunk, reply>>
progress == <<tracker, status, current>>
scanner == <<scan, scanSize, answer, scans>>
vars == <<request, cache, progress, scanner>>

\* The chunks' files are 1, 2, ...
Original == -1   \* the upload
Wav      == 0    \* what ffmpeg converts it to

\* The request's entry says "processing", and it is being transcribed.
Transcribing(r) == place[r] \in {"extract", "announce", "recognize"}

Init ==
    /\ place = [r \in Requests |-> "new"]
    /\ asked \in [Requests -> Models]
    /\ model = [r \in Requests |-> Default]
    /\ cache = {Default}
    /\ files = [r \in Requests |-> {}]
    /\ clean = [r \in Requests |-> {}]
    /\ chunks = [r \in Requests |-> 0]
    /\ chunk = [r \in Requests |-> 0]
    /\ reply = [r \in Requests |-> "none"]
    /\ tracker = <<>>
    /\ status = [r \in Requests |-> "none"]
    /\ current = [r \in Requests |-> 0]
    /\ scan = 0
    /\ scanSize = 0
    /\ answer = "none"
    /\ scans = 0

Goes(r, where) == place' = [place EXCEPT ![r] = where]

\* To the finally block, with what the client will be told.
Leaves(r, told) ==
    /\ Goes(r, "cleanup")
    /\ reply' = [reply EXCEPT ![r] = told]

-----------------------------------------------------------------------------
(***************************************************************************)
(* get_model: two threads may both find the model missing and load it.     *)
(***************************************************************************)
\* An unknown model has been replaced by the default before.
Lookup(r) ==
    /\ place[r] = "new"
    /\ IF asked[r] \in cache
       THEN Goes(r, "save") /\ model' = [model EXCEPT ![r] = asked[r]]
       ELSE Goes(r, "load") /\ UNCHANGED model
    /\ UNCHANGED <<asked, cache, files, clean, chunks, chunk, reply, progress, scanner>>

Loaded(r) ==
    /\ place[r] = "load"
    /\ \/ cache' = cache \cup {asked[r]} /\ model' = [model EXCEPT ![r] = asked[r]]
       \/ UNCHANGED cache /\ model' = [model EXCEPT ![r] = Default]
    /\ Goes(r, "save")
    /\ UNCHANGED <<asked, files, clean, chunks, chunk, reply, progress, scanner>>

-----------------------------------------------------------------------------
(***************************************************************************)
(* Up to the plan: no entry in the tracker yet.                            *)
(***************************************************************************)
\* A WAV of 16 kHz mono is used as it is, a short PCM one is read in process,
\* anything else is converted.
Save(r) ==
    /\ place[r] = "save"
    /\ files' = [files EXCEPT ![r] = {Original}]
    /\ clean' = [clean EXCEPT ![r] = {Original}]
    /\ \E where \in {"plan", "convert"} : Goes(r, where)
    /\ UNCHANGED <<asked, model, cache, chunks, chunk, reply, progress, scanner>>

\* What has been written is not on the list of files to remove yet.
SaveFails(r) ==
    /\ place[r] = "save"
    /\ \E left \in SUBSET {Original} : files' = [files EXCEPT ![r] = left]
    /\ Leaves(r, "save failed")
    /\ UNCHANGED <<asked, model, cache, clean, chunks, chunk, progress, scanner>>

Convert(r) ==
    /\ place[r] = "convert"
    /\ files' = [files EXCEPT ![r] = @ \cup {Wav}]
    /\ clean' = [clean EXCEPT ![r] = @ \cup {Wav}]
    /\ Goes(r, "plan")
    /\ UNCHANGED <<asked, model, cache, chunks, chunk, reply, progress, scanner>>

\* ffmpeg may have begun to write.
ConvertFails(r) ==
    /\ place[r] = "convert"
    /\ \E left \in SUBSET {Wav} : files' = [files EXCEPT ![r] = @ \cup left]
    /\ Leaves(r, "conversion failed")
    /\ UNCHANGED <<asked, model, cache, clean, chunks, chunk, progress, scanner>>

\* A duration of 0; ffprobe or reading the silences raises.
PlanFails(r) ==
    /\ place[r] = "plan"
    /\ Leaves(r, "error")
    /\ UNCHANGED <<asked, model, cache, files, clean, chunks, chunk, progress, scanner>>

Plan(r) ==
    /\ place[r] = "plan"
    /\ \E n \in 1..MaxChunks :
        /\ chunks' = [chunks EXCEPT ![r] = n]
        /\ Goes(r, IF n > 1 THEN "extract" ELSE "announce")
    /\ tracker' = Append(tracker, r)
    /\ status' = [status EXCEPT ![r] = "processing"]
    /\ UNCHANGED <<asked, model, cache, files, clean, chunk, reply, current, scanner>>

-----------------------------------------------------------------------------
(***************************************************************************)
(* Chunk by chunk.                                                         *)
(***************************************************************************)
\* Mutant: a chunk's file is only put on the list when it has been made.
ExtractListsLate(r) ==
    /\ place[r] = "extract"
    /\ LET n == chunk[r] + 1
       IN  /\ \E made \in SUBSET {n} : files' = [files EXCEPT ![r] = @ \cup made]
           /\ \E whole \in SUBSET {n} : clean' = [clean EXCEPT ![r] = @ \cup whole]
           /\ IF n = chunks[r]
              THEN Goes(r, "announce") /\ chunk' = [chunk EXCEPT ![r] = 0]
              ELSE UNCHANGED place /\ chunk' = [chunk EXCEPT ![r] = n]
    /\ UNCHANGED <<asked, model, cache, chunks, reply, progress, scanner>>

\* A failure of ffmpeg is a warning: the file may be missing or too short.
Extract(r) ==
    /\ place[r] = "extract"
    /\ LET n == chunk[r] + 1
       IN  /\ \E made \in SUBSET {n} : files' = [files EXCEPT ![r] = @ \cup made]
           /\ clean' = [clean EXCEPT ![r] = @ \cup {n}]
           /\ IF n = chunks[r]
              THEN Goes(r, "announce") /\ chunk' = [chunk EXCEPT ![r] = 0]
              ELSE UNCHANGED place /\ chunk' = [chunk EXCEPT ![r] = n]
    /\ UNCHANGED <<asked, model, cache, chunks, reply, progress, scanner>>

\* ffmpeg cannot be run.  The entry keeps saying "processing".
ExtractFails(r) ==
    /\ place[r] = "extract"
    /\ clean' = [clean EXCEPT ![r] = @ \cup {chunk[r] + 1}]
    /\ Leaves(r, "error")
    /\ UNCHANGED <<asked, model, cache, files, chunks, chunk, progress, scanner>>

\* The top of the loop over the chunks: current_chunk is the one to come.
Announce(r) ==
    /\ place[r] = "announce"
    /\ chunk[r] < chunks[r]
    /\ current' = [current EXCEPT ![r] = chunk[r] + 1]
    /\ Goes(r, "recognize")
    /\ UNCHANGED <<asked, model, cache, files, clean, chunks, chunk, reply, tracker,
                   status, scanner>>

\* The audio there is: the chunk's file, or the upload or waveform itself.
Readable(r) == chunks[r] > 1 => current[r] \in files[r]

Recognize(r) ==
    /\ place[r] = "recognize"
    /\ Readable(r)
    /\ chunk' = [chunk EXCEPT ![r] = current[r]]
    /\ Goes(r, "announce")
    /\ UNCHANGED <<asked, model, cache, files, clean, chunks, reply, progress, scanner>>

\* Mutant: a failure ends the loop and not the request.
RecognizeBreaks(r) ==
    /\ place[r] = "recognize"
    /\ status' = [status EXCEPT ![r] = "complete"]
    /\ Goes(r, "format")
    /\ UNCHANGED <<asked, model, cache, files, clean, chunks, chunk, reply, tracker,
                   current, scanner>>

\* No file, or a failure of the model.  The entry keeps saying "processing".
RecognizeFails(r) ==
    /\ place[r] = "recognize"
    /\ Leaves(r, "error")
    /\ UNCHANGED <<asked, model, cache, files, clean, chunks, chunk, progress, scanner>>

\* The entry says so before there is an answer.
Complete(r) ==
    /\ place[r] = "announce"
    /\ chunk[r] = chunks[r]
    /\ status' = [status EXCEPT ![r] = "complete"]
    /\ Goes(r, "format")
    /\ UNCHANGED <<asked, model, cache, files, clean, chunks, chunk, reply, tracker,
                   current, scanner>>

Respond(r) ==
    /\ place[r] = "format"
    /\ Leaves(r, "ok")
    /\ UNCHANGED <<asked, model, cache, files, clean, chunks, chunk, progress, scanner>>

\* The answer cannot be formatted.  The entry keeps saying "complete".
RespondFails(r) ==
    /\ place[r] = "format"
    /\ Leaves(r, "error")
    /\ UNCHANGED <<asked, model, cache, files, clean, chunks, chunk, progress, scanner>>

\* What is on the list and exists is removed, and the answer goes out.
Cleanup(r) ==
    /\ place[r] = "cleanup"
    /\ files' = [files EXCEPT ![r] = @ \ clean[r]]
    /\ Goes(r, "done")
    /\ UNCHANGED <<asked, model, cache, clean, chunks, chunk, reply, progress, scanner>>

\* A file cannot be removed: some of those on the list stay, and the exception
\* takes the place of the answer.
CleanupFails(r) ==
    /\ place[r] = "cleanup"
    /\ files[r] \cap clean[r] # {}
    /\ \E removed \in SUBSET clean[r] : files' = [files EXCEPT ![r] = @ \ removed]
    /\ Goes(r, "done")
    /\ reply' = [reply EXCEPT ![r] = "cleanup failed"]
    /\ UNCHANGED <<asked, model, cache, clean, chunks, chunk, progress, scanner>>

-----------------------------------------------------------------------------
(***************************************************************************)
(* GET /status: a for loop over progress_tracker.items().  The iterator    *)
(* raises as soon as the dict has another size than at its creation.       *)
(***************************************************************************)
ScanStarts ==
    /\ scan = 0
    /\ scans < MaxScans
    /\ scan' = 1
    /\ scanSize' = Len(tracker)
    /\ answer' = "none"
    /\ scans' = scans + 1
    /\ UNCHANGED <<request, cache, progress>>

ScanEnds(said) ==
    /\ scan' = 0
    /\ answer' = said
    /\ UNCHANGED <<request, cache, progress, scanSize, scans>>

ScanRaises == scan > 0 /\ Len(tracker) # scanSize /\ ScanEnds("error")

\* Mutant: the loop is over a copy of the tracker's items.
ScanSteady == scan > 0

ScanUnchanged == scan > 0 /\ Len(tracker) = scanSize

ScanFinds ==
    /\ ScanUnchanged
    /\ scan <= scanSize
    /\ status[tracker[scan]] = "processing"
    /\ ScanEnds("processing")

ScanGoesOn ==
    /\ ScanUnchanged
    /\ scan <= scanSize
    /\ status[tracker[scan]] # "processing"
    /\ scan' = scan + 1
    /\ UNCHANGED <<request, cache, progress, scanSize, answer, scans>>

ScanIdle == ScanUnchanged /\ scan > scanSize /\ ScanEnds("idle")

-----------------------------------------------------------------------------
Work(r) == \/ Lookup(r) \/ Loaded(r) \/ Save(r) \/ SaveFails(r) \/ Convert(r)
           \/ ConvertFails(r) \/ PlanFails(r) \/ Plan(r) \/ Extract(r)
           \/ ExtractFails(r) \/ Announce(r) \/ Recognize(r) \/ RecognizeFails(r)
           \/ Complete(r) \/ Respond(r) \/ RespondFails(r)
           \/ Cleanup(r) \/ CleanupFails(r)

ScanStep == ScanRaises \/ ScanFinds \/ ScanGoesOn \/ ScanIdle

Quiet == /\ \A r \in Requests : place[r] = "done"
         /\ scan = 0 /\ scans = MaxScans
         /\ UNCHANGED vars

Next == (\E r \in Requests : Work(r)) \/ ScanStarts \/ ScanStep \/ Quiet

Spec == Init /\ [][Next]_vars
-----------------------------------------------------------------------------
(***************************************************************************)
(* Properties.                                                             *)
(***************************************************************************)
\* When /status says that the server is idle, no entry says "processing" and
\* nothing is being transcribed at that moment, although the loop has looked
\* at the entries at different moments.
IdleIsTrue ==
    [][ScanIdle => \A r \in Requests : status[r] # "processing" /\ ~Transcribing(r)]_vars

\* What an entry of the tracker says is so, whatever fails in this request or in
\* others.  "complete" says that every chunk was recognized, by the model that
\* was asked for or, when that could not be loaded, by the default: so it is of
\* every request answered with a transcript, but also of one whose transcript
\* was lost when the answer was formatted or the files were removed.
\* "processing" is told of those being transcribed, and for ever of those that
\* failed at it.
StatusIsTrue ==
    \A r \in Requests :
        /\ status[r] = "complete" => /\ chunk[r] = chunks[r] /\ current[r] = chunks[r]
                                     /\ model[r] \in {asked[r], Default} \cap cache
        /\ reply[r] = "ok" => status[r] = "complete"
        /\ status[r] = "processing" =>
               Transcribing(r) \/ reply[r] \in {"error", "cleanup failed"}

\* A request leaves no file behind but what a failed upload or a failed
\* conversion has begun to write, unless a file cannot be removed.
FilesRemoved ==
    \A r \in Requests : place[r] = "done" /\ reply[r] # "cleanup failed" =>
        files[r] \subseteq CASE reply[r] = "save failed" -> {Original}
                            [] reply[r] = "conversion failed" -> {Wav}
                            [] OTHER -> {}
=============================================================================
