-------------------------- MODULE LegacyJobsProofs -------------------------
(***************************************************************************)
(* What app.py's tracker and its files can be relied on for, with any      *)
(* number of requests, models, chunks and polls.  The argument: where a    *)
(* thread is determines what its entry says and which of its files are on  *)
(* the list (Stage, Filed); and the entries a poll has passed can change,  *)
(* but never back to "processing" (Passed), so that a poll that comes to   *)
(* the end of a tracker nobody added to has not been overtaken.            *)
(***************************************************************************)
EXTENDS LegacyJobs, TLAPS

Before == {"new", "load", "save", "convert", "plan"}
During == {"extract", "announce", "recognize"}
After  == {"cleanup", "done"}
Places == {"new", "load", "save", "convert", "plan", "extract", "announce", "recognize",
           "format", "cleanup", "done"}

\* The variables that the argument needs have their types: those that say where
\* a request is, and those that count.
Labels ==
    /\ place \in [Requests -> Places]
    /\ asked \in [Requests -> Models]
    /\ model \in [Requests -> Models]
    /\ reply \in [Requests -> {"none", "ok", "error", "save failed", "conversion failed",
                             "cleanup failed"}]
    /\ status \in [Requests -> {"none", "processing", "complete"}]
    /\ DOMAIN files = Requests /\ DOMAIN clean = Requests

Counters ==
    /\ chunks \in [Requests -> Nat]
    /\ chunk \in [Requests -> Nat]
    /\ current \in [Requests -> Nat]
    /\ tracker \in Seq(Requests)
    /\ scan \in Nat /\ scanSize \in Nat

Types == Labels /\ Counters

Whole(r) == chunk[r] = chunks[r] /\ current[r] = chunks[r]

\* What the entry of a request says, and how far it is, by where its thread is.
Stage(r) ==
    /\ place[r] \in Before => /\ status[r] = "none" /\ reply[r] = "none"
                              /\ current[r] = 0
    /\ place[r] \in During => status[r] = "processing" /\ reply[r] = "none"
    /\ place[r] = "format" => status[r] = "complete" /\ reply[r] = "none"
    /\ place[r] \in After => /\ reply[r] # "none"
                             /\ reply[r] = "ok" => status[r] = "complete"
                             /\ status[r] = "processing" => reply[r] \in {"error", "cleanup failed"}
    /\ place[r] = "extract" => current[r] = 0
    /\ place[r] = "announce" => current[r] = chunk[r]
    /\ status[r] = "complete" => Whole(r) /\ place[r] \in {"format"} \cup After

\* The first chunk to be announced is counted from 0.
Counted(r) == place[r] \in Before => chunk[r] = 0

\* The model in use is in the cache, as the default is.
Cached(r) ==
    /\ Default \in cache
    /\ model[r] \in {asked[r], Default} \cap cache

Abandoned(r) == CASE reply[r] = "save failed" -> {Original}
                  [] reply[r] = "conversion failed" -> {Wav}
                  [] OTHER -> {}

\* Every file is on the list, but for what a failed step left; and none of
\* those on the list is there when the answer is out.
Filed(r) ==
    /\ place[r] # "done" => files[r] \ clean[r] \subseteq Abandoned(r)
    /\ place[r] \in Before \cup During \cup {"format"} => files[r] \subseteq clean[r]
    /\ place[r] = "done" /\ reply[r] # "cleanup failed" => files[r] \subseteq Abandoned(r)

\* The tracker has the requests whose entry says something.
Tracked ==
    \A r \in Requests : status[r] # "none" <=> \E i \in 1..Len(tracker) : tracker[i] = r

\* What a poll has passed does not say "processing".
Passed ==
    /\ scanSize <= Len(tracker)
    /\ scan <= scanSize + 1
    /\ \A i \in 1..Len(tracker) : i < scan => status[tracker[i]] # "processing"

Inv == /\ Types /\ Tracked /\ Passed
       /\ \A r \in Requests : Stage(r) /\ Counted(r) /\ Cached(r) /\ Filed(r)

-----------------------------------------------------------------------------
\* The argument's invariant holds in the beginning ...
LEMMA InvInit == Init => Inv
<1> SUFFICES ASSUME Init PROVE Inv
  OBVIOUS
<1> USE LegacyAssumption DEF Init
<1>1. Types
  BY DEF Types, Labels, Counters, Places
<1>2. Tracked /\ Passed
  BY DEF Tracked, Passed
<1>3. ASSUME NEW r \in Requests PROVE Stage(r) /\ Counted(r) /\ Cached(r) /\ Filed(r)
  BY <1>3 DEF Stage, Counted, Cached, Filed, Before, During, After, Abandoned
<1> QED BY <1>1, <1>2, <1>3 DEF Inv

\* Labels stay such.
LEMMA LabelsStep == Labels /\ [Next]_vars => Labels'
<1> SUFFICES ASSUME Labels, [Next]_vars PROVE Labels'
  OBVIOUS
<1> USE DEF Labels, Places
<1>1. ASSUME NEW r \in Requests, Work(r) PROVE Labels'
  <2> USE DEF Goes, Leaves, progress
  <2>1. CASE Lookup(r)
    BY <2>1, LegacyAssumption DEF Lookup
  <2>2. CASE Loaded(r)
    BY <2>2, LegacyAssumption DEF Loaded
  <2>3. CASE Save(r)
    BY <2>3 DEF Save
  <2>4. CASE SaveFails(r)
    BY <2>4 DEF SaveFails
  <2>5. CASE Convert(r)
    BY <2>5 DEF Convert
  <2>6. CASE ConvertFails(r)
    BY <2>6 DEF ConvertFails
  <2>7. CASE PlanFails(r)
    BY <2>7 DEF PlanFails
  <2>8. CASE Plan(r)
    BY <2>8, LegacyAssumption DEF Plan
  <2>9. CASE Extract(r)
    BY <2>9 DEF Extract
  <2>10. CASE Announce(r)
    BY <2>10 DEF Announce
  <2>11. CASE Recognize(r)
    BY <2>11 DEF Recognize
  <2>12. CASE RecognizeFails(r)
    BY <2>12 DEF RecognizeFails
  <2>13. CASE Complete(r)
    BY <2>13 DEF Complete
  <2>14. CASE Cleanup(r)
    BY <2>14 DEF Cleanup
  <2>15. CASE ExtractFails(r)
    BY <2>15 DEF ExtractFails
  <2>16. CASE Respond(r) \/ RespondFails(r)
    BY <2>16 DEF Respond, RespondFails
  <2>17. CASE CleanupFails(r)
    BY <2>17 DEF CleanupFails
  <2> QED BY <1>1, <2>1, <2>2, <2>3, <2>4, <2>5, <2>6, <2>7, <2>8, <2>9, <2>10, <2>11,
             <2>12, <2>13, <2>14, <2>15, <2>16, <2>17 DEF Work
<1>2. CASE ScanStarts \/ ScanStep
  BY <1>2 DEF ScanStarts, ScanStep, ScanRaises, ScanFinds, ScanGoesOn, ScanIdle, ScanEnds,
     request, progress
<1>3. CASE UNCHANGED vars
  BY <1>3 DEF vars, request, progress
<1> QED BY <1>1, <1>2, <1>3 DEF Next, Quiet

\* Indices and counts stay such.
LEMMA CountersStep == Counters /\ [Next]_vars => Counters'
<1> SUFFICES ASSUME Counters, [Next]_vars PROVE Counters'
  OBVIOUS
<1> USE DEF Counters
<1>1. ASSUME NEW r \in Requests, Work(r) PROVE Counters'
  <2> USE DEF progress, scanner
  <2>1. CASE Lookup(r)
    BY <2>1, LegacyAssumption DEF Lookup
  <2>2. CASE Loaded(r)
    BY <2>2, LegacyAssumption DEF Loaded
  <2>3. CASE Save(r)
    BY <2>3 DEF Save
  <2>4. CASE SaveFails(r)
    BY <2>4 DEF SaveFails
  <2>5. CASE Convert(r)
    BY <2>5 DEF Convert
  <2>6. CASE ConvertFails(r)
    BY <2>6 DEF ConvertFails
  <2>7. CASE PlanFails(r)
    BY <2>7 DEF PlanFails
  <2>8. CASE Plan(r)
    BY <2>8, LegacyAssumption DEF Plan
  <2>9. CASE Extract(r)
    BY <2>9 DEF Extract
  <2>10. CASE Announce(r)
    BY <2>10 DEF Announce
  <2>11. CASE Recognize(r)
    BY <2>11 DEF Recognize
  <2>12. CASE RecognizeFails(r)
    BY <2>12 DEF RecognizeFails
  <2>13. CASE Complete(r)
    BY <2>13 DEF Complete
  <2>14. CASE Cleanup(r)
    BY <2>14 DEF Cleanup
  <2>15. CASE ExtractFails(r)
    BY <2>15 DEF ExtractFails
  <2>16. CASE Respond(r) \/ RespondFails(r)
    BY <2>16 DEF Respond, RespondFails
  <2>17. CASE CleanupFails(r)
    BY <2>17 DEF CleanupFails
  <2> QED BY <1>1, <2>1, <2>2, <2>3, <2>4, <2>5, <2>6, <2>7, <2>8, <2>9, <2>10, <2>11,
             <2>12, <2>13, <2>14, <2>15, <2>16, <2>17 DEF Work
<1>2. CASE ScanStarts
  BY <1>2 DEF ScanStarts, request, progress
<1>3. CASE ScanStep
  BY <1>3 DEF ScanStep, ScanRaises, ScanFinds, ScanGoesOn, ScanIdle, ScanEnds, request, progress
<1>4. CASE UNCHANGED vars
  BY <1>4 DEF vars, request, progress, scanner
<1> QED BY <1>1, <1>2, <1>3, <1>4 DEF Next, Quiet

\* A model is in use once it is in the cache, which only grows.
LEMMA CachedStep ==
    ASSUME Types, NEW q \in Requests, NEW r \in Requests, Work(r), Cached(q)
    PROVE  Cached(q)'
<1> USE DEF Types, Labels, Cached
<1>1. CASE UNCHANGED <<asked, cache, model>>
  BY <1>1
<1>2. CASE Lookup(r)
  <2>1. UNCHANGED <<asked, cache>>
    BY <1>2 DEF Lookup
  <2>2. model' = model \/ (asked[r] \in cache /\ model' = [model EXCEPT ![r] = asked[r]])
    BY <1>2 DEF Lookup
  <2> QED BY <2>1, <2>2
<1>3. CASE Loaded(r)
  <2>1. asked' = asked /\ cache \subseteq cache'
    BY <1>3 DEF Loaded
  <2>2. \E m \in {asked[r], Default} \cap cache' : model' = [model EXCEPT ![r] = m]
    BY <1>3 DEF Loaded
  <2> QED BY <2>1, <2>2
<1> QED BY <1>1, <1>2, <1>3 DEF Work, Save, SaveFails, Convert, ConvertFails, PlanFails, Plan,
        Extract, ExtractFails, Announce, Recognize, RecognizeFails, Complete, Respond,
        RespondFails, Cleanup, CleanupFails

\* A step of a request, for the request itself and for the others.
LEMMA RequestStep ==
    ASSUME Types, [Next]_vars, NEW q \in Requests,
           Stage(q), Counted(q), Cached(q), Filed(q)
    PROVE  Stage(q)' /\ Counted(q)' /\ Cached(q)' /\ Filed(q)'
<1> USE DEF Types, Labels, Counters, Before, During, After
<1>i. Stage(q) /\ Counted(q) /\ Cached(q) /\ Filed(q)
  OBVIOUS
<1>1. ASSUME NEW r \in Requests, Work(r)
      PROVE Stage(q)' /\ Counted(q)' /\ Cached(q)' /\ Filed(q)'
  <2>c. Cached(q)'
    BY <1>1, CachedStep
  <2> USE DEF Goes, Leaves, progress, scanner, Stage, Counted, Filed, Whole, Abandoned,
              Original, Wav
  <2>1. CASE Lookup(r)
    BY <1>i, <2>c, <2>1 DEF Lookup
  <2>2. CASE Loaded(r)
    <3>1. Stage(q)' /\ Counted(q)'
      BY <1>i, <2>2 DEF Loaded
    <3>2. Filed(q)'
      BY <1>i, <2>2 DEF Loaded
    <3> QED BY <2>c, <3>1, <3>2
  <2>3. CASE Save(r)
    BY <1>i, <2>c, <2>3 DEF Save
  <2>4. CASE SaveFails(r)
    <3>1. Stage(q)' /\ Counted(q)'
      BY <1>i, <2>4 DEF SaveFails
    <3>2. PICK left \in SUBSET {Original} : files' = [files EXCEPT ![r] = left]
      BY <2>4 DEF SaveFails
    <3>3. files'[q] = IF q = r THEN left ELSE files[q]
      BY <3>2
    <3>4. Filed(q)'
      BY <1>i, <2>4, <3>3 DEF SaveFails
    <3> QED BY <2>c, <3>1, <3>4
  <2>5. CASE Convert(r)
    BY <1>i, <2>c, <2>5 DEF Convert
  <2>6. CASE ConvertFails(r)
    <3>1. PICK left \in SUBSET {Wav} : files' = [files EXCEPT ![r] = @ \cup left]
      BY <2>6 DEF ConvertFails
    <3>2. files'[q] = IF q = r THEN files[q] \cup left ELSE files[q]
      BY <3>1
    <3>3. Filed(q)'
      BY <1>i, <2>6, <3>2 DEF ConvertFails
    <3> QED BY <1>i, <2>c, <2>6, <3>3 DEF ConvertFails
  <2>7. CASE PlanFails(r)
    BY <1>i, <2>c, <2>7 DEF PlanFails
  <2>8. CASE Plan(r)
    BY <1>i, <2>c, <2>8 DEF Plan
  <2>9. CASE Extract(r)
    <3>1. PICK made \in SUBSET {chunk[r] + 1} :
            /\ files' = [files EXCEPT ![r] = @ \cup made]
            /\ clean' = [clean EXCEPT ![r] = @ \cup {chunk[r] + 1}]
      BY <2>9 DEF Extract
    <3>2. /\ files'[q] = IF q = r THEN files[q] \cup made ELSE files[q]
          /\ clean'[q] = IF q = r THEN clean[q] \cup {chunk[q] + 1} ELSE clean[q]
      BY <3>1
    <3>3. Filed(q)'
      BY <1>i, <2>9, <3>2 DEF Extract
    <3>4. UNCHANGED <<status, reply, current, chunks>> /\ place[r] = "extract"
      BY <2>9 DEF Extract
    <3>5. CASE q # r
      <4>1. place'[q] = place[q] /\ chunk'[q] = chunk[q]
        BY <2>9, <3>5 DEF Extract
      <4>2. Stage(q)' /\ Counted(q)'
        BY <1>i, <3>4, <4>1
      <4> QED BY <2>c, <3>3, <4>2
    <3>6. CASE q = r
      <4>1. place'[q] = "extract" \/ (place'[q] = "announce" /\ chunk'[q] = 0)
        BY <2>9, <3>6 DEF Extract
      <4>2. Stage(q)' /\ Counted(q)'
        BY <1>i, <3>4, <3>6, <4>1
      <4> QED BY <2>c, <3>3, <4>2
    <3> QED BY <3>5, <3>6
  <2>10. CASE Announce(r)
    BY <1>i, <2>c, <2>10 DEF Announce
  <2>11. CASE Recognize(r)
    BY <1>i, <2>c, <2>11 DEF Recognize
  <2>12. CASE RecognizeFails(r)
    BY <1>i, <2>c, <2>12 DEF RecognizeFails
  <2>13. CASE Complete(r)
    BY <1>i, <2>c, <2>13 DEF Complete
  <2>14. CASE Cleanup(r)
    BY <1>i, <2>c, <2>14 DEF Cleanup
  <2>15. CASE ExtractFails(r)
    <3>1. /\ clean'[q] = IF q = r THEN clean[q] \cup {chunk[q] + 1} ELSE clean[q]
          /\ UNCHANGED files
      BY <2>15 DEF ExtractFails
    <3>2. Filed(q)'
      BY <1>i, <2>15, <3>1 DEF ExtractFails
    <3>3. Stage(q)' /\ Counted(q)'
      BY <1>i, <2>15 DEF ExtractFails
    <3> QED BY <2>c, <3>2, <3>3
  <2>16. CASE Respond(r) \/ RespondFails(r)
    BY <1>i, <2>c, <2>16 DEF Respond, RespondFails
  <2>17. CASE CleanupFails(r)
    <3>1. PICK removed \in SUBSET clean[r] : files' = [files EXCEPT ![r] = @ \ removed]
      BY <2>17 DEF CleanupFails
    <3>2. files'[q] = IF q = r THEN files[q] \ removed ELSE files[q]
      BY <3>1
    <3>3. Filed(q)'
      BY <1>i, <2>17, <3>2 DEF CleanupFails
    <3>4. Stage(q)' /\ Counted(q)'
      BY <1>i, <2>17 DEF CleanupFails
    <3> QED BY <2>c, <3>3, <3>4
  <2> QED BY <1>1, <2>1, <2>2, <2>3, <2>4, <2>5, <2>6, <2>7, <2>8, <2>9, <2>10, <2>11,
             <2>12, <2>13, <2>14, <2>15, <2>16, <2>17 DEF Work
<1>2. CASE ScanStarts \/ ScanStep
  BY <1>i, <1>2 DEF ScanStarts, ScanStep, ScanRaises, ScanFinds, ScanGoesOn, ScanIdle, ScanEnds,
     request, progress, Stage, Counted, Cached, Filed, Whole, Abandoned
<1>3. CASE UNCHANGED vars
  BY <1>i, <1>3 DEF vars, request, progress, scanner, Stage, Counted, Cached, Filed, Whole,
     Abandoned
<1> QED BY <1>1, <1>2, <1>3 DEF Next, Quiet

\* The tracker only grows, and only Plan and Complete change what it says.
LEMMA TrackerStep ==
    ASSUME Types, Tracked, Passed, \A r \in Requests : Stage(r), [Next]_vars
    PROVE  Tracked' /\ Passed'
<1>l. Len(tracker) \in Nat /\ \A i \in 1..Len(tracker) : tracker[i] \in Requests
  BY DEF Types, Counters
<1> USE DEF Tracked, Passed
<1>1. ASSUME NEW r \in Requests, Plan(r) PROVE Tracked' /\ Passed'
  <2>1. status[r] = "none"
    BY <1>1 DEF Plan, Stage, Before
  <2>2. status' = [q \in Requests |-> IF q = r THEN "processing" ELSE status[q]]
    BY <1>1 DEF Plan, Types, Labels
  <2>3. /\ Len(tracker') = Len(tracker) + 1
        /\ \A i \in 1..Len(tracker) : tracker'[i] = tracker[i]
        /\ tracker'[Len(tracker) + 1] = r
    BY <1>1 DEF Plan, Types, Counters
  <2>4. UNCHANGED <<scan, scanSize>>
    BY <1>1 DEF Plan, scanner
  <2>5. Tracked'
    <3> SUFFICES ASSUME NEW q \in Requests
                 PROVE  status'[q] # "none" <=> \E i \in 1..Len(tracker') : tracker'[i] = q
      OBVIOUS
    <3>1. CASE q = r
      <4>1. Len(tracker) + 1 \in 1..Len(tracker')
        BY <2>3, <1>l
      <4> QED BY <2>2, <2>3, <3>1, <4>1
    <3>2. CASE q # r
      <4>1. status'[q] = status[q]
        BY <2>2, <3>2
      <4>2. ASSUME NEW i \in 1..Len(tracker') PROVE tracker'[i] = q <=> i \in 1..Len(tracker) /\ tracker[i] = q
        BY <2>3, <3>2, <1>l
      <4>3. \A i \in 1..Len(tracker) : i \in 1..Len(tracker')
        BY <2>3, <1>l
      <4> QED BY <4>1, <4>2, <4>3
    <3> QED BY <3>1, <3>2
  <2>6. scanSize' <= Len(tracker') /\ scan' <= scanSize' + 1
    BY <2>3, <2>4, <1>l DEF Types, Counters
  <2>7. ASSUME NEW i \in 1..Len(tracker'), i < scan' PROVE status'[tracker'[i]] # "processing"
    <3>1. i \in 1..Len(tracker)
      BY <2>3, <2>4, <2>7, <1>l DEF Types, Counters
    <3>2. status[tracker[i]] # "processing" /\ tracker'[i] = tracker[i]
      BY <2>3, <2>4, <2>7, <3>1
    <3>3. tracker[i] # r
      BY <2>1, <3>1
    <3> QED BY <2>2, <3>1, <3>2, <3>3, <1>l
  <2> QED BY <2>5, <2>6, <2>7
<1>2. ASSUME NEW r \in Requests, Complete(r) PROVE Tracked' /\ Passed'
  <2>1. status[r] = "processing"
    BY <1>2 DEF Complete, Stage, During
  <2>2. status' = [q \in Requests |-> IF q = r THEN "complete" ELSE status[q]]
    BY <1>2 DEF Complete, Types, Labels
  <2>3. UNCHANGED <<tracker, scan, scanSize>>
    BY <1>2 DEF Complete, scanner
  <2> QED BY <2>1, <2>2, <2>3, <1>l
<1>3. ASSUME NEW r \in Requests, Work(r), ~Plan(r), ~Complete(r) PROVE Tracked' /\ Passed'
  <2>1. UNCHANGED <<tracker, status, scan, scanSize>>
    BY <1>3 DEF Work, Lookup, Loaded, Save, SaveFails, Convert, ConvertFails, PlanFails, Extract,
       ExtractFails, Announce, Recognize, RecognizeFails, Respond, RespondFails, Cleanup,
       CleanupFails, progress, scanner
  <2> QED BY <2>1
<1>4. CASE ScanStarts
  <2>1. UNCHANGED <<tracker, status>> /\ scan' = 1 /\ scanSize' = Len(tracker)
    BY <1>4 DEF ScanStarts, request, progress
  <2> QED BY <2>1, <1>l
<1>5. CASE ScanStep
  <2>1. UNCHANGED <<tracker, status, scanSize>>
    BY <1>5 DEF ScanStep, ScanRaises, ScanFinds, ScanGoesOn, ScanIdle, ScanEnds, request, progress
  <2>2. \/ scan' = 0
        \/ scan <= scanSize /\ status[tracker[scan]] # "processing" /\ scan' = scan + 1
    BY <1>5 DEF ScanStep, ScanRaises, ScanFinds, ScanGoesOn, ScanIdle, ScanEnds
  <2>3. scan \in Nat /\ scanSize \in Nat
    BY DEF Types, Counters
  <2> QED BY <2>1, <2>2, <2>3, <1>l
<1>6. CASE UNCHANGED vars
  BY <1>6 DEF vars, request, progress, scanner
<1> QED BY <1>1, <1>2, <1>3, <1>4, <1>5, <1>6 DEF Next, Quiet

\* ... and always.
LEMMA InvAlways == Spec => []Inv
<1>1. Inv /\ [Next]_vars => Inv'
  <2> SUFFICES ASSUME Inv, [Next]_vars PROVE Inv'
    OBVIOUS
  <2>1. Types'
    BY LabelsStep, CountersStep DEF Inv, Types
  <2>2. Tracked' /\ Passed'
    BY TrackerStep DEF Inv
  <2>3. ASSUME NEW r \in Requests PROVE (Stage(r) /\ Counted(r) /\ Cached(r) /\ Filed(r))'
    BY RequestStep DEF Inv
  <2> QED BY <2>1, <2>2, <2>3 DEF Inv
<1> QED BY <1>1, InvInit, PTL DEF Spec

-----------------------------------------------------------------------------
\* What an entry of the tracker says of a job is so.
THEOREM TrackerTellsTruth == Spec => []StatusIsTrue
<1>1. Inv => StatusIsTrue
  <2> SUFFICES ASSUME Inv, NEW r \in Requests
               PROVE  /\ status[r] = "complete" => Whole(r) /\ model[r] \in {asked[r], Default} \cap cache
                      /\ reply[r] = "ok" => status[r] = "complete"
                      /\ status[r] = "processing" =>
                             Transcribing(r) \/ reply[r] \in {"error", "cleanup failed"}
    BY DEF StatusIsTrue, Whole
  <2>1. Stage(r) /\ Cached(r)
    BY DEF Inv
  <2>2. place[r] \in Before \cup During \cup {"format"} \cup After
    BY DEF Inv, Types, Labels, Places, Before, During, After
  <2> QED BY <2>1, <2>2 DEF Stage, Cached, Transcribing, During
<1> QED BY <1>1, InvAlways, PTL

\* No request leaves a file behind but what a failed step has begun to write.
THEOREM UploadsAreRemoved == Spec => []FilesRemoved
<1>1. Inv => FilesRemoved
  BY DEF Inv, Filed, Abandoned, FilesRemoved
<1> QED BY <1>1, InvAlways, PTL

\* An idle server is idle.
THEOREM IdleServerIsIdle == Spec => IdleIsTrue
<1>1. Inv /\ ScanIdle => \A r \in Requests : status[r] # "processing" /\ ~Transcribing(r)
  <2> SUFFICES ASSUME Inv, ScanIdle, NEW r \in Requests
               PROVE  status[r] # "processing" /\ ~Transcribing(r)
    OBVIOUS
  <2>1. scan > Len(tracker) /\ scan \in Nat /\ Len(tracker) \in Nat
    BY DEF ScanIdle, ScanUnchanged, Inv, Types, Counters
  <2>2. \A i \in 1..Len(tracker) : status[tracker[i]] # "processing"
    BY <2>1 DEF Inv, Passed
  <2>3. status[r] # "processing"
    BY <2>2 DEF Inv, Tracked
  <2> QED BY <2>3 DEF Inv, Stage, Transcribing, During
<1> QED BY <1>1, InvAlways, PTL DEF IdleIsTrue
=============================================================================
