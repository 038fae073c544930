----------------------------- MODULE LiveSession ---------------------------
(***************************************************************************)
(* LiveSession of parakeet_vllm/realtime/session.py: one realtime          *)
(* connection, with the VAD iterator it feeds and the asyncio.Lock that    *)
(* close() uses to wait for a decode.                                      *)
(*                                                                         *)
(* Two tasks run: the receiver, which calls feed_pcm and                   *)
(* handle_client_event one after the other, and the closer, which calls    *)
(* close() once, at any moment.  The receiver suspends only in a decode or *)
(* waiting for the lock, so the closer acts only when the receiver is      *)
(* there or between two calls.  A sample of audio is a unit of seg; the    *)
(* outbound queue is what it has told its reader so far (turn) and         *)
(* whether the sentinel is in it (closer = "sent").                        *)
(***************************************************************************)
EXTENDS Integers, Sequences

CONSTANTS Hop,           \* _hop
          MaxSeg,        \* _max_seg
          ChunkSizes,    \* sizes of the chunks fed
          MaxVadEvents,  \* bound: VAD events in one push
          SegBound,      \* bound: no audio is fed to a segment this long
          ClientOps,     \* client events that arrive: "commit" "clear" "update"
          Faults         \* calls that may raise: "decode"; the VAD's "push", "reset"

ASSUME SessionAssumption ==
    /\ Hop \in Nat \ {0}
    /\ MaxSeg \in Nat \ {0}
    /\ ChunkSizes \subseteq Nat
    /\ MaxVadEvents \in Nat
    /\ SegBound \in Nat
    /\ ClientOps \subseteq {"commit", "clear", "update"}
    /\ Faults \subseteq {"decode", "push", "reset"}

VARIABLES
    pc,        \* where the receiver is
    evs,       \* VAD events of the current push still to be handled
    chunk,     \* size of the chunk being fed
    goal,      \* what the lock is taken for: "hop" or "final"
    after,     \* where the receiver goes on after it: "scan", "cap", "idle"
    seg,       \* _seg.size
    sinceHop,  \* _since_hop
    speaking,  \* _speaking
    manual,    \* _manual
    vadOn,     \* VADIterator.triggered
    vadRaised, \* history: the VAD raised, and has reported nothing since
    closed,    \* _closed
    closer,    \* close(): "no", "waiting" for the lock, "sent" the sentinel
    locked,    \* Lock._locked
    waiters,   \* Lock._waiters
    woken,     \* the first of them holds a result
    turn,      \* history: the turn, as the events emitted so far tell it
    owed,      \* history: close() found a decode in flight, which still runs
    orphaned   \* history: a completed transcript came after the sentinel

scanVars == <<evs, chunk>>
lockVars == <<locked, waiters, woken>>
closeVars == <<closed, closer>>
audioVars == <<seg, sinceHop, speaking, vadOn, vadRaised>>
vars == <<pc, scanVars, goal, after, audioVars, manual, closeVars, lockVars,
          turn, owed, orphaned>>

Suspended == {"idle", "lock", "decode"}
PcStates == Suspended \cup {"scan", "cap", "want", "body"}

-----------------------------------------------------------------------------
\* What a reader in server_vad mode has been told after one more event.
\* "completed" stands for the pair committed, completed.
Told(event) ==
    CASE event = "started"   /\ turn = "quiet"   -> "open"
      [] event = "delta"     /\ turn = "open"    -> "open"
      [] event = "stopped"   /\ turn = "open"    -> "stopped"
      [] event = "completed" /\ turn = "stopped" -> "quiet"
      [] OTHER -> "broken"

\* Mutant: the VAD keeps its state.
ResetSegmentOnly ==
    /\ seg' = 0
    /\ sinceHop' = 0
    /\ speaking' = FALSE
    /\ UNCHANGED <<vadOn, vadRaised>>

\* _reset_segment: a VAD that fails to reset is logged and left as it is.
ResetSegment ==
    /\ seg' = 0
    /\ sinceHop' = 0
    /\ speaking' = FALSE
    /\ \/ vadOn' = FALSE /\ UNCHANGED vadRaised
       \/ "reset" \in Faults /\ UNCHANGED vadOn /\ vadRaised' = TRUE

\* Lock.release() wakes the first waiter.
ReleaseLock ==
    /\ locked' = FALSE
    /\ woken' = (waiters # <<>>)
    /\ UNCHANGED waiters

\* Lock.acquire() does not wait: free, and nobody has been promised it.
LockFree == ~locked /\ waiters = <<>>

-----------------------------------------------------------------------------
Init ==
    /\ pc = "idle" /\ evs = <<>> /\ chunk = 0 /\ goal = "hop" /\ after = "idle"
    /\ seg = 0 /\ sinceHop = 0 /\ speaking = FALSE /\ vadOn = FALSE
    /\ vadRaised = FALSE
    /\ manual = FALSE
    /\ closed = FALSE /\ closer = "no"
    /\ locked = FALSE /\ waiters = <<>> /\ woken = FALSE
    /\ turn = "quiet" /\ owed = FALSE /\ orphaned = FALSE

(***************************************************************************)
(* feed_pcm.                                                               *)
(***************************************************************************)
\* What the VAD can report on a push: starts and stops in turn.
VadReports ==
    {e \in UNION {[1..k -> {"start", "stop"}] : k \in 0..MaxVadEvents} :
        \A i \in 1..Len(e) : (e[i] = "start") <=> ((i % 2 = 1) <=> ~vadOn)}

\* A chunk arrives: the VAD hears all of it before any event is handled.
Feed(n, report) ==
    /\ pc = "idle"
    /\ ~closed
    /\ seg < SegBound
    /\ n = 0 => report = <<>>
    /\ pc' = "scan"
    /\ evs' = report
    /\ chunk' = n
    /\ vadOn' = IF report = <<>> THEN vadOn ELSE report[Len(report)] = "start"
    /\ vadRaised' = (vadRaised /\ report = <<>>)
    /\ UNCHANGED <<goal, after, seg, sinceHop, speaking, manual, closeVars,
                   lockVars, turn, owed, orphaned>>

\* The VAD raises on one of the chunk's windows: what it reported of earlier
\* ones is lost with the exception, but not what it heard.
FeedFails ==
    /\ "push" \in Faults
    /\ pc = "idle"
    /\ ~closed
    /\ vadOn' \in BOOLEAN
    /\ vadRaised' = TRUE
    /\ UNCHANGED <<pc, scanVars, goal, after, seg, sinceHop, speaking, manual,
                   closeVars, lockVars, turn, owed, orphaned>>

\* The receiver is about to take the lock.
Want(what, then) ==
    /\ pc' = "want"
    /\ goal' = what
    /\ after' = then

\* One round of the loop over VAD events.
VadEvent ==
    /\ pc = "scan"
    /\ evs # <<>>
    /\ evs' = Tail(evs)
    /\ \/ /\ Head(evs) = "start" /\ ~speaking
          /\ speaking' = TRUE
          /\ turn' = IF manual THEN turn ELSE Told("started")
          /\ UNCHANGED <<pc, goal, after>>
       \/ /\ Head(evs) = "stop" /\ speaking /\ ~manual
          /\ turn' = Told("stopped")
          /\ Want("final", "scan")
          /\ UNCHANGED speaking
       \/ /\ IF Head(evs) = "start" THEN speaking ELSE ~speaking \/ manual
          /\ UNCHANGED <<pc, goal, after, speaking, turn>>
    /\ UNCHANGED <<chunk, seg, sinceHop, vadOn, vadRaised, manual, closeVars, lockVars,
                   owed, orphaned>>

\* The chunk is added to the segment, and every Hop samples it is decoded.
Accumulate ==
    /\ pc = "scan"
    /\ evs = <<>>
    /\ speaking \/ manual
    /\ seg' = seg + chunk
    /\ IF sinceHop + chunk >= Hop /\ seg' > 0
       THEN sinceHop' = 0 /\ Want("hop", "cap")
       ELSE sinceHop' = sinceHop + chunk /\ pc' = "cap" /\ UNCHANGED <<goal, after>>
    /\ UNCHANGED <<scanVars, speaking, vadOn, vadRaised, manual, closeVars, lockVars,
                   turn, owed, orphaned>>

\* Nobody speaks: the chunk is dropped.
Ignore ==
    /\ pc = "scan"
    /\ evs = <<>>
    /\ ~(speaking \/ manual)
    /\ pc' = "idle"
    /\ UNCHANGED <<scanVars, goal, after, audioVars, manual, closeVars, lockVars,
                   turn, owed, orphaned>>

\* Mutant: the cap path finalizes without ending the turn first.
CapMute ==
    /\ pc = "cap"
    /\ IF seg >= MaxSeg
       THEN Want("final", "idle")
       ELSE pc' = "idle" /\ UNCHANGED <<goal, after>>
    /\ UNCHANGED <<scanVars, audioVars, manual, closeVars, lockVars, turn, owed,
                   orphaned>>

\* Mutant: off by one.
CapLate ==
    /\ pc = "cap"
    /\ IF seg > MaxSeg
       THEN /\ turn' = IF speaking /\ ~manual THEN Told("stopped") ELSE turn
            /\ Want("final", "idle")
       ELSE pc' = "idle" /\ UNCHANGED <<goal, after, turn>>
    /\ UNCHANGED <<scanVars, audioVars, manual, closeVars, lockVars, owed, orphaned>>

\* The runaway segment cap.
Cap ==
    /\ pc = "cap"
    /\ IF seg >= MaxSeg
       THEN /\ turn' = IF speaking /\ ~manual THEN Told("stopped") ELSE turn
            /\ Want("final", "idle")
       ELSE pc' = "idle" /\ UNCHANGED <<goal, after, turn>>
    /\ UNCHANGED <<scanVars, audioVars, manual, closeVars, lockVars, owed, orphaned>>

(***************************************************************************)
(* handle_client_event.  The connection dispatches none after close().     *)
(***************************************************************************)
MayCall(op) == op \in ClientOps /\ pc = "idle" /\ ~closed

Commit ==
    /\ MayCall("commit")
    /\ Want("final", "idle")
    /\ UNCHANGED <<scanVars, audioVars, manual, closeVars, lockVars, turn, owed,
                   orphaned>>

\* Clear does not take the lock.
Clear ==
    /\ MayCall("clear")
    /\ ResetSegment
    /\ UNCHANGED <<pc, scanVars, goal, after, manual, closeVars, lockVars, turn,
                   owed, orphaned>>

\* session.update: the mode changes, whatever is going on in the segment.
Update(m) ==
    /\ MayCall("update")
    /\ manual' = m
    /\ UNCHANGED <<pc, scanVars, goal, after, audioVars, closeVars, lockVars, turn,
                   owed, orphaned>>

(***************************************************************************)
(* _hop_decode and _finalize.                                              *)
(***************************************************************************)
\* `async with self._lock`: take it, or queue behind the closer.
Acquire ==
    /\ pc = "want"
    /\ \/ /\ LockFree
          /\ locked' = TRUE
          /\ pc' = "body"
          /\ UNCHANGED waiters
       \/ /\ ~LockFree
          /\ waiters' = Append(waiters, "receiver")
          /\ pc' = "lock"
          /\ UNCHANGED locked
    /\ UNCHANGED <<scanVars, goal, after, audioVars, manual, closeVars, woken, turn,
                   owed, orphaned>>

\* The closer has passed the lock on.
LockGranted ==
    /\ pc = "lock"
    /\ woken
    /\ Head(waiters) = "receiver"
    /\ locked' = TRUE
    /\ waiters' = Tail(waiters)
    /\ woken' = FALSE
    /\ pc' = "body"
    /\ UNCHANGED <<scanVars, goal, after, audioVars, manual, closeVars, turn, owed,
                   orphaned>>

\* committed and completed are emitted and the segment is reset.
Complete ==
    /\ turn' = Told("completed")
    /\ orphaned' = (orphaned \/ closer = "sent")
    /\ ResetSegment

\* An empty segment is completed without a decode.
CompleteEmpty ==
    /\ pc = "body"
    /\ goal = "final" /\ seg = 0
    /\ Complete
    /\ ReleaseLock
    /\ pc' = after
    /\ UNCHANGED <<scanVars, goal, after, manual, closeVars, owed>>

StartDecode ==
    /\ pc = "body"
    /\ ~(goal = "final" /\ seg = 0)
    /\ pc' = "decode"
    /\ UNCHANGED <<scanVars, goal, after, audioVars, manual, closeVars, lockVars,
                   turn, owed, orphaned>>

\* The decode returns: a hop emits a delta if two hypotheses agree on more.
DecodeDone ==
    /\ pc = "decode"
    /\ \/ /\ goal = "hop"
          /\ turn' \in {turn, Told("delta")}
          /\ UNCHANGED <<audioVars, orphaned>>
       \/ goal = "final" /\ Complete
    /\ ReleaseLock
    /\ pc' = after
    /\ owed' = FALSE
    /\ UNCHANGED <<scanVars, goal, after, manual, closeVars>>

\* Mutant: the lock is released on the normal path only.
DecodeFailsLocked ==
    /\ "decode" \in Faults
    /\ pc = "decode"
    /\ pc' = "idle"
    /\ evs' = <<>>
    /\ owed' = FALSE
    /\ UNCHANGED <<chunk, goal, after, audioVars, manual, closeVars, lockVars,
                   turn, orphaned>>

\* The decode raises: the exception leaves feed_pcm or handle_client_event,
\* past the events and the audio that were left to handle.
DecodeFails ==
    /\ "decode" \in Faults
    /\ pc = "decode"
    /\ ReleaseLock
    /\ pc' = "idle"
    /\ evs' = <<>>
    /\ owed' = FALSE
    /\ UNCHANGED <<chunk, goal, after, audioVars, manual, closeVars, turn, orphaned>>

(***************************************************************************)
(* close().                                                                *)
(***************************************************************************)
\* Mutant: close() puts the sentinel at once.
CallCloseAtOnce ==
    /\ closer = "no"
    /\ pc \in Suspended
    /\ closed' = TRUE
    /\ owed' = (pc = "decode")
    /\ closer' = "sent"
    /\ UNCHANGED <<pc, scanVars, goal, after, audioVars, manual, lockVars, turn,
                   orphaned>>

\* close() marks the session and takes the lock, behind a decode in flight.
CallClose ==
    /\ closer = "no"
    /\ pc \in Suspended
    /\ closed' = TRUE
    /\ owed' = (pc = "decode")
    /\ \/ /\ LockFree
          /\ closer' = "sent"
          /\ UNCHANGED waiters
       \/ /\ ~LockFree
          /\ closer' = "waiting"
          /\ waiters' = Append(waiters, "closer")
    /\ UNCHANGED <<pc, scanVars, goal, after, audioVars, manual, locked, woken,
                   turn, orphaned>>

\* It is granted the lock, gives it back and puts the sentinel.
CloserResumes ==
    /\ closer = "waiting"
    /\ pc \in Suspended
    /\ woken
    /\ Head(waiters) = "closer"
    /\ closer' = "sent"
    /\ waiters' = Tail(waiters)
    /\ woken' = (Tail(waiters) # <<>>)
    /\ UNCHANGED <<pc, scanVars, goal, after, audioVars, manual, closed, locked,
                   turn, owed, orphaned>>
-----------------------------------------------------------------------------
ReceiverStep == \/ VadEvent \/ Accumulate \/ Ignore \/ Cap
                \/ Acquire \/ LockGranted \/ CompleteEmpty \/ StartDecode
                \/ DecodeDone \/ DecodeFails

ClientStep == \/ \E n \in ChunkSizes, report \in VadReports : Feed(n, report)
              \/ FeedFails
              \/ Commit \/ Clear \/ \E m \in BOOLEAN : Update(m)
              \/ CallClose

\* The session is over.
Over == closer = "sent" /\ pc = "idle" /\ UNCHANGED vars

Next == ReceiverStep \/ ClientStep \/ CloserResumes \/ Over

\* A decode ends, and the event loop runs every ready task.
Spec == Init /\ [][Next]_vars /\ WF_vars(ReceiverStep) /\ WF_vars(CloserResumes)
-----------------------------------------------------------------------------
(***************************************************************************)
(* Properties.                                                             *)
(***************************************************************************)
\* Every variable has its type; _since_hop never reaches _hop.
TypeOK ==
    /\ pc \in PcStates
    /\ evs \in Seq({"start", "stop"})
    /\ chunk \in Nat
    /\ goal \in {"hop", "final"}
    /\ after \in {"scan", "cap", "idle"}
    /\ seg \in Nat
    /\ sinceHop \in 0..Hop - 1
    /\ speaking \in BOOLEAN /\ manual \in BOOLEAN
    /\ vadOn \in BOOLEAN /\ vadRaised \in BOOLEAN
    /\ closed \in BOOLEAN /\ closer \in {"no", "waiting", "sent"}
    /\ locked \in BOOLEAN
    /\ waiters \in Seq({"receiver", "closer"})
    /\ woken \in BOOLEAN
    /\ turn \in {"quiet", "open", "stopped", "broken"}
    /\ owed \in BOOLEAN /\ orphaned \in BOOLEAN

\* close() "waits for any in-flight decode, then enqueues sentinel": what the
\* decode it found emits is in the queue before the sentinel, whether that
\* decode is a hop, a finalize or one that raises.
CloseWaits == closer = "sent" => ~owed

\* The docstring of events(): no committed or completed event is "ever
\* orphaned" behind the sentinel.
NoOrphan == ~orphaned

\* The VAD and the session agree, in one direction: between two calls, a VAD
\* inside speech, which will report nothing before that speech stops, has a
\* session that is speaking and collects the chunks fed meanwhile.  Mode
\* changes, commits, clears, stops and starts in one push and decodes that
\* raise with VAD events still to be handled keep it so.  A push or a reset of
\* the VAD that raises may break it, but no longer than until the VAD reports
\* something, a stop included.  It says nothing of
\* the chunk that held the events: one whose last event is a stop is dropped,
\* and when it had the start as well, an empty segment is completed.
SpeakingFollowsVad == pc = "idle" /\ vadOn /\ ~vadRaised => speaking

\* In server_vad mode, fed by audio only, the reader sees every turn whole:
\* speech_started, deltas, speech_stopped, committed and completed, in that
\* order, also when the cap or a VAD that failed to reset ends it.
TurnOrder == turn # "broken"

\* The runaway segment cap: between two calls a segment is below the cap.
SegmentCapped == pc = "idle" => seg < MaxSeg

\* close() ends: the reader of events() gets its sentinel.
CloseEnds == closed ~> closer = "sent"
=============================================================================
