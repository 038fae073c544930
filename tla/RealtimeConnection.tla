-------------------------- MODULE RealtimeConnection -----------------------
(***************************************************************************)
(* The /v1/realtime handler of parakeet_vllm/realtime/ws_app.py: a task    *)
(* that receives client messages and calls the session, and the pump task  *)
(* that sends the session's events.  Of the session only its outbound      *)
(* queue is left: a call emits events 1, 2, 3, ... and returns or raises,  *)
(* close() puts the sentinel _CLOSE, which is 0 here.                      *)
(*                                                                         *)
(* A send to a client that does not read can take for ever.  A send to a   *)
(* client that is gone is lost or raises.                                  *)
(***************************************************************************)
EXTENDS Integers, Sequences

CONSTANTS MaxMessages,   \* bound: client messages received
          MaxEvents,     \* bound: events the session emits
          MaxCancels     \* bound: CancelledErrors delivered to the handler

ASSUME ConnectionAssumption ==
    /\ MaxMessages \in Nat
    /\ MaxEvents \in Nat
    /\ MaxCancels \in Nat

VARIABLES client,     \* "here" or "gone"
          handler,    \* where the handler waits
          message,    \* the kind of message it is handling
          received,   \* messages received
          emitted,    \* events emitted by the session
          out,        \* LiveSession._out
          pump,       \* where the pump task is
          pumpCancelled,
          sent,       \* the events the client was sent
          cancels,    \* CancelledErrors delivered to the handler so far
          cut         \* history: the deadline or a CancelledError ended the drain

vars == <<client, handler, message, received, emitted, out, pump,
          pumpCancelled, sent, cancels, cut>>

Close == 0

\* "bad" is refused by the protocol, "append" is fed, any failure reported,
\* "other" is a session.update, commit or clear, "unreadable" is not JSON.
Messages == {"bad", "append", "other", "unreadable"}

\* "drain" is in wait_for(), "join" in the await behind it.
HandlerStates == {"receive", "call", "error", "drain", "join", "done"}
PumpStates == {"get", "send", "done", "failed", "cancelled"}

PumpEnded == pump \in {"done", "failed", "cancelled"}

\* The connection is accepted, session.created has been sent, the pump created.
Init ==
    /\ client = "here"
    /\ handler = "receive"
    /\ message = "other"
    /\ received = 0
    /\ emitted = 0
    /\ out = <<>>
    /\ pump = "get"
    /\ pumpCancelled = FALSE
    /\ sent = <<>>
    /\ cancels = 0
    /\ cut = FALSE

-----------------------------------------------------------------------------
(***************************************************************************)
(* The handler.                                                            *)
(***************************************************************************)
\* Mutant: the sentinel is not put behind the events.
LeaveAtOnce ==
    /\ handler' = "drain"
    /\ out' = <<Close>> \o out

\* The finally block up to its first wait.  Nobody else holds the session's
\* lock, so close() puts the sentinel at once.
Leave ==
    /\ handler' = "drain"
    /\ out' = Append(out, Close)

Receive(kind) ==
    /\ handler = "receive"
    /\ received < MaxMessages
    /\ received' = received + 1
    /\ message' = kind
    /\ \/ kind = "bad" /\ handler' = "error" /\ UNCHANGED out
       \/ kind \in {"append", "other"} /\ handler' = "call" /\ UNCHANGED out
       \/ kind = "unreadable" /\ Leave
    /\ UNCHANGED <<client, emitted, pump, pumpCancelled, sent, cancels, cut>>

\* receive_json() raises WebSocketDisconnect.
Disconnect ==
    /\ handler = "receive"
    /\ client = "gone"
    /\ Leave
    /\ UNCHANGED <<client, message, received, emitted, pump, pumpCancelled, sent,
                   cancels, cut>>

\* The session call emits an event.
Emit ==
    /\ handler = "call"
    /\ emitted < MaxEvents
    /\ emitted' = emitted + 1
    /\ out' = Append(out, emitted + 1)
    /\ UNCHANGED <<client, handler, message, received, pump, pumpCancelled, sent,
                   cancels, cut>>

CallReturns ==
    /\ handler = "call"
    /\ handler' = "receive"
    /\ UNCHANGED <<client, message, received, emitted, out, pump, pumpCancelled,
                   sent, cancels, cut>>

\* What an append raises is reported to the client; what any other call
\* raises ends the connection.
CallRaises ==
    /\ handler = "call"
    /\ \/ message = "append" /\ handler' = "error" /\ UNCHANGED out
       \/ message = "other" /\ Leave
    /\ UNCHANGED <<client, message, received, emitted, pump, pumpCancelled, sent,
                   cancels, cut>>

\* The error goes to the socket directly, past the events in the queue.
ErrorSent ==
    /\ handler = "error"
    /\ client = "here"
    /\ handler' = "receive"
    /\ UNCHANGED <<client, message, received, emitted, out, pump, pumpCancelled,
                   sent, cancels, cut>>

ErrorLost ==
    /\ handler = "error"
    /\ client = "gone"
    /\ \/ handler' = "receive" /\ UNCHANGED out
       \/ Leave
    /\ UNCHANGED <<client, message, received, emitted, pump, pumpCancelled, sent,
                   cancels, cut>>

\* Mutant: the pump is not cancelled when the time is over.
DrainTimeoutPasses ==
    /\ handler = "drain"
    /\ ~PumpEnded
    /\ UNCHANGED vars

\* wait_for() gives up after two seconds: it cancels the pump and goes on
\* waiting for it.
DrainTimeout ==
    /\ handler = "drain"
    /\ ~PumpEnded /\ ~pumpCancelled
    /\ pumpCancelled' = TRUE
    /\ cut' = TRUE
    /\ UNCHANGED <<client, handler, message, received, emitted, out, pump, sent,
                   cancels>>

\* Mutant: the pump is cancelled at once, without the two seconds.
WaitForSkipped ==
    /\ handler = "drain"
    /\ handler' = "join"
    /\ pumpCancelled' = TRUE
    /\ UNCHANGED <<client, message, received, emitted, out, pump, sent, cancels, cut>>

\* wait_for() returns or raises: the pump has ended, so that the cancel() of
\* the except clause does nothing.
WaitForEnds ==
    /\ handler = "drain"
    /\ PumpEnded
    /\ handler' = "join"
    /\ UNCHANGED <<client, message, received, emitted, out, pump, pumpCancelled,
                   sent, cancels, cut>>

\* The second await returns or raises, and what it raises is swallowed.
Joined ==
    /\ handler = "join"
    /\ PumpEnded
    /\ handler' = "done"
    /\ UNCHANGED <<client, message, received, emitted, out, pump, pumpCancelled,
                   sent, cancels, cut>>

\* A CancelledError that finds the handler awaiting the pump is passed on to
\* the pump, and the handler goes on waiting: both awaits.  But wait_for() that
\* has cancelled the pump already waits for it on a future of its own before
\* Python 3.12: the CancelledError ends that wait, with the pump still running.
CancelDrain ==
    /\ handler \in {"drain", "join"}
    /\ handler' \in IF handler = "drain" /\ pumpCancelled THEN {"drain", "join"}
                   ELSE {handler}
    /\ pumpCancelled' = TRUE
    /\ cut' = TRUE
    /\ UNCHANGED out

\* The handler is cancelled: it goes to its finally block, or is there.
CancelHandler ==
    /\ cancels < MaxCancels
    /\ cancels' = cancels + 1
    /\ \/ /\ handler \in {"receive", "call", "error"}
          /\ Leave
          /\ UNCHANGED <<pumpCancelled, cut>>
       \/ ~PumpEnded /\ CancelDrain
       \/ /\ handler \in {"drain", "join"} /\ PumpEnded
          /\ UNCHANGED <<handler, out, pumpCancelled, cut>>
    /\ UNCHANGED <<client, message, received, emitted, pump, sent>>

-----------------------------------------------------------------------------
(***************************************************************************)
(* The pump.                                                               *)
(***************************************************************************)
\* Mutant: the newest event is taken first.
PumpGetsNewest ==
    /\ pump = "get" /\ ~pumpCancelled
    /\ out # <<>>
    /\ IF out[Len(out)] = Close
       THEN pump' = "done" /\ out' = SubSeq(out, 1, Len(out) - 1)
       ELSE pump' = "send" /\ out' = <<out[Len(out)]>> \o SubSeq(out, 1, Len(out) - 1)
    /\ UNCHANGED <<client, handler, message, received, emitted, pumpCancelled,
                   sent, cancels, cut>>

\* The next event is taken off the queue when it has been sent; only the pump
\* takes from it.
PumpGets ==
    /\ pump = "get" /\ ~pumpCancelled
    /\ out # <<>>
    /\ IF Head(out) = Close
       THEN pump' = "done" /\ out' = Tail(out)
       ELSE pump' = "send" /\ UNCHANGED out
    /\ UNCHANGED <<client, handler, message, received, emitted, pumpCancelled,
                   sent, cancels, cut>>

PumpSends ==
    /\ pump = "send" /\ ~pumpCancelled
    /\ client = "here"
    /\ pump' = "get"
    /\ out' = Tail(out)
    /\ sent' = Append(sent, Head(out))
    /\ UNCHANGED <<client, handler, message, received, emitted, pumpCancelled,
                   cancels, cut>>

\* Nobody is there: the event is lost, or send_json() raises.
PumpSendsToNobody ==
    /\ pump = "send" /\ ~pumpCancelled
    /\ client = "gone"
    /\ pump' \in {"get", "failed"}
    /\ out' = Tail(out)
    /\ UNCHANGED <<client, handler, message, received, emitted, pumpCancelled, sent,
                   cancels, cut>>

PumpCancelled ==
    /\ pumpCancelled
    /\ ~PumpEnded
    /\ pump' = "cancelled"
    /\ UNCHANGED <<client, handler, message, received, emitted, out, pumpCancelled,
                   sent, cancels, cut>>

-----------------------------------------------------------------------------
ClientGoes ==
    /\ client = "here"
    /\ client' = "gone"
    /\ UNCHANGED <<handler, message, received, emitted, out, pump, pumpCancelled,
                   sent, cancels, cut>>

HandlerStep == \/ Disconnect \/ CallReturns \/ CallRaises \/ ErrorLost
               \/ WaitForEnds \/ Joined

PumpStep == PumpGets \/ PumpSendsToNobody \/ PumpCancelled

ClientStep == \/ \E kind \in Messages : Receive(kind)
              \/ Emit \/ ErrorSent \/ PumpSends \/ CancelHandler \/ ClientGoes

\* The connection is over.
Over == handler = "done" /\ PumpEnded /\ UNCHANGED vars

Next == HandlerStep \/ DrainTimeout \/ PumpStep \/ ClientStep \/ Over

\* The loop runs every ready task, session calls end, the drain's two seconds
\* go by.  Nothing obliges a client to read, to write or to leave.
Spec == Init /\ [][Next]_vars
             /\ WF_vars(HandlerStep) /\ WF_vars(PumpStep) /\ WF_vars(DrainTimeout)
-----------------------------------------------------------------------------
(***************************************************************************)
(* Properties.                                                             *)
(***************************************************************************)
\* Every variable has its type.
TypeOK ==
    /\ client \in {"here", "gone"}
    /\ handler \in HandlerStates
    /\ message \in Messages
    /\ received \in 0..MaxMessages
    /\ emitted \in 0..MaxEvents
    /\ out \in Seq(0..MaxEvents)
    /\ pump \in PumpStates
    /\ pumpCancelled \in BOOLEAN
    /\ sent \in Seq(1..MaxEvents)
    /\ cancels \in 0..MaxCancels
    /\ cut \in BOOLEAN

\* What the client has been sent, and behind it what is queued, are the events
\* of the session in order with none missing, and behind them, once the session
\* is closed, one sentinel: as long as the client is there, whatever fails, is
\* cancelled or times out.  Events are only ever cut off at the end.
EventsInOrder ==
    client = "here" =>
        sent \o out = [i \in 1..emitted |-> i]
                          \o (IF handler \in {"drain", "join", "done"} /\ pump # "done"
                              THEN <<Close>> ELSE <<>>)

\* A pump that ends by itself has sent everything to a client that was there.
PumpFinishes ==
    pump = "done" /\ client = "here" => Len(sent) = emitted /\ out = <<>>

\* The handler returns with its pump ended, also when it was cancelled again
\* in a wait_for() that lets go of a pump still running; and with a client that
\* is there it has lost nothing, unless the two seconds or a CancelledError cut
\* the drain short: nothing else in the finally block cancels the pump early.
DrainDelivers ==
    handler = "done" => /\ PumpEnded
                        /\ client = "here" /\ ~cut => Len(sent) = emitted /\ out = <<>>

\* The connection ends when the client goes, at any moment, and the finally
\* block also with a client that is there and does not read.
ConnectionEnds == client = "gone" \/ handler = "drain" ~> handler = "done"
=============================================================================
