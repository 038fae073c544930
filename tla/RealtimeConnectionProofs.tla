---------------------- MODULE RealtimeConnectionProofs ---------------------
(***************************************************************************)
(* RealtimeConnection for any number of messages, events and               *)
(* cancellations.  While the client is there, what it was sent and what is *)
(* queued are one stream (Stream); every action takes the stream from one  *)
(* side to the other, adds to its end, or leaves it alone.                 *)
(***************************************************************************)
EXTENDS RealtimeConnection, SequenceTheorems, TLAPS

Closed == handler \in {"drain", "join", "done"}

Events == [i \in 1..emitted |-> i]

\* What there is of the stream: all events, and the sentinel until it is read.
Stream == Events \o (IF Closed /\ pump # "done" THEN <<Close>> ELSE <<>>)

\* TypeOK in two parts: the events, and where everybody is.
Queues ==
    /\ emitted \in 0..MaxEvents
    /\ out \in Seq(0..MaxEvents)
    /\ sent \in Seq(1..MaxEvents)

Places ==
    /\ client \in {"here", "gone"}
    /\ handler \in HandlerStates
    /\ message \in Messages
    /\ received \in 0..MaxMessages
    /\ pump \in PumpStates
    /\ pumpCancelled \in BOOLEAN
    /\ cancels \in 0..MaxCancels
    /\ cut \in BOOLEAN

\* What the pump's place says of the queue and of the handler.
PumpInv ==
    /\ pump = "send" => out # <<>> /\ Head(out) # Close
    /\ client = "here" => /\ pump = "done" => Closed /\ out = <<>>
                          /\ pump # "failed"

InOrder == client = "here" => sent \o out = Stream

Inv == Queues /\ PumpInv /\ InOrder

-----------------------------------------------------------------------------
\* The events are numbers that are not the sentinel's.
LEMMA EventsType ==
    ASSUME emitted \in 0..MaxEvents
    PROVE  /\ Events \in Seq(0..MaxEvents) /\ Len(Events) = emitted
           /\ \A i \in 1..emitted : Events[i] = i
           /\ emitted \in Nat
  BY ConnectionAssumption DEF Events

\* A sequence over a set is one over a larger set.
LEMMA Wider ==
    ASSUME NEW s \in Seq(1..MaxEvents)
    PROVE  s \in Seq(0..MaxEvents) /\ Len(s) \in Nat
<1>1. 1..MaxEvents \subseteq 0..MaxEvents
  BY ConnectionAssumption
<1> QED BY <1>1, SeqMonotonic, LenProperties

\* What is put on the queue comes to the end of the stream.
LEMMA PutBehind ==
    ASSUME NEW S, NEW s \in Seq(S), NEW t \in Seq(S), NEW x \in S
    PROVE  s \o Append(t, x) = Append(s \o t, x)
  OBVIOUS

\* What is sent goes from the one to the other.
LEMMA TakeBefore ==
    ASSUME NEW S, NEW s \in Seq(S), NEW t \in Seq(S), t # <<>>
    PROVE  Append(s, Head(t)) \o Tail(t) = s \o t
  OBVIOUS

\* The queue holds the session's events and the sentinel, the client has events.
LEMMA QueuesStep == Queues /\ PumpInv /\ [Next]_vars => Queues'
<1> SUFFICES ASSUME Queues, PumpInv, [Next]_vars PROVE Queues'
  OBVIOUS
<1> USE ConnectionAssumption DEF Queues, Close
<1>0. 0 \in 0..MaxEvents /\ Append(out, 0) \in Seq(0..MaxEvents)
  OBVIOUS
<1>1. CASE UNCHANGED <<emitted, out, sent>>
  BY <1>1
<1>2. CASE Leave /\ UNCHANGED <<emitted, sent>>
  BY <1>0, <1>2 DEF Leave
<1>3. CASE Emit
  <2>1. emitted + 1 \in 0..MaxEvents /\ emitted' = emitted + 1
    BY <1>3 DEF Emit
  <2>2. Append(out, emitted + 1) \in Seq(0..MaxEvents)
    BY <2>1
  <2> QED BY <1>3, <2>1, <2>2 DEF Emit
<1>4. CASE PumpGets
  <2>1. out # <<>> => Tail(out) \in Seq(0..MaxEvents)
    OBVIOUS
  <2>2. out' \in {out, Tail(out)} /\ out # <<>> /\ UNCHANGED <<emitted, sent>>
    BY <1>4 DEF PumpGets
  <2> QED BY <2>1, <2>2
<1>5. CASE PumpSends
  <2>1. out # <<>> /\ Head(out) # 0
    BY <1>5 DEF PumpSends, PumpInv
  <2>2. Head(out) \in 1..MaxEvents /\ Tail(out) \in Seq(0..MaxEvents)
    BY <2>1
  <2>3. Append(sent, Head(out)) \in Seq(1..MaxEvents)
    BY <2>2
  <2> QED BY <1>5, <2>2, <2>3 DEF PumpSends
<1>6. CASE PumpSendsToNobody
  <2>1. out # <<>> => Tail(out) \in Seq(0..MaxEvents)
    OBVIOUS
  <2>2. out # <<>>
    BY <1>6 DEF PumpSendsToNobody, PumpInv
  <2> QED BY <1>6, <2>1, <2>2 DEF PumpSendsToNobody
<1>7. ASSUME NEW kind \in Messages, Receive(kind) PROVE Queues'
  BY <1>1, <1>2, <1>7 DEF Receive
<1>8. CASE Disconnect \/ CallReturns \/ CallRaises \/ ErrorLost \/ ErrorSent
             \/ WaitForEnds \/ Joined
  BY <1>1, <1>2, <1>8 DEF Disconnect, CallReturns, CallRaises, ErrorLost, ErrorSent,
                             WaitForEnds, Joined
<1>9. CASE CancelHandler
  BY <1>1, <1>2, <1>9 DEF CancelHandler, CancelDrain
<1>10. CASE DrainTimeout \/ ClientGoes \/ PumpCancelled \/ Over \/ UNCHANGED vars
  BY <1>1, <1>10 DEF DrainTimeout, ClientGoes, PumpCancelled, Over, vars
<1> QED BY <1>3, <1>4, <1>5, <1>6, <1>7, <1>8, <1>9, <1>10
        DEF Next, HandlerStep, PumpStep, ClientStep

\* One step keeps the other types.
LEMMA PlacesStep == Places /\ [Next]_vars => Places'
<1> SUFFICES ASSUME Places, [Next]_vars PROVE Places'
  OBVIOUS
<1> USE ConnectionAssumption DEF Places, Messages, HandlerStates, PumpStates, Leave
<1>1. ASSUME NEW kind \in Messages, Receive(kind) PROVE Places'
  BY <1>1 DEF Receive
<1>2. CASE Disconnect \/ CallReturns \/ CallRaises \/ ErrorLost \/ ErrorSent
             \/ WaitForEnds \/ Joined
  BY <1>2 DEF Disconnect, CallReturns, CallRaises, ErrorLost, ErrorSent,
                             WaitForEnds, Joined
<1>3. CASE Emit
  BY <1>3 DEF Emit
<1>4. CASE DrainTimeout \/ CancelHandler
  <2>1. pumpCancelled' \in BOOLEAN /\ cut' \in BOOLEAN
    BY Zenon, <1>4 DEF DrainTimeout, CancelHandler, CancelDrain
  <2> QED BY <1>4, <2>1 DEF DrainTimeout, CancelHandler, CancelDrain
<1>5. CASE ClientGoes
  BY <1>5 DEF ClientGoes
<1>6. CASE PumpGets \/ PumpSends \/ PumpSendsToNobody \/ PumpCancelled
  BY <1>6 DEF PumpGets, PumpSends, PumpSendsToNobody, PumpCancelled
<1>7. CASE Over \/ UNCHANGED vars
  BY <1>7 DEF Over, vars
<1> QED BY <1>1, <1>2, <1>3, <1>4, <1>5, <1>6, <1>7
        DEF Next, HandlerStep, PumpStep, ClientStep

\* The pump stops with the sentinel in its hand only when there is one.
LEMMA CloseIsLast ==
    ASSUME Queues, client = "here", InOrder, out # <<>>, Head(out) = Close, pump # "done"
    PROVE  Closed /\ Tail(out) = <<>> /\ sent = Events /\ Len(sent) = emitted
<1>1. /\ Events \in Seq(0..MaxEvents) /\ Len(Events) = emitted /\ emitted \in Nat
      /\ \A i \in 1..emitted : Events[i] = i
  BY EventsType DEF Queues
<1>2. sent \in Seq(0..MaxEvents) /\ out \in Seq(0..MaxEvents) /\ Len(sent) \in Nat
  BY Wider, ConnectionAssumption DEF Queues
<1> HIDE DEF Events
<1>3. /\ Len(sent \o out) = Len(sent) + Len(out) /\ Len(out) \in Nat /\ Len(out) >= 1
      /\ (sent \o out)[Len(sent) + 1] = 0
      /\ \A i \in 1..Len(sent) : (sent \o out)[i] = sent[i]
  <2>1. Len(out) \in Nat /\ Len(out) >= 1 /\ out[1] = 0
    BY <1>2 DEF Close
  <2> QED BY <1>2, <2>1, ConcatProperties
<1>4. CASE ~Closed
  <2>1. sent \o out = Events
    <3>1. sent \o out = Events \o <<>>
      BY <1>4 DEF InOrder, Stream
    <3>2. Events \o <<>> = Events
      BY <1>1
    <3> QED BY <3>1, <3>2
  <2>2. Len(sent) + 1 \in 1..emitted
    BY <1>1, <1>2, <1>3, <2>1
  <2> QED BY <1>1, <1>3, <2>1, <2>2
<1>5. CASE Closed
  <2>1. sent \o out = Events \o <<0>>
    BY <1>5 DEF InOrder, Stream, Close
  <2>2. <<0>> \in Seq(0..MaxEvents) /\ Len(<<0>>) = 1
    BY ConnectionAssumption
  <2>3. Len(Events \o <<0>>) = emitted + 1
        /\ \A i \in 1..emitted : (Events \o <<0>>)[i] = i
    BY <1>1, <2>2, ConcatProperties
  <2>4. Len(sent) + 1 \in 1..emitted + 1
    BY <1>2, <1>3, <2>1, <2>3
  <2>5. ~(Len(sent) + 1 \in 1..emitted)
    BY <1>2, <1>3, <2>1, <2>3
  <2>6. Len(sent) = emitted /\ Len(out) = 1
    <3>1. Len(sent) = emitted
      BY <1>1, <1>2, <2>4, <2>5
    <3>2. Len(sent) + Len(out) = emitted + 1
      BY <1>3, <2>1, <2>3
    <3>3. Len(out) \in Nat /\ emitted \in Nat /\ Len(sent) \in Nat
      BY <1>1, <1>2, <1>3
    <3>4. \A a, b, c \in Nat : a = c /\ a + b = c + 1 => b = 1
      OBVIOUS
    <3> QED BY <3>1, <3>2, <3>3, <3>4
  <2>7. \A i \in 1..emitted : sent[i] = i
    BY <1>3, <2>1, <2>3, <2>6
  <2>8. sent = Events
    BY <1>1, <1>2, <2>6, <2>7
  <2>9. Tail(out) = <<>>
    <3>1. out # <<>> /\ Len(Tail(out)) = 0 /\ Tail(out) \in Seq(0..MaxEvents)
      BY <1>2, <2>6
    <3> QED BY <3>1, EmptySeq
  <2> QED BY <1>5, <2>6, <2>8, <2>9
<1> QED BY <1>4, <1>5

\* One step keeps the stream whole.
LEMMA OrderStep == Inv /\ [Next]_vars => PumpInv' /\ InOrder'
<1> SUFFICES ASSUME Inv, [Next]_vars PROVE PumpInv' /\ InOrder'
  OBVIOUS
<1> DEFINE E == 0..MaxEvents
<1>q. /\ emitted \in 0..MaxEvents /\ out \in Seq(E) /\ sent \in Seq(E) /\ 0 \in E
      /\ Events \in Seq(E)
  <2>2. sent \in Seq(E)
    BY Wider, ConnectionAssumption DEF Inv, Queues
  <2> QED BY <2>2, EventsType, ConnectionAssumption DEF Inv, Queues
<1>i. PumpInv /\ InOrder
  BY DEF Inv
<1> HIDE DEF E, Events
<1>1. CASE /\ UNCHANGED <<emitted, out, sent, pump>>
           /\ Closed' = Closed /\ (client' = "here" => client = "here")
  <2>1. Stream' = Stream
    BY <1>1 DEF Stream, Events
  <2> QED BY <1>1, <1>i, <2>1 DEF PumpInv, InOrder
<1>2. CASE Leave /\ ~Closed /\ UNCHANGED <<emitted, sent, pump, client>>
  <2>1. Closed' /\ out' = Append(out, 0) /\ Events' = Events
    BY <1>2 DEF Leave, Closed, Close, Events
  <2>2. client = "here" => pump # "done" /\ sent \o out = Events
    <3>1. Events \o <<>> = Events
      BY <1>q
    <3> QED BY <1>2, <1>i, <3>1 DEF PumpInv, InOrder, Stream
  <2>3. client = "here" => sent \o out' = Append(Events, 0)
    BY <1>q, <2>1, <2>2, PutBehind
  <2>4. Append(Events, 0) = Events \o <<0>>
    BY <1>q
  <2>5. InOrder'
    BY <1>2, <2>1, <2>2, <2>3, <2>4 DEF InOrder, Stream, Close
  <2>6. out # <<>> => out' # <<>> /\ Head(out') = Head(out)
    BY <1>q, <2>1
  <2> QED BY <1>2, <1>i, <2>1, <2>5, <2>6 DEF PumpInv
<1>3. CASE Emit
  <2>1. /\ ~Closed /\ ~Closed' /\ emitted + 1 \in 1..MaxEvents /\ emitted' = emitted + 1
        /\ out' = Append(out, emitted + 1) /\ UNCHANGED <<client, pump, sent>>
    BY <1>3, <1>q, ConnectionAssumption DEF Emit, Closed
  <2>2. emitted + 1 \in E
    BY <2>1 DEF E
  <2>3. out # <<>> => out' # <<>> /\ Head(out') = Head(out)
    BY <1>q, <2>1, <2>2
  <2>4. Events' = Append(Events, emitted + 1)
    BY <1>q, <2>1 DEF Events
  <2>5. Events \o <<>> = Events /\ Events' \o <<>> = Events'
    BY <1>q, <2>2, <2>4
  <2>6. client = "here" => sent \o out' = Append(sent \o out, emitted + 1)
    BY <1>q, <2>1, <2>2, PutBehind
  <2>7. InOrder'
    BY <1>i, <2>1, <2>4, <2>5, <2>6 DEF InOrder, Stream
  <2> QED BY <1>i, <2>1, <2>3, <2>7 DEF PumpInv
<1>4. CASE PumpGets
  <2>1. CASE pump' = "send" /\ UNCHANGED <<client, handler, emitted, out, sent>> /\ Head(out) # Close
    <3>1. out # <<>> /\ pump = "get"
      BY <1>4 DEF PumpGets
    <3>2. Stream' = Stream
      BY <2>1, <3>1 DEF Stream, Closed, Events
    <3> QED BY <1>i, <2>1, <3>1, <3>2 DEF PumpInv, InOrder
  <2>2. CASE pump' = "done" /\ out' = Tail(out) /\ Head(out) = Close /\ UNCHANGED <<client, handler, emitted, sent>>
    <3>1. out # <<>> /\ pump = "get"
      BY <1>4 DEF PumpGets
    <3>2. client = "here" => Closed /\ out' = <<>> /\ sent = Events
      BY <2>2, <3>1, CloseIsLast DEF Inv
    <3>3. Stream' = Events \o <<>> /\ Events \o <<>> = Events /\ Events \in Seq(E)
      BY <2>2, <1>q DEF Stream, Events
    <3>4. client = "here" => sent \o out' = Events
      BY <3>2, <3>3
    <3> QED BY <2>2, <3>2, <3>3, <3>4 DEF PumpInv, InOrder, Closed
  <2> QED BY <1>4, <2>1, <2>2 DEF PumpGets
<1>5. CASE PumpSends
  <2>1. /\ out # <<>> /\ client = "here" /\ sent' = Append(sent, Head(out)) /\ out' = Tail(out)
        /\ pump = "send" /\ pump' = "get" /\ UNCHANGED <<client, handler, emitted>>
    BY <1>5, <1>i DEF PumpSends, PumpInv
  <2>2. sent' \o out' = sent \o out
    BY <1>q, <2>1, TakeBefore
  <2>3. Stream' = Stream
    BY <2>1 DEF Stream, Closed, Events
  <2> QED BY <1>i, <2>1, <2>2, <2>3 DEF PumpInv, InOrder
<1>6. CASE PumpSendsToNobody
  BY <1>6 DEF PumpSendsToNobody, PumpInv, InOrder
<1>7. CASE PumpCancelled
  <2>1. /\ pump # "done" /\ pump' = "cancelled" /\ UNCHANGED <<client, handler, emitted, out, sent>>
    BY <1>7 DEF PumpCancelled, PumpEnded
  <2>2. Stream' = Stream
    BY <2>1 DEF Stream, Closed, Events
  <2> QED BY <1>i, <2>1, <2>2 DEF PumpInv, InOrder
<1>8. ASSUME NEW kind \in Messages, Receive(kind) PROVE PumpInv' /\ InOrder'
  BY <1>1, <1>2, <1>8 DEF Receive, Closed
<1>9. CASE Disconnect \/ CallReturns \/ CallRaises \/ ErrorLost \/ ErrorSent
             \/ WaitForEnds \/ Joined
  BY <1>1, <1>2, <1>9 DEF Disconnect, CallReturns, CallRaises, ErrorLost, ErrorSent,
                             WaitForEnds, Joined, Closed
<1>10. CASE CancelHandler
  BY <1>1, <1>2, <1>10 DEF CancelHandler, CancelDrain, Closed
<1>11. CASE DrainTimeout \/ ClientGoes \/ Over \/ UNCHANGED vars
  BY <1>1, <1>11 DEF DrainTimeout, ClientGoes, Over, vars, Closed
<1> QED BY <1>3, <1>4, <1>5, <1>6, <1>7, <1>8, <1>9, <1>10, <1>11
        DEF Next, HandlerStep, PumpStep, ClientStep

\* The invariant holds in every state.
LEMMA InvAlways == Spec => []Inv
<1>1. Init => Inv
  <2> SUFFICES ASSUME Init PROVE Inv
    OBVIOUS
  <2>1. Queues
    BY ConnectionAssumption DEF Init, Queues
  <2>2. PumpInv
    BY DEF Init, PumpInv
  <2>3. Events \in Seq(0..MaxEvents) /\ Len(Events) = 0
    BY <2>1, EventsType DEF Init, Queues
  <2>4. Stream = <<>>
    BY <2>3 DEF Init, Stream, Closed
  <2> QED BY <2>1, <2>2, <2>4 DEF Init, Inv, InOrder
<1>2. Inv /\ [Next]_vars => Inv'
  BY QueuesStep, OrderStep DEF Inv
<1> QED BY <1>1, <1>2, PTL DEF Spec

-----------------------------------------------------------------------------
\* The variables keep their types.
THEOREM ConnectionTypes == Spec => []TypeOK
<1>1. Init => Places
  <2>1. Init => pumpCancelled \in BOOLEAN /\ cut \in BOOLEAN
    BY Zenon DEF Init
  <2> QED BY <2>1, ConnectionAssumption DEF Init, Places, HandlerStates, Messages, PumpStates
<1>2. Inv /\ Places => TypeOK
  BY DEF Inv, Queues, Places, TypeOK
<1> QED BY <1>1, <1>2, PlacesStep, InvAlways, PTL DEF Spec

\* What a client is sent, and what is queued for it, is the session's stream.
THEOREM StreamIsWhole == Spec => []EventsInOrder
<1>1. Inv => EventsInOrder
  BY DEF Inv, InOrder, EventsInOrder, Stream, Events, Closed
<1> QED BY <1>1, InvAlways, PTL

\* A pump that ends by itself has sent all of it.
THEOREM PumpSendsAll == Spec => []PumpFinishes
<1>1. Inv => PumpFinishes
  <2> SUFFICES ASSUME Inv, pump = "done", client = "here"
               PROVE  Len(sent) = emitted /\ out = <<>>
    BY DEF PumpFinishes
  <2>1. out = <<>> /\ sent \o out = Events \o <<>>
    BY DEF Inv, PumpInv, InOrder, Stream
  <2>2. Events \in Seq(0..MaxEvents) /\ Len(Events) = emitted
    BY EventsType DEF Inv, Queues
  <2>3. sent \in Seq(0..MaxEvents)
    BY Wider DEF Inv, Queues
  <2> HIDE DEF Events
  <2>4. sent = Events
    BY <2>1, <2>2, <2>3
  <2> QED BY <2>1, <2>2, <2>4
<1> QED BY <1>1, InvAlways, PTL

\* Who cancels the pump: the deadline or a CancelledError, and nobody else; and
\* both awaits are over only when it has ended.
CutInv ==
    /\ handler \in {"receive", "call", "error"} => ~pumpCancelled
    /\ pumpCancelled => cut
    /\ pump = "cancelled" => pumpCancelled
    /\ handler = "join" => PumpEnded \/ cut
    /\ handler = "done" => PumpEnded

\* Every step keeps it.
LEMMA CutStep == Places /\ CutInv /\ [Next]_vars => CutInv'
<1> SUFFICES ASSUME Places, CutInv, [Next]_vars PROVE CutInv'
  OBVIOUS
<1> USE DEF CutInv, PumpEnded, Leave, Places, HandlerStates, PumpStates
<1>1. ASSUME NEW kind \in Messages, Receive(kind) PROVE CutInv'
  BY <1>1 DEF Receive
<1>2. CASE Disconnect \/ CallReturns \/ CallRaises \/ ErrorLost \/ ErrorSent \/ Emit
  BY <1>2 DEF Disconnect, CallReturns, CallRaises, ErrorLost, ErrorSent, Emit
<1>3. CASE WaitForEnds \/ Joined
  BY <1>3 DEF WaitForEnds, Joined
<1>4. CASE DrainTimeout
  BY <1>4 DEF DrainTimeout
<1>5. CASE CancelHandler
  <2>1. CASE UNCHANGED <<pumpCancelled, cut, pump>>
             /\ \/ handler' = handler
                \/ handler' = "drain" /\ handler \in {"receive", "call", "error"}
    BY <2>1
  <2>2. CASE ~PumpEnded /\ CancelDrain /\ UNCHANGED pump
    BY <2>2 DEF CancelDrain
  <2> QED BY <1>5, <2>1, <2>2 DEF CancelHandler
<1>6. CASE PumpGets \/ PumpSends \/ PumpSendsToNobody \/ PumpCancelled
  BY <1>6 DEF PumpGets, PumpSends, PumpSendsToNobody, PumpCancelled
<1>7. CASE ClientGoes \/ Over \/ UNCHANGED vars
  BY <1>7 DEF ClientGoes, Over, vars
<1> QED BY <1>1, <1>2, <1>3, <1>4, <1>5, <1>6, <1>7
        DEF Next, HandlerStep, PumpStep, ClientStep

\* The handler returns with its pump ended, and unless the drain was cut short
\* it has left nothing behind for a client that is there.
THEOREM DrainAlwaysDelivers == Spec => []DrainDelivers
<1>1. Init => Places
  <2>1. Init => pumpCancelled \in BOOLEAN /\ cut \in BOOLEAN
    BY Zenon DEF Init
  <2> QED BY <2>1, ConnectionAssumption DEF Init, Places, HandlerStates, Messages, PumpStates
<1>2. Init => CutInv
  BY DEF Init, CutInv
<1>3. PumpFinishes /\ Inv /\ CutInv => DrainDelivers
  <2> SUFFICES ASSUME PumpFinishes, Inv, CutInv, handler = "done"
               PROVE  PumpEnded /\ (client = "here" /\ ~cut => pump = "done")
    BY DEF DrainDelivers, PumpFinishes
  <2> QED BY DEF CutInv, PumpEnded, Inv, PumpInv
<1> QED BY <1>1, <1>2, <1>3, PlacesStep, CutStep, PumpSendsAll, InvAlways, PTL DEF Spec
=============================================================================
