------------------------ MODULE LiveTranscriptProofs -----------------------
(***************************************************************************)
(* A session, for any hop, cap, chunks, vocabulary and sequence of         *)
(* hypotheses.  First LiveSession by itself: everything rests on where the *)
(* lock is (LockInv); what the reader is told, what the VAD hears and the  *)
(* cap each add what a suspended call will do when it goes on.  Then       *)
(* LocalAgreement by itself, and last inside the session that owns it.     *)
(***************************************************************************)
EXTENDS LiveTranscript, SequenceTheorems, FiniteSetTheorems, TLAPS

\* The receiver is at, in or past the `async with` of a decode helper.
InHelper == pc \in {"want", "lock", "body", "decode"}

\* Only the receiver holds the lock, it waits only behind the closer, and a
\* lock that is waited for is held or has been promised.
LockInv ==
    /\ locked <=> pc \in {"body", "decode"}
    /\ waiters = IF closer = "waiting"
                 THEN IF pc = "lock" THEN <<"closer", "receiver">> ELSE <<"closer">>
                 ELSE IF pc = "lock" THEN <<"receiver">> ELSE <<>>
    /\ woken <=> waiters # <<>> /\ ~locked
    /\ pc = "lock" => closer # "no"
    /\ owed => closer = "waiting" /\ pc = "decode"

Safe == TypeOK /\ LockInv

\* TypeOK in two parts: the flags, and the rest.
Flags ==
    /\ speaking \in BOOLEAN /\ manual \in BOOLEAN
    /\ vadOn \in BOOLEAN /\ vadRaised \in BOOLEAN
    /\ closed \in BOOLEAN
    /\ locked \in BOOLEAN
    /\ woken \in BOOLEAN
    /\ owed \in BOOLEAN /\ orphaned \in BOOLEAN

Data ==
    /\ pc \in PcStates
    /\ evs \in Seq({"start", "stop"})
    /\ chunk \in Nat
    /\ goal \in {"hop", "final"}
    /\ after \in {"scan", "cap", "idle"}
    /\ seg \in Nat
    /\ sinceHop \in 0..Hop - 1
    /\ closer \in {"no", "waiting", "sent"}
    /\ waiters \in Seq({"receiver", "closer"})
    /\ turn \in {"quiet", "open", "stopped", "broken"}

\* TypeOK is its two parts.
LEMMA TypeParts == TypeOK <=> Data /\ Flags
  BY DEF TypeOK, Data, Flags

\* A new session is safe.
LEMMA SafeInit == Init => Safe
<1> SUFFICES ASSUME Init PROVE Safe
  OBVIOUS
<1>1. Data
  BY SessionAssumption DEF Init, Data, PcStates, Suspended
<1>2. Flags
  BY Zenon DEF Init, Flags
<1>3. LockInv
  BY DEF Init, LockInv
<1> QED BY <1>1, <1>2, <1>3, TypeParts DEF Safe

\* What the VAD reports is a sequence of starts and stops.
LEMMA ReportType ==
    ASSUME NEW report \in VadReports
    PROVE  report \in Seq({"start", "stop"})
<1>1. PICK k \in 0..MaxVadEvents : report \in [1..k -> {"start", "stop"}]
  BY DEF VadReports
<1>2. k \in Nat
  BY SessionAssumption
<1> QED BY <1>1, <1>2

\* After any event the reader is in one of the four turns.
LEMMA ToldType ==
    ASSUME NEW event
    PROVE  Told(event) \in {"quiet", "open", "stopped", "broken"}
  BY DEF Told

\* A reset empties the segment and leaves every type as it was.
LEMMA ResetType ==
    ASSUME Flags, ResetSegment
    PROVE  /\ seg' = 0 /\ sinceHop' = 0 /\ sinceHop' \in 0..Hop - 1
           /\ speaking' = FALSE /\ speaking' \in BOOLEAN
           /\ vadOn' \in BOOLEAN /\ vadRaised' \in BOOLEAN
<1>1. vadOn \in BOOLEAN /\ vadRaised \in BOOLEAN
  BY DEF Flags
<1>2. vadOn' \in BOOLEAN /\ vadRaised' \in BOOLEAN
  <2>1. CASE vadOn' = FALSE /\ vadRaised' = vadRaised
    BY Zenon, <1>1, <2>1
  <2>2. CASE vadOn' = vadOn /\ vadRaised' = TRUE
    BY Zenon, <1>1, <2>2
  <2> QED BY Zenon, <2>1, <2>2 DEF ResetSegment
<1>3. speaking' = FALSE /\ speaking' \in BOOLEAN
  BY Zenon DEF ResetSegment
<1>4. seg' = 0 /\ sinceHop' = 0 /\ sinceHop' \in 0..Hop - 1
  BY SessionAssumption DEF ResetSegment
<1> QED BY <1>2, <1>3, <1>4

\* A release only clears the lock and promises it.
LEMMA ReleaseType ==
    ASSUME ReleaseLock
    PROVE  locked' \in BOOLEAN /\ woken' \in BOOLEAN /\ waiters' = waiters
<1>1. (waiters # <<>>) \in BOOLEAN
  OBVIOUS
<1> QED BY Zenon, <1>1 DEF ReleaseLock

\* A queue that is not empty loses its head.
LEMMA TailType ==
    ASSUME NEW S, NEW q \in Seq(S), q # <<>>
    PROVE  Tail(q) \in Seq(S)
  OBVIOUS

\* One step of the session keeps the types.
LEMMA TypeStep == Safe /\ [Next]_vars => TypeOK'
<1> SUFFICES ASSUME Safe, [Next]_vars PROVE Data' /\ Flags'
  BY DEF TypeOK, Data, Flags
<1> USE SessionAssumption DEF PcStates, Suspended, Want, scanVars, lockVars, closeVars, audioVars
<1>d. Data
  BY TypeParts DEF Safe
<1>f. Flags
  BY TypeParts DEF Safe
<1>w. woken => waiters # <<>>
  BY DEF Safe, LockInv
<1>1. ASSUME NEW n \in ChunkSizes, NEW report \in VadReports, Feed(n, report)
      PROVE  Data' /\ Flags'
  <2>1. Data'
    BY <1>1, <1>d, ReportType DEF Feed, Data
  <2>2. (report[Len(report)] = "start") \in BOOLEAN
    OBVIOUS
  <2>3. Flags'
    BY Zenon, <1>1, <1>f, <2>2 DEF Feed, Flags
  <2> QED BY <2>1, <2>3
<1>18. CASE FeedFails
  <2>1. Data'
    BY <1>18, <1>d DEF FeedFails, Data
  <2>2. Flags'
    BY Zenon, <1>18, <1>f DEF FeedFails, Flags
  <2> QED BY <2>1, <2>2
<1>2. CASE VadEvent
  <2>1. evs' \in Seq({"start", "stop"})
    BY <1>2, <1>d, TailType DEF VadEvent, Data
  <2>2. turn' \in {"quiet", "open", "stopped", "broken"}
    BY <1>2, <1>d, ToldType DEF VadEvent, Data
  <2>3. Data'
    BY <1>2, <1>d, <2>1, <2>2 DEF VadEvent, Data
  <2>4. Flags'
    BY Zenon, <1>2, <1>f DEF VadEvent, Flags
  <2> QED BY <2>3, <2>4
<1>3. CASE Accumulate
  <2>1. Data'
    BY <1>3, <1>d DEF Accumulate, Data
  <2>2. Flags'
    BY Zenon, <1>3, <1>f DEF Accumulate, Flags
  <2> QED BY <2>1, <2>2
<1>4. CASE Ignore
  BY <1>4, <1>d, <1>f DEF Ignore, Data, Flags
<1>5. CASE Cap
  <2>1. turn' \in {"quiet", "open", "stopped", "broken"}
    BY <1>5, <1>d, ToldType DEF Cap, Data
  <2> QED BY <1>5, <1>d, <1>f, <2>1 DEF Cap, Data, Flags
<1>6. CASE Commit
  BY <1>6, <1>d, <1>f DEF Commit, Data, Flags
<1>7. CASE Clear
  <2>1. ResetSegment
    BY <1>7 DEF Clear
  <2>2. Data'
    BY <1>7, <1>d, <1>f, <2>1, ResetType DEF Clear, Data
  <2>3. Flags'
    BY Zenon, <1>7, <1>f, <2>1, ResetType DEF Clear, Flags
  <2> QED BY <2>2, <2>3
<1>8. ASSUME NEW m \in BOOLEAN, Update(m) PROVE Data' /\ Flags'
  BY <1>8, <1>d, <1>f DEF Update, Data, Flags
<1>9. CASE Acquire
  <2>0. Append(waiters, "receiver") \in Seq({"receiver", "closer"})
    BY <1>d DEF Data
  <2>1. Data'
    BY <1>9, <1>d, <2>0 DEF Acquire, Data
  <2>2. Flags'
    BY Zenon, <1>9, <1>f DEF Acquire, Flags
  <2> QED BY <2>1, <2>2
<1>10. CASE LockGranted
  <2>1. waiters' \in Seq({"receiver", "closer"})
    BY <1>10, <1>d, <1>w, TailType DEF LockGranted, Data
  <2>2. Data'
    BY <1>10, <1>d, <2>1 DEF LockGranted, Data
  <2>3. Flags'
    BY Zenon, <1>10, <1>f DEF LockGranted, Flags
  <2> QED BY <2>2, <2>3
<1>11. CASE CompleteEmpty
  <2>1. turn' \in {"quiet", "open", "stopped", "broken"}
    BY <1>11, ToldType DEF CompleteEmpty, Complete
  <2>2. ResetSegment /\ ReleaseLock
    BY <1>11 DEF CompleteEmpty, Complete
  <2>3. Data'
    BY <1>11, <1>d, <1>f, <2>1, <2>2, ResetType, ReleaseType DEF CompleteEmpty, Data
  <2>4. orphaned' \in BOOLEAN
    BY <1>11 DEF CompleteEmpty, Complete
  <2>5. Flags'
    BY Zenon, <1>11, <1>f, <2>2, <2>4, ResetType, ReleaseType DEF CompleteEmpty, Flags
  <2> QED BY <2>3, <2>5
<1>12. CASE StartDecode
  BY <1>12, <1>d, <1>f DEF StartDecode, Data, Flags
<1>13. CASE DecodeDone
  <2>1. ReleaseLock
    BY <1>13 DEF DecodeDone
  <2>2. CASE goal = "final" /\ Complete
    <3>1. turn' \in {"quiet", "open", "stopped", "broken"}
      BY <2>2, ToldType DEF Complete
    <3>2. ResetSegment
      BY <2>2 DEF Complete
    <3>3. Data'
      BY <1>13, <1>d, <1>f, <2>1, <3>1, <3>2, ResetType, ReleaseType DEF DecodeDone, Data
    <3>4. orphaned' \in BOOLEAN
      BY <2>2 DEF Complete
    <3>5. Flags'
      BY Zenon, <1>13, <1>f, <2>1, <3>2, <3>4, ResetType, ReleaseType DEF DecodeDone, Flags
    <3> QED BY <3>3, <3>5
  <2>3. CASE /\ goal = "hop"
             /\ turn' \in {turn, Told("delta")}
             /\ UNCHANGED <<audioVars, orphaned>>
    <3>1. turn' \in {"quiet", "open", "stopped", "broken"}
      BY <2>3, <1>d, ToldType DEF Data
    <3>2. Data'
      BY <1>13, <1>d, <2>1, <2>3, <3>1, ReleaseType DEF DecodeDone, Data
    <3>3. Flags'
      BY Zenon, <1>13, <1>f, <2>1, <2>3, ReleaseType DEF DecodeDone, Flags
    <3> QED BY <3>2, <3>3
  <2> QED BY <1>13, <2>2, <2>3 DEF DecodeDone
<1>14. CASE DecodeFails
  <2>1. ReleaseLock
    BY <1>14 DEF DecodeFails
  <2>2. Data'
    BY <1>14, <1>d, <2>1, ReleaseType DEF DecodeFails, Data
  <2>3. Flags'
    BY Zenon, <1>14, <1>f, <2>1, ReleaseType DEF DecodeFails, Flags
  <2> QED BY <2>2, <2>3
<1>15. CASE CallClose
  <2>0. Append(waiters, "closer") \in Seq({"receiver", "closer"})
    BY <1>d DEF Data
  <2>1. Data'
    BY <1>15, <1>d, <2>0 DEF CallClose, Data
  <2>2. (pc = "decode") \in BOOLEAN
    OBVIOUS
  <2>3. Flags'
    BY Zenon, <1>15, <1>f, <2>2 DEF CallClose, Flags
  <2> QED BY <2>1, <2>3
<1>16. CASE CloserResumes
  <2>1. waiters' \in Seq({"receiver", "closer"})
    BY <1>16, <1>d, <1>w, TailType DEF CloserResumes, Data
  <2>2. Data'
    BY <1>16, <1>d, <2>1 DEF CloserResumes, Data
  <2>3. (Tail(waiters) # <<>>) \in BOOLEAN
    OBVIOUS
  <2>4. Flags'
    BY Zenon, <1>16, <1>f, <2>3 DEF CloserResumes, Flags
  <2> QED BY <2>2, <2>4
<1>17. CASE UNCHANGED vars
  BY <1>17, <1>d, <1>f DEF vars, Data, Flags
<1> QED BY <1>1, <1>2, <1>3, <1>4, <1>5, <1>6, <1>7, <1>8, <1>9, <1>10, <1>11,
           <1>12, <1>13, <1>14, <1>15, <1>16, <1>17, <1>18
        DEF Next, ReceiverStep, ClientStep, Over

\* The queues there can be, and what taking from them and adding to them gives.
LEMMA QueueFacts ==
    /\ Append(<<>>, "closer") = <<"closer">>
    /\ Append(<<>>, "receiver") = <<"receiver">>
    /\ Append(<<"closer">>, "receiver") = <<"closer", "receiver">>
    /\ Tail(<<"closer">>) = <<>>
    /\ Tail(<<"receiver">>) = <<>>
    /\ Tail(<<"closer", "receiver">>) = <<"receiver">>
    /\ Head(<<"closer">>) = "closer"
    /\ Head(<<"receiver">>) = "receiver"
    /\ Head(<<"closer", "receiver">>) = "closer"
    /\ <<"closer">> # <<>> /\ <<"receiver">> # <<>> /\ <<"closer", "receiver">> # <<>>
<1>1. Append(<<>>, "closer") = <<"closer">>
  OBVIOUS
<1>2. Append(<<>>, "receiver") = <<"receiver">>
  OBVIOUS
<1>3. Append(<<"closer">>, "receiver") = <<"closer", "receiver">>
  <2> DEFINE S == {"closer", "receiver"}
             q == Append(<<"closer">>, "receiver")
             r == <<"closer", "receiver">>
  <2>1. <<"closer">> \in Seq(S)
    OBVIOUS
  <2>2. q \in Seq(S) /\ Len(q) = 2 /\ q[1] = "closer" /\ q[2] = "receiver"
    BY <2>1
  <2>3. r \in Seq(S) /\ Len(r) = 2 /\ r[1] = "closer" /\ r[2] = "receiver"
    OBVIOUS
  <2> HIDE DEF q, r, S
  <2>4. \A i \in 1..2 : q[i] = r[i]
    BY <2>2, <2>3
  <2>5. q = r
    BY <2>2, <2>3, <2>4, SeqEqual
  <2> QED BY <2>5 DEF q, r
<1>4. Tail(<<"closer">>) = <<>> /\ Tail(<<"receiver">>) = <<>>
  OBVIOUS
<1>5. Tail(<<"closer", "receiver">>) = <<"receiver">>
  OBVIOUS
<1>6. Head(<<"closer">>) = "closer" /\ Head(<<"receiver">>) = "receiver"
      /\ Head(<<"closer", "receiver">>) = "closer"
  OBVIOUS
<1>7. <<"closer">> # <<>> /\ <<"receiver">> # <<>> /\ <<"closer", "receiver">> # <<>>
  OBVIOUS
<1> QED BY <1>1, <1>2, <1>3, <1>4, <1>5, <1>6, <1>7

\* One step of the session keeps the lock where it belongs.
LEMMA LockStep == Safe /\ [Next]_vars => LockInv'
<1> SUFFICES ASSUME Safe, [Next]_vars PROVE LockInv'
  OBVIOUS
<1> USE DEF Suspended, Want, scanVars, lockVars, closeVars, audioVars
<1>i. LockInv
  BY DEF Safe
<1>c. closer \in {"no", "waiting", "sent"} /\ pc \in PcStates
  BY DEF Safe, TypeOK
<1>1. ASSUME NEW n \in ChunkSizes, NEW report \in VadReports, Feed(n, report)
      PROVE  LockInv'
  BY <1>1, <1>i DEF Feed, LockInv
<1>18. CASE FeedFails
  BY <1>18, <1>i DEF FeedFails, LockInv
<1>2. CASE VadEvent
  BY <1>2, <1>i DEF VadEvent, LockInv
<1>3. CASE Accumulate
  BY <1>3, <1>i DEF Accumulate, LockInv
<1>4. CASE Ignore
  BY <1>4, <1>i DEF Ignore, LockInv
<1>5. CASE Cap
  BY <1>5, <1>i DEF Cap, LockInv
<1>6. CASE Commit
  BY <1>6, <1>i DEF Commit, MayCall, LockInv
<1>7. CASE Clear
  BY <1>7, <1>i DEF Clear, MayCall, LockInv
<1>8. ASSUME NEW m \in BOOLEAN, Update(m) PROVE LockInv'
  BY <1>8, <1>i DEF Update, MayCall, LockInv
<1>9. CASE Acquire
  <2>1. pc = "want" /\ ~locked
    BY <1>9, <1>i DEF Acquire, LockInv
  <2>2. CASE closer = "waiting"
    <3>1. waiters = <<"closer">> /\ waiters # <<>>
      BY <1>i, <2>1, <2>2, QueueFacts DEF LockInv
    <3>2. waiters' = <<"closer", "receiver">> /\ pc' = "lock" /\ UNCHANGED locked
      BY <1>9, <3>1, QueueFacts DEF Acquire, LockFree
    <3> QED BY <1>9, <1>i, <2>1, <2>2, <3>1, <3>2, QueueFacts DEF Acquire, LockInv
  <2>3. CASE closer # "waiting"
    <3>1. waiters = <<>> /\ LockFree
      BY <1>i, <2>1, <2>3 DEF LockInv, LockFree
    <3> QED BY <1>9, <1>i, <2>1, <2>3, <3>1 DEF Acquire, LockInv
  <2> QED BY <2>2, <2>3
<1>10. CASE LockGranted
  BY <1>10, <1>i, <1>c, QueueFacts DEF LockGranted, LockInv
<1>11. CASE CompleteEmpty
  BY <1>11, <1>i, <1>c, QueueFacts DEF CompleteEmpty, ReleaseLock, Safe, TypeOK, LockInv
<1>12. CASE StartDecode
  BY <1>12, <1>i DEF StartDecode, LockInv
<1>13. CASE DecodeDone
  BY <1>13, <1>i, <1>c, QueueFacts DEF DecodeDone, ReleaseLock, Safe, TypeOK, LockInv
<1>14. CASE DecodeFails
  BY <1>14, <1>i, <1>c, QueueFacts DEF DecodeFails, ReleaseLock, LockInv
<1>15. CASE CallClose
  BY <1>15, <1>i, <1>c, QueueFacts DEF CallClose, LockFree, LockInv
<1>16. CASE CloserResumes
  BY <1>16, <1>i, <1>c, QueueFacts DEF CloserResumes, LockInv
<1>17. CASE UNCHANGED vars
  BY <1>17, <1>i DEF vars, LockInv
<1> QED BY <1>1, <1>2, <1>3, <1>4, <1>5, <1>6, <1>7, <1>8, <1>9, <1>10, <1>11,
           <1>12, <1>13, <1>14, <1>15, <1>16, <1>17, <1>18
        DEF Next, ReceiverStep, ClientStep, Over

\* Every step of the session is safe.
LEMMA SafeStep == Safe /\ [Next]_vars => Safe'
  BY TypeStep, LockStep DEF Safe

\* A session is always safe.
LEMMA AlwaysSafe == Spec => []Safe
  BY SafeInit, SafeStep, PTL DEF Spec

\* The variables keep their types.
THEOREM SessionTypes == Spec => []TypeOK
<1>1. Safe => TypeOK
  BY DEF Safe
<1> QED BY <1>1, AlwaysSafe, PTL

\* close() does not put the sentinel before the decode it found has ended.
THEOREM CloseIsPatient == Spec => []CloseWaits
<1>1. Safe => CloseWaits
  BY DEF Safe, LockInv, CloseWaits
<1> QED BY <1>1, AlwaysSafe, PTL

-----------------------------------------------------------------------------
(***************************************************************************)
(* The cap.  What is suspended in a helper and goes on to the end of the   *)
(* call, or to more VAD events, is a finalize, which empties the segment.  *)
(***************************************************************************)
CapInv ==
    /\ pc \in {"idle", "scan"} => seg < MaxSeg
    /\ InHelper /\ after # "cap" => goal = "final"

\* While no decode raises, every step keeps the segment below the cap.
LEMMA CapStep ==
    ASSUME "decode" \notin Faults, Safe, CapInv, [Next]_vars
    PROVE  CapInv'
<1> USE SessionAssumption DEF CapInv, InHelper, Want, audioVars, scanVars
<1>t. seg \in Nat /\ MaxSeg \in Nat \ {0} /\ chunk \in Nat
  BY DEF Safe, TypeOK
<1>a. after \in {"scan", "cap", "idle"}
  BY DEF Safe, TypeOK
<1>1. ASSUME NEW n \in ChunkSizes, NEW report \in VadReports, Feed(n, report)
      PROVE  CapInv'
  BY <1>1 DEF Feed
<1>18. CASE FeedFails
  BY <1>18 DEF FeedFails
<1>2. CASE VadEvent
  BY <1>2 DEF VadEvent
<1>3. CASE Accumulate
  BY <1>3 DEF Accumulate
<1>4. CASE Ignore
  BY <1>4 DEF Ignore
<1>5. CASE Cap
  BY <1>5, <1>t DEF Cap
<1>6. CASE Commit
  BY <1>6 DEF Commit
<1>7. CASE Clear
  BY <1>7, <1>t DEF Clear, MayCall, ResetSegment
<1>8. ASSUME NEW m \in BOOLEAN, Update(m) PROVE CapInv'
  BY <1>8 DEF Update, MayCall
<1>9. CASE Acquire
  BY <1>9 DEF Acquire
<1>10. CASE LockGranted
  BY <1>10 DEF LockGranted
<1>11. CASE CompleteEmpty
  BY <1>11, <1>t DEF CompleteEmpty, Complete, ResetSegment
<1>12. CASE StartDecode
  BY <1>12 DEF StartDecode
<1>13. CASE DecodeDone
  <2>1. pc = "decode" /\ pc' = after /\ after' = after /\ goal' = goal
    BY <1>13 DEF DecodeDone
  <2>2. CASE after = "cap"
    BY <2>1, <2>2
  <2>3. CASE after # "cap"
    <3>1. goal = "final"
      BY <2>1, <2>3
    <3>2. seg' = 0
      BY <1>13, <3>1 DEF DecodeDone, Complete, ResetSegment
    <3> QED BY <2>1, <3>1, <3>2, <1>t, <1>a
  <2> QED BY <2>2, <2>3
<1>14. CASE DecodeFails
  BY <1>14 DEF DecodeFails
<1>15. CASE CallClose
  BY <1>15 DEF CallClose
<1>16. CASE CloserResumes
  BY <1>16 DEF CloserResumes
<1>17. CASE UNCHANGED vars
  BY <1>17 DEF vars
<1> QED BY <1>1, <1>2, <1>3, <1>4, <1>5, <1>6, <1>7, <1>8, <1>9, <1>10, <1>11,
           <1>12, <1>13, <1>14, <1>15, <1>16, <1>17, <1>18
        DEF Next, ReceiverStep, ClientStep, Over

\* Unless a decode raises, every segment is cut at the cap, whatever the
\* client asks for and the VAD reports.
THEOREM CapHolds ==
    ASSUME "decode" \notin Faults
    PROVE  Spec => []SegmentCapped
<1>1. Init => CapInv
  BY SessionAssumption DEF Init, CapInv, InHelper
<1>2. Safe /\ CapInv /\ [Next]_vars => CapInv'
  BY CapStep
<1>3. CapInv => SegmentCapped
  BY DEF CapInv, SegmentCapped
<1> QED BY <1>1, <1>2, <1>3, AlwaysSafe, PTL DEF Spec

-----------------------------------------------------------------------------
(***************************************************************************)
(* What the VAD hears.  While a push is handled, speech the session has    *)
(* not taken note of is announced by the last event still to be handled.   *)
(***************************************************************************)
Hearing == vadOn /\ ~vadRaised

SpeechInv ==
    /\ pc \in {"idle", "cap"} /\ Hearing => speaking
    /\ pc = "scan" /\ Hearing /\ ~speaking => evs # <<>> /\ evs[Len(evs)] = "start"
    /\ pc \in {"idle", "cap"} => evs = <<>>
    /\ InHelper /\ after = "scan" => goal = "final" /\ speaking
    /\ InHelper /\ after # "scan" => evs = <<>> /\ (Hearing => speaking)

\* Dropping the head of a longer queue keeps its last element.
LEMMA LastOfTail ==
    ASSUME NEW S, NEW q \in Seq(S), q # <<>>, Tail(q) # <<>>
    PROVE  Tail(q)[Len(Tail(q))] = q[Len(q)]
  OBVIOUS

\* A queue whose tail is empty ends with its head.
LEMMA OnlyOne ==
    ASSUME NEW S, NEW q \in Seq(S), q # <<>>, Tail(q) = <<>>
    PROVE  q[Len(q)] = Head(q)
<1>1. Len(Tail(q)) = Len(q) - 1 /\ Len(q) \in Nat
  OBVIOUS
<1>2. Len(Tail(q)) = 0
  <2>1. Len(<<>>) = 0
    OBVIOUS
  <2> QED BY <2>1
<1>3. Len(q) = 1
  BY <1>1, <1>2
<1> QED BY <1>3

\* No step leaves a VAD that does not raise in speech by itself.
LEMMA SpeechStep ==
    ASSUME Safe, SpeechInv, [Next]_vars
    PROVE  SpeechInv'
<1> USE SessionAssumption DEF SpeechInv, Hearing, InHelper, Want, audioVars, scanVars
<1>t. evs \in Seq({"start", "stop"}) /\ after \in {"scan", "cap", "idle"}
  BY DEF Safe, TypeOK
<1>r. ResetSegment => ~Hearing' /\ speaking' = FALSE
  BY DEF ResetSegment
<1>1. ASSUME NEW n \in ChunkSizes, NEW report \in VadReports, Feed(n, report)
      PROVE  SpeechInv'
  BY <1>1 DEF Feed
<1>18. CASE FeedFails
  BY <1>18 DEF FeedFails
<1>2. CASE VadEvent
  <2>1. evs # <<>> /\ pc = "scan" /\ Hearing' = Hearing /\ evs' = Tail(evs)
    BY <1>2 DEF VadEvent
  <2>2. Tail(evs) # <<>> => Tail(evs)[Len(Tail(evs))] = evs[Len(evs)]
    BY <2>1, <1>t, LastOfTail
  <2>3. Tail(evs) = <<>> => evs[Len(evs)] = Head(evs)
    BY <2>1, <1>t, OnlyOne
  <2>4. CASE Head(evs) = "start" /\ ~speaking
    <3>1. speaking' /\ pc' = "scan"
      BY <1>2, <2>1, <2>4 DEF VadEvent
    <3> QED BY <3>1
  <2>5. CASE Head(evs) = "stop" /\ speaking /\ ~manual
    <3>1. speaking' /\ pc' = "want" /\ goal' = "final" /\ after' = "scan"
      BY <1>2, <2>1, <2>5 DEF VadEvent
    <3> QED BY <3>1
  <2>6. CASE IF Head(evs) = "start" THEN speaking ELSE ~speaking \/ manual
    <3>1. speaking' = speaking /\ pc' = "scan"
      BY <1>2, <2>1, <2>6 DEF VadEvent
    <3> QED BY <3>1, <2>1, <2>2, <2>3, <2>6
  <2> QED BY <1>2, <2>4, <2>5, <2>6 DEF VadEvent
<1>3. CASE Accumulate
  BY <1>3 DEF Accumulate
<1>4. CASE Ignore
  BY <1>4 DEF Ignore
<1>5. CASE Cap
  BY <1>5 DEF Cap
<1>6. CASE Commit
  BY <1>6 DEF Commit, MayCall
<1>7. CASE Clear
  BY <1>7, <1>r DEF Clear, MayCall
<1>8. ASSUME NEW m \in BOOLEAN, Update(m) PROVE SpeechInv'
  BY <1>8 DEF Update, MayCall
<1>9. CASE Acquire
  BY <1>9 DEF Acquire
<1>10. CASE LockGranted
  BY <1>10 DEF LockGranted
<1>11. CASE CompleteEmpty
  BY <1>11, <1>r, <1>t DEF CompleteEmpty, Complete
<1>12. CASE StartDecode
  BY <1>12 DEF StartDecode
<1>13. CASE DecodeDone
  BY <1>13, <1>r, <1>t DEF DecodeDone, Complete
<1>14. CASE DecodeFails
  BY <1>14, <1>t DEF DecodeFails
<1>15. CASE CallClose
  BY <1>15 DEF CallClose
<1>16. CASE CloserResumes
  BY <1>16 DEF CloserResumes
<1>17. CASE UNCHANGED vars
  BY <1>17 DEF vars
<1> QED BY <1>1, <1>2, <1>3, <1>4, <1>5, <1>6, <1>7, <1>8, <1>9, <1>10, <1>11,
           <1>12, <1>13, <1>14, <1>15, <1>16, <1>17, <1>18
        DEF Next, ReceiverStep, ClientStep, Over

\* Between two calls the VAD is inside speech only when the session is
\* speaking, also after a decode that raised and left VAD events unhandled,
\* and, where the VAD has raised, as soon as it reports something again.
THEOREM SpeakingAlwaysFollows == Spec => []SpeakingFollowsVad
<1>1. Init => SpeechInv
  BY DEF Init, SpeechInv, Hearing, InHelper
<1>2. Safe /\ SpeechInv /\ [Next]_vars => SpeechInv'
  BY SpeechStep
<1>3. SpeechInv => SpeakingFollowsVad
  BY DEF SpeechInv, Hearing, SpeakingFollowsVad
<1> QED BY <1>1, <1>2, <1>3, AlwaysSafe, PTL DEF Spec

-----------------------------------------------------------------------------
(***************************************************************************)
(* The turns.  With audio only, in server_vad mode, what the reader has    *)
(* been told follows from where the receiver is: speech_stopped precedes   *)
(* every finalize, and a hop is decoded in an open turn.                   *)
(***************************************************************************)
TurnInv ==
    /\ manual = FALSE
    /\ pc \in {"idle", "scan"} => turn = IF speaking THEN "open" ELSE "quiet"
    /\ pc = "cap" => speaking /\ turn = "open"
    /\ InHelper /\ goal = "final" => turn = "stopped" /\ after # "cap"
    /\ InHelper /\ goal # "final" => turn = "open" /\ speaking /\ after = "cap"

\* The four events a turn is made of, in order.
LEMMA ToldNext ==
    /\ turn = "quiet" => Told("started") = "open"
    /\ turn = "open" => Told("delta") = "open"
    /\ turn = "open" => Told("stopped") = "stopped"
    /\ turn = "stopped" => Told("completed") = "quiet"
<1>1. ASSUME turn = "quiet" PROVE Told("started") = "open"
  BY <1>1 DEF Told
<1>2. ASSUME turn = "open" PROVE Told("delta") = "open"
  BY <1>2 DEF Told
<1>3. ASSUME turn = "open" PROVE Told("stopped") = "stopped"
  BY <1>3 DEF Told
<1>4. ASSUME turn = "stopped" PROVE Told("completed") = "quiet"
  BY <1>4 DEF Told
<1> QED BY <1>1, <1>2, <1>3, <1>4

\* Every step of a session fed by audio only keeps the turns in order.
LEMMA TurnStep ==
    ASSUME ClientOps = {}, "decode" \notin Faults, Safe, TurnInv, [Next]_vars
    PROVE  TurnInv'
<1> USE DEF TurnInv, InHelper, Want, audioVars, scanVars
<1>t. after \in {"scan", "cap", "idle"} /\ speaking \in BOOLEAN /\ goal \in {"hop", "final"}
  BY DEF Safe, TypeOK
<1>r. ResetSegment => speaking' = FALSE
  BY DEF ResetSegment
<1>1. ASSUME NEW n \in ChunkSizes, NEW report \in VadReports, Feed(n, report)
      PROVE  TurnInv'
  BY <1>1 DEF Feed
<1>18. CASE FeedFails
  BY <1>18 DEF FeedFails
<1>2. CASE VadEvent
  BY <1>2, ToldNext DEF VadEvent
<1>3. CASE Accumulate
  BY <1>3 DEF Accumulate
<1>4. CASE Ignore
  BY <1>4 DEF Ignore
<1>5. CASE Cap
  BY <1>5, ToldNext DEF Cap
<1>6. ~Commit /\ ~Clear /\ \A m \in BOOLEAN : ~Update(m)
  BY DEF Commit, Clear, Update, MayCall
<1>9. CASE Acquire
  BY <1>9 DEF Acquire
<1>10. CASE LockGranted
  BY <1>10 DEF LockGranted
<1>11. CASE CompleteEmpty
  BY <1>11, <1>r, <1>t, ToldNext DEF CompleteEmpty, Complete
<1>12. CASE StartDecode
  BY <1>12 DEF StartDecode
<1>13. CASE DecodeDone
  <2>1. pc = "decode" /\ pc' = after /\ after' = after /\ goal' = goal /\ manual' = manual
    BY <1>13 DEF DecodeDone
  <2>2. CASE goal = "final"
    <3>1. turn' = "quiet" /\ speaking' = FALSE
      BY <1>13, <2>1, <2>2, <1>r, ToldNext DEF DecodeDone, Complete
    <3> QED BY <2>1, <2>2, <3>1, <1>t
  <2>3. CASE goal = "hop"
    <3>1. turn' = "open" /\ speaking' = speaking
      BY <1>13, <2>1, <2>3, ToldNext DEF DecodeDone
    <3> QED BY <2>1, <2>3, <3>1
  <2> QED BY <2>2, <2>3, <1>t
<1>14. CASE DecodeFails
  BY <1>14 DEF DecodeFails
<1>15. CASE CallClose
  BY <1>15 DEF CallClose
<1>16. CASE CloserResumes
  BY <1>16 DEF CloserResumes
<1>17. CASE UNCHANGED vars
  BY <1>17 DEF vars
<1> QED BY <1>1, <1>2, <1>3, <1>4, <1>5, <1>6, <1>9, <1>10, <1>11,
           <1>12, <1>13, <1>14, <1>15, <1>16, <1>17, <1>18
        DEF Next, ReceiverStep, ClientStep, Over

\* Fed by audio only, in server_vad mode and with decodes that succeed, the
\* session tells every turn whole and in order.
THEOREM TurnsAreWhole ==
    ASSUME ClientOps = {}, "decode" \notin Faults
    PROVE  Spec => []TurnOrder
<1>1. Init => TurnInv
  BY DEF Init, TurnInv, InHelper
<1>2. Safe /\ TurnInv /\ [Next]_vars => TurnInv'
  BY TurnStep
<1>3. TurnInv /\ Safe => TurnOrder
  BY DEF TurnInv, InHelper, TurnOrder, Safe, TypeOK, PcStates, Suspended
<1> QED BY <1>1, <1>2, <1>3, AlwaysSafe, PTL DEF Spec

-----------------------------------------------------------------------------
\* The words of hypotheses, and the space between them.
Text == Words \cup {Space}

\* The deque keeps between one and N sequences of words.
LEMMA RememberType ==
    ASSUME recent \in Seq(Seq(Words)), Len(recent) <= N,
           NEW h \in Seq(Words)
    PROVE  /\ Remember(h) \in Seq(Seq(Words))
           /\ Len(Remember(h)) \in 1..N
<1> DEFINE all == Append(recent, h)
<1>1. all \in Seq(Seq(Words)) /\ Len(all) = Len(recent) + 1 /\ Len(recent) \in Nat
  OBVIOUS
<1>2. N \in Nat /\ N >= 2
  BY AgreementAssumption
<1> HIDE DEF all
<1>3. CASE Len(all) > N
  <2>1. Len(all) = N + 1
    BY <1>1, <1>2, <1>3
  <2>2. all # <<>>
    BY <2>1, <1>1, <1>2
  <2>3. Tail(all) \in Seq(Seq(Words)) /\ Len(Tail(all)) = Len(all) - 1
    BY <1>1, <2>2
  <2>4. Remember(h) = Tail(all)
    BY <1>3 DEF Remember, all
  <2> QED BY <2>1, <2>3, <2>4, <1>2
<1>4. CASE ~(Len(all) > N)
  <2>1. Remember(h) = all
    BY <1>4 DEF Remember, all
  <2> QED BY <2>1, <1>1, <1>2, <1>4
<1> QED BY <1>3, <1>4

\* Numbers that reach down to 1 are the first ones.
LEMMA Downward ==
    ASSUME NEW L \in Nat, NEW S \in SUBSET (1..L),
           \A i \in S : \A j \in 1..i : j \in S
    PROVE  Cardinality(S) \in 0..L /\ S = 1..Cardinality(S)
<1>1. \A n \in Nat : IsFiniteSet(1..n) /\ Cardinality(1..n) = n
  BY FS_Interval
<1>2. IsFiniteSet(S) /\ Cardinality(S) <= L
  <2>1. IsFiniteSet(1..L) /\ Cardinality(1..L) = L
    BY <1>1
  <2>2. IsFiniteSet(S) /\ Cardinality(S) <= Cardinality(1..L)
    BY <2>1, FS_Subset
  <2> QED BY <2>1, <2>2
<1>3. Cardinality(S) \in Nat
  BY <1>2, FS_CardinalityType
<1>4. \A i \in S : i <= Cardinality(S)
  <2> SUFFICES ASSUME NEW i \in S PROVE i <= Cardinality(S)
    OBVIOUS
  <2>1. 1..i \in SUBSET S /\ i \in Nat
    OBVIOUS
  <2>2. Cardinality(1..i) <= Cardinality(S)
    BY <2>1, <1>2, FS_Subset
  <2> QED BY <2>1, <2>2, <1>1
<1> DEFINE k == Cardinality(S)
<1>5. S \in SUBSET (1..k)
  BY <1>3, <1>4
<1>6. IsFiniteSet(1..k) /\ Cardinality(1..k) = Cardinality(S)
  BY <1>1, <1>3
<1>7. S = 1..k
  BY <1>5, <1>6, FS_Subset
<1> QED BY <1>2, <1>3, <1>7

\* What _common_prefix returns: every sequence begins with it, and they do not
\* all go on with the same word.
LEMMA CommonPrefixFacts ==
    ASSUME NEW seqs \in Seq(Seq(Words)), Len(seqs) >= 1
    PROVE  /\ CommonPrefix(seqs) \in Seq(Words)
           /\ \A k \in 1..Len(seqs) : Extends(seqs[k], CommonPrefix(seqs))
           /\ ~ \E w \in Words : \A k \in 1..Len(seqs) :
                    Extends(seqs[k], Append(CommonPrefix(seqs), w))
<1> DEFINE first == seqs[1]
           S == {i \in Columns(seqs) : \A j \in 1..i : SameAt(seqs, j)}
           n == Cardinality(S)
           P == SubSeq(first, 1, n)
<1>1. 1 \in 1..Len(seqs) /\ \A k \in 1..Len(seqs) : seqs[k] \in Seq(Words) /\ Len(seqs[k]) \in Nat
  OBVIOUS
<1>2. \A i : i \in S <=> /\ i \in 1..Len(first)
                         /\ \A k \in 1..Len(seqs) : i <= Len(seqs[k])
                         /\ \A j \in 1..i : SameAt(seqs, j)
  BY DEF Columns
<1>3. n \in 0..Len(first) /\ S = 1..n
  <2>1. S \in SUBSET (1..Len(first)) /\ Len(first) \in Nat
    BY <1>1, <1>2
  <2>2. ASSUME NEW i \in S, NEW j \in 1..i PROVE j \in S
    <3>1. /\ i \in 1..Len(first) /\ \A k \in 1..Len(seqs) : i <= Len(seqs[k])
          /\ \A m \in 1..i : SameAt(seqs, m)
      BY <1>2
    <3> HIDE DEF S
    <3>2. j \in 1..Len(first) /\ \A m \in 1..j : m \in 1..i
      BY <3>1, <2>1
    <3>3. \A k \in 1..Len(seqs) : j <= Len(seqs[k])
      BY <3>1, <2>1, <1>1
    <3> QED BY <3>1, <3>2, <3>3, <1>2
  <2> HIDE DEF S, first
  <2> QED BY <2>1, <2>2, Downward
<1>4. CommonPrefix(seqs) = P
  BY DEF CommonPrefix
<1> HIDE DEF n
<1>5. P \in Seq(Words) /\ Len(P) = n /\ \A i \in 1..n : P[i] = first[i]
  BY <1>1, <1>3
<1> HIDE DEF P, S, first
<1>6. ASSUME NEW k \in 1..Len(seqs) PROVE Extends(seqs[k], P)
  <2>1. \A i \in 1..n : i \in S
    BY <1>3
  <2>2. \A i \in 1..n : i <= Len(seqs[k]) /\ SameAt(seqs, i)
    <3> SUFFICES ASSUME NEW i \in 1..n PROVE i <= Len(seqs[k]) /\ SameAt(seqs, i)
      OBVIOUS
    <3>1. i \in S /\ i \in 1..i
      BY <1>3
    <3> QED BY <1>2, <3>1
  <2>3. n <= Len(seqs[k])
    BY <1>1, <1>3, <2>2
  <2>4. \A i \in 1..n : seqs[k][i] = first[i]
    BY <2>2 DEF SameAt, first
  <2> QED BY <1>5, <2>3, <2>4 DEF Extends
<1>7. ASSUME NEW w \in Words, \A k \in 1..Len(seqs) : Extends(seqs[k], Append(P, w))
      PROVE  FALSE
  <2>1. Len(Append(P, w)) = n + 1 /\ Append(P, w)[n + 1] = w /\ n \in Nat
    BY <1>3, <1>5
  <2>2. \A k \in 1..Len(seqs) : n + 1 <= Len(seqs[k]) /\ seqs[k][n + 1] = w
    BY <1>7, <2>1 DEF Extends
  <2>3. SameAt(seqs, n + 1)
    BY <1>1, <2>2 DEF SameAt
  <2>4. \A j \in 1..n : SameAt(seqs, j)
    <3> SUFFICES ASSUME NEW j \in 1..n PROVE SameAt(seqs, j)
      OBVIOUS
    <3>1. j \in S /\ j \in 1..j
      BY <1>3
    <3> QED BY <1>2, <3>1
  <2>5. n + 1 \in 1..Len(first)
    BY <1>1, <2>1, <2>2 DEF first
  <2>6. n + 1 \in S
    BY <1>2, <2>1, <2>2, <2>3, <2>4, <2>5
  <2> QED BY <1>3, <2>1, <2>6
<1> QED BY <1>4, <1>5, <1>6, <1>7

\* Joined words are text, every second piece of it a space.
LEMMA JoinFacts ==
    ASSUME NEW words \in Seq(Words), Len(words) > 0
    PROVE  /\ Join(words) \in Seq(Text)
           /\ Len(Join(words)) = 2 * Len(words) - 1
           /\ \A i \in 1..2 * Len(words) - 1 :
                  Join(words)[i] = IF i % 2 = 1 THEN words[(i + 1) \div 2] ELSE Space
<1> DEFINE n == 2 * Len(words) - 1
<1>1. n \in Nat /\ Len(words) \in Nat /\ words # <<>>
  OBVIOUS
<1>2. ASSUME NEW i \in 1..n
      PROVE (IF i % 2 = 1 THEN words[(i + 1) \div 2] ELSE Space) \in Text
  <2>1. (i + 1) \div 2 \in 1..Len(words)
    BY <1>1, <1>2
  <2>2. words[(i + 1) \div 2] \in Words
    BY <2>1
  <2> QED BY <2>2 DEF Text
<1>3. Join(words) = [i \in 1..n |-> IF i % 2 = 1 THEN words[(i + 1) \div 2] ELSE Space]
  BY <1>1 DEF Join
<1> HIDE DEF n
<1>4. Join(words) \in [1..n -> Text]
  BY <1>2, <1>3
<1>5. Join(words) \in Seq(Text) /\ Len(Join(words)) = n
  BY <1>1, <1>4
<1> QED BY <1>3, <1>5 DEF n

\* Words that were split are joined again by the second part's delta.
LEMMA JoinSplit ==
    ASSUME NEW words \in Seq(Words), NEW c \in 0..Len(words) - 1
    PROVE  /\ Delta(SubSeq(words, 1, c), SubSeq(words, c + 1, Len(words))) \in Seq(Text)
           /\ Join(SubSeq(words, 1, c))
                \o Delta(SubSeq(words, 1, c), SubSeq(words, c + 1, Len(words)))
              = Join(words)
<1> DEFINE n == Len(words)
           before == SubSeq(words, 1, c)
           newly == SubSeq(words, c + 1, n)
<1>1. n \in Nat /\ c \in Nat /\ c < n
  OBVIOUS
<1>2. /\ before \in Seq(Words) /\ Len(before) = c
      /\ \A i \in 1..c : before[i] = words[i]
  BY <1>1
<1>3. /\ newly \in Seq(Words) /\ Len(newly) = n - c
      /\ \A i \in 1..n - c : newly[i] = words[c + i]
  BY <1>1
<1> HIDE DEF before, newly
<1>4. /\ Join(newly) \in Seq(Text) /\ Len(Join(newly)) = 2 * (n - c) - 1
      /\ \A i \in 1..2 * (n - c) - 1 :
             Join(newly)[i] = IF i % 2 = 1 THEN newly[(i + 1) \div 2] ELSE Space
  <2>1. newly \in Seq(Words) /\ Len(newly) > 0 /\ 2 * Len(newly) - 1 = 2 * (n - c) - 1
    BY <1>1, <1>3
  <2>2. /\ Join(newly) \in Seq(Text) /\ Len(Join(newly)) = 2 * Len(newly) - 1
        /\ \A i \in 1..2 * Len(newly) - 1 :
               Join(newly)[i] = IF i % 2 = 1 THEN newly[(i + 1) \div 2] ELSE Space
    BY <2>1, JoinFacts
  <2> QED BY <2>1, <2>2
<1>5. /\ Join(words) \in Seq(Text) /\ Len(Join(words)) = 2 * n - 1
      /\ \A i \in 1..2 * n - 1 :
             Join(words)[i] = IF i % 2 = 1 THEN words[(i + 1) \div 2] ELSE Space
  BY <1>1, JoinFacts
<1>6. CASE c = 0
  <2>1. before = <<>> /\ newly = words
    BY <1>1, <1>2, <1>3, <1>6
  <2>2. Join(before) = <<>> /\ Delta(before, newly) = <<>> \o Join(words)
    BY <2>1 DEF Join, Delta
  <2> QED BY <2>2, <1>5 DEF before, newly
<1>7. CASE c > 0
  <2>1. /\ Join(before) \in Seq(Text) /\ Len(Join(before)) = 2 * c - 1
        /\ \A i \in 1..2 * c - 1 :
               Join(before)[i] = IF i % 2 = 1 THEN before[(i + 1) \div 2] ELSE Space
    BY <1>1, <1>2, <1>7, JoinFacts
  <2>2. Delta(before, newly) = <<Space>> \o Join(newly)
    BY <1>2, <1>7 DEF Delta
  <2>3. <<Space>> \in Seq(Text) /\ Len(<<Space>>) = 1 /\ <<Space>>[1] = Space
    BY DEF Text
  <2> DEFINE delta == <<Space>> \o Join(newly)
             both == Join(before) \o delta
  <2>4. /\ delta \in Seq(Text) /\ Len(delta) = 2 * (n - c)
        /\ delta[1] = Space
        /\ \A i \in 2..2 * (n - c) : delta[i] = Join(newly)[i - 1]
    BY <1>1, <1>4, <2>3
  <2> HIDE DEF delta
  <2>5. /\ both \in Seq(Text) /\ Len(both) = 2 * n - 1
        /\ \A i \in 1..2 * c - 1 : both[i] = Join(before)[i]
        /\ \A i \in 2 * c..2 * n - 1 : both[i] = delta[i - (2 * c - 1)]
    <3> DEFINE front == Join(before)
    <3>1. front \in Seq(Text) /\ Len(front) = 2 * c - 1
      BY <2>1
    <3> HIDE DEF front
    <3>2. /\ front \o delta \in Seq(Text) /\ Len(front \o delta) = Len(front) + Len(delta)
          /\ \A i \in 1..Len(front) + Len(delta) :
                 (front \o delta)[i] = IF i <= Len(front) THEN front[i] ELSE delta[i - Len(front)]
      BY <2>4, <3>1, ConcatProperties
    <3>3. both = front \o delta
      BY DEF front
    <3> HIDE DEF both
    <3>4. Len(both) = 2 * n - 1
      <4>1. Len(both) = (2 * c - 1) + 2 * (n - c)
        BY <2>4, <3>1, <3>2, <3>3
      <4>2. (2 * c - 1) + 2 * (n - c) = 2 * n - 1
        BY <1>1
      <4> QED BY <4>1, <4>2
    <3>5. ASSUME NEW i \in 1..2 * c - 1 PROVE both[i] = front[i]
      <4>1. i \in 1..Len(front) + Len(delta) /\ i <= Len(front)
        BY <1>1, <2>4, <3>1
      <4> QED BY <4>1, <3>2, <3>3
    <3>6. ASSUME NEW i \in 2 * c..2 * n - 1 PROVE both[i] = delta[i - (2 * c - 1)]
      <4>1. i \in 1..Len(front) + Len(delta) /\ ~(i <= Len(front))
        BY <1>1, <1>7, <2>4, <3>1
      <4> QED BY <4>1, <3>1, <3>2, <3>3
    <3> QED BY <3>2, <3>3, <3>4, <3>5, <3>6 DEF front
  <2> HIDE DEF both
  <2>6. ASSUME NEW i \in 1..2 * n - 1 PROVE both[i] = Join(words)[i]
    <3>1. CASE i < 2 * c
      <4>1. (i + 1) \div 2 \in 1..c /\ i \in 1..2 * c - 1
        BY <3>1, <1>1
      <4> QED BY <4>1, <1>2, <1>5, <2>1, <2>5
    <3>2. CASE i = 2 * c
      <4>1. i % 2 = 0 /\ i - (2 * c - 1) = 1 /\ i \in 2 * c..2 * n - 1
        BY <3>2, <1>1
      <4> QED BY <4>1, <1>5, <2>4, <2>5
    <3>3. CASE i > 2 * c
      <4> DEFINE k == i - 2 * c
      <4>1. /\ k \in 1..2 * (n - c) - 1 /\ k % 2 = i % 2
            /\ i - (2 * c - 1) = k + 1 /\ k + 1 \in 2..2 * (n - c)
            /\ i \in 2 * c..2 * n - 1
        BY <3>3, <1>1
      <4>2. both[i] = Join(newly)[k]
        BY <4>1, <2>4, <2>5
      <4>3. /\ (k + 1) \div 2 \in 1..n - c
            /\ c + (k + 1) \div 2 = (i + 1) \div 2
        BY <4>1, <1>1
      <4> HIDE DEF k
      <4>4. CASE i % 2 = 1
        <5>1. Join(newly)[k] = newly[(k + 1) \div 2]
          BY <4>1, <4>4, <1>4
        <5>2. newly[(k + 1) \div 2] = words[(i + 1) \div 2]
          <6> DEFINE m == (k + 1) \div 2
          <6>1. m \in 1..n - c /\ c + m = (i + 1) \div 2
            BY <4>3
          <6> HIDE DEF m
          <6>2. newly[m] = words[c + m]
            BY <6>1, <1>3
          <6> QED BY <6>1, <6>2 DEF m
        <5> QED BY <4>2, <4>4, <5>1, <5>2, <1>5
      <4>5. CASE i % 2 # 1
        <5>1. Join(newly)[k] = Space
          BY <4>1, <4>5, <1>4
        <5> QED BY <4>2, <4>5, <5>1, <1>5
      <4> QED BY <4>4, <4>5
    <3> QED BY <3>1, <3>2, <3>3, <1>1
  <2>7. both = Join(words)
    BY <2>5, <2>6, <1>5
  <2> QED BY <2>2, <2>4, <2>7 DEF before, newly, both, delta
<1> QED BY <1>1, <1>6, <1>7

\* What the agreement keeps: types, and deltas that spell what is committed.
AgreementInv == AgreementTypeOK /\ DeltasSpellCommitted

\* One commit keeps it, takes nothing back, and commits what N hypotheses
\* begin with, and no less.
LEMMA CommitStep ==
    ASSUME AgreementInv, NEW h \in Hypotheses, CommitWords(h)
    PROVE  /\ AgreementInv'
           /\ Extends(committed', committed)
           /\ committed' # committed =>
                  /\ Len(recent') = N
                  /\ \A k \in 1..N : Extends(recent'[k], committed')
                  /\ ~ \E w \in Words : \A k \in 1..N :
                           Extends(recent'[k], Append(committed', w))
<1>1. recent \in Seq(Seq(Words)) /\ Len(recent) <= N /\ committed \in Seq(Words)
      /\ heard \in Seq(Text) /\ heard = Join(committed)
  BY DEF AgreementInv, AgreementTypeOK, DeltasSpellCommitted, Text
<1>2. h \in Seq(Words)
  BY AgreementAssumption DEF Hypotheses
<1>3. recent' \in Seq(Seq(Words)) /\ Len(recent') \in 1..N
  BY <1>1, <1>2, RememberType DEF CommitWords
<1>4. Len(recent') <= N /\ Len(recent') >= 1 /\ N \in Nat
  BY <1>3, AgreementAssumption
<1> DEFINE agreed == CommonPrefix(recent')
           newly == SubSeq(agreed, Len(committed) + 1, Len(agreed))
<1>5. /\ agreed \in Seq(Words)
      /\ \A k \in 1..Len(recent') : Extends(recent'[k], agreed)
      /\ ~ \E w \in Words : \A k \in 1..Len(recent') :
               Extends(recent'[k], Append(agreed, w))
  BY <1>3, <1>4, CommonPrefixFacts
<1>6. CASE UNCHANGED <<committed, heard>>
  <2>1. Extends(committed', committed)
    BY <1>1, <1>6 DEF Extends
  <2>2. AgreementTypeOK'
    BY <1>1, <1>3, <1>4, <1>6 DEF AgreementTypeOK, Text
  <2>3. DeltasSpellCommitted'
    BY <1>1, <1>6 DEF DeltasSpellCommitted, Join
  <2> QED BY <2>1, <2>2, <2>3, <1>6 DEF AgreementInv
<1>7. CASE /\ Len(recent') = N
           /\ Len(agreed) > Len(committed)
           /\ SubSeq(agreed, 1, Len(committed)) = committed
           /\ committed' = agreed
           /\ heard' = heard \o Delta(committed, newly)
  <2> HIDE DEF agreed
  <2>1. Len(committed) \in Nat /\ Len(agreed) \in Nat
        /\ Len(committed) \in 0..Len(agreed) - 1
    BY <1>1, <1>5, <1>7
  <2>2. \A i \in 1..Len(committed) : agreed[i] = SubSeq(agreed, 1, Len(committed))[i]
    BY <2>1, <1>5, <1>7
  <2>3. Extends(committed', committed)
    BY <2>1, <2>2, <1>7 DEF Extends
  <2>4. Delta(committed, newly) \in Seq(Text)
        /\ Join(committed) \o Delta(committed, newly) = Join(agreed)
    BY <2>1, <1>5, <1>7, JoinSplit
  <2>5. heard' \in Seq(Text) /\ heard' = Join(agreed)
    BY <2>4, <1>1, <1>7
  <2>6. AgreementTypeOK'
    BY <2>5, <1>3, <1>4, <1>5, <1>7 DEF AgreementTypeOK, Text
  <2>7. DeltasSpellCommitted'
    BY <2>5, <1>7 DEF DeltasSpellCommitted, Join
  <2> QED BY <2>3, <2>6, <2>7, <1>5, <1>7 DEF AgreementInv
<1>8. \/ UNCHANGED <<committed, heard>>
      \/ /\ ~(Len(recent') < N) /\ ~(Len(agreed) <= Len(committed))
         /\ SubSeq(agreed, 1, Len(committed)) = committed
         /\ committed' = agreed
         /\ heard' = heard \o Delta(committed, newly)
  BY DEF CommitWords
<1>9. Len(agreed) \in Nat /\ Len(committed) \in Nat /\ (~(Len(recent') < N) => Len(recent') = N)
  BY <1>1, <1>3, <1>4, <1>5
<1> QED BY <1>6, <1>7, <1>8, <1>9

\* It holds in the beginning.
LEMMA AgreementBegins == AgreementInit => AgreementInv
  BY AgreementAssumption DEF AgreementInit, AgreementInv, AgreementTypeOK,
                             DeltasSpellCommitted, Join

\* Commits and new segments keep it.
LEMMA AgreementStep == AgreementInv /\ [AgreementNext]_agreementVars => AgreementInv'
<1> SUFFICES ASSUME AgreementInv, [AgreementNext]_agreementVars PROVE AgreementInv'
  OBVIOUS
<1>1. ASSUME NEW h \in Hypotheses, CommitWords(h) PROVE AgreementInv'
  BY <1>1, CommitStep
<1>2. CASE NewSegment
  BY <1>2, AgreementAssumption DEF NewSegment, AgreementInv, AgreementTypeOK,
                                   DeltasSpellCommitted, Join
<1>3. CASE UNCHANGED agreementVars
  BY <1>3 DEF agreementVars, AgreementInv, AgreementTypeOK, DeltasSpellCommitted, Join
<1> QED BY <1>1, <1>2, <1>3 DEF AgreementNext

\* It holds in every state.
LEMMA AgreementAlways == AgreementSpec => []AgreementInv
  BY AgreementBegins, AgreementStep, PTL DEF AgreementSpec

\* The variables keep their types.
THEOREM AgreementTypes == AgreementSpec => []AgreementTypeOK
<1>1. AgreementInv => AgreementTypeOK
  BY DEF AgreementInv
<1> QED BY <1>1, AgreementAlways, PTL

\* The deltas spell the committed words, wherever they were cut.
THEOREM DeltasSpell == AgreementSpec => []DeltasSpellCommitted
<1>1. AgreementInv => DeltasSpellCommitted
  BY DEF AgreementInv
<1> QED BY <1>1, AgreementAlways, PTL

\* Committed text is append-only.
THEOREM NeverRetracted == AgreementSpec => AppendOnly
<1>1. AgreementInv /\ [AgreementNext]_agreementVars
        => [NewSegment \/ Extends(committed', committed)]_agreementVars
  BY CommitStep DEF AgreementNext
<1> QED BY <1>1, AgreementAlways, PTL DEF AgreementSpec, AppendOnly

\* What is committed is what the last N hypotheses agree on, and no less.
THEOREM AgreedByAll == AgreementSpec => CommitsOnlyAgreed
<1>1. AgreementInv /\ [AgreementNext]_agreementVars
        => [committed' # committed /\ ~NewSegment =>
              /\ Len(recent') = N
              /\ \A k \in 1..N : Extends(recent'[k], committed')
              /\ ~ \E w \in Words : \A k \in 1..N :
                       Extends(recent'[k], Append(committed', w))]_agreementVars
  BY CommitStep DEF AgreementNext
<1> QED BY <1>1, AgreementAlways, PTL DEF AgreementSpec, CommitsOnlyAgreed

-----------------------------------------------------------------------------
(***************************************************************************)
(* The agreement inside the session.                                       *)
(***************************************************************************)
\* Every step of the two together is a step of each of them, or of one.
LEMMA StepOfEach ==
    TranscriptNext => Next /\ [AgreementNext]_agreementVars
<1> SUFFICES ASSUME TranscriptNext PROVE Next /\ [AgreementNext]_agreementVars
  OBVIOUS
<1>1. CASE HopDecoded
  BY <1>1 DEF HopDecoded, Next, ReceiverStep, AgreementNext
<1>2. CASE SegmentOver
  BY <1>2 DEF SegmentOver, Next, ReceiverStep, ClientStep, AgreementNext
<1>3. CASE Elsewhere
  BY <1>3 DEF Elsewhere, Next, ReceiverStep, ClientStep
<1> QED BY <1>1, <1>2, <1>3 DEF TranscriptNext

\* Inside the session the agreement is what it is by itself: what was proved
\* of it, and of the session's safety, holds of the two together.
THEOREM SessionKeepsAgreement ==
    TranscriptSpec => AgreementSpec /\ Init /\ [][Next]_vars
<1>1. [TranscriptNext]_transcriptVars => [AgreementNext]_agreementVars /\ [Next]_vars
  BY StepOfEach DEF transcriptVars
<1> QED BY <1>1, PTL DEF TranscriptSpec, TranscriptInit, AgreementSpec

\* While a hop is decoded, its samples are in the segment and in no hypothesis.
HopInv == goal = "hop" /\ InHelper => Len(recent) * Hop + Hop + sinceHop <= seg

FreshInv == Safe /\ AgreementInv /\ HypothesesFresh /\ HopInv

\* A hypothesis more is a hop more.
LEMMA OneHopMore ==
    ASSUME NEW h \in Hypotheses, AgreementInv
    PROVE  /\ Len(Remember(h)) \in Nat /\ Len(recent) \in Nat
           /\ Len(Remember(h)) * Hop <= Len(recent) * Hop + Hop
<1>1. recent \in Seq(Seq(Words)) /\ Len(recent) <= N /\ h \in Seq(Words)
      /\ N \in Nat /\ Hop \in Nat
  BY AgreementAssumption, SessionAssumption
     DEF AgreementInv, AgreementTypeOK, Hypotheses
<1>2. Len(recent) \in Nat
  BY <1>1
<1>3. Len(Remember(h)) \in Nat /\ Len(Remember(h)) <= Len(recent) + 1
  <2>1. Append(recent, h) \in Seq(Seq(Words)) /\ Len(Append(recent, h)) = Len(recent) + 1
    BY <1>1
  <2>2. Append(recent, h) # <<>>
        => Tail(Append(recent, h)) \in Seq(Seq(Words))
           /\ Len(Tail(Append(recent, h))) = Len(recent)
    BY <2>1, <1>2
  <2> QED BY <2>1, <2>2, <1>2 DEF Remember
<1>4. \A a, b, c \in Nat : a <= b + 1 => a * c <= b * c + c
  OBVIOUS
<1> QED BY <1>1, <1>2, <1>3, <1>4

\* Every step keeps the hops of the hypotheses within the segment.
LEMMA FreshStep == FreshInv /\ [TranscriptNext]_transcriptVars => FreshInv'
<1> SUFFICES ASSUME FreshInv, [TranscriptNext]_transcriptVars PROVE FreshInv'
  OBVIOUS
<1>1. [Next]_vars /\ [AgreementNext]_agreementVars
  BY StepOfEach DEF transcriptVars
<1>2. Safe' /\ AgreementInv'
  BY <1>1, SafeStep, AgreementStep DEF FreshInv
<1>t. /\ Hop \in Nat /\ Hop > 0 /\ seg \in Nat /\ sinceHop \in Nat /\ chunk \in Nat
      /\ Len(recent) * Hop \in Nat
  <2>1. /\ Hop \in Nat /\ Hop > 0 /\ seg \in Nat /\ sinceHop \in Nat /\ chunk \in Nat
    BY SessionAssumption DEF FreshInv, Safe, TypeOK
  <2>2. Len(recent) \in Nat
    BY DEF FreshInv, AgreementInv, AgreementTypeOK
  <2>3. \A a, b \in Nat : a * b \in Nat
    OBVIOUS
  <2> QED BY <2>1, <2>2, <2>3
<1>h. Len(recent) * Hop + sinceHop <= seg
  BY DEF FreshInv, HypothesesFresh
<1>i. goal = "hop" /\ InHelper => Len(recent) * Hop + Hop + sinceHop <= seg
  BY DEF FreshInv, HopInv
<1>3. CASE HopDecoded
  <2>1. PICK h \in Hypotheses : recent' = Remember(h)
    BY <1>3 DEF HopDecoded, CommitWords
  <2>2. /\ goal = "hop" /\ pc = "decode" /\ pc' = after /\ goal' = goal
        /\ seg' = seg /\ sinceHop' = sinceHop
    BY <1>3 DEF HopDecoded, DecodeDone, audioVars, scanVars
  <2>3. Len(recent') * Hop <= Len(recent) * Hop + Hop /\ Len(recent') * Hop \in Nat
    <3>1. Len(recent') \in Nat /\ Len(recent') * Hop <= Len(recent) * Hop + Hop
      BY <2>1, OneHopMore DEF FreshInv
    <3>2. \A a, b \in Nat : a * b \in Nat
      OBVIOUS
    <3> QED BY <3>1, <3>2, <1>t
  <2>4. HypothesesFresh'
    BY <2>2, <2>3, <1>t, <1>i DEF HypothesesFresh, InHelper
  <2>5. ~InHelper'
    BY <2>2 DEF FreshInv, Safe, TypeOK, InHelper
  <2> QED BY <2>4, <2>5, <1>2 DEF FreshInv, HopInv
<1>4. CASE SegmentOver
  <2>1. seg' = 0 /\ sinceHop' = 0 /\ recent' = <<>>
    BY <1>4 DEF SegmentOver, NewSegment, CompleteEmpty, Clear, DecodeDone, Complete, ResetSegment
  <2>2. ~InHelper'
    BY <1>4 DEF SegmentOver, CompleteEmpty, Clear, DecodeDone, MayCall, FreshInv, Safe,
                TypeOK, InHelper
  <2>3. HypothesesFresh'
    BY <2>1, <1>t DEF HypothesesFresh
  <2> QED BY <2>2, <2>3, <1>2 DEF FreshInv, HopInv
<1>5. CASE recent' = recent /\ UNCHANGED <<seg, sinceHop>> /\ (goal' = "hop" /\ InHelper' => goal = "hop" /\ InHelper)
  BY <1>5, <1>2, <1>h, <1>i DEF FreshInv, HypothesesFresh, HopInv
<1>6. CASE Accumulate /\ recent' = recent
  <2>1. CASE sinceHop + chunk >= Hop /\ sinceHop' = 0 /\ seg' = seg + chunk
    <3>1. Len(recent') * Hop + Hop + sinceHop' <= seg'
      BY <2>1, <1>6, <1>t, <1>h
    <3> QED BY <3>1, <1>2, <1>6, <1>t, <2>1 DEF FreshInv, HypothesesFresh, HopInv
  <2>3. CASE sinceHop' = sinceHop + chunk /\ seg' = seg + chunk /\ pc' = "cap"
    <3>1. ~InHelper'
      BY <2>3 DEF InHelper
    <3> QED BY <3>1, <1>2, <1>6, <1>h, <1>t, <2>3 DEF FreshInv, HypothesesFresh, HopInv
  <2> QED BY <1>6, <2>1, <2>3 DEF Accumulate
<1>7. CASE Elsewhere
  <2>r. recent' = recent
    BY <1>7 DEF Elsewhere, agreementVars
  <2>1. CASE Accumulate
    BY <2>1, <2>r, <1>6
  <2>2. CASE VadEvent \/ Ignore \/ Cap \/ Acquire \/ LockGranted \/ StartDecode \/ DecodeFails
             \/ FeedFails \/ Commit \/ CallClose \/ CloserResumes \/ Over
    <3>1. UNCHANGED <<seg, sinceHop>> /\ (goal' = "hop" /\ InHelper' => goal = "hop" /\ InHelper)
      BY <2>2 DEF VadEvent, Ignore, Cap, Acquire, LockGranted, StartDecode, DecodeFails,
                  FeedFails, Commit, CallClose, CloserResumes, Over, vars, Want, audioVars, InHelper
    <3> QED BY <3>1, <2>r, <1>5
  <2>3. ASSUME NEW n \in ChunkSizes, NEW report \in VadReports, Feed(n, report) PROVE FreshInv'
    <3>1. UNCHANGED <<seg, sinceHop>> /\ ~InHelper'
      BY <2>3 DEF Feed, InHelper
    <3> QED BY <3>1, <2>r, <1>5
  <2>4. ASSUME NEW m \in BOOLEAN, Update(m) PROVE FreshInv'
    <3>1. UNCHANGED <<seg, sinceHop, pc, goal>>
      BY <2>4 DEF Update, audioVars
    <3> QED BY <3>1, <2>r, <1>5 DEF InHelper
  <2> QED BY <1>7, <2>1, <2>2, <2>3, <2>4 DEF Elsewhere
<1>8. CASE UNCHANGED transcriptVars
  BY <1>8, <1>5 DEF transcriptVars, vars, agreementVars, audioVars, InHelper
<1> QED BY <1>3, <1>4, <1>7, <1>8 DEF TranscriptNext

\* Every hypothesis kept has a hop of its own segment's audio to itself.
THEOREM HypothesesAreFresh == TranscriptSpec => []HypothesesFresh
<1>1. TranscriptInit => FreshInv
  <2> SUFFICES ASSUME TranscriptInit PROVE FreshInv
    OBVIOUS
  <2>1. Safe /\ AgreementInv
    BY SafeInit, AgreementBegins DEF TranscriptInit
  <2>2. recent = <<>> /\ seg = 0 /\ sinceHop = 0 /\ pc = "idle"
    BY DEF TranscriptInit, Init, AgreementInit
  <2>3. Len(recent) * Hop + sinceHop <= seg
    BY <2>2, SessionAssumption
  <2> QED BY <2>1, <2>2, <2>3 DEF FreshInv, HypothesesFresh, HopInv, InHelper
<1>2. FreshInv => HypothesesFresh
  BY DEF FreshInv
<1> QED BY <1>1, <1>2, FreshStep, PTL DEF TranscriptSpec
=============================================================================
