---------------------------- MODULE LiveTranscript --------------------------
(***************************************************************************)
(* LiveSession with the LocalAgreement it owns: what a hop decode hears    *)
(* decides whether a delta is emitted, and every reset of the segment      *)
(* begins a new agreement.                                                 *)
(***************************************************************************)
EXTENDS LiveSession, LocalAgreement

transcriptVars == <<vars, agreementVars>>

TranscriptInit == Init /\ AgreementInit

\* A delta is emitted exactly when words are committed.
HopDecoded ==
    /\ goal = "hop" /\ DecodeDone
    /\ \E hypothesis \in Hypotheses : CommitWords(hypothesis)
    /\ turn' = IF committed' = committed THEN turn ELSE Told("delta")

\* The three callers of _reset_segment.
SegmentOver ==
    /\ CompleteEmpty \/ Clear \/ (goal = "final" /\ DecodeDone)
    /\ NewSegment

\* A decode that raises does so before it commits or resets anything.
Elsewhere ==
    /\ \/ VadEvent \/ Accumulate \/ Ignore \/ Cap \/ Acquire \/ LockGranted
       \/ StartDecode \/ DecodeFails
       \/ \E n \in ChunkSizes, report \in VadReports : Feed(n, report)
       \/ FeedFails \/ Commit \/ \E m \in BOOLEAN : Update(m)
       \/ CallClose \/ CloserResumes \/ Over
    /\ UNCHANGED agreementVars

TranscriptNext == HopDecoded \/ SegmentOver \/ Elsewhere

TranscriptSpec == TranscriptInit /\ [][TranscriptNext]_transcriptVars
-----------------------------------------------------------------------------
\* Words are agreed on by hypotheses of their own segment: each of those kept
\* has a hop of the segment's audio to itself, wherever a segment was ended,
\* cleared or cut, and the audio since the last one is not counted to any.
HypothesesFresh == Len(recent) * Hop + sinceHop <= seg
=============================================================================
