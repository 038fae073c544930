---------------------------- MODULE LocalAgreement -------------------------
(***************************************************************************)
(* LocalAgreement of parakeet_vllm/realtime/localagreement.py, fed by the  *)
(* hop decodes of one segment after another, with the delta that           *)
(* _hop_decode of session.py makes of what it returns.                     *)
(*                                                                         *)
(* A hypothesis is any sequence of words: nothing obliges a decode of a    *)
(* longer window to repeat what a shorter one gave.  Text is a sequence of *)
(* words and spaces.                                                       *)
(***************************************************************************)
EXTENDS Integers, Sequences, FiniteSets

CONSTANTS Words,
          Space,      \* the separator, not a word
          N,          \* n, how many hypotheses must agree
          MaxWords    \* bound: words of a hypothesis

\* The constructor raises ValueError for n < 2; text.split() leaves no spaces.
ASSUME AgreementAssumption ==
    /\ N \in Nat /\ N >= 2
    /\ Space \notin Words
    /\ MaxWords \in Nat

VARIABLES recent,     \* _recent, the last hypotheses, at most N
          committed,  \* _committed
          heard       \* the deltas emitted for the segment, end to end

agreementVars == <<recent, committed, heard>>

Hypotheses == UNION {[1..k -> Words] : k \in 0..MaxWords}

-----------------------------------------------------------------------------
\* zip() stops at the shortest.
Columns(seqs) == {i \in 1..Len(seqs[1]) : \A k \in 1..Len(seqs) : i <= Len(seqs[k])}

\* Mutant: only the first and the last hypothesis are compared.
LooselyAgree(seqs, i) == seqs[1][i] = seqs[Len(seqs)][i]

SameAt(seqs, i) == \A k \in 1..Len(seqs) : seqs[k][i] = seqs[1][i]

\* _common_prefix: the columns before the first where they differ.
CommonPrefix(seqs) ==
    SubSeq(seqs[1], 1,
           Cardinality({i \in Columns(seqs) : \A j \in 1..i : SameAt(seqs, j)}))

\* _recent is a deque of maxlen N.
Remember(hypothesis) ==
    LET all == Append(recent, hypothesis)
    IN  IF Len(all) > N THEN Tail(all) ELSE all

\* " ".join(words)
Join(words) ==
    [i \in 1..(IF words = <<>> THEN 0 ELSE 2 * Len(words) - 1) |->
        IF i % 2 = 1 THEN words[(i + 1) \div 2] ELSE Space]

\* Mutant: no separator between one delta and the next.
BareDelta(before, newly) == Join(newly)

\* The delta for the words newly committed after those committed before.
Delta(before, newly) == (IF before = <<>> THEN <<>> ELSE <<Space>>) \o Join(newly)

-----------------------------------------------------------------------------
AgreementInit ==
    /\ recent = <<>>
    /\ committed = <<>>
    /\ heard = <<>>

\* Mutant: the new agreement replaces the old one whatever it says.
CommitWordsUnguarded(hypothesis) ==
    /\ recent' = Remember(hypothesis)
    /\ LET agreed == CommonPrefix(recent')
       IN  IF Len(recent') < N \/ Len(agreed) <= Len(committed)
           THEN UNCHANGED <<committed, heard>>
           ELSE /\ committed' = agreed
                /\ heard' = heard \o Delta(committed, SubSeq(agreed, Len(committed) + 1, Len(agreed)))

\* commit(hypothesis), and the delta for what it returns.
CommitWords(hypothesis) ==
    /\ recent' = Remember(hypothesis)
    /\ LET agreed == CommonPrefix(recent')
       IN  IF \/ Len(recent') < N
              \/ Len(agreed) <= Len(committed)
              \/ SubSeq(agreed, 1, Len(committed)) # committed
           THEN UNCHANGED <<committed, heard>>
           ELSE /\ committed' = agreed
                /\ heard' = heard \o Delta(committed, SubSeq(agreed, Len(committed) + 1, Len(agreed)))

\* Mutant: the hypotheses of the segment before are kept.
NewSegmentKeepsRecent ==
    /\ committed' = <<>>
    /\ heard' = <<>>
    /\ UNCHANGED recent

\* _reset_segment: the next segment has a LocalAgreement of its own.
NewSegment ==
    /\ recent' = <<>>
    /\ committed' = <<>>
    /\ heard' = <<>>

AgreementNext == \/ \E hypothesis \in Hypotheses : CommitWords(hypothesis)
                 \/ NewSegment

AgreementSpec == AgreementInit /\ [][AgreementNext]_agreementVars
-----------------------------------------------------------------------------
\* The variables are sequences of words, at most N hypotheses, and text.
AgreementTypeOK ==
    /\ recent \in Seq(Seq(Words))
    /\ Len(recent) <= N
    /\ committed \in Seq(Words)
    /\ heard \in Seq(Words \cup {Space})

Extends(longer, shorter) ==
    /\ Len(shorter) <= Len(longer)
    /\ \A i \in 1..Len(shorter) : longer[i] = shorter[i]

\* "Emitted (committed) text is append-only and never retracts", however the
\* hypotheses contradict one another, until the segment is over.
AppendOnly == [][NewSegment \/ Extends(committed', committed)]_agreementVars

\* The deltas, end to end, spell the committed words with one space between
\* two of them, wherever the deltas were cut.
DeltasSpellCommitted == heard = Join(committed)

\* "Commit only the word-prefix agreed across the last n hypotheses": when
\* words are committed, N hypotheses are there, each begins with all the
\* committed words, and they agree on no more.
CommitsOnlyAgreed ==
    [][committed' # committed /\ ~NewSegment =>
          /\ Len(recent') = N
          /\ \A k \in 1..N : Extends(recent'[k], committed')
          /\ ~ \E w \in Words : \A k \in 1..N :
                   Extends(recent'[k], Append(committed', w))]_agreementVars
=============================================================================
