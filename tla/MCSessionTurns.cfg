\* Audio only in server_vad mode, up to three VAD events in a push, a VAD that may
\* raise on a push and on a reset; segments of up to six decodes, of which three
\* must agree.
CONSTANTS
    Hop = 1
    MaxSeg = 6
    ChunkSizes = {0, 1, 2}
    SegBound = 7
    MaxVadEvents = 3
    ClientOps = {}
    Faults = {"push", "reset"}
    Words = {a, b}
    Space = sp
    N = 3
    MaxWords = 2
SPECIFICATION TranscriptSpec
INVARIANTS TurnOrder SegmentCapped DeltasSpellCommitted HypothesesFresh
PROPERTIES AppendOnly CommitsOnlyAgreed
