\* All client events, decodes that may raise, a VAD that may raise on a push and
\* on a reset, two VAD events in a push.
CONSTANTS
    Hop = 2
    MaxSeg = 3
    ChunkSizes = {0, 1, 2}
    SegBound = 6
    MaxVadEvents = 2
    ClientOps = {"commit", "clear", "update"}
    Faults = {"decode", "push", "reset"}
SPECIFICATION Spec
INVARIANTS CloseWaits SpeakingFollowsVad
PROPERTY CloseEnds
