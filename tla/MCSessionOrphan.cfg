\* What the docstring of events() says of a close() that meets a decode.
CONSTANTS
    Hop = 2
    MaxSeg = 3
    ChunkSizes = {0, 1, 2}
    SegBound = 6
    MaxVadEvents = 1
    ClientOps = {}
    Faults = {}
SPECIFICATION Spec
INVARIANT NoOrphan
