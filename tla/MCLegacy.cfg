\* Two requests for up to two models, two chunks each, and a poll of
\* /status, which may walk over the tracker while both are handled: polls do not
\* know of each other.
CONSTANTS
    r1 = r1
    r2 = r2
    int8 = int8
    fp32 = fp32
    Requests = {r1, r2}
    Models = {int8, fp32}
    Default = int8
    MaxChunks = 2
    MaxScans = 1
SYMMETRY Symmetry
SPECIFICATION Spec
INVARIANTS StatusIsTrue FilesRemoved
PROPERTIES IdleIsTrue
