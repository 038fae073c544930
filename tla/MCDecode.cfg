\* Windows of one to four frames, at most three tokens a frame, durations that
\* stay, step and jump over the end.
CONSTANTS
    MaxFrames = 4
    MaxSymbols = 3
    Durations = {0, 1, 2, 4}
SPECIFICATION DecodeSpec
INVARIANTS FrameBudget FrameCount CapIsLastResort
