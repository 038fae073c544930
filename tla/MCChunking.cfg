\* auto_chunk's limits stand as 20, 60 and 75 seconds do.  A recording of 12
\* units is three chunks and more for every one of the algorithms.
CONSTANTS
    MaxSamples = 4
    Least = 2
    Target = 4
    Hard = 5
    Frame = 2
    MinSil = 2
    ChunkLength = 5
    Window = 2
    MinGap = 1
    MaxTotal = 12
SPECIFICATION Spec
INVARIANTS SplitCovers AutoKeepsSpeech EnergyHears BoundariesSpread WordsInPlace
