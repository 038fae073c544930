\* A request and a batch of up to three pieces each for two threads: pieces
\* queue behind one another and behind those of the other.
CONSTANTS
    Requests = {r1, r2}
    r1 = r1
    r2 = r2
    Batches = {r2}
    ModelName <- ModelNames
    Default = "first"
    MaxPieces = 3
    Workers = 2
SPECIFICATION Spec
INVARIANT JobsHeld
PROPERTIES KeepsPromise EveryRequestEnds
