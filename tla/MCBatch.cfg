\* Three calls, four jobs of them, for two models, batches of up to two.
CONSTANTS
    Requests = {r1, r2, r3}
    r1 = r1
    r2 = r2
    r3 = r3
    ModelName <- ModelNames
    MaxPieces = 2
    MaxJobs = 4
    MaxBatch = 2
    Swallows = FALSE
SPECIFICATION FairSpec
INVARIANT EachJobOnce
PROPERTY KeepsPromise
