\* Two calls for one slot, two items each, each client task cancelled up to
\* twice: in get() and again in the join of the finally block.
CONSTANTS
    Requests = {r1, r2}
    MaxConcurrency = 1
    MaxItems = 2
    MaxCancels = 2
SPECIFICATION FairSpec
INVARIANTS OrphanIsCancelled NoSilentTruncation
PROPERTIES KeepsPromise EveryProducerEnds EveryWaitEnds
