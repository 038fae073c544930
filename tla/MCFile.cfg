\* Two requests of any kind for one slot, two tokens a decode, two chunks.
CONSTANTS
    r1 = r1
    r2 = r2
    Requests = {r1, r2}
    MaxConcurrency = 1
    MaxTokens = 2
    MaxChunks = 2
SPECIFICATION Spec
INVARIANTS ReplyIsWhole StreamTold
PROPERTY EveryRequestAnswered
