\* Four calls for two slots: with two producers decoding, one woken waiter and
\* one newcomer can be there at once, and each of them can be cancelled.
CONSTANTS
    Requests = {r1, r2, r3, r4}
    MaxConcurrency = 2
    MaxItems = 0
    MaxCancels = 1
SPECIFICATION Spec
SYMMETRY Symmetry
INVARIANTS SlotsConserved NoLostWakeup
PROPERTY GrantsInOrder
