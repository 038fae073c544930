\* Three messages and three events: a queue with an event being sent, one
\* behind it and the sentinel; the handler cancelled in the loop, in the drain
\* and once more there.
CONSTANTS
    MaxMessages = 3
    MaxEvents = 3
    MaxCancels = 3
SPECIFICATION Spec
INVARIANTS EventsInOrder PumpFinishes DrainDelivers
PROPERTY ConnectionEnds
