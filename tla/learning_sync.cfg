\* The keyboard, the worker and the PC over three takes, which may be too many
\* for one batch, with one fault.
CONSTANTS
    MaxTakes = 3
    MaxEdits = 2
    MaxFaults = 1
    Cap = 2
    MaxBatch = 2
SPECIFICATION FairSpec
INVARIANTS
    StoredOnce
    AudioMatchesOutbox
PROPERTIES
    KeepsOutbox
    OutboxDrains
