\* Each act settles before the next one.
CONSTANTS
    MaxTakes = 3
    MaxFaults = 2
    MaxQueue = 3
    Hasty = FALSE
    Early = FALSE
    ModeSwitch = FALSE
    None = None
SPECIFICATION Spec
INVARIANTS
    ReviewDecides
    OwnWords
