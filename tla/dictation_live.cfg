\* Nobody waits, except for the handshake.
CONSTANTS
    MaxTakes = 2
    MaxFaults = 1
    MaxQueue = 3
    Hasty = TRUE
    Early = FALSE
    ModeSwitch = FALSE
    None = None
SPECIFICATION FairSpec
INVARIANTS
    Settled
PROPERTIES
    Converges
