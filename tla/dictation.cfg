\* Nobody waits for anybody: not for the handshake, nor for the last act.
CONSTANTS
    MaxTakes = 2
    MaxFaults = 1
    MaxQueue = 3
    Hasty = TRUE
    Early = TRUE
    ModeSwitch = TRUE
    None = None
SPECIFICATION Spec
INVARIANTS
    TypeOK
    MicNeedsClient
    OneOpenSession
    EngineMirrorsDaemon
    TypedIsRemembered
PROPERTIES
    LedgerRefined
