\* A phone with two screens, a second device, and a PC that restarts.
CONSTANTS
    MaxAttempts = 2
    MaxCodes = 2
    MaxTokens = 2
    MaxFaults = 1
SPECIFICATION Spec
INVARIANTS
    RevokedStaysOut
    PairedBothWays
PROPERTIES
    GrantedWhileOffered
