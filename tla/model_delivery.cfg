\* One download at a time, a model replaced under it, and faults.
CONSTANTS
    Thread = {1}
    ModelSize = 2
    Threshold = 1
    MaxVersions = 2
    MaxLearnings = 2
    MaxFaults = 2
SPECIFICATION FairSpec
INVARIANTS
    InstalledWhole
PROPERTIES
    TrainsOnNews
    PhoneCatchesUp
