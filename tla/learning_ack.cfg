\* Is what a 200 confirms what the PC stored?
CONSTANTS
    MaxTakes = 2
    MaxEdits = 1
    MaxFaults = 2
    Cap = 1
    MaxBatch = 2
SPECIFICATION Spec
INVARIANT AckMeansStored
