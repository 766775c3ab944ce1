SPECIFICATION Spec
CONSTANTS
    NDisks = 2
    NVersions = 2
    MaxRuns = 2
    MaxFaults = 1
    Worlds = {"durable"}
CHECK_DEADLOCK FALSE
INVARIANT UpToDateMeansInstalled
