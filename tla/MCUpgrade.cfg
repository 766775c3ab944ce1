SPECIFICATION UpgradeSpec
CONSTANTS
    Procs = {a, b}
    NDisks = 2
    MaxKills = 1
    MaxLaunches = 3
    NVersions = 3
    MaxRuns = 3
    MaxFaults = 1
    Worlds = {"lossy", "tmpfull"}
CHECK_DEADLOCK FALSE
INVARIANTS NothingLeftBehind SomeDiskBoots DoneMeansUpgraded MenuEntryBoots
 
