SPECIFICATION Spec
CONSTANTS
    good = good
    bad = bad
    p1 = p1
    p2 = p2
    NoFile = NoFile
    Partial = Partial
    Procs = {p1, p2}
    NSites = 2
    Contents = {good, bad}
    Base = "pkg"
    HashFile <- MCHashFile
    InitialOut <- AnyOut
    MaxRuns = 1
SYMMETRY MCSymmetry
CHECK_DEADLOCK FALSE
INVARIANT DownloadedStays
