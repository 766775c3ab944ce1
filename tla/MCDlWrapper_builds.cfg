SPECIFICATION FairSpec
CONSTANTS
    good = good
    bad = bad
    p1 = p1
    p2 = p2
    NoFile = NoFile
    Partial = Partial
    Procs = {p1, p2}
    NSites = 2
    Contents = {good, bad}
    Base = "pkg"
    HashFile <- MCHashFile
    InitialOut <- AnyOut
    MaxRuns = 2

CHECK_DEADLOCK FALSE
INVARIANTS TypeOK PublishedIsSound StagedIsVerified
PROPERTIES ImplementsStore CleanStartStays DownloadEnds
