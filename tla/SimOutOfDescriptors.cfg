SPECIFICATION Spec
CONSTANTS
    a1 = a1
    a2 = a2
    a3 = a3
    a4 = a4
    dot = dot
    o1 = o1
    o2 = o2
    o3 = o3
    o4 = o4
    Others <- MCOthers
    OutNames <- MCOutNames
    NumVectors = 2
    Terminal = Terminal
    NoFile = NoFile
    AigFiles <- MCAigFiles2
    Stem <- MCStem2
    Value <- MCValue2
    BannerCode <- MCBanner2
    Tty = TRUE
    Dot = FALSE
    Corrupt = {}
    MayFail = {}
    FdLimit = 7
    KillPoints = {}
    MaxRuns = 1
INVARIANTS
    StdoutRestored
