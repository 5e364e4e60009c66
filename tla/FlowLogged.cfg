SPECIFICATION Spec
CONSTANTS
    a1 = a1
    a2 = a2
    a3 = a3
    dot = dot
    o1 = o1
    o2 = o2
    o3 = o3
    AigFiles <- MCAigFiles
    Others <- MCOthers
    OutNames <- MCOutNames
    Stem <- MCStem
    SortedNames <- MCSortedNames
    NumVectors = 2
    Value <- MCValue
    BannerCode <- MCBanner
    Garbage <- MCGarbage
    Unreadable = {}
    Terminal = Terminal
    NoFile = NoFile
    FdLimit = 9
    JoinMayFail = {}
    Tty = FALSE
    Dot = FALSE
    Corrupt = {}
    MayFail = {}
    KillPoints = {}
    JoinKillPoints = {}
    MaxRuns = 1
INVARIANTS
    NextLayerInputs
