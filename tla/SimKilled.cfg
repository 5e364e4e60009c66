SPECIFICATION FairSpec
CONSTANTS
    a1 = a1
    a2 = a2
    a3 = a3
    a4 = a4
    dot = dot
    o1 = o1
    o2 = o2
    o3 = o3
    o4 = o4
    Others <- MCOthers
    OutNames <- MCOutNames
    NumVectors = 2
    Terminal = Terminal
    NoFile = NoFile
    AigFiles <- MCAigFiles3
    Stem <- MCStemShared
    Value <- MCValue3
    BannerCode <- MCBanner3
    Tty = FALSE
    Dot = TRUE
    Corrupt = {}
    MayFail = {"opendir", "fopen", "open", "dup2", "remove"}
    FdLimit = 7
    KillPoints <- AllKillPoints
    MaxRuns = 2
INVARIANTS
    TypeOK
    NeuronsConserved
PROPERTIES
    RunEnds
