SPECIFICATION FairSpec
CONSTANTS
    a1 = a1
    a2 = a2
    a3 = a3
    dot = dot
    o1 = o1
    o2 = o2
    o3 = o3
    AigFiles <- MCAigFiles
    Others <- MCOthers
    OutNames <- MCOutNames
    Stem <- MCStem
    SortedNames <- MCSortedNames
    NumVectors = 2
    Value <- MCValue
    BannerCode <- MCBanner
    Garbage <- MCGarbage
    Unreadable = {}
    Terminal = Terminal
    NoFile = NoFile
    FdLimit = 9
    JoinMayFail = {"list", "remove", "open"}
    Tty = TRUE
    Dot = FALSE
    Corrupt = {a3}
    MayFail = {"opendir", "fopen", "open"}
    KillPoints <- BeforeOutput
    JoinKillPoints = {"count", "read", "delete"}
    MaxRuns = 3
INVARIANTS
    PartialButTrue
PROPERTIES
    ScriptEnds
