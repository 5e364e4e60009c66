SPECIFICATION Spec
CONSTANTS
    a1 = a1
    a2 = a2
    a3 = a3
    a4 = a4
    dot = dot
    o1 = o1
    o2 = o2
    o3 = o3
    o4 = o4
    Others <- MCOthers
    OutNames <- MCOutNames
    NumVectors = 2
    Terminal = Terminal
    NoFile = NoFile
    AigFiles <- MCAigFiles4
    Stem <- MCStem4
    Value <- MCValue4
    BannerCode <- MCBanner4
    Tty = FALSE
    Dot = TRUE
    Corrupt = {a4}
    MayFail = {"opendir", "fopen", "open", "dup2", "aigsim"}
    FdLimit = 10
    KillPoints <- EarlyKillPoints
    MaxRuns = 4
INVARIANTS
    OutputsExact
    StdoutRestored
    DescriptorsSuffice
PROPERTIES
    FinishedFilesFrozen
