SPECIFICATION Spec
CONSTANTS
    p1 = p1
    p2 = p2
    p3 = p3
    g1 = g1
    g2 = g2
    g3 = g3
    PlaFiles <- MCPlaFiles
    AigNames <- MCAigNames
    AigName <- MCAigName
    Nameless = {p3}
    OptGiven = FALSE
    CommandFails <- Commands
    SynthKills <- SynthPoints
    MaxSyntheses = 4
    ShellFails <- Commands
INVARIANTS
    SynthTypeOK
    AigsOfTheirPlas
    ScriptTranslates
PROPERTIES
    PlaConserved
    SynthEnds
