SPECIFICATION SimulatorsSpec
CONSTANTS
    Models <- AllModels
    MaxChars <- MCMaxChars
    AigFiles <- MockNetworks
    MaxLines <- TwoLines
    x = x
    y = y
    Letters = {x, y}
    Nul = Nul
    Subs <- MCSubs
    MaxLength = 8
INVARIANTS
    AigSimTypeOK
    ConsistentTrace
    TrailerTellsOutputs
    InstancesAgree
    JusticeWitnessed
    NetworkReduced
    SignalsKeepFunctions
    RowsOfVectors
    LoopInvariant
PROPERTIES
    ReturnsWithout
