CONSTANTS
    Keys = {k1}
    Vals = {v1}
    None = None
    Corrupt = Corrupt
    MaxDeltas = 2
    BaseOverhead = 2
    OrderedMetadata = TRUE
    MaxGen = 3
    MaxFaults = 2
SPECIFICATION Spec
INVARIANTS
    SavedSurvivesPowerLoss
    ChainIsShort
PROPERTIES
    ImplementsAtomicBackend
