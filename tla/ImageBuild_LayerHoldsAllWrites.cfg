SPECIFICATION Spec
INVARIANT LayerHoldsAllWrites
CONSTANTS
    v1 = v1
    v2 = v2
    Absent = Absent
    Whiteout = Whiteout
    Keep = Keep
    NoImage = NoImage
    NoLayer = NoLayer
    NoVar = NoVar
    UseOverlay = TRUE
    Simulated = FALSE
    WideLen = 3
    DeepLen = 5
    Name <- MCName
    Val <- MCVal
    Context <- MCContext
    Setting <- MCSetting
    RunEffects <- MCRunEffects
    Raw <- MCRaw
    Programs <- MCPrograms
