SPECIFICATION Spec
INVARIANTS
    TypeOK
    LayerShowsUpper
    DigestNamesBlob
    NeverShared
    TwoDirsTransform
PROPERTIES
    WritersEnd
CONSTANTS
    w1 = w1
    w2 = w2
    Writers = {w1, w2}
    Hashes = {h1, h2, h3, h4}
    Gzips = {g1, g2}
    Bufs = {b1, b2}
    Larges = {l1, l2}
    Discard = Discard
    Nothing = Nothing
    MaxSize = 2
    MaxTouch = 1
    WhiteoutOf <- MCWhiteoutOf
    Opaque <- MCOpaque
    WalkOrder <- MCWalkOrder
    Lowers <- MCLowers
    Scenarios <- MCScenarios
    Chunk <- TarChunk
CHECK_DEADLOCK FALSE
