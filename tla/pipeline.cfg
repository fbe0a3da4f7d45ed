SPECIFICATION PipelineSpec
CONSTANTS
    Stages = {"source", "chunker", "packer"}
    x = x
    y = y
    Blocks <- MCBlocks
    Contents <- MCContents
    MaxClock = 3
    NoNode = NoNode
    MaxLen = 10
    Inputs <- MCInputs
    gear <- MCGear
    Width = 3
    SBits = 2
    LBits = 1
    MinSize = 2
    AvgSize = 4
    MaxSize = 6
    c1 = c1
    c2 = c2
    c3 = c3
    k1 = k1
    k2 = k2
    Chunks <- MCChunks
    Size <- MCSize
    Header = 2
    Target = 5
    PackIds = {k1, k2}
    NoPack = NoPack
    MostBlobs = 5
    MostRefused = 1
INVARIANTS
    PipelineTypeOK
    CarriedIsRight
    SameChunks
    EndIsEnd
    ReadsBack
    Accounted
    Bounded
PROPERTIES
    QuietExact
    ChunkerEnds
CHECK_DEADLOCK FALSE
