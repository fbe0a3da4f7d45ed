SPECIFICATION ReaderSpec
CONSTANTS
    a = a
    b = b
    f = f
    g = g
    Chunks <- MCChunks
    Paths <- OneFile
    Contents <- OneChunkContents
    PackIds = {k1, k2}
    SnapIds <- TwoSnaps
    Index <- MCIndex
    NoPack = NoPack
    NoSnap = NoSnap
    Backups = {b1}
    Compactors = {c1}
    Forgetters = {f1}
    Threshold = 60
    Conflicts <- OneAtATime
    Restorers = {}
    Verifiers = {v1}
    Selections <- WholeTree
    KeepOut = {"compact"}
    Fragile = {k1, k2}
SYMMETRY PackSymmetry
INVARIANTS
    ReaderTypeOK
    VerifyInv
PROPERTIES
    SoundMeansRestorable
    ProblemMeansDamage
