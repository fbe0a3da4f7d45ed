SPECIFICATION ReaderSpec
CONSTANTS
    a = a
    b = b
    f = f
    g = g
    Chunks <- MCChunks
    Paths <- TwoFiles
    Contents <- OneContent
    PackIds = {k1, k2}
    SnapIds <- TwoSnaps
    Index <- MCIndex
    NoPack = NoPack
    NoSnap = NoSnap
    Backups = {b1}
    Compactors = {c1}
    Forgetters = {}
    Threshold = 101
    Conflicts <- Discipline
    Restorers = {r1}
    Verifiers = {}
    Selections <- WholeTree
    KeepOut = {}
    Fragile = {}
SYMMETRY FileSymmetry
INVARIANTS
    RestoreInv
PROPERTY
    RestoredRight
\* A run ends when the snapshot identifiers are used up: nothing can start.
CHECK_DEADLOCK FALSE
