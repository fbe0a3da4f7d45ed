SPECIFICATION SteadySpec
CONSTANTS
    a = a
    b = b
    f = f
    Chunks <- MCChunks
    Paths <- OneFile
    Contents <- SmallContents
    PackIds = {k1, k2, k3, k4}
    SnapIds <- TwoSnaps
    Index <- MCIndex
    NoPack = NoPack
    NoSnap = NoSnap
    Backups = {b1, b2}
    Compactors = {c1}
    Forgetters = {f1}
    Threshold = 60
    Conflicts <- BackupsApart
PROPERTY
    Reclaimed
\* A run ends when the snapshot identifiers are used up: nothing can start.
CHECK_DEADLOCK FALSE
