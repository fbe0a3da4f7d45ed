SPECIFICATION RunningSpec
CONSTANTS
    a = a
    b = b
    f = f
    Chunks <- MCChunks
    Paths <- OneFile
    Contents <- OneContent
    PackIds = {k1}
    SnapIds <- TwoSnaps
    Index <- MCIndex
    NoPack = NoPack
    NoSnap = NoSnap
    Backups = {b1}
    Compactors = {c1}
    Forgetters = {f1}
    Threshold = 60
    Conflicts <- NoConflicts
INVARIANT
    TreesPresent
PROPERTY
    CommandsEnd
\* A run ends when the snapshot identifiers are used up: nothing can start.
CHECK_DEADLOCK FALSE
