SPECIFICATION Spec
CONSTANTS
    a = a
    b = b
    f = f
    g = g
    Chunks <- MCChunks
    Paths <- OneFile
    Contents <- SmallContents
    PackIds = {k1, k2}
    SnapIds <- TwoSnaps
    Index <- MCIndex
    NoPack = NoPack
    NoSnap = NoSnap
    Backups = {b1}
    Compactors = {c1}
    Forgetters = {f1}
    Threshold = 60
    Conflicts <- CompactBesideBackup
SYMMETRY PackSymmetry
INVARIANTS
    Restorable
