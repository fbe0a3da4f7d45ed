SPECIFICATION Spec
CONSTANTS
    a = a
    b = b
    f = f
    g = g
    Chunks <- MCChunks
    Paths <- OneFile
    Contents <- SmallContents
    PackIds = {k1, k2, k3}
    SnapIds <- TwoSnaps
    Index <- MCIndex
    NoPack = NoPack
    NoSnap = NoSnap
    Backups = {b1}
    Compactors = {c1}
    Forgetters = {f1}
    Threshold = 60
    Conflicts <- Discipline
SYMMETRY PackSymmetry
INVARIANTS
    Inv
    IndexSound
    Restorable
PROPERTIES
    CompactionTight
    ArchiveSpec
