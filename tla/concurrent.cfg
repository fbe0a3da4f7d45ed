SPECIFICATION Spec
CONSTANTS
    a = a
    b = b
    f = f
    g = g
    Chunks <- MCChunks
    Paths <- OneFile
    Contents <- MCContents
    PackIds = {k1, k2}
    SnapIds <- TwoSnaps
    Index <- MCIndex
    NoPack = NoPack
    NoSnap = NoSnap
    Backups = {b1, b2}
    Compactors = {c1}
    Forgetters = {f1}
    Threshold = 60
    Conflicts <- Discipline
SYMMETRY ProcessSymmetry
INVARIANTS
    Inv
    Intact
PROPERTIES
    ArchiveSpec
