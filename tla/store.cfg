SPECIFICATION Spec
CONSTANTS
    x = x
    y = y
    k1 = k1
    k2 = k2
    Blocks <- TwoBlocks
    Keys <- TwoKeys
    Objects <- TwoObjects
    Inodes <- TwoInodes
    NoInode <- NoFile
    Writers = {w1, w2}
    Readers = {r1}
    Windows <- MCWindows
    SyncSupported = TRUE
    Faults = {"kill", "power"}
    After <- InAnyOrder
INVARIANTS
    StoreInv
    OnlyOrphansLeft
PROPERTY StoreSpec
CHECK_DEADLOCK FALSE
