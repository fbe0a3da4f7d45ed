SPECIFICATION CommandsSpec
CONSTANTS
    Explored = {"tree", "selection", "registry"}
    Places <- TwoPlaces
    SourceLists <- TwoLists
    WorkDirs <- MCWorkDirs
    Entries <- MCEntries
    MaxEdits = 4
    MaxBackups = 2
    MaxTime = 4
    Parts = 2
    Randoms = {1, 2}
    Events = {"deploy"}
    NoEvent = NoEvent
    None = None
    Procs = {p1, p2}
    n1 = n1
    n2 = n2
    Names = {n1, n2}
    NoName = NoName
    Locations = {"/main", "/spare"}
    home = home
    other = other
    main = main
    spare = spare
    Dirs = {main, spare}
    Cwds = {home}
    Where <- MCWhere
    NameOf <- MCNameOf
    MaxCommands = 3
INVARIANTS
    CommandsTypeOK
    RestoredWhole
    PathsFound
    ResolveRight
    EntriesOpen
    PromisesKept
PROPERTIES
    TimeTravelStable
    IdentityKept
CHECK_DEADLOCK FALSE
