SPECIFICATION CommandsSpec
CONSTANTS
    Explored = {"tree"}
    Places <- NamesakePlaces
    SourceLists <- NamesakeLists
    WorkDirs <- MCWorkDirs
    Entries <- FileEntries
    MaxEdits = 3
    MaxBackups = 2
    MaxTime = 4
    Parts = 2
    Randoms = {1, 2}
    Events = {"deploy"}
    NoEvent = NoEvent
    None = None
    Procs = {p1, p2}
    n1 = n1
    n2 = n2
    Names = {n1, n2}
    NoName = NoName
    Locations = {"/main", "/spare"}
    home = home
    other = other
    main = main
    spare = spare
    Dirs = {main, spare}
    Cwds = {home}
    Where <- MCWhere
    NameOf <- MCNameOf
    MaxCommands = 3
INVARIANT RestoredWhole
CHECK_DEADLOCK FALSE
