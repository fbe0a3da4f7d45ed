------------------------------ MODULE Registry ------------------------------
(***************************************************************************)
(* The identities of repositories (repo.json) and the user's registry of   *)
(* them (config.json), under the commands that write and read them:        *)
(* zeaback init, zeaback config set-default, and every other command,      *)
(* which opens a repository by its name.                                   *)
(***************************************************************************)
EXTENDS Naturals

CONSTANTS
    Procs,          \* the processes that run commands
    Names,          \* names of repositories; NoName stands for none
    Locations,      \* what --path may say
    Dirs,           \* directories
    Cwds,           \* the working directories of commands
    Where,          \* Where[cwd][location] is the directory meant
    NameOf,         \* the name that init gives a location by default
    NoName,
    MaxCommands     \* a bound: the commands run

ASSUME RegistryAssumption ==
    /\ Locations # {} /\ Cwds # {}
    /\ Where \in [Cwds -> [Locations -> Dirs]] /\ NameOf \in [Locations -> Names]
    /\ NoName \notin Names /\ MaxCommands \in Nat

VARIABLES
    meta,       \* the identity in the repo.json of each directory; 0 without one
    config,     \* the configuration file
    cmd,        \* the command each process runs
    commands,   \* the commands begun so far
    promised,   \* of the properties: the registry by the commands that reported success
    apart       \* of the properties: no command began before the last ended, and none was killed

registryVars == <<meta, config, cmd, commands, promised, apart>>

\* A configuration: default_repo and repos.
Empty == [default |-> NoName, repos |-> <<>>]

\* The file: "none", "empty" after it was truncated, "garbled", or "whole" with registry in it.
NoFile == [state |-> "none", registry |-> Empty]

\* pc, kind, name, location, cwd   the command and its arguments;
\* asDefault  --default;  id  the identity drawn;  held  the configuration as loaded;
\* clear      of the properties: the directory had no identity when the command began.
Idle ==
    [pc |-> "idle", kind |-> "none", name |-> NoName, location |-> CHOOSE l \in Locations : TRUE,
     cwd |-> CHOOSE c \in Cwds : TRUE, asDefault |-> FALSE, id |-> 0, held |-> Empty, clear |-> FALSE]

At(p, pc) == cmd[p].pc = pc

RegistryInit ==
    /\ meta = [d \in Dirs |-> 0]
    /\ config = NoFile
    /\ cmd = [p \in Procs |-> Idle]
    /\ commands = 0
    /\ promised = Empty
    /\ apart = TRUE

Starts(p) ==
    /\ At(p, "idle")
    /\ commands < MaxCommands
    /\ commands' = commands + 1
    /\ apart' = (apart /\ \A q \in Procs : At(q, "idle"))

DirOf(p) == Where[cmd[p].cwd][cmd[p].location]

Goto(p, pc) == [cmd EXCEPT ![p].pc = pc]

-----------------------------------------------------------------------------
(* What the commands do to a configuration. *)

\* init.go:51
WithEntry(c, name, location, asDefault) ==
    [default |-> IF asDefault \/ c.default = NoName THEN name ELSE c.default,
     repos   |-> [n \in {name} \cup DOMAIN c.repos |-> IF n = name THEN location ELSE c.repos[n]]]

Changed(c, run) ==
    IF run.kind = "init" THEN WithEntry(c, run.name, run.location, run.asDefault)
    ELSE [c EXCEPT !.default = run.name]

\* Config.Resolve finds a repository.
Resolves(c, name) == (IF name = NoName THEN c.default ELSE name) \in DOMAIN c.repos

ResolvedLocation(c, name) == c.repos[IF name = NoName THEN c.default ELSE name]

-----------------------------------------------------------------------------
(* zeaback init. *)

\* The store is opened.
StartInit(p, name, location, cwd, asDefault) ==
    /\ Starts(p)
    /\ cmd' = [cmd EXCEPT ![p] =
                 [Idle EXCEPT !.pc = "exists", !.kind = "init", !.location = location, !.cwd = cwd,
                              !.name = IF name = NoName THEN NameOf[location] ELSE name,
                              !.asDefault = asDefault, !.id = commands + 1,
                              !.clear = meta[Where[cwd][location]] = 0]]
    /\ UNCHANGED <<meta, config, promised>>

\* A mistake: repo.json is written whether or not there is one.
InitUnchecked(p) ==
    /\ At(p, "exists")
    /\ cmd' = Goto(p, "put")
    /\ UNCHANGED <<meta, config, commands, promised, apart>>

\* repo.Init: there is no repo.json ...
InitExists(p) ==
    /\ At(p, "exists")
    /\ cmd' = IF meta[DirOf(p)] = 0 THEN Goto(p, "put") ELSE [cmd EXCEPT ![p] = Idle]
    /\ UNCHANGED <<meta, config, commands, promised, apart>>

\* A mistake: an error of Put is not seen.
InitPutFailing(p) ==
    /\ At(p, "put")
    /\ cmd' = Goto(p, "load")
    /\ meta' \in {meta, [meta EXCEPT ![DirOf(p)] = cmd[p].id]}
    /\ UNCHANGED <<config, commands, promised, apart>>

\* ... and one is put there, whole.
InitPut(p) ==
    /\ At(p, "put")
    /\ meta' = [meta EXCEPT ![DirOf(p)] = cmd[p].id]
    /\ cmd' = Goto(p, "load")
    /\ UNCHANGED <<config, commands, promised, apart>>

-----------------------------------------------------------------------------
(* zeaback config set-default, and the opening of a repository by name. *)

StartSetDefault(p, name) ==
    /\ Starts(p)
    /\ cmd' = [cmd EXCEPT ![p] = [Idle EXCEPT !.pc = "load", !.kind = "setDefault", !.name = name]]
    /\ UNCHANGED <<meta, config, promised>>

\* With --repo name, or without it.
StartOpen(p, name, cwd) ==
    /\ Starts(p)
    /\ cmd' = [cmd EXCEPT ![p] =
                 [Idle EXCEPT !.pc = "load", !.kind = "open", !.name = name, !.cwd = cwd]]
    /\ UNCHANGED <<meta, config, promised>>

\* Load returns a configuration: that of the file, or an empty one when there is none.
Readable == config.state \in {"none", "whole"}

\* What the command requires of the configuration it has loaded.
Accepted(c, run) ==
    CASE run.kind = "setDefault" -> run.name \in DOMAIN c.repos
      [] run.kind = "open" -> Resolves(c, run.name)
      [] OTHER -> TRUE

\* A mistake: the configuration begins anew.
LoadConfigAnew(p) ==
    LET c == config.registry IN
    /\ At(p, "load")
    /\ Readable
    /\ Accepted(c, cmd[p])
    /\ cmd' = IF cmd[p].kind = "open"
              THEN [cmd EXCEPT ![p].pc = "open", ![p].location = ResolvedLocation(c, cmd[p].name)]
              ELSE [cmd EXCEPT ![p].pc = "truncate", ![p].held = Changed(Empty, cmd[p])]
    /\ UNCHANGED <<meta, config, commands, promised, apart>>

\* A mistake: the file is written over without being truncated.
LoadConfigPatching(p) ==
    LET c == config.registry IN
    /\ At(p, "load")
    /\ Readable
    /\ Accepted(c, cmd[p])
    /\ cmd' = IF cmd[p].kind = "open"
              THEN [cmd EXCEPT ![p].pc = "open", ![p].location = ResolvedLocation(c, cmd[p].name)]
              ELSE [cmd EXCEPT ![p].pc = "write", ![p].held = Changed(c, cmd[p])]
    /\ UNCHANGED <<meta, config, commands, promised, apart>>

\* Load: a writer makes its change in memory, the others resolve the name.
LoadConfig(p) ==
    LET c == config.registry IN
    /\ At(p, "load")
    /\ Readable
    /\ Accepted(c, cmd[p])
    /\ cmd' = IF cmd[p].kind = "open"
              THEN [cmd EXCEPT ![p].pc = "open", ![p].location = ResolvedLocation(c, cmd[p].name)]
              ELSE [cmd EXCEPT ![p].pc = "truncate", ![p].held = Changed(c, cmd[p])]
    /\ UNCHANGED <<meta, config, commands, promised, apart>>

\* The command ends with an error: the file cannot be read, or has no such name.
LoadFails(p) ==
    /\ At(p, "load")
    /\ ~(Readable /\ Accepted(config.registry, cmd[p]))
    /\ cmd' = [cmd EXCEPT ![p] = Idle]
    /\ UNCHANGED <<meta, config, commands, promised, apart>>

\* Save is os.WriteFile, which truncates the file ...
Truncate(p) ==
    /\ At(p, "truncate")
    /\ config' = [NoFile EXCEPT !.state = "empty"]
    /\ cmd' = Goto(p, "write")
    /\ UNCHANGED <<meta, commands, promised, apart>>

\* ... and writes it from its beginning.  If another has written since, a shorter text leaves
\* the end of the longer one; which is longer is left open.
Write(p) ==
    /\ At(p, "write")
    /\ \/ config' = [state |-> "whole", registry |-> cmd[p].held]
       \/ /\ config.state \in {"garbled", "whole"} /\ config.registry # cmd[p].held
          /\ config' = [NoFile EXCEPT !.state = "garbled"]
    /\ promised' = Changed(promised, cmd[p])
    /\ cmd' = [cmd EXCEPT ![p] = Idle]
    /\ UNCHANGED <<meta, commands, apart>>

\* The directory the name leads to is opened: repo.Open finds a repository there, or fails.
Open(p) ==
    /\ At(p, "open")
    /\ cmd' = [cmd EXCEPT ![p] = Idle]
    /\ UNCHANGED <<meta, config, commands, promised, apart>>

\* The process is killed, or a call fails and it gives up; whatever it wrote stays.
Crash(p) ==
    /\ ~At(p, "idle")
    /\ cmd' = [cmd EXCEPT ![p] = Idle]
    /\ apart' = FALSE
    /\ UNCHANGED <<meta, config, commands, promised>>

RegistryNext == \E p \in Procs :
    \/ \E name \in Names \cup {NoName}, location \in Locations, cwd \in Cwds, asDefault \in BOOLEAN :
         StartInit(p, name, location, cwd, asDefault)
    \/ InitExists(p) \/ InitPut(p)
    \/ \E name \in Names : StartSetDefault(p, name)
    \/ \E name \in Names \cup {NoName}, cwd \in Cwds : StartOpen(p, name, cwd)
    \/ LoadConfig(p) \/ LoadFails(p) \/ Truncate(p) \/ Write(p) \/ Open(p) \/ Crash(p)

RegistrySpec == RegistryInit /\ [][RegistryNext]_registryVars

-----------------------------------------------------------------------------
Registries == [default : Names \cup {NoName}, repos : UNION {[ns -> Locations] : ns \in SUBSET Names}]

RegistryTypeOK ==
    /\ meta \in [Dirs -> 0 .. MaxCommands]
    /\ config \in [state : {"none", "empty", "garbled", "whole"}, registry : Registries]
    /\ cmd \in [Procs -> [pc : {"idle", "exists", "put", "load", "truncate", "write", "open"},
                          kind : {"none", "init", "setDefault", "open"}, name : Names \cup {NoName},
                          location : Locations, cwd : Cwds, asDefault : BOOLEAN,
                          id : 0 .. MaxCommands, held : Registries, clear : BOOLEAN]]
    /\ commands \in 0 .. MaxCommands
    /\ promised \in Registries /\ apart \in BOOLEAN
    /\ \A p \in Procs : At(p, "write") => config.state # "none"

\* Every registry that is in the file or on its way there.
Current == {config.registry} \cup {cmd[p].held : p \in {q \in Procs : cmd[q].pc \in {"truncate", "write"}}}

\* What the registry names is there: the default is one of its entries, and each entry leads, from
\* every working directory, to a repository that has been initialised (init.go:38 comes before
\* init.go:51, and set-default takes only names it finds).
EntriesOpen ==
    /\ \A c \in Current :
        /\ c.default # NoName => c.default \in DOMAIN c.repos
        /\ \A name \in DOMAIN c.repos, cwd \in Cwds : meta[Where[cwd][c.repos[name]]] # 0
    /\ \A p \in Procs : At(p, "open") => meta[DirOf(p)] # 0

\* A repository keeps its identity against every init that begins after it is there (repo.go:56).
IdentityKept == [][\A p \in Procs, d \in Dirs :
    meta[d] # 0 /\ meta'[d] # meta[d] /\ At(p, "put") /\ cmd'[p].pc # "put" => cmd[p].clear]_registryVars

\* At rest the registry is what the commands that reported success have made of it: no entry and
\* no default is lost, as long as they were run one after another and none was killed.
PromisesKept == apart /\ (\A p \in Procs : At(p, "idle")) =>
    config = [state |-> IF promised = Empty THEN "none" ELSE "whole", registry |-> promised]

\* What README.md:69 says of init, and does not hold: that at rest every repository it has made
\* is registered.  A second one of that name takes the entry.
Registered == (\A p \in Procs : At(p, "idle")) =>
    \A d \in Dirs : meta[d] # 0 =>
        \E name \in DOMAIN config.registry.repos, cwd \in Cwds :
            Where[cwd][config.registry.repos[name]] = d

\* What repo.go:59 is for, and does not hold of two inits beside each other: at most one init of
\* a directory succeeds, so that the identity that init has reported is the one that stays.
InitOnce == [][\A d \in Dirs : meta[d] # 0 => meta'[d] = meta[d]]_registryVars
=============================================================================
