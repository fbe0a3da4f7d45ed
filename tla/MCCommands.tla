----------------------------- MODULE MCCommands -----------------------------
(* Finite instances of Commands for TLC. *)
EXTENDS Commands

CONSTANTS n1, n2, home, other, main, spare

\* Two absolute locations, and a relative one that commands.cfg leaves out.
MCWhere == [cwd \in Cwds |-> [location \in Locations |->
              CASE location = "/main" -> main [] location = "/spare" -> spare
                [] OTHER -> IF cwd = home THEN main ELSE spare]]
MCNameOf == [l \in Locations |-> n1]

File(mode, content, mtime) ==
    [type |-> "file", mode |-> mode, content |-> content, mtime |-> mtime, target |-> <<>>]
Other(type, mode, target) ==
    [type |-> type, mode |-> mode, content |-> <<>>, mtime |-> 1, target |-> target]

\* A file, with other permissions, of another time, with other contents of its size, and empty.
MCEntries ==
    {File("rw", <<"c1", "c2">>, 1), File("ro", <<"c1", "c2">>, 1), File("rw", <<"c1", "c2">>, 2),
     File("rw", <<"c2", "c3">>, 1), File("rw", <<>>, 1)}
    \cup {Other("dir", mode, <<>>) : mode \in {"rw", "ro"}}
    \cup {Other("symlink", "rw", <<"x">>), Other("other", "rw", <<>>)}

Absolute(names) == [absolute |-> TRUE, names |-> names]
Relative(names) == [absolute |-> FALSE, names |-> names]

\* A source with two levels below it, and another of its name, backed up at another time; a list
\* has a source under another, and a source that is given relative to the directory of the command.
TwoPlaces == {<<"a", "d">>, <<"a", "d", "x">>, <<"a", "d", "x", "y">>, <<"b", "d">>}
TwoLists == {<<Absolute(<<"a", "d">>)>>, <<Absolute(<<"b", "d">>), Absolute(<<"a", "d", "x">>)>>,
             <<Relative(<<"d">>), Absolute(<<"a", "d", "x">>)>>}
MCWorkDirs == {<<"a">>}

\* Two sources of one base name, and files only.
NamesakePlaces == {<<"a", "d">>, <<"b", "d">>}
FileEntries == {entry \in MCEntries : entry.type = "file"}
NamesakeLists == {<<Absolute(<<"a", "d">>), Absolute(<<"b", "d">>)>>}

\* The root as a source, under which PathsFound does not hold: no path under it is found.
RootPlaces == {<<>>, <<"a">>}
RootLists == {<<Absolute(<<>>)>>}

=============================================================================
