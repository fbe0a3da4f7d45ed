-------------------------------- MODULE Tree --------------------------------
(***************************************************************************)
(* Trees of directories, files and symbolic links on their way through a   *)
(* backup: walked under stored paths (snapshot.go), written as two tables  *)
(* and put together again (manifest.go), selected by a path that the user  *)
(* gives (path.go) and restored (restore.go).  Nobody changes the sources  *)
(* during a backup, which is the matter of Source, and the packs keep      *)
(* every chunk, which is that of Repository.                               *)
(***************************************************************************)
EXTENDS Naturals, Sequences, FiniteSets, SequencesExt

CONSTANTS
    Places,         \* absolute paths: sequences of names, the root being <<>>
    SourceLists,    \* what backups may be given: sequences of paths, absolute or not
    WorkDirs,       \* the directories in which they may be started, sequences of names
    Entries,        \* what a place may hold: type, mode, content, mtime and target
    MaxEdits,       \* a bound: the changes made to the sources
    MaxBackups      \* a bound: the snapshots made

\* filepath.Abs: a path that is not absolute begins where the command was started.
Abs(source, dir) == IF source.absolute THEN source.names ELSE dir \o source.names

\* An entry is as the file system tells it: "other" is a device, a socket or a pipe, a mode is
\* "rw" or "ro", and what is neither directory nor file has one mode.
IsEntry(e) ==
    /\ e = [type |-> e.type, mode |-> e.mode, content |-> e.content, mtime |-> e.mtime,
            target |-> e.target]
    /\ e.type \in {"dir", "file", "symlink", "other"} /\ e.mode \in {"rw", "ro"}
    /\ e.content \in Seq(STRING) /\ e.mtime \in Nat
    /\ e.type # "file" => e.content = <<>>
    /\ e.type # "symlink" => e.target = <<>>
    /\ e.type \in {"symlink", "other"} => e.mode = "rw"

\* No name is that of the root; and the places are whole trees: what is between two is one too.
ASSUME TreeAssumption ==
    /\ \A p \in Places : p \in Seq(STRING) /\ \A i \in DOMAIN p : p[i] # "/"
    /\ \A p, q \in Places : IsStrictPrefix(p, q) => Front(q) \in Places
    /\ \A sources \in SourceLists :
        /\ sources \in Seq([absolute : BOOLEAN, names : Seq(STRING)])
        /\ \A dir \in WorkDirs : \A i \in DOMAIN sources : Abs(sources[i], dir) \in Places
    /\ \A entry \in Entries : IsEntry(entry)
    /\ {MaxEdits, MaxBackups} \subseteq Nat

VARIABLES
    fs,         \* the file system: place |-> entry
    edits,      \* the changes made so far
    snaps       \* the snapshots

vars == <<fs, edits, snaps>>

\* The directories above the sources are there, and not among Places.
Top(p) == p = <<>> \/ Front(p) \notin Places

Under(p, q) == IsPrefix(p, q)

WithoutTree(f, p) == [q \in {r \in DOMAIN f : ~Under(p, r)} |-> f[q]]

Put(f, k, v) == [x \in DOMAIN f \cup {k} |-> IF x = k THEN v ELSE f[x]]

Init == fs = <<>> /\ edits = 0 /\ snaps = <<>>

\* Bounded, and of no effect after the last backup.
MayEdit == edits < MaxEdits /\ Len(snaps) < MaxBackups

\* A place gets any entry, in the place of what was there: a file may be written, may get another
\* mode or another time, or may be moved there from elsewhere.
Edit(p) ==
    /\ MayEdit
    /\ Top(p) \/ (Front(p) \in DOMAIN fs /\ fs[Front(p)].type = "dir")
    /\ \E entry \in Entries :
         fs' = IF entry.type = "dir" /\ p \in DOMAIN fs /\ fs[p].type = "dir"
               THEN Put(fs, p, entry)
               ELSE Put(WithoutTree(fs, p), p, entry)
    /\ edits' = edits + 1
    /\ UNCHANGED snaps

Delete(p) ==
    /\ MayEdit
    /\ p \in DOMAIN fs
    /\ fs' = WithoutTree(fs, p)
    /\ edits' = edits + 1
    /\ UNCHANGED snaps

-----------------------------------------------------------------------------
(* The two tables of a snapshot.  The nodes of a snapshot are a function   *)
(* of the source and the place each comes from.  Their order is that of    *)
(* the sources; among those of one source it makes no difference, for no   *)
(* two have one path.                                                      *)

\* Of the nodes with a path, those of which no later one is there.
Latest(nodes, ks) == nodes[CHOOSE k \in ks : \A j \in ks : j[1] <= k[1]]

KeysOf(nodes, path) == {k \in DOMAIN nodes : nodes[k].path = path}

NodeRows(nodes) == [k \in DOMAIN nodes |-> [nodes[k] EXCEPT !.chunks = <<>>]]

\* A row for each chunk of each node, with its place among the rows.
ChunkRows(nodes) ==
    UNION {{[order |-> k[1], path |-> nodes[k].path, seq |-> seq, hash |-> nodes[k].chunks[seq]] :
              seq \in DOMAIN nodes[k].chunks} : k \in DOMAIN nodes}

\* The hash that a row of so many, the last one, puts at seq.
HashAt(rows, seq) ==
    LET those == {row \in rows : row.seq = seq}
    IN IF those = {} THEN ""
       ELSE (CHOOSE row \in those : \A other \in those : other.order <= row.order).hash

Longest(rows) ==
    IF rows = {} THEN 0
    ELSE (CHOOSE row \in rows : \A other \in rows : other.seq <= row.seq).seq

\* A mistake: each hash is put before those there are, whatever its seq.
ListOfReversed(chunkRows, path) ==
    LET rows == {row \in chunkRows : row.path = path}
    IN [seq \in 1 .. Longest(rows) |-> HashAt(rows, Longest(rows) + 1 - seq)]

\* The list of a path grows to hold every seq, and has the hashes there.
ListOf(chunkRows, path) ==
    LET rows == {row \in chunkRows : row.path = path}
    IN [seq \in 1 .. Longest(rows) |-> HashAt(rows, seq)]

LoadNodes(snap) ==
    [k \in DOMAIN snap.rows |->
        [snap.rows[k] EXCEPT !.chunks = ListOf(snap.chunkRows, snap.rows[k].path)]]

-----------------------------------------------------------------------------
(* zeaback backup. *)

Base(p) == IF p = <<>> THEN "/" ELSE Last(p)

Rel(source, p) == SubSeq(p, Len(source) + 1, Len(p))

\* The path at which a place under a source is stored.
StoredAs(source, p) == <<Base(source)>> \o Rel(source, p)

\* The nodes of the latest snapshot by path; of two nodes of a path the later counts.
ParentNodes ==
    LET nodes == IF snaps = <<>> THEN <<>> ELSE LoadNodes(Last(snaps))
    IN [path \in {nodes[k].path : k \in DOMAIN nodes} |-> Latest(nodes, KeysOf(nodes, path))]

\* A mistake: only the size is compared, of whatever the parent has there.
UnchangedInSize(parents, path, entry) ==
    /\ path \in DOMAIN parents
    /\ parents[path].size = Len(entry.content)

\* The fast path of addFile.
Unchanged(parents, path, entry) ==
    /\ path \in DOMAIN parents
    /\ parents[path].type = "file"
    /\ parents[path].size = Len(entry.content)
    /\ parents[path].mtime = entry.mtime

Node(path, entry) ==
    [path |-> path, type |-> entry.type, mode |-> entry.mode, size |-> Len(entry.content),
     mtime |-> entry.mtime, target |-> entry.target, chunks |-> entry.content]

AddOne(path, entry, parents) ==
    IF entry.type = "file" /\ Unchanged(parents, path, entry) THEN parents[path]
    ELSE Node(path, entry)

\* A mistake: whatever is neither directory nor link is recorded.
RecordedOfAnyType(entry) == TRUE

\* What is neither directory, link nor file is left out.
Recorded(entry) == entry.type # "other"

\* WalkDir, of the roots one after the other.
Walk(roots, f) ==
    {k \in (DOMAIN roots) \X (DOMAIN f) : Under(roots[k[1]], k[2]) /\ Recorded(f[k[2]])}

\* What is walked: the sources, made absolute.
Roots(sources, dir) == [i \in DOMAIN sources |-> Abs(sources[i], dir)]

\* The nodes of all sources become the two tables, and the sources are recorded as they were given;
\* roots and was are of the properties.
Backup(sources, dir) ==
    LET parents == ParentNodes
        roots == Roots(sources, dir)
        nodes == [k \in Walk(roots, fs) |->
                    AddOne(StoredAs(roots[k[1]], k[2]), fs[k[2]], parents)] IN
    /\ Len(snaps) < MaxBackups
    /\ \A i \in DOMAIN roots : roots[i] \in DOMAIN fs
    /\ snaps' = Append(snaps, [sources |-> sources, rows |-> NodeRows(nodes),
                               chunkRows |-> ChunkRows(nodes), roots |-> roots, was |-> fs])
    /\ UNCHANGED <<fs, edits>>

Next ==
    \/ \E p \in Places : Edit(p) \/ Delete(p)
    \/ \E sources \in SourceLists, dir \in WorkDirs : Backup(sources, dir)

Spec == Init /\ [][Next]_vars

-----------------------------------------------------------------------------
(* zeaback restore and zeaback ls. *)

\* A mistake: the source of the path is taken off, and its base name is not put back.
RelativeToSource(u, source) == Rel(source.names, u)

\* An absolute path u in or under a source, below the base name of the source.  Under the
\* root nothing is found, for no clean path begins with "//".
StoredUnder(u, source) == <<Base(source.names)>> \o Rel(source.names, u)

\* A source that was not given as an absolute path is passed over.
Matches(u, source) ==
    /\ source.absolute
    /\ u = source.names \/ (source.names # <<>> /\ Under(source.names, u))

\* StoredPath of an absolute path: the first source that matches counts, and without one the
\* path is taken as it is.  The trailing slash of a lone "/" is then taken off.
StoredPath(snap, u) ==
    LET matching == {i \in DOMAIN snap.sources : Matches(u, snap.sources[i])} IN
    IF matching = {} THEN u
    ELSE LET first == CHOOSE i \in matching : \A j \in matching : i <= j
             stored == StoredUnder(u, snap.sources[first])
         IN IF stored = <<"/">> THEN <<>> ELSE stored

\* The nodes that restore.Run and ls take.
Selected(snap, prefix) ==
    LET nodes == LoadNodes(snap)
    IN [k \in {j \in DOMAIN nodes : Under(prefix, nodes[j].path)} |-> nodes[k]]

NewDir == [type |-> "dir", mode |-> "rw", content |-> <<>>, mtime |-> 0, target |-> <<>>]

\* A mistake: a directory gets its permissions when it is made.
EntryMadeStrict(n) ==
    CASE n.type = "dir" -> [NewDir EXCEPT !.mode = n.mode]
      [] n.type = "symlink" -> [NewDir EXCEPT !.type = "symlink", !.target = n.target]
      [] n.type = "file" -> [type |-> "file", mode |-> n.mode, content |-> n.chunks,
                             mtime |-> n.mtime, target |-> <<>>]

\* What the loop over the nodes makes of one.
EntryMade(n) ==
    CASE n.type = "dir" -> NewDir
      [] n.type = "symlink" -> [NewDir EXCEPT !.type = "symlink", !.target = n.target]
      [] n.type = "file" -> [type |-> "file", mode |-> n.mode, content |-> n.chunks,
                             mtime |-> n.mtime, target |-> <<>>]

\* Of the nodes of one path the last is there in the end, but that a link stays: the file that
\* would take its place is created where the link leads, which is left out.
Final(nodes, path) ==
    LET links == {k \in KeysOf(nodes, path) : nodes[k].type = "symlink"}
    IN Latest(nodes, IF links = {} THEN KeysOf(nodes, path) ELSE links)

\* The destination, which was empty, after that loop: each node is made after the directories
\* above it.
Made(nodes) ==
    LET paths == {nodes[k].path : k \in DOMAIN nodes}
        above == UNION {{SubSeq(path, 1, i) : i \in 1 .. Len(path) - 1} : path \in paths}
    IN [p \in paths \cup above |-> IF p \in paths THEN EntryMade(Final(nodes, p)) ELSE NewDir]

\* The errors that end a restore: nothing is selected, a directory is where something else is to
\* be or the other way round (a link, taken to lead nowhere, cannot be a directory, nor its mode
\* be set), a file is where another that admits no writing was restored before, or what is above
\* a node is no directory that may be written.
Fails(nodes) ==
    \/ DOMAIN nodes = {}
    \/ \E j, k \in DOMAIN nodes :
         nodes[j].path = nodes[k].path /\ nodes[j].type = "dir" /\ nodes[k].type # "dir"
    \/ \E j, k \in DOMAIN nodes :
         /\ nodes[j].path = nodes[k].path /\ j[1] < k[1]
         /\ nodes[j].type = "file" /\ nodes[k].type = "file" /\ nodes[j].mode = "ro"
    \/ \E k \in DOMAIN nodes :
         /\ Len(nodes[k].path) > 1
         /\ LET dir == Made(nodes)[Front(nodes[k].path)] IN dir.type # "dir" \/ dir.mode # "rw"

\* restore.Run into an empty directory: the nodes are made, then the directories get their
\* permissions.
Restored(snap, prefix) ==
    LET nodes == Selected(snap, prefix)
        made == Made(nodes)
    IN [failed |-> Fails(nodes),
        tree |-> [p \in DOMAIN made |->
                    IF KeysOf(nodes, p) # {} /\ made[p].type = "dir"
                    THEN [made[p] EXCEPT !.mode = Final(nodes, p).mode] ELSE made[p]]]

-----------------------------------------------------------------------------
Snapshots == {snaps[i] : i \in DOMAIN snaps}

\* The places of a snapshot that it holds, source by source.
Held(snap, i) == {p \in DOMAIN snap.was : Under(snap.roots[i], p) /\ snap.was[p].type # "other"}

TypeOK ==
    /\ DOMAIN fs \subseteq Places /\ edits \in 0 .. MaxEdits /\ Len(snaps) <= MaxBackups
    /\ \A p \in DOMAIN fs : Top(p) \/ fs[Front(p)].type = "dir"
    /\ \A snap \in Snapshots :
        /\ \A k \in DOMAIN snap.rows : snap.rows[k].type \in {"dir", "file", "symlink"}
        /\ \A row \in snap.chunkRows : \E k \in DOMAIN snap.rows :
             snap.rows[k].path = row.path /\ snap.rows[k].type = "file"

\* The path at which a place of source i is stored.
PathIn(snap, i, p) == StoredAs(snap.roots[i], p)

\* What a backup found that is stored at a path.
FoundAt(snap, path) ==
    {snap.was[p] : p \in {q \in DOMAIN snap.was : \E i \in DOMAIN snap.roots :
                            q \in Held(snap, i) /\ PathIn(snap, i, q) = path}}

\* Two files that backups take for one that did not change (snapshot.go:100).
Alike(d, e) ==
    d.type = "file" /\ e.type = "file" /\ Len(d.content) = Len(e.content) /\ d.mtime = e.mtime

\* The backups of all from m to n found a file like e at the path.
Unbroken(all, m, n, path, e) == \A k \in m .. n : \E d \in FoundAt(all[k], path) : Alike(d, e)

\* What backup n of all records for an entry that it finds: a file is as the first of the backups
\* read it that from then on all found one like it at this path.
AsRead(all, n, path, e) ==
    IF e.type # "file" THEN {e}
    ELSE UNION {{d \in FoundAt(all[m], path) : Alike(d, e)} :
                  m \in {i \in 1 .. n : /\ Unbroken(all, i, n, path, e)
                                        /\ i = 1 \/ ~Unbroken(all, i - 1, n, path, e)}}

\* What restore makes of an entry: the times of directories and links are not kept.
AsRestored(entry) == IF entry.type = "file" THEN entry ELSE [entry EXCEPT !.mtime = 0]

\* Every snapshot that holds anything, restored whole into an empty directory, gives back every tree
\* that it was made of: what is there, the directories with their permissions, also where they admit
\* no writing (restore.go:118), the links, and of every file its size and time.  The contents and the
\* permissions of a file are those with which it was read, by this backup or, when it was carried
\* over (snapshot.go:100), by the first of those that carried it; they come through the two tables
\* in their order (manifest.go:221, manifest.go:391).
RestoredWhole == \A n \in DOMAIN snaps :
    LET snap == snaps[n]
        dest == Restored(snap, <<>>) IN
    /\ dest.failed => \A i \in DOMAIN snap.roots : Held(snap, i) = {}
    /\ DOMAIN dest.tree = UNION {{PathIn(snap, i, p) : p \in Held(snap, i)} : i \in DOMAIN snap.roots}
    /\ \A i \in DOMAIN snap.roots : \A p \in Held(snap, i) :
         \E e \in AsRead(snaps, n, PathIn(snap, i, p), snap.was[p]) :
           dest.tree[PathIn(snap, i, p)] = AsRestored(e)

\* path.go:11: whoever gives the absolute path of something under a source that was itself given as
\* an absolute path gets that and what is under it, and nothing else.
PathsFound == \A snap \in Snapshots : \A i \in DOMAIN snap.sources : \A u \in Held(snap, i) :
    snap.sources[i].absolute =>
        LET nodes == Selected(snap, StoredPath(snap, u)) IN
        /\ DOMAIN nodes # {}
        /\ \A j \in {k \in DOMAIN snap.sources : Matches(u, snap.sources[k])} :
            (\A k \in 1 .. j - 1 : ~Matches(u, snap.sources[k])) =>
                {nodes[k].path : k \in DOMAIN nodes} =
                {PathIn(snap, j, p) : p \in {q \in Held(snap, j) : Under(u, q)}}

\* docs/how-it-works.md:404, "Restore a single file as it was at a named event": a false claim, for a
\* file that got only other permissions, or was replaced by another of its size and time, is carried
\* over as the parent has it (snapshot.go:100).
RestoredAsItWas == \A snap \in Snapshots :
    LET dest == Restored(snap, <<>>) IN
    \A i \in DOMAIN snap.roots : \A p \in Held(snap, i) :
        dest.tree[PathIn(snap, i, p)] = AsRestored(snap.was[p])

\* path.go:11, "A user naturally refers to files by the absolute path they backed up": a false claim,
\* for the sources are recorded as they were given (snapshot.go:227), and those that are not absolute
\* are passed over (path.go:27).
AllPathsFound == \A snap \in Snapshots : \A i \in DOMAIN snap.roots : \A u \in Held(snap, i) :
    DOMAIN Selected(snap, StoredPath(snap, u)) # {}
=============================================================================
