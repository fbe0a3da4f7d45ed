------------------------------- MODULE Restore -------------------------------
(***************************************************************************)
(* zeaback restore: restore.Run by the processes in Restorers, each into a *)
(* destination of its own, which keeps the files and the symlinks that     *)
(* earlier runs left in it.                                                *)
(***************************************************************************)
EXTENDS ObjectStore

CONSTANTS
    Restorers,  \* the processes that run zeaback restore, each any number of times
    Selections  \* what a path prefix may match: sets of stored paths

ASSUME SelectionsAssumption == Selections \subseteq SUBSET Paths

VARIABLES
    restore,    \* what each run holds in memory
    dest,       \* the files of each destination: path |-> the chunks in it
    links       \* its symlinks to places in it: path |-> where the link leads

\* A run's destination.
destination == <<dest, links>>

\* pc        the next call;
\* id        the snapshot resolved;
\* tree      its file nodes by path;
\* idx       the chunk index as read;
\* selected  the files of it that the prefix matches;
\* todo      the paths that the prefix matches and that are not yet begun;
\* file      the place being written, rest the chunks still to be written to it.
RestoreIdle ==
    [pc |-> "idle", id |-> NoSnap, tree |-> <<>>, idx |-> <<>>, selected |-> {},
     todo |-> {}, file |-> {}, rest |-> <<>>]

RestorePCs == {"idle", "nodes", "nodeChunks", "list", "index", "select", "files", "write"}

RestoreFields == {"pc", "id", "tree", "idx", "selected", "todo", "file", "rest"}

RestoreAt(r, pc) == restore[r].pc = pc

InitRestore ==
    /\ restore = [r \in Restorers |-> RestoreIdle]
    /\ dest = [r \in Restorers |-> <<>>]
    /\ links = [r \in Restorers |-> <<>>]

-----------------------------------------------------------------------------
(* Reading the catalog. *)

\* LoadSnapshots, and Resolve with any selector that finds s.
ResolveRestore(r, s) ==
    /\ RestoreAt(r, "idle")
    /\ s \in records
    /\ restore' = [restore EXCEPT ![r].pc = "nodes", ![r].id = s]
    /\ UNCHANGED destination

\* The two reads of LoadNodes.
RestoreNodes(r) ==
    LET s == restore[r].id IN
    /\ RestoreAt(r, "nodes")
    /\ s \in DOMAIN nodes
    /\ restore' = [restore EXCEPT ![r].pc = "nodeChunks",
                     ![r].tree = [p \in DOMAIN nodes[s] |-> [hash |-> nodes[s][p], chunks |-> <<>>]]]
    /\ UNCHANGED destination

RestoreNodeChunks(r) ==
    LET lists == LoadedNodeChunks(restore[r].id)
        found == restore[r].tree
    IN
    /\ RestoreAt(r, "nodeChunks")
    /\ restore' = [restore EXCEPT ![r].pc = "list",
                     ![r].tree = [p \in DOMAIN found |->
                                    [hash |-> found[p].hash, chunks |-> ChunkList(lists, p)]]]
    /\ UNCHANGED destination

\* LoadChunkIndex.
RestoreListIndex(r) ==
    /\ RestoreAt(r, "list")
    /\ restore' = [restore EXCEPT ![r].pc = IF IndexListed THEN "index" ELSE "select",
                                  ![r].idx = MergeManifests(ListedManifests)]
    /\ UNCHANGED destination

RestoreReadIndex(r) ==
    /\ RestoreAt(r, "index")
    /\ IndexListed
    /\ restore' = [restore EXCEPT ![r].pc = "select", ![r].idx = WithIndexFile(@)]
    /\ UNCHANGED destination

\* The prefix matches some nodes.  What stands in the snapshot at a path that is none of
\* its files is left open: a symlink, a directory, or nothing.
SelectNodes(r, prefix) ==
    /\ RestoreAt(r, "select")
    /\ restore' = [restore EXCEPT ![r].pc = "files",
                                  ![r].selected = prefix \cap DOMAIN restore[r].tree,
                                  ![r].todo = prefix]
    /\ UNCHANGED destination

-----------------------------------------------------------------------------
(* Writing the files, one after the other. *)

\* Where opening path p leads: a symlink that stands there is followed.
PlaceOf(r, p) == IF p \in DOMAIN links[r] THEN links[r][p] ELSE p

\* restoreFile begins with p, and what it writes goes to place.
BeginFile(r, p, place, content) ==
    /\ RestoreAt(r, "files")
    /\ p \in restore[r].todo \cap DOMAIN restore[r].tree
    /\ dest' = [dest EXCEPT ![r] = Put(@, place, content)]
    /\ restore' = [restore EXCEPT ![r].pc = "write", ![r].todo = @ \ {p}, ![r].file = {place},
                                  ![r].rest = restore[r].tree[p].chunks]
    /\ UNCHANGED links

\* A mistake: the file is opened without being truncated, and appended to.
CreateFileAppending(r, p) ==
    LET place == PlaceOf(r, p) IN
    /\ place \notin DOMAIN links[r]
    /\ BeginFile(r, p, place, ChunkList(dest[r], place))

\* A mistake: a file that is there already is taken as restored.
CreateFileUnlessThere(r, p) ==
    \/ /\ p \in DOMAIN dest[r] /\ RestoreAt(r, "files")
       /\ p \in restore[r].todo \cap DOMAIN restore[r].tree
       /\ restore' = [restore EXCEPT ![r].todo = @ \ {p}]
       /\ UNCHANGED destination
    \/ /\ p \notin DOMAIN dest[r] /\ PlaceOf(r, p) \notin DOMAIN links[r]
       /\ BeginFile(r, p, PlaceOf(r, p), <<>>)

\* os.Create truncates what it opens.  The files are taken in path order, which the
\* model leaves open; a link that leads to another link is left out.
CreateFile(r, p) ==
    LET place == PlaceOf(r, p) IN
    /\ place \notin DOMAIN links[r]
    /\ BeginFile(r, p, place, <<>>)

\* What the snapshot has at p is a symlink to q: what stands at p is removed first, a
\* file or an older link.
RestoreLink(r, p, q) ==
    /\ RestoreAt(r, "files")
    /\ p \in restore[r].todo \ DOMAIN restore[r].tree
    /\ dest' = [dest EXCEPT ![r] = Delete(@, p)]
    /\ links' = [links EXCEPT ![r] = Put(@, p, q)]
    /\ restore' = [restore EXCEPT ![r].todo = @ \ {p}]

\* The next chunk is in the index and ReadBlob returns it; it is written.
WriteChunk(r) ==
    LET x == Head(restore[r].rest)
        idx == restore[r].idx
    IN
    /\ RestoreAt(r, "write")
    /\ restore[r].rest # <<>>
    /\ x \in DOMAIN idx /\ BlobReadable(idx[x], x)
    /\ dest' = [dest EXCEPT ![r] = [p \in DOMAIN @ |->
                  IF p \in restore[r].file THEN Append(@[p], x) ELSE @[p]]]
    /\ restore' = [restore EXCEPT ![r].rest = Tail(@)]
    /\ UNCHANGED links

CloseFile(r) ==
    /\ RestoreAt(r, "write")
    /\ restore[r].rest = <<>>
    /\ restore' = [restore EXCEPT ![r].pc = "files", ![r].file = {}]
    /\ UNCHANGED destination

\* Run returns without an error: no file is left to do.
FinishRestore(r) ==
    /\ RestoreAt(r, "files")
    /\ restore[r].todo \cap DOMAIN restore[r].tree = {}
    /\ restore' = [restore EXCEPT ![r] = RestoreIdle]
    /\ UNCHANGED destination

\* Run returns an error or dies: nothing matches, a manifest or a chunk is missing, a
\* blob does not hash to its identifier, a write fails.  What is written stays.
FailRestore(r) ==
    /\ ~RestoreAt(r, "idle")
    /\ restore' = [restore EXCEPT ![r] = RestoreIdle]
    /\ UNCHANGED destination

\* Every step of a run but the first.
RestoreStep(r) ==
    \/ RestoreNodes(r) \/ RestoreNodeChunks(r) \/ RestoreListIndex(r) \/ RestoreReadIndex(r)
    \/ \E prefix \in Selections : SelectNodes(r, prefix)
    \/ \E p \in Paths : CreateFile(r, p)
    \/ \E p, q \in Paths : RestoreLink(r, p, q)
    \/ WriteChunk(r) \/ CloseFile(r) \/ FinishRestore(r) \/ FailRestore(r)

RestoreTypeOK ==
    /\ DOMAIN restore = Restorers /\ DOMAIN dest = Restorers /\ DOMAIN links = Restorers
    /\ \A r \in Restorers : LET run == restore[r] IN
        /\ DOMAIN run = RestoreFields
        /\ run.pc \in RestorePCs
        /\ run.id \in usedSnaps \cup {NoSnap}
        /\ IsPartial(run.tree, Paths, [hash : Contents, chunks : Seq(Chunks)])
        /\ IsPartial(run.idx, Chunks, usedPacks)
        /\ run.todo \subseteq Paths /\ run.selected \subseteq DOMAIN run.tree
        /\ run.file \subseteq Paths
        /\ run.rest \in Seq(Chunks)
        /\ IsPartial(dest[r], Paths, Seq(Chunks))
        /\ IsPartial(links[r], Paths, Paths)
=============================================================================
