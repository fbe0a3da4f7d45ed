-------------------------------- MODULE Lens --------------------------------
(***************************************************************************)
(* zeaback query: the views over the manifest files, which DuckDB reads as *)
(* they are (query_duckdb.go), beside what the program makes of them.      *)
(***************************************************************************)
EXTENDS RepositoryInv

\* The rows of the views: a row of each file for each entry in it.
NodesView == UNION {[snap : {s}, path : DOMAIN nodes[s]] : s \in DOMAIN nodes}
ChunksView == UNION {[file : {k}, hash : DOMAIN chunkMan[k]] : k \in DOMAIN chunkMan}
PacksView == UNION {[file : {k}, pack : packMan[k]] : k \in DOMAIN packMan}

\* No command fails, or is killed, between the first and the last of what it writes to the
\* manifests, or deletes of them.
Unbroken ==
    /\ \A b \in Backups : FailBackup(b) => backup[b].pc \notin Writing \ {"putNodes"}
    /\ \A c \in Compactors : FailCompact(c) => compact[c].pc \notin {"putPacks", "dropChunks", "dropPacks"}
    /\ \A f \in Forgetters : FailForget(f) => ~ForgetAt(f, "nodes")

UnbrokenSpec == Init /\ [][Next /\ Unbroken]_vars

AtRest == RunningBackups = {} /\ RunningCompactions = {} /\ RunningForgets = {}

\* What how-it-works.md:246 counts with SELECT count(*) FROM chunks is the unique storage that the
\* repository holds: at rest a chunk of the index has one row, and a pack has one.  And nodes are
\* shown of nothing but snapshots.
ViewsCount == AtRest =>
    /\ Cardinality(ChunksView) = Cardinality(DOMAIN ChunkIndex)
    /\ Cardinality(PacksView) = Cardinality(PackIndex)
    /\ {row.snap : row \in NodesView} \subseteq records

-----------------------------------------------------------------------------
(* Why: what is true of the manifests while commands run. *)

\* The sets that the files of m have in common with each other are empty.
Apart(m) == \A j, k \in DOMAIN m : j # k => m[j] \cap m[k] = {}

Replacing(c, pcs) == compact[c].pc \in pcs

\* Nodes are those of a snapshot, or of one that a backup is making or a forget deleting.
NodesOwned == \A s \in DOMAIN nodes :
    \/ s \in records
    \/ \E b \in Backups : backup[b].pc \in Writing \ {"putNodes"} /\ backup[b].id = s
    \/ \E f \in Forgetters : ForgetAt(f, "nodes") /\ forget[f].id = s

\* Two files list one chunk, or one pack, only while a compaction replaces all by one.
ChunksApart ==
    (\A c \in Compactors : ~Replacing(c, {"putPacks", "dropChunks"})) => Apart([k \in DOMAIN chunkMan |-> DOMAIN chunkMan[k]])
PacksApart ==
    (\A c \in Compactors : ~Replacing(c, {"dropChunks", "dropPacks"})) => Apart(packMan)

\* The files of packs that a compaction has listed are all there are beside the one it puts.
OldPacksListed == \A c \in Compactors :
    Replacing(c, {"putChunks", "putPacks", "dropChunks", "dropPacks"}) =>
        DOMAIN packMan \subseteq compact[c].oldPacks \cup {Index}

\* Until a backup lists its packs, nobody has.
NewPacksUnlisted == \A b \in Backups :
    backup[b].pc # "putRecord" => (Range(backup[b].new) \cup {backup[b].open}) \cap PackIndex = {}

LensInv == NodesOwned /\ ChunksApart /\ PacksApart /\ OldPacksListed /\ NewPacksUnlisted
=============================================================================
