----------------------------- MODULE Repository -----------------------------
(***************************************************************************)
(* One repository and the zeaback processes that work on it: backups,      *)
(* compactions and forgets, interleaved step by step, any of which may     *)
(* fail or be killed between two operations on the store.                  *)
(*                                                                         *)
(* Nothing in zeaback keeps two processes apart.  Whether an operator does *)
(* (a schedule, a lock around the command) is the constant Conflicts: the  *)
(* sets {k1, k2} of kinds of commands that are never run at the same time. *)
(* Conflicts = {} is the program on its own.                               *)
(***************************************************************************)
EXTENDS Backup, Compact, Forget

CONSTANT Conflicts

ASSUME ConflictsAssumption == Conflicts \subseteq SUBSET {"backup", "compact", "forget"}

vars == <<store, decayed, backup, compact, forget>>

RunningBackups == {b \in Backups : ~BackupAt(b, "idle")}
RunningCompactions == {c \in Compactors : ~CompactAt(c, "idle")}
RunningForgets == {f \in Forgetters : ~ForgetAt(f, "idle")}

\* The operator lets a command of this kind start beside those running.
Admit(kind) ==
    /\ RunningBackups # {} => {kind, "backup"} \notin Conflicts
    /\ RunningCompactions # {} => {kind, "compact"} \notin Conflicts
    /\ RunningForgets # {} => {kind, "forget"} \notin Conflicts

StartBackup(b) == Admit("backup") /\ LoadParent(b)
StartCompact(c) == Admit("compact") /\ ListSnapshots(c)
StartForget(f) == Admit("forget") /\ \E s \in SnapIds : ResolveForget(f, s)

-----------------------------------------------------------------------------
Init ==
    /\ InitStore
    /\ InitBackup
    /\ InitCompact
    /\ InitForget

NextBackup == \E b \in Backups : StartBackup(b) \/ BackupStep(b)
NextCompact == \E c \in Compactors : StartCompact(c) \/ CompactStep(c)
NextForget == \E f \in Forgetters : StartForget(f) \/ ForgetStep(f)

Next ==
    \/ NextBackup /\ UNCHANGED <<compact, forget, decayed>>
    \/ NextCompact /\ UNCHANGED <<backup, forget, decayed>>
    \/ NextForget /\ UNCHANGED <<backup, compact, decayed>>

Spec == Init /\ [][Next]_vars

\* The state is what its variables are meant to be, in every module.
TypeOK == StoreTypeOK /\ BackupTypeOK /\ CompactTypeOK /\ ForgetTypeOK

-----------------------------------------------------------------------------
(* What an operator may rely on when compaction runs alone among writers,  *)
(* and no snapshot is forgotten while a backup reads it as its parent.     *)

Disciplined == {{"compact"}, {"compact", "backup"}, {"backup", "forget"}} \subseteq Conflicts

\* Whatever the chunk index says of a chunk is true of the packs: compaction
\* (compact.go:180) repoints the index before it deletes a pack, at every crash.
IndexSound == \A c \in DOMAIN ChunkIndex : BlobReadable(ChunkIndex[c], c)

\* A snapshot that can be discovered is complete (snapshot.go:234): its trees are
\* there, and every chunk they refer to is in the index and in the pack it names.
Restorable ==
    \A s \in records :
        /\ s \in DOMAIN nodes \cap DOMAIN nodeChunks
        /\ \A c \in ChunksOf(nodeChunks[s]) :
              c \in DOMAIN ChunkIndex /\ BlobReadable(ChunkIndex[c], c)

\* The chunk list a reader attaches to each file of a snapshot (LoadNodes) is the
\* one whose hashes its content hash was made of.
Intact ==
    \A s \in records \cap DOMAIN nodes : \A p \in DOMAIN nodes[s] :
        ChunkList(LoadedNodeChunks(s), p) = nodes[s][p]

\* The trees of a snapshot that can be discovered are there, however commands are
\* interleaved: LoadNodes reads a missing chunk-list manifest as empty files
\* (manifest.go:461), so it must never be missing while the record exists.
TreesPresent == \A s \in records : s \in DOMAIN nodes /\ s \in DOMAIN nodeChunks

-----------------------------------------------------------------------------
(* What compaction and deduplication achieve. *)

LiveChunks == UNION {ChunksOf(LoadedNodeChunks(s)) : s \in records}

\* Run returns without an error: at its end, or early with nothing to reclaim.
Returns(c) == FinishCompact(c) \/ (FlushRelocated(c) /\ compact'[c] = CompactIdle)

\* When a compaction returns, every pack the index names holds a live fraction of at
\* least the threshold (compact.go:100), and so none is dead, unless snapshots were
\* forgotten since it listed them.
CompactionTight ==
    [][\A c \in Compactors :
         Returns(c) /\ compact[c].live = LiveChunks =>
            \A k \in Range(ChunkIndex) :
               LET held == {x \in DOMAIN ChunkIndex : ChunkIndex[x] = k}
               IN  100 * Cardinality(held \cap LiveChunks) >= Threshold * Cardinality(held)]_vars

\* A backup that runs beside no other stores no chunk again that the index has
\* (README.md:11), whether a snapshot's or the consolidated manifest lists it.
OnlyNewChunks ==
    [][\A b \in Backups : WriteChunks(b) => DOMAIN backup[b].new \cap DOMAIN ChunkIndex = {}]_vars

\* What how-it-works.md:278 says of the garbage a crash leaves, that compaction later
\* reclaims it, and which does not hold of packs that no manifest names: every pack left
\* by a compaction that reaches its end holds a chunk of the index in the place the index
\* names.
GarbageReclaimed ==
    [][\A c \in Compactors : FinishCompact(c) => DOMAIN packs \subseteq Range(ChunkIndex)]_vars

\* What how-it-works.md:168 says of every object, and does not hold of index.parquet: never
\* rewritten in place.
NeverRewritten ==
    [][/\ \A k \in DOMAIN packs \cap DOMAIN packs' : packs'[k] = packs[k]
       /\ \A k \in DOMAIN chunkMan \cap DOMAIN chunkMan' : chunkMan'[k] = chunkMan[k]
       /\ \A k \in DOMAIN packMan \cap DOMAIN packMan' : packMan'[k] = packMan[k]]_vars

\* What how-it-works.md:189 says of the pack index, one row per pack, and which does not hold
\* after a crash between the two manifests: a pack that a snapshot needs has one.
PacksListed ==
    \A s \in records : \A c \in ChunksOf(LoadedNodeChunks(s)) :
        c \in DOMAIN ChunkIndex => ChunkIndex[c] \in PackIndex

-----------------------------------------------------------------------------
(* The abstract archive. *)

\* What a restore that fails yields: neither a content nor a tree.
RestoreError == NoSnap

\* The chunks on the list of file p of snapshot s can all be read.
FileReadable(s, p) ==
    \A c \in ToSet(ChunkList(LoadedNodeChunks(s), p)) :
        c \in DOMAIN ChunkIndex /\ BlobReadable(ChunkIndex[c], c)

\* What restoring it yields: the content, or an error.
RestoredFile(s, p) == IF FileReadable(s, p) THEN ChunkList(LoadedNodeChunks(s), p) ELSE RestoreError

RestoredTree(s) ==
    IF s \in DOMAIN nodes THEN [p \in DOMAIN nodes[s] |-> RestoredFile(s, p)] ELSE RestoreError

ArchiveView == INSTANCE Archive WITH archive <- [s \in records |-> RestoredTree(s)]

\* To whoever restores, the repository is an archive of immutable trees.
ArchiveSpec == ArchiveView!Spec
=============================================================================
