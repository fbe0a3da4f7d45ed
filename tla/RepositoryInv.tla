---------------------------- MODULE RepositoryInv ----------------------------
(***************************************************************************)
(* The inductive invariant of Repository under a disciplined schedule: why *)
(* no interleaving and no crash loses a chunk that a snapshot needs.       *)
(***************************************************************************)
EXTENDS Repository

\* The chunks some chunk manifest has an entry for.
Indexed == UNION {DOMAIN chunkMan[k] : k \in DOMAIN chunkMan}

Refs(s) == ChunksOf(nodeChunks[s])

-----------------------------------------------------------------------------
\* What the schedule keeps apart.
Exclusion ==
    /\ RunningBackups # {} => RunningCompactions = {} /\ RunningForgets = {}
    /\ \A c, d \in RunningCompactions : c = d

\* Every entry of every manifest is true, also those that a later key overrides.
EntriesSound ==
    \A k \in DOMAIN chunkMan : \A x \in DOMAIN chunkMan[k] : BlobStored(chunkMan[k][x], x)

SnapshotsComplete ==
    \A s \in records :
        /\ s \in DOMAIN nodes
        /\ s \in DOMAIN nodeChunks
        /\ nodeChunks[s] = nodes[s]
        /\ Refs(s) \subseteq Indexed

\* The packs being filled are not in the store, and each is filled by one run.
OpenPacks ==
    /\ \A b \in Backups : backup[b].open \notin DOMAIN packs
    /\ \A c \in Compactors : compact[c].open \notin DOMAIN packs
    /\ \A b, d \in Backups : b # d /\ backup[b].open # NoPack => backup[b].open # backup[d].open

-----------------------------------------------------------------------------
(* One run of backup. *)

\* A chunk the run has packed is in the buffer, or in a pack in the store.
PackedOrBuffered(assigned, open) ==
    \A x \in DOMAIN assigned : assigned[x] = open \/ BlobStored(assigned[x], x)

Writing == {"putNodes", "putNodeChunks", "putChunks", "putPacks", "putRecord"}

\* The parent is a recorded snapshot, and what is read of it is its tree.
ParentInv(b) == LET r == backup[b] IN
    /\ r.pc \in {"nodes", "nodeChunks"} => r.parentID \in records
    /\ r.pc = "nodeChunks" =>
         /\ DOMAIN r.parent = DOMAIN nodes[r.parentID]
         /\ \A p \in DOMAIN r.parent : r.parent[p].hash = nodes[r.parentID][p]
    /\ r.pc \in {"list", "index", "walk"} =>
         \A p \in DOMAIN r.parent :
            /\ r.parent[p].chunks = r.parent[p].hash
            /\ ToSet(r.parent[p].chunks) \subseteq Indexed

\* The tree made so far needs only chunks that are indexed, that the run packed, or
\* that it is about to look up.
TreeInv(b) == LET r == backup[b] IN
    /\ r.live \subseteq Indexed \cup DOMAIN r.new
    /\ r.pc # "walk" => r.rest = <<>>
    /\ \A p \in DOMAIN r.tree :
         /\ r.tree[p].chunks = r.tree[p].hash
         /\ ToSet(r.tree[p].chunks) \subseteq Indexed \cup DOMAIN r.new \cup ToSet(r.rest)

\* The manifests already written are those of the tree, under an identifier that is
\* the run's own and not yet recorded.
WriteInv(b) == LET r == backup[b] IN
    /\ r.pc \in Writing => r.open = NoPack /\ r.id \notin records /\ r.id \in SnapIds
    /\ r.pc \notin Writing => r.id = NoSnap
    /\ r.pc \in {"putNodes", "putNodeChunks", "putChunks"} => r.id \notin DOMAIN chunkMan
    /\ r.pc \in {"putNodeChunks", "putChunks", "putPacks", "putRecord"} =>
         /\ r.id \in DOMAIN nodes
         /\ nodes[r.id] = [p \in DOMAIN r.tree |-> r.tree[p].hash]
    /\ r.pc \in {"putChunks", "putPacks", "putRecord"} =>
         /\ r.id \in DOMAIN nodeChunks
         /\ nodeChunks[r.id] = [p \in DOMAIN r.tree |-> r.tree[p].chunks]
    /\ r.pc \in {"putPacks", "putRecord"} => DOMAIN r.new \subseteq Indexed

BackupRunInv(b) ==
    /\ BackupAt(b, "idle") => backup[b] = BackupIdle
    /\ PackedOrBuffered(backup[b].new, backup[b].open)
    /\ ParentInv(b)
    /\ TreeInv(b)
    /\ WriteInv(b)

BackupInv ==
    /\ \A b \in Backups : BackupRunInv(b)
    /\ \A b, d \in Backups : b # d /\ backup[b].id # NoSnap => backup[b].id # backup[d].id

-----------------------------------------------------------------------------
(* One run of compaction. *)

Deciding == {"packIndex", "relocate", "listChunks", "listPacks", "putChunks"}
Replaced == {"putPacks", "dropChunks", "dropPacks", "dropDead", "dropCandidates"}

\* No snapshot that is still recorded has been overlooked.
LiveInv(c) == LET r == compact[c] IN
    r.pc # "idle" =>
        /\ \A s \in records : s \in r.unread \/ Refs(s) \subseteq r.live
        /\ r.pc \notin {"nodes", "nodeChunks"} => r.unread = {}

\* Until it is replaced, the index read is the whole index and every entry is true.
IndexInv(c) == LET r == compact[c] IN
    /\ r.pc = "index" => IndexListed /\ Indexed \subseteq DOMAIN r.idx \cup DOMAIN chunkMan[Index]
    /\ r.pc \in Deciding => Indexed \subseteq DOMAIN r.idx
    /\ r.pc \in Deciding \cup {"index"} => \A x \in DOMAIN r.idx : BlobStored(r.idx[x], x)

\* Relocated chunks are in fresh packs, and once the packer is flushed no live chunk
\* of a candidate pack is left behind.
MovedInv(c) == LET r == compact[c] IN
    /\ PackedOrBuffered(r.moved, r.open)
    /\ \A x \in DOMAIN r.moved : r.moved[x] \notin Range(r.idx)
    /\ r.open \notin Range(r.idx)
    /\ r.pc \in (Deciding \cup Replaced) \ {"packIndex", "relocate"} => ToMove(c) = {} /\ r.open = NoPack
    /\ r.pc \notin (Deciding \cup Replaced) \ {"packIndex"} => r.moved = <<>> /\ r.open = NoPack

\* The new index names all that is live and no pack out of use; packs are deleted
\* when it is the only manifest left.
ReplaceInv(c) == LET r == compact[c] IN
    /\ r.pc \in Replaced =>
         /\ IndexListed
         /\ chunkMan[Index] = NewChunks(c)
         /\ \A s \in records : Refs(s) \subseteq DOMAIN NewChunks(c)
    /\ Index \notin r.oldChunks
    /\ r.pc \in {"listPacks", "putChunks", "putPacks", "dropChunks"} =>
         DOMAIN chunkMan \subseteq r.oldChunks \cup {Index}
    /\ r.pc \in {"dropPacks", "dropDead", "dropCandidates"} => DOMAIN chunkMan \subseteq {Index}
    /\ r.doomed \subseteq Dead(c) \cup Candidates(c)
    /\ r.pc \notin {"dropDead", "dropCandidates"} => r.doomed = {}

CompactRunInv(c) ==
    /\ CompactAt(c, "idle") => compact[c] = CompactIdle
    /\ LiveInv(c)
    /\ IndexInv(c)
    /\ MovedInv(c)
    /\ ReplaceInv(c)

CompactInv == \A c \in Compactors : CompactRunInv(c)

-----------------------------------------------------------------------------
\* A forget removes the trees of a snapshot when its record is gone.
ForgetInv == \A f \in Forgetters : ForgetAt(f, "nodes") \/ ForgetAt(f, "nodeChunks") => forget[f].id \notin records

\* Everything the safety of the repository rests on, in one inductive invariant.
Inv ==
    /\ TypeOK
    /\ Exclusion
    /\ EntriesSound
    /\ SnapshotsComplete
    /\ OpenPacks
    /\ BackupInv
    /\ CompactInv
    /\ ForgetInv
=============================================================================
