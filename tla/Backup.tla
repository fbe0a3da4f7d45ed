------------------------------- MODULE Backup -------------------------------
(***************************************************************************)
(* zeaback backup: snapshot.Create run by the processes in Backups, one    *)
(* operation on the store per step.  What the walk finds in the source is  *)
(* left open: any of the stored paths, each with any content.              *)
(***************************************************************************)
EXTENDS ObjectStore

CONSTANT Backups    \* the processes that run zeaback backup, each any number of times

VARIABLE backup     \* what each run holds in memory

\* pc        the next call;
\* parentID  the parent snapshot, parent its file nodes by path (parentNodes);
\* live      the chunks of the live index (li.present);
\* tree      the file nodes made so far;
\* rest      the chunks still to be cut from the file being read;
\* new       newChunks: chunk |-> pack;
\* open      the packer's current pack, whose buffer is {c : new[c] = open};
\* id        the snapshot's identifier, once drawn.
BackupIdle ==
    [pc |-> "idle", parentID |-> NoSnap, parent |-> <<>>, live |-> {}, tree |-> <<>>,
     rest |-> <<>>, new |-> <<>>, open |-> NoPack, id |-> NoSnap]

BackupPCs == {"idle", "nodes", "nodeChunks", "list", "index", "walk", "putNodes",
              "putNodeChunks", "putChunks", "putPacks", "putRecord"}

InitBackup == backup = [b \in Backups |-> BackupIdle]

BackupAt(b, pc) == backup[b].pc = pc

-----------------------------------------------------------------------------
(* Reading the catalog. *)

\* LoadSnapshots: the parent is the latest snapshot, whatever it is of.
LoadParent(b) ==
    /\ BackupAt(b, "idle")
    /\ FreshSnaps # {}  \* a bound: no run starts that could not draw an identifier
    /\ backup' = IF records = {}
                   THEN [backup EXCEPT ![b].pc = "list"]
                   ELSE [backup EXCEPT ![b].pc = "nodes", ![b].parentID = Max(records)]
    /\ UNCHANGED store

\* The two reads of LoadNodes on the parent.
LoadParentNodes(b) ==
    LET s == backup[b].parentID IN
    /\ BackupAt(b, "nodes")
    /\ s \in DOMAIN nodes
    /\ backup' = [backup EXCEPT ![b].pc = "nodeChunks",
                    ![b].parent = [p \in DOMAIN nodes[s] |-> [hash |-> nodes[s][p], chunks |-> <<>>]]]
    /\ UNCHANGED store

\* A mistake: the chunk lists are not reattached.
LoadParentChunksDetached(b) ==
    /\ BackupAt(b, "nodeChunks")
    /\ backup' = [backup EXCEPT ![b].pc = "list"]
    /\ UNCHANGED store

LoadParentChunks(b) ==
    LET lists == LoadedNodeChunks(backup[b].parentID)
        pn == backup[b].parent
    IN
    /\ BackupAt(b, "nodeChunks")
    /\ backup' = [backup EXCEPT ![b].pc = "list",
                    ![b].parent = [p \in DOMAIN pn |->
                                     [hash |-> pn[p].hash, chunks |-> ChunkList(lists, p)]]]
    /\ UNCHANGED store

\* A mistake: the consolidated manifest is not read.
ListLiveIndexPartly(b) ==
    /\ BackupAt(b, "list")
    /\ backup' = [backup EXCEPT ![b].pc = "walk", ![b].live = DOMAIN MergeManifests(ListedManifests)]
    /\ UNCHANGED store

\* LoadLiveIndex, in the two steps of LoadChunkIndex.
ListLiveIndex(b) ==
    /\ BackupAt(b, "list")
    /\ backup' = [backup EXCEPT ![b].pc = IF IndexListed THEN "index" ELSE "walk",
                                ![b].live = DOMAIN MergeManifests(ListedManifests)]
    /\ UNCHANGED store

ReadLiveIndex(b) ==
    /\ BackupAt(b, "index")
    /\ IndexListed
    /\ backup' = [backup EXCEPT ![b].pc = "walk",
                                ![b].live = @ \cup DOMAIN chunkMan[Index]]
    /\ UNCHANGED store

-----------------------------------------------------------------------------
(* The walk over the source. *)

Walking(b) == BackupAt(b, "walk") /\ backup[b].rest = <<>>
Cutting(b) == BackupAt(b, "walk") /\ backup[b].rest # <<>>

\* addFile, fast path: size and mtime are those of the parent's node, which is
\* carried over with its chunk list, unread.
CarryFile(b, p) ==
    /\ Walking(b)
    /\ p \in DOMAIN backup[b].parent \ DOMAIN backup[b].tree
    /\ backup' = [backup EXCEPT ![b].tree = Put(@, p, backup[b].parent[p])]
    /\ UNCHANGED store

\* addFile on a file that holds x: it is opened, and chunked by the steps below.
OpenFile(b, p, x) ==
    /\ Walking(b)
    /\ p \notin DOMAIN backup[b].tree
    /\ backup' = [backup EXCEPT ![b].tree = Put(@, p, [hash |-> x, chunks |-> x]),
                                ![b].rest = x]
    /\ UNCHANGED store

ReuseChunk(b) ==
    /\ Cutting(b)
    /\ Head(backup[b].rest) \in backup[b].live
    /\ backup' = [backup EXCEPT ![b].rest = Tail(@)]
    /\ UNCHANGED store

\* The chunks with a pack in assignment f that is k: what the buffer of pack k holds.
Buffered(f, k) == {c \in DOMAIN f : f[c] = k}

\* packer.Add for a chunk that is not known; the pack reaches its target size
\* with it (full) and is flushed, or stays open.
AddChunk(b, k, full) ==
    LET c == Head(backup[b].rest)
        assigned == Put(backup[b].new, c, k)
    IN
    /\ Cutting(b)
    /\ c \notin backup[b].live
    /\ IF backup[b].open = NoPack THEN k \in FreshPacks ELSE k = backup[b].open
    /\ packs' = IF full THEN Put(packs, k, Buffered(assigned, k)) ELSE packs
    /\ usedPacks' = usedPacks \cup {k}
    /\ backup' = [backup EXCEPT ![b].rest = Tail(@),
                                ![b].live = @ \cup {c},
                                ![b].new = assigned,
                                ![b].open = IF full THEN NoPack ELSE k]
    /\ UNCHANGED <<nodes, nodeChunks, chunkMan, packMan, records, usedSnaps>>

-----------------------------------------------------------------------------
(* Writing the snapshot: its data, its manifests, and its record last. *)

\* packer.Flush, and the snapshot gets its identifier.  The parent's nodes and the
\* live index are not looked at again.
FlushBackup(b, s) ==
    LET k == backup[b].open IN
    /\ Walking(b)
    /\ s \in FreshSnaps
    /\ packs' = IF k = NoPack THEN packs ELSE Put(packs, k, Buffered(backup[b].new, k))
    /\ usedSnaps' = usedSnaps \cup {s}
    /\ backup' = [backup EXCEPT ![b].pc = "putNodes", ![b].open = NoPack, ![b].id = s,
                                ![b].parent = <<>>, ![b].live = {}]
    /\ UNCHANGED <<nodes, nodeChunks, chunkMan, packMan, records, usedPacks>>

\* A mistake: the chunk lists are not written.
WriteNodesOnly(b) ==
    LET tree == backup[b].tree IN
    /\ BackupAt(b, "putNodes")
    /\ nodes' = Put(nodes, backup[b].id, [p \in DOMAIN tree |-> tree[p].hash])
    /\ backup' = [backup EXCEPT ![b].pc = "putChunks"]
    /\ UNCHANGED <<packs, nodeChunks, chunkMan, packMan, records, usedPacks, usedSnaps>>

WriteNodes(b) ==
    LET tree == backup[b].tree IN
    /\ BackupAt(b, "putNodes")
    /\ nodes' = Put(nodes, backup[b].id, [p \in DOMAIN tree |-> tree[p].hash])
    /\ backup' = [backup EXCEPT ![b].pc = "putNodeChunks"]
    /\ UNCHANGED <<packs, nodeChunks, chunkMan, packMan, records, usedPacks, usedSnaps>>

WriteNodeChunks(b) ==
    LET tree == backup[b].tree IN
    /\ BackupAt(b, "putNodeChunks")
    /\ nodeChunks' = Put(nodeChunks, backup[b].id, [p \in DOMAIN tree |-> tree[p].chunks])
    /\ backup' = [backup EXCEPT ![b].pc = "putChunks"]
    /\ UNCHANGED <<packs, nodes, chunkMan, packMan, records, usedPacks, usedSnaps>>

WriteChunks(b) ==
    /\ BackupAt(b, "putChunks")
    /\ chunkMan' = Put(chunkMan, backup[b].id, backup[b].new)
    /\ backup' = [backup EXCEPT ![b].pc = "putPacks"]
    /\ UNCHANGED <<packs, nodes, nodeChunks, packMan, records, usedPacks, usedSnaps>>

WritePacks(b) ==
    /\ BackupAt(b, "putPacks")
    /\ packMan' = Put(packMan, backup[b].id, Range(backup[b].new))
    /\ backup' = [backup EXCEPT ![b].pc = "putRecord"]
    /\ UNCHANGED <<packs, nodes, nodeChunks, chunkMan, records, usedPacks, usedSnaps>>

WriteSnapshotRecord(b) ==
    /\ BackupAt(b, "putRecord")
    /\ records' = records \cup {backup[b].id}
    /\ backup' = [backup EXCEPT ![b] = BackupIdle]
    /\ UNCHANGED <<packs, nodes, nodeChunks, chunkMan, packMan, usedPacks, usedSnaps>>

\* A call fails and Create returns its error, or the process dies.  Nothing is
\* undone: what it has written stays.
FailBackup(b) ==
    /\ ~BackupAt(b, "idle")
    /\ backup' = [backup EXCEPT ![b] = BackupIdle]
    /\ UNCHANGED store

-----------------------------------------------------------------------------
ReadCatalog(b) ==
    LoadParentNodes(b) \/ LoadParentChunks(b) \/ ListLiveIndex(b) \/ ReadLiveIndex(b)

WalkSource(b) ==
    \/ \E p \in Paths : CarryFile(b, p) \/ \E x \in Contents : OpenFile(b, p, x)
    \/ ReuseChunk(b)
    \/ \E k \in PackIds, full \in BOOLEAN : AddChunk(b, k, full)

WriteSnapshot(b) ==
    \/ \E s \in SnapIds : FlushBackup(b, s)
    \/ WriteNodes(b) \/ WriteNodeChunks(b) \/ WriteChunks(b) \/ WritePacks(b)
    \/ WriteSnapshotRecord(b)

\* Every step of a run but the first.
BackupStep(b) == ReadCatalog(b) \/ WalkSource(b) \/ WriteSnapshot(b) \/ FailBackup(b)

Node == [hash : Contents, chunks : Seq(Chunks)]

BackupFields == {"pc", "parentID", "parent", "live", "tree", "rest", "new", "open", "id"}

BackupRunOK(r) ==
    /\ DOMAIN r = BackupFields
    /\ r.pc \in BackupPCs
    /\ r.parentID \in usedSnaps \cup {NoSnap}
    /\ IsPartial(r.parent, Paths, Node)
    /\ r.live \subseteq Chunks
    /\ IsPartial(r.tree, Paths, Node)
    /\ r.rest \in Seq(Chunks)
    /\ IsPartial(r.new, Chunks, usedPacks)
    /\ r.open \in usedPacks \cup {NoPack}
    /\ r.id \in usedSnaps \cup {NoSnap}

BackupTypeOK ==
    /\ backup = [b \in Backups |-> backup[b]]
    /\ \A b \in Backups : BackupRunOK(backup[b])
=============================================================================
