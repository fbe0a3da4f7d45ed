------------------------------- MODULE Compact -------------------------------
(***************************************************************************)
(* zeaback compact: compact.Run with catalog.ReplaceChunkAndPackIndex, by  *)
(* the processes in Compactors.                                            *)
(***************************************************************************)
EXTENDS ObjectStore

CONSTANTS
    Compactors, \* the processes that run zeaback compact, each any number of times
    Threshold   \* Options.Threshold, in percent

ASSUME ThresholdAssumption == Threshold \in Nat \ {0}

VARIABLE compact    \* what each run holds in memory

\* pc        the next call;
\* unread    the snapshots listed whose trees are still to be read, oldest first;
\* live      the chunks found in the trees read;
\* idx       chunkIdx: chunk |-> pack, packIdx the packs of the pack index;
\* moved     relocated: chunk |-> pack;
\* open      the packer's current pack, whose buffer is {c : moved[c] = open};
\* oldChunks, oldPacks  the manifests still to be deleted;
\* doomed    the packs still to be deleted.
CompactIdle ==
    [pc |-> "idle", unread |-> {}, live |-> {}, idx |-> <<>>,
     packIdx |-> {}, moved |-> <<>>, open |-> NoPack, oldChunks |-> {}, oldPacks |-> {},
     doomed |-> {}]

CompactPCs == {"idle", "nodes", "nodeChunks", "list", "index", "packIndex", "relocate",
               "listChunks", "listPacks", "putChunks", "putPacks", "dropChunks",
               "dropPacks", "dropDead", "dropCandidates"}

InitCompact == compact = [c \in Compactors |-> CompactIdle]

CompactAt(c, pc) == compact[c].pc = pc

-----------------------------------------------------------------------------
(* Reading the repository. *)

ListSnapshots(c) ==
    /\ CompactAt(c, "idle")
    /\ compact' = [compact EXCEPT ![c].pc = IF records = {} THEN "list" ELSE "nodes",
                                  ![c].unread = records]
    /\ UNCHANGED store

\* The two reads of LoadNodes, snapshot by snapshot.
ReadNodes(c) ==
    /\ CompactAt(c, "nodes")
    /\ Min(compact[c].unread) \in DOMAIN nodes
    /\ compact' = [compact EXCEPT ![c].pc = "nodeChunks"]
    /\ UNCHANGED store

\* A mistake: only the chunks of the last snapshot read are live.
ReadNodeChunksLast(c) ==
    LET s == Min(compact[c].unread)
        unread == compact[c].unread \ {s}
    IN
    /\ CompactAt(c, "nodeChunks")
    /\ compact' = [compact EXCEPT ![c].pc = IF unread = {} THEN "list" ELSE "nodes",
                                  ![c].unread = unread,
                                  ![c].live = ChunksOf(LoadedNodeChunks(s))]
    /\ UNCHANGED store

ReadNodeChunks(c) ==
    LET s == Min(compact[c].unread)
        unread == compact[c].unread \ {s}
    IN
    /\ CompactAt(c, "nodeChunks")
    /\ compact' = [compact EXCEPT ![c].pc = IF unread = {} THEN "list" ELSE "nodes",
                                  ![c].unread = unread,
                                  ![c].live = @ \cup ChunksOf(LoadedNodeChunks(s))]
    /\ UNCHANGED store

\* LoadChunkIndex, in two steps.
ListChunkIndex(c) ==
    /\ CompactAt(c, "list")
    /\ compact' = [compact EXCEPT ![c].pc = IF IndexListed THEN "index" ELSE "packIndex",
                                  ![c].idx = MergeManifests(ListedManifests)]
    /\ UNCHANGED store

ReadChunkIndex(c) ==
    /\ CompactAt(c, "index")
    /\ IndexListed
    /\ compact' = [compact EXCEPT ![c].pc = "packIndex",
                                  ![c].idx = WithIndexFile(@)]
    /\ UNCHANGED store

\* LoadPackIndex, in one step: the pack index is only counted and copied.
ReadPackIndex(c) ==
    /\ CompactAt(c, "packIndex")
    /\ compact' = [compact EXCEPT ![c].pc = "relocate", ![c].packIdx = PackIndex]
    /\ UNCHANGED store

-----------------------------------------------------------------------------
(* What is dead: decided from the index and the live set read above. *)

EntriesIn(idx, k) == {x \in DOMAIN idx : idx[x] = k}

\* The packs the index knows that hold no live chunk.
DeadPacks(idx, live) == {k \in Range(idx) : EntriesIn(idx, k) \cap live = {}}

\* The packs whose live fraction is below the threshold, but not zero.
CandidatePacks(idx, live) ==
    {k \in Range(idx) \ DeadPacks(idx, live) :
        100 * Cardinality(EntriesIn(idx, k) \cap live) < Threshold * Cardinality(EntriesIn(idx, k))}

Dead(c) == DeadPacks(compact[c].idx, compact[c].live)
Candidates(c) == CandidatePacks(compact[c].idx, compact[c].live)

\* The live chunks of the candidate packs that have not been relocated.
ToMove(c) ==
    {x \in DOMAIN compact[c].idx \cap compact[c].live :
        compact[c].idx[x] \in Candidates(c) /\ x \notin DOMAIN compact[c].moved}

\* Pack after pack: once a chunk of a pack has been moved, its other chunks come next.
Started(c, k) == \E x \in DOMAIN compact[c].moved : compact[c].idx[x] = k
InTurn(c, x) == \A y \in ToMove(c) : Started(c, compact[c].idx[y]) => compact[c].idx[x] = compact[c].idx[y]

-----------------------------------------------------------------------------
(* Relocation. *)

\* Chunk x is read from its pack and added to the packer's, which reaches its
\* target size with it (full) and is flushed, or stays open.
Relocate(c, x, k, full) ==
    LET assigned == Put(compact[c].moved, x, k) IN
    /\ CompactAt(c, "relocate")
    /\ x \in ToMove(c)
    /\ InTurn(c, x)
    /\ BlobReadable(compact[c].idx[x], x)
    /\ IF compact[c].open = NoPack THEN k \in FreshPacks ELSE k = compact[c].open
    /\ packs' = IF full THEN Put(packs, k, EntriesIn(assigned, k)) ELSE packs
    /\ usedPacks' = usedPacks \cup {k}
    /\ compact' = [compact EXCEPT ![c].moved = assigned,
                                  ![c].open = IF full THEN NoPack ELSE k]
    /\ UNCHANGED <<nodes, nodeChunks, chunkMan, packMan, records, usedSnaps>>

\* A mistake: only dead packs are worth going on for.
FlushRelocatedEarly(c) ==
    LET k == compact[c].open IN
    /\ CompactAt(c, "relocate")
    /\ ToMove(c) = {}
    /\ packs' = IF k = NoPack THEN packs ELSE Put(packs, k, EntriesIn(compact[c].moved, k))
    /\ compact' = IF Dead(c) = {}
                    THEN [compact EXCEPT ![c] = CompactIdle]
                    ELSE [compact EXCEPT ![c].pc = "listChunks", ![c].open = NoPack]
    /\ UNCHANGED <<nodes, nodeChunks, chunkMan, packMan, records, usedPacks, usedSnaps>>

\* packer.Flush, and the run ends here when there is nothing to reclaim.
FlushRelocated(c) ==
    LET k == compact[c].open IN
    /\ CompactAt(c, "relocate")
    /\ ToMove(c) = {}
    /\ packs' = IF k = NoPack THEN packs ELSE Put(packs, k, EntriesIn(compact[c].moved, k))
    /\ compact' = IF Dead(c) \cup Candidates(c) = {}
                    THEN [compact EXCEPT ![c] = CompactIdle]
                    ELSE [compact EXCEPT ![c].pc = "listChunks", ![c].open = NoPack]
    /\ UNCHANGED <<nodes, nodeChunks, chunkMan, packMan, records, usedPacks, usedSnaps>>

-----------------------------------------------------------------------------
(* ReplaceChunkAndPackIndex. *)

\* Mistakes: the entries of dead packs are kept; relocated chunks are dropped.
NewChunksDeadKept(c) ==
    LET idx == compact[c].idx
        moved == compact[c].moved
        kept == {x \in DOMAIN idx : idx[x] \notin Candidates(c)}
    IN  [x \in kept \cup DOMAIN moved |-> IF x \in DOMAIN moved THEN moved[x] ELSE idx[x]]
NewChunksMovedLost(c) ==
    [x \in {y \in DOMAIN compact[c].idx : compact[c].idx[y] \notin Dead(c) \cup Candidates(c)}
        |-> compact[c].idx[x]]

\* The consolidated chunk index: entries of dead packs are dropped, those of
\* candidate packs follow their chunk or are dropped with it.
NewChunks(c) ==
    LET idx == compact[c].idx
        moved == compact[c].moved
        kept == {x \in DOMAIN idx : idx[x] \notin Dead(c) \cup Candidates(c)}
    IN  [x \in kept \cup DOMAIN moved |-> IF x \in DOMAIN moved THEN moved[x] ELSE idx[x]]

NewPacks(c) == (compact[c].packIdx \ (Dead(c) \cup Candidates(c))) \cup Range(compact[c].moved)

\* A mistake: the manifests that the index replaces are not told from it.
ListOldChunksNone(c) ==
    /\ CompactAt(c, "listChunks")
    /\ compact' = [compact EXCEPT ![c].pc = "listPacks", ![c].oldChunks = {}]
    /\ UNCHANGED store

ListOldChunks(c) ==
    /\ CompactAt(c, "listChunks")
    /\ compact' = [compact EXCEPT ![c].pc = "listPacks",
                                  ![c].oldChunks = DOMAIN chunkMan \ {Index}]
    /\ UNCHANGED store

ListOldPacks(c) ==
    /\ CompactAt(c, "listPacks")
    /\ compact' = [compact EXCEPT ![c].pc = "putChunks",
                                  ![c].oldPacks = DOMAIN packMan \ {Index}]
    /\ UNCHANGED store

PutChunkIndex(c) ==
    /\ CompactAt(c, "putChunks")
    /\ chunkMan' = Put(chunkMan, Index, NewChunks(c))
    /\ compact' = [compact EXCEPT ![c].pc = "putPacks"]
    /\ UNCHANGED <<packs, nodes, nodeChunks, packMan, records, usedPacks, usedSnaps>>

PutPackIndex(c) ==
    /\ CompactAt(c, "putPacks")
    /\ packMan' = Put(packMan, Index, NewPacks(c))
    /\ compact' = [compact EXCEPT ![c].pc = "dropChunks"]
    /\ UNCHANGED <<packs, nodes, nodeChunks, chunkMan, records, usedPacks, usedSnaps>>

\* A mistake: the manifest stays on the list of those to be deleted.
DropChunkManifestAgain(c) ==
    LET k == Min(compact[c].oldChunks) IN
    /\ CompactAt(c, "dropChunks")
    /\ compact[c].oldChunks # {}
    /\ chunkMan' = Delete(chunkMan, k)
    /\ UNCHANGED <<packs, nodes, nodeChunks, packMan, records, usedPacks, usedSnaps, compact>>

DropChunkManifest(c) ==
    LET k == Min(compact[c].oldChunks) IN
    /\ CompactAt(c, "dropChunks")
    /\ compact[c].oldChunks # {}
    /\ chunkMan' = Delete(chunkMan, k)
    /\ compact' = [compact EXCEPT ![c].oldChunks = @ \ {k}]
    /\ UNCHANGED <<packs, nodes, nodeChunks, packMan, records, usedPacks, usedSnaps>>

ChunkManifestsDropped(c) ==
    /\ CompactAt(c, "dropChunks")
    /\ compact[c].oldChunks = {}
    /\ compact' = [compact EXCEPT ![c].pc = "dropPacks"]
    /\ UNCHANGED store

DropPackManifest(c) ==
    LET k == Min(compact[c].oldPacks) IN
    /\ CompactAt(c, "dropPacks")
    /\ compact[c].oldPacks # {}
    /\ packMan' = Delete(packMan, k)
    /\ compact' = [compact EXCEPT ![c].oldPacks = @ \ {k}]
    /\ UNCHANGED <<packs, nodes, nodeChunks, chunkMan, records, usedPacks, usedSnaps>>

\* A mistake: dead packs are left where they are.
PackManifestsDroppedOnly(c) ==
    /\ CompactAt(c, "dropPacks")
    /\ compact[c].oldPacks = {}
    /\ compact' = [compact EXCEPT ![c].pc = "dropCandidates", ![c].doomed = Candidates(c)]
    /\ UNCHANGED store

PackManifestsDropped(c) ==
    /\ CompactAt(c, "dropPacks")
    /\ compact[c].oldPacks = {}
    /\ compact' = [compact EXCEPT ![c].pc = "dropDead", ![c].doomed = Dead(c)]
    /\ UNCHANGED store

-----------------------------------------------------------------------------
(* Deleting the packs that are out of use, dead ones first. *)

DropPack(c, k) ==
    /\ CompactAt(c, "dropDead") \/ CompactAt(c, "dropCandidates")
    /\ k \in compact[c].doomed
    /\ packs' = Delete(packs, k)
    /\ compact' = [compact EXCEPT ![c].doomed = @ \ {k}]
    /\ UNCHANGED <<nodes, nodeChunks, chunkMan, packMan, records, usedPacks, usedSnaps>>

DeadDropped(c) ==
    /\ CompactAt(c, "dropDead")
    /\ compact[c].doomed = {}
    /\ compact' = [compact EXCEPT ![c].pc = "dropCandidates", ![c].doomed = Candidates(c)]
    /\ UNCHANGED store

\* Run returns without an error.
FinishCompact(c) ==
    /\ CompactAt(c, "dropCandidates")
    /\ compact[c].doomed = {}
    /\ compact' = [compact EXCEPT ![c] = CompactIdle]
    /\ UNCHANGED store

\* An error is returned, or the process dies.  Nothing is undone.
FailCompact(c) ==
    /\ ~CompactAt(c, "idle")
    /\ compact' = [compact EXCEPT ![c] = CompactIdle]
    /\ UNCHANGED store

-----------------------------------------------------------------------------
ReadRepository(c) ==
    \/ ReadNodes(c) \/ ReadNodeChunks(c)
    \/ ListChunkIndex(c) \/ ReadChunkIndex(c) \/ ReadPackIndex(c)

RelocateChunks(c) ==
    \/ \E x \in Chunks, k \in PackIds, full \in BOOLEAN : Relocate(c, x, k, full)
    \/ FlushRelocated(c)

ReplaceIndex(c) ==
    \/ ListOldChunks(c) \/ ListOldPacks(c)
    \/ PutChunkIndex(c) \/ PutPackIndex(c)
    \/ DropChunkManifest(c) \/ ChunkManifestsDropped(c)
    \/ DropPackManifest(c) \/ PackManifestsDropped(c)

DropPacks(c) == (\E k \in PackIds : DropPack(c, k)) \/ DeadDropped(c) \/ FinishCompact(c)

\* Every step of a run but the first.
CompactStep(c) ==
    ReadRepository(c) \/ RelocateChunks(c) \/ ReplaceIndex(c) \/ DropPacks(c) \/ FailCompact(c)

CompactFields == {"pc", "unread", "live", "idx", "packIdx", "moved", "open",
                  "oldChunks", "oldPacks", "doomed"}

CompactRunOK(r) ==
    /\ DOMAIN r = CompactFields
    /\ r.pc \in CompactPCs
    /\ r.unread \subseteq usedSnaps
    /\ r.live \subseteq Chunks
    /\ IsPartial(r.idx, Chunks, usedPacks)
    /\ r.packIdx \subseteq usedPacks
    /\ IsPartial(r.moved, Chunks, usedPacks)
    /\ r.open \in usedPacks \cup {NoPack}
    /\ r.oldChunks \subseteq usedSnaps
    /\ r.oldPacks \subseteq usedSnaps
    /\ r.doomed \subseteq usedPacks

CompactTypeOK ==
    /\ compact = [c \in Compactors |-> compact[c]]
    /\ \A c \in Compactors : CompactRunOK(compact[c])
=============================================================================
