----------------------------- MODULE ObjectStore -----------------------------
(***************************************************************************)
(* The objects of a zeaback repository, as every zeaback process sees them *)
(* through store.Store: packs of chunks, and the catalog manifests that    *)
(* say what they hold and which snapshots use them.                        *)
(*                                                                         *)
(* A prefix of the key space is a partial function from the identifier in  *)
(* the key to the decoded object; a key is in its DOMAIN exactly while the *)
(* object exists.  One Put, Delete, List or Get is atomic (local.go writes *)
(* a temporary file and renames it); nothing else is.                      *)
(***************************************************************************)
EXTENDS Naturals, Sequences, FiniteSets, FiniteSetsExt, Functions, SequencesExt

CONSTANTS
    Chunks,     \* the chunk hashes
    Paths,      \* the stored paths of regular files
    Contents,   \* what a file can hold: the sequence of its chunks' hashes
    PackIds,    \* pack identifiers (randomID)
    SnapIds,    \* snapshot identifiers: numbers, in the order of their timestamps
    Index,      \* the key "index.parquet" of the consolidated manifests
    NoPack,     \* "", the identifier of no pack
    NoSnap      \* the identifier of no snapshot

ASSUME ContentsAssumption == Contents \subseteq Seq(Chunks)

\* "index.parquet" is listed after every manifest named after a snapshot, whose
\* name starts with a digit.
ASSUME KeysAssumption ==
    /\ SnapIds \subseteq Nat
    /\ Index \in Nat
    /\ \A s \in SnapIds : s < Index

ASSUME NoIdAssumption == NoPack \notin PackIds /\ NoSnap \notin SnapIds

ManifestKeys == SnapIds \cup {Index}

VARIABLES
    packs,      \* data/ID: the set of chunks stored in pack ID
    nodes,      \* nodes/ID: path |-> content hash, for the files of snapshot ID
    nodeChunks, \* nodechunks/ID: path |-> ordered chunk list
    chunkMan,   \* meta/chunks/KEY: chunk |-> pack that holds it
    packMan,    \* meta/packs/KEY: the packs it lists
    records,    \* meta/snapshots: the snapshots with a record
    usedPacks,  \* every pack identifier drawn so far
    usedSnaps,  \* every snapshot identifier drawn so far
    decayed     \* the blobs whose bytes have changed in the store: <<pack, chunk>>

objects == <<packs, nodes, nodeChunks, chunkMan, packMan, records>>
store == <<packs, nodes, nodeChunks, chunkMan, packMan, records, usedPacks, usedSnaps>>

-----------------------------------------------------------------------------
(* The operations of store.Store on one prefix. *)

Put(prefix, key, object) ==
    [k \in DOMAIN prefix \cup {key} |-> IF k = key THEN object ELSE prefix[k]]

\* Deleting a key that is not there succeeds.
Delete(prefix, key) == [k \in DOMAIN prefix \ {key} |-> prefix[k]]

\* What a prefix may be: a function from some of the keys in S to objects of T.
IsPartial(f, S, T) == DOMAIN f \subseteq S /\ f \in [DOMAIN f -> T]

\* The same for a prefix whose objects are themselves partial functions.
IsPartial2(f, S, D, T) ==
    /\ DOMAIN f \subseteq S
    /\ f = [k \in DOMAIN f |-> f[k]]
    /\ \A k \in DOMAIN f : IsPartial(f[k], D, T)

-----------------------------------------------------------------------------
(* What a reader computes from the manifests. *)

\* The merge of manifests m read in key order: of several entries for a chunk
\* the one read last stays.
MergeManifests(m) ==
    LET Holders(c) == {k \in DOMAIN m : c \in DOMAIN m[k]}
    IN  [c \in UNION {DOMAIN m[k] : k \in DOMAIN m} |-> m[Max(Holders(c))][c]]

ChunkIndex == MergeManifests(chunkMan)

PackIndex == UNION {packMan[k] : k \in DOMAIN packMan}

\* LoadChunkIndex in two steps.  A manifest named after a snapshot is written
\* once, so what is read of it is what it held when it was listed, or the read
\* fails because it was deleted meanwhile; only index.parquet can be replaced
\* between the List and its Get.
ListedManifests == Restrict(chunkMan, DOMAIN chunkMan \ {Index})
IndexListed == Index \in DOMAIN chunkMan
WithIndexFile(idx) ==
    [c \in DOMAIN idx \cup DOMAIN chunkMan[Index] |->
        IF c \in DOMAIN chunkMan[Index] THEN chunkMan[Index][c] ELSE idx[c]]

\* Chunk c was stored in pack k, which is there.
BlobStored(k, c) == k \in DOMAIN packs /\ c \in packs[k]

\* cas.ReadBlob succeeds for chunk c at the pack k an index entry names: the
\* pack is there and its bytes at the entry's offset hash to c.
BlobReadable(k, c) == BlobStored(k, c) /\ <<k, c>> \notin decayed

\* loadNodeChunks: a missing manifest is an empty map, not an error.
LoadedNodeChunks(s) == IF s \in DOMAIN nodeChunks THEN nodeChunks[s] ELSE <<>>

\* The chunk list that a map of chunk lists gives path p: nil when it has none.
ChunkList(lists, p) == IF p \in DOMAIN lists THEN lists[p] ELSE <<>>

\* The chunks a map from paths to chunk lists refers to.
ChunksOf(lists) == UNION {ToSet(lists[p]) : p \in DOMAIN lists}

\* A mistake: identifiers are only kept apart from those of packs in the store, so
\* that two packers may fill the same one.
FreshPacksUnstored == PackIds \ DOMAIN packs

FreshPacks == PackIds \ usedPacks

\* A mistake: the identifier is the time alone, and two backups may draw the same.
FreshSnapsUnrecorded == SnapIds \ records

FreshSnaps == SnapIds \ usedSnaps

-----------------------------------------------------------------------------
InitStore ==
    /\ packs = <<>>
    /\ nodes = <<>>
    /\ nodeChunks = <<>>
    /\ chunkMan = <<>>
    /\ packMan = <<>>
    /\ records = {}
    /\ usedPacks = {}
    /\ usedSnaps = {}
    /\ decayed = {}

StoreTypeOK ==
    /\ IsPartial(packs, usedPacks, SUBSET Chunks)
    /\ IsPartial2(nodes, usedSnaps, Paths, Contents)
    /\ IsPartial2(nodeChunks, usedSnaps, Paths, Seq(Chunks))
    /\ IsPartial2(chunkMan, usedSnaps \cup {Index}, Chunks, usedPacks)
    /\ IsPartial(packMan, usedSnaps \cup {Index}, SUBSET usedPacks)
    /\ records \subseteq usedSnaps
    /\ usedPacks \subseteq PackIds
    /\ usedSnaps \subseteq SnapIds
=============================================================================
