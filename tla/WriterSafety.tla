---------------------------- MODULE WriterSafety ----------------------------
(***************************************************************************)
(* Every step of a backup and every step of a compaction keeps the         *)
(* invariant of RepositoryInv.                                             *)
(***************************************************************************)
EXTENDS RepositoryTypes

-----------------------------------------------------------------------------
(* Backups. *)

\* The identifier a run has drawn is not yet that of a recorded snapshot.
LEMMA OwnIdUnrecorded ==
    ASSUME Inv, NEW b \in Backups
    PROVE  backup[b].id \notin records
<1>1. WriteInv(b) /\ records \subseteq SnapIds
  BY DEF Inv, BackupInv, BackupRunInv, TypeOK, StoreTypeOK
<1> QED BY <1>1, NoIdAssumption DEF WriteInv

\* A step of backup b may add objects, and touches no manifest but its own.
Grows(b) ==
    /\ \A k, x : BlobStored(k, x) => BlobStored(k, x)'
    /\ Indexed \subseteq Indexed'
    /\ records \subseteq records'
    /\ \A s : s # backup[b].id =>
         /\ s \in records' => s \in records
         /\ s \in DOMAIN chunkMan' => s \in DOMAIN chunkMan
         /\ s \in DOMAIN nodes => s \in DOMAIN nodes' /\ nodes'[s] = nodes[s]
         /\ s \in DOMAIN nodeChunks => s \in DOMAIN nodeChunks' /\ nodeChunks'[s] = nodeChunks[s]

\* So it keeps what other runs rely on.
LEMMA OthersKept ==
    ASSUME Inv, NEW b \in Backups, NEW d \in Backups, d # b, Grows(b), backup'[d] = backup[d]
    PROVE  BackupRunInv(d)'
<1>1. BackupRunInv(d) /\ SnapshotsComplete
  BY DEF Inv, BackupInv
<1>2. backup[b].id \notin records
  BY OwnIdUnrecorded
<1>3. (BackupAt(d, "idle") => backup[d] = BackupIdle)'
  BY <1>1 DEF BackupRunInv, BackupAt, BackupIdle
<1>4. PackedOrBuffered(backup[d].new, backup[d].open)'
  BY <1>1 DEF BackupRunInv, PackedOrBuffered, Grows
<1>5. ParentInv(d)'
  BY <1>1, <1>2 DEF BackupRunInv, ParentInv, Grows, SnapshotsComplete
<1>6. TreeInv(d)'
  BY <1>1 DEF BackupRunInv, TreeInv, Grows
<1>7. WriteInv(d)'
  <2>1. backup[d].pc \in Writing => backup[d].id # backup[b].id
    BY <1>1, NoIdAssumption DEF BackupRunInv, WriteInv, Inv, BackupInv
  <2> QED BY <1>1, <2>1 DEF BackupRunInv, WriteInv, Writing, Grows
<1> QED BY <1>3, <1>4, <1>5, <1>6, <1>7 DEF BackupRunInv

\* A recorded snapshot stays complete.
LEMMA SnapshotsKept ==
    ASSUME Inv, NEW b \in Backups, Grows(b), NEW s \in records
    PROVE  /\ s \in DOMAIN nodes' /\ s \in DOMAIN nodeChunks'
           /\ nodeChunks'[s] = nodes'[s]
           /\ Refs(s)' \subseteq Indexed'
<1>1. backup[b].id \notin records
  BY OwnIdUnrecorded
<1> QED BY <1>1 DEF Grows, Inv, SnapshotsComplete, Refs, ChunksOf

-----------------------------------------------------------------------------
\* A run that holds nothing is safe.
LEMMA BackupIdleSafe ==
    ASSUME NEW b, backup'[b] = BackupIdle
    PROVE  BackupRunInv(b)'
<1>1. /\ BackupIdle.pc = "idle" /\ BackupIdle.parent = <<>> /\ BackupIdle.live = {}
      /\ BackupIdle.tree = <<>> /\ BackupIdle.rest = <<>> /\ BackupIdle.new = <<>>
      /\ BackupIdle.id = NoSnap
  BY DEF BackupIdle
<1>2. DOMAIN <<>> = {}
  OBVIOUS
<1> QED BY <1>1, <1>2 DEF BackupRunInv, BackupAt, PackedOrBuffered, ParentInv, TreeInv, WriteInv, Writing

\* Reading the catalog: what is read of the parent is its tree.
LEMMA LoadParentSafe ==
    ASSUME Inv, NEW b \in Backups, LoadParent(b)
    PROVE  BackupRunInv(b)'
<1>1. backup[b] = BackupIdle /\ BackupRunOK(backup[b]) /\ backup = [d \in Backups |-> backup[d]]
  BY DEF LoadParent, Inv, BackupInv, BackupRunInv, TypeOK, BackupTypeOK
<1>2. /\ backup[b].parent = <<>> /\ backup[b].live = {} /\ backup[b].tree = <<>>
      /\ backup[b].rest = <<>> /\ backup[b].new = <<>> /\ backup[b].id = NoSnap
  BY <1>1 DEF BackupIdle
<1>3. /\ \/ backup'[b].pc = "list"
         \/ backup'[b].pc = "nodes" /\ backup'[b].parentID \in records
      /\ backup'[b].parent = <<>> /\ backup'[b].live = {} /\ backup'[b].tree = <<>>
      /\ backup'[b].rest = <<>> /\ backup'[b].new = <<>> /\ backup'[b].id = NoSnap
  <2>1. records = {} \/ Max(records) \in records
    BY ManifestKeysBound, MaxIn, KeysAssumption DEF Inv, TypeOK
  <2>2. CASE records = {}
    <3>1. backup' = [backup EXCEPT ![b].pc = "list"]
      BY <2>2 DEF LoadParent
    <3> QED BY <1>1, <1>2, <3>1 DEF BackupRunOK, BackupFields
  <2>3. CASE records # {}
    <3>1. backup' = [backup EXCEPT ![b].pc = "nodes", ![b].parentID = Max(records)]
      BY <2>3 DEF LoadParent
    <3> QED BY <1>1, <1>2, <2>1, <2>3, <3>1 DEF BackupRunOK, BackupFields
  <2> QED BY <2>2, <2>3
<1>4. records' = records
  BY DEF LoadParent, store
<1>5. DOMAIN <<>> = {}
  OBVIOUS
<1> QED BY <1>3, <1>4, <1>5 DEF BackupRunInv, BackupAt, PackedOrBuffered, ParentInv, TreeInv, WriteInv, Writing

\* The parent, found recorded, is complete: its nodes are those stored.
LEMMA LoadParentNodesSafe ==
    ASSUME Inv, NEW b \in Backups, LoadParentNodes(b)
    PROVE  BackupRunInv(b)'
<1> DEFINE s == backup[b].parentID
           pn == [p \in DOMAIN nodes[s] |-> [hash |-> nodes[s][p], chunks |-> <<>>]]
<1>1. BackupRunInv(b) /\ BackupRunOK(backup[b]) /\ backup = [d \in Backups |-> backup[d]]
  BY DEF Inv, BackupInv, TypeOK, BackupTypeOK
<1>2. backup' = [backup EXCEPT ![b].pc = "nodeChunks", ![b].parent = pn]
      /\ UNCHANGED store /\ backup[b].pc = "nodes"
  BY DEF LoadParentNodes, BackupAt
<1>3. DOMAIN pn = DOMAIN nodes[s] /\ \A p \in DOMAIN pn : pn[p].hash = nodes[s][p]
  OBVIOUS
<1> HIDE DEF pn
<1>4. /\ backup'[b].pc = "nodeChunks" /\ backup'[b].parent = pn /\ backup'[b].parentID = s
      /\ backup'[b].live = backup[b].live /\ backup'[b].tree = backup[b].tree
      /\ backup'[b].rest = backup[b].rest /\ backup'[b].new = backup[b].new
      /\ backup'[b].open = backup[b].open /\ backup'[b].id = backup[b].id
  BY <1>1, <1>2 DEF BackupRunOK, BackupFields
<1>5. Indexed' = Indexed /\ records' = records /\ nodes' = nodes
      /\ \A k, x : BlobStored(k, x) => BlobStored(k, x)'
  BY <1>2 DEF store, Indexed, BlobStored
<1>6. ParentInv(b)'
  BY <1>1, <1>2, <1>3, <1>4, <1>5 DEF BackupRunInv, ParentInv
<1> QED BY <1>1, <1>2, <1>4, <1>5, <1>6 DEF BackupRunInv, BackupAt, PackedOrBuffered, TreeInv, WriteInv, Writing

\* The chunk lists reattached are the contents of the parent's files, and indexed.
LEMMA LoadParentChunksSafe ==
    ASSUME Inv, NEW b \in Backups, LoadParentChunks(b)
    PROVE  BackupRunInv(b)'
<1> DEFINE r == backup[b]
           lists == LoadedNodeChunks(r.parentID)
           pn == [p \in DOMAIN r.parent |->
                    [hash |-> r.parent[p].hash, chunks |-> ChunkList(lists, p)]]
<1>1. BackupRunInv(b) /\ BackupRunOK(backup[b]) /\ backup = [d \in Backups |-> backup[d]]
  BY DEF Inv, BackupInv, TypeOK, BackupTypeOK
<1>2. backup' = [backup EXCEPT ![b].pc = "list", ![b].parent = pn]
      /\ UNCHANGED store /\ r.pc = "nodeChunks"
  BY DEF LoadParentChunks, BackupAt
<1>3. /\ r.parentID \in records
      /\ DOMAIN r.parent = DOMAIN nodes[r.parentID]
      /\ \A p \in DOMAIN r.parent : r.parent[p].hash = nodes[r.parentID][p]
  BY <1>1, <1>2 DEF BackupRunInv, ParentInv
<1>4. lists = nodes[r.parentID] /\ ChunksOf(lists) \subseteq Indexed
  BY <1>3 DEF Inv, SnapshotsComplete, LoadedNodeChunks, Refs
<1>5. \A p \in DOMAIN pn : pn[p].chunks = pn[p].hash /\ ToSet(pn[p].chunks) \subseteq Indexed
  <2>1. SUFFICES ASSUME NEW p \in DOMAIN r.parent
                 PROVE pn[p].chunks = pn[p].hash /\ ToSet(pn[p].chunks) \subseteq Indexed
    OBVIOUS
  <2>2. pn[p].hash = nodes[r.parentID][p] /\ pn[p].chunks = lists[p]
    BY <1>3, <1>4 DEF ChunkList
  <2>3. ToSet(lists[p]) \subseteq ChunksOf(lists)
    BY <1>3, <1>4 DEF ChunksOf
  <2> QED BY <1>4, <2>2, <2>3
<1> HIDE DEF pn
<1>6. /\ backup'[b].pc = "list" /\ backup'[b].parent = pn
      /\ backup'[b].live = backup[b].live /\ backup'[b].tree = backup[b].tree
      /\ backup'[b].rest = backup[b].rest /\ backup'[b].new = backup[b].new
      /\ backup'[b].open = backup[b].open /\ backup'[b].id = backup[b].id
  BY <1>1, <1>2 DEF BackupRunOK, BackupFields
<1>7. Indexed' = Indexed /\ \A k, x : BlobStored(k, x) => BlobStored(k, x)'
  BY <1>2 DEF store, Indexed, BlobStored
<1>8. ParentInv(b)'
  BY <1>5, <1>6, <1>7 DEF ParentInv
<1> QED BY <1>1, <1>2, <1>6, <1>7, <1>8 DEF BackupRunInv, BackupAt, PackedOrBuffered, TreeInv, WriteInv, Writing

\* The live index has no chunk that no manifest lists.
LEMMA LoadLiveIndexSafe ==
    ASSUME Inv, NEW b \in Backups, ListLiveIndex(b) \/ ReadLiveIndex(b)
    PROVE  BackupRunInv(b)'
<1>1. BackupRunInv(b) /\ BackupRunOK(backup[b]) /\ backup = [d \in Backups |-> backup[d]]
  BY DEF Inv, BackupInv, TypeOK, BackupTypeOK
<1>2. UNCHANGED store /\ backup[b].pc \in {"list", "index"}
  BY DEF ListLiveIndex, ReadLiveIndex, BackupAt
<1>3. PICK pc \in {"index", "walk"}, live \in SUBSET (backup[b].live \cup Indexed) :
        backup' = [backup EXCEPT ![b].pc = pc, ![b].live = live]
  <2>1. CASE ListLiveIndex(b)
    <3> DEFINE listed == DOMAIN MergeManifests(ListedManifests)
    <3>1. \E pc \in {"index", "walk"} : backup' = [backup EXCEPT ![b].pc = pc, ![b].live = listed]
      BY <2>1 DEF ListLiveIndex
    <3>2. listed \subseteq Indexed
      <4>1. listed = UNION {DOMAIN ListedManifests[k] : k \in DOMAIN ListedManifests}
        BY DEF MergeManifests
      <4> QED BY <4>1 DEF ListedManifests, Restrict, Indexed
    <3> HIDE DEF listed
    <3> QED BY <3>1, <3>2
  <2>2. CASE ReadLiveIndex(b)
    <3> DEFINE read == DOMAIN chunkMan[Index]
    <3>1. backup' = [backup EXCEPT ![b].pc = "walk", ![b].live = backup[b].live \cup read]
      BY <1>1, <2>2 DEF ReadLiveIndex, BackupRunOK, BackupFields
    <3>2. read \subseteq Indexed
      BY <2>2 DEF ReadLiveIndex, IndexListed, Indexed
    <3> HIDE DEF read
    <3> QED BY <3>1, <3>2
  <2> QED BY <2>1, <2>2
<1>4. /\ backup'[b].pc \in {"index", "walk"} /\ backup'[b].parent = backup[b].parent
      /\ backup'[b].live \subseteq backup[b].live \cup Indexed /\ backup'[b].tree = backup[b].tree
      /\ backup'[b].rest = backup[b].rest /\ backup'[b].new = backup[b].new
      /\ backup'[b].open = backup[b].open /\ backup'[b].id = backup[b].id
  BY <1>1, <1>3 DEF BackupRunOK, BackupFields
<1>5. Indexed' = Indexed /\ \A k, x : BlobStored(k, x) => BlobStored(k, x)'
  BY <1>2 DEF store, Indexed, BlobStored
<1>6. TreeInv(b)'
  BY <1>1, <1>2, <1>4, <1>5 DEF BackupRunInv, TreeInv
<1>7. ParentInv(b)'
  BY <1>1, <1>2, <1>4, <1>5 DEF BackupRunInv, ParentInv
<1> QED BY <1>1, <1>2, <1>4, <1>5, <1>6, <1>7 DEF BackupRunInv, BackupAt, PackedOrBuffered, WriteInv, Writing

-----------------------------------------------------------------------------
\* The walk: every chunk of the tree is indexed, packed, or about to be looked up.
LEMMA CarryFileSafe ==
    ASSUME Inv, NEW b \in Backups, NEW p \in Paths, CarryFile(b, p)
    PROVE  BackupRunInv(b)'
<1> DEFINE carried == backup[b].parent[p]
           tree == Put(backup[b].tree, p, carried)
<1>1. BackupRunInv(b) /\ BackupRunOK(backup[b]) /\ backup = [d \in Backups |-> backup[d]]
  BY DEF Inv, BackupInv, TypeOK, BackupTypeOK
<1>2. /\ backup' = [backup EXCEPT ![b].tree = tree] /\ UNCHANGED store
      /\ backup[b].pc = "walk" /\ p \in DOMAIN backup[b].parent
  BY DEF CarryFile, Walking, BackupAt
<1>3. carried.chunks = carried.hash /\ ToSet(carried.chunks) \subseteq Indexed
  BY <1>1, <1>2 DEF BackupRunInv, ParentInv
<1> HIDE DEF carried
<1>4. /\ DOMAIN tree = DOMAIN backup[b].tree \cup {p} /\ tree[p] = carried
      /\ \A q \in DOMAIN backup[b].tree : q # p => tree[q] = backup[b].tree[q]
  BY DEF Put
<1> HIDE DEF tree
<1>5. /\ backup'[b].pc = "walk" /\ backup'[b].parent = backup[b].parent
      /\ backup'[b].live = backup[b].live /\ backup'[b].tree = tree
      /\ backup'[b].rest = backup[b].rest /\ backup'[b].new = backup[b].new
      /\ backup'[b].open = backup[b].open /\ backup'[b].id = backup[b].id
  BY <1>1, <1>2 DEF BackupRunOK, BackupFields
<1>6. Indexed' = Indexed /\ \A k, x : BlobStored(k, x) => BlobStored(k, x)'
  BY <1>2 DEF store, Indexed, BlobStored
<1>7. TreeInv(b)'
  <2>1. TreeInv(b)
    BY <1>1 DEF BackupRunInv
  <2>2. ASSUME NEW q \in DOMAIN tree
        PROVE  /\ tree[q].chunks = tree[q].hash
               /\ ToSet(tree[q].chunks) \subseteq
                    Indexed \cup DOMAIN backup[b].new \cup ToSet(backup[b].rest)
    <3>1. CASE q = p
      BY <1>3, <1>4, <3>1
    <3>2. CASE q # p
      BY <1>4, <2>1, <3>2 DEF TreeInv
    <3> QED BY <3>1, <3>2
  <2> QED BY <1>2, <1>5, <1>6, <2>1, <2>2 DEF TreeInv
<1>8. ParentInv(b)'
  BY <1>1, <1>2, <1>5, <1>6 DEF BackupRunInv, ParentInv
<1> QED BY <1>1, <1>2, <1>5, <1>6, <1>7, <1>8 DEF BackupRunInv, BackupAt, PackedOrBuffered, WriteInv, Writing

\* All the chunks of a file just opened are still to be looked up.
LEMMA OpenFileSafe ==
    ASSUME Inv, NEW b \in Backups, NEW p \in Paths, NEW x \in Contents, OpenFile(b, p, x)
    PROVE  BackupRunInv(b)'
<1> DEFINE read == [hash |-> x, chunks |-> x]
           tree == Put(backup[b].tree, p, read)
<1>1. BackupRunInv(b) /\ BackupRunOK(backup[b]) /\ backup = [d \in Backups |-> backup[d]]
  BY DEF Inv, BackupInv, TypeOK, BackupTypeOK
<1>2. /\ backup' = [backup EXCEPT ![b].tree = tree, ![b].rest = x] /\ UNCHANGED store
      /\ backup[b].pc = "walk" /\ backup[b].rest = <<>>
  BY DEF OpenFile, Walking, BackupAt
<1>3. read.chunks = x /\ read.hash = x
  OBVIOUS
<1> HIDE DEF read
<1>4. /\ DOMAIN tree = DOMAIN backup[b].tree \cup {p} /\ tree[p] = read
      /\ \A q \in DOMAIN backup[b].tree : q # p => tree[q] = backup[b].tree[q]
  BY DEF Put
<1>5. ToSet(backup[b].rest) = {}
  BY <1>2 DEF ToSet
<1> HIDE DEF tree
<1>6. /\ backup'[b].pc = "walk" /\ backup'[b].parent = backup[b].parent
      /\ backup'[b].live = backup[b].live /\ backup'[b].tree = tree
      /\ backup'[b].rest = x /\ backup'[b].new = backup[b].new
      /\ backup'[b].open = backup[b].open /\ backup'[b].id = backup[b].id
  BY <1>1, <1>2 DEF BackupRunOK, BackupFields
<1>7. Indexed' = Indexed /\ \A k, y : BlobStored(k, y) => BlobStored(k, y)'
  BY <1>2 DEF store, Indexed, BlobStored
<1>8. TreeInv(b)'
  <2>1. TreeInv(b)
    BY <1>1 DEF BackupRunInv
  <2>2. ASSUME NEW q \in DOMAIN tree
        PROVE  /\ tree[q].chunks = tree[q].hash
               /\ ToSet(tree[q].chunks) \subseteq Indexed \cup DOMAIN backup[b].new \cup ToSet(x)
    <3>1. CASE q = p
      BY <1>3, <1>4, <3>1
    <3>2. CASE q # p
      BY <1>4, <1>5, <2>1, <3>2 DEF TreeInv
    <3> QED BY <3>1, <3>2
  <2> QED BY <1>2, <1>6, <1>7, <2>1, <2>2 DEF TreeInv
<1>9. ParentInv(b)'
  BY <1>1, <1>2, <1>6, <1>7 DEF BackupRunInv, ParentInv
<1> QED BY <1>1, <1>2, <1>6, <1>7, <1>8, <1>9 DEF BackupRunInv, BackupAt, PackedOrBuffered, WriteInv, Writing

\* The first chunk to cut, and the rest of them.
LEMMA RestSet ==
    ASSUME Inv, NEW b \in Backups, Cutting(b)
    PROVE  ToSet(backup[b].rest) = {Head(backup[b].rest)} \cup ToSet(Tail(backup[b].rest))
<1>1. backup[b].rest \in Seq(Chunks) /\ backup[b].rest # <<>>
  BY DEF Inv, TypeOK, BackupTypeOK, BackupRunOK, Cutting
<1> QED BY <1>1, HeadTailSet

\* A chunk found in the live index is indexed or was packed by the run.
LEMMA ReuseChunkSafe ==
    ASSUME Inv, NEW b \in Backups, ReuseChunk(b)
    PROVE  BackupRunInv(b)'
<1> DEFINE c == Head(backup[b].rest)
           rest == Tail(backup[b].rest)
<1>1. BackupRunInv(b) /\ BackupRunOK(backup[b]) /\ backup = [d \in Backups |-> backup[d]]
  BY DEF Inv, BackupInv, TypeOK, BackupTypeOK
<1>2. /\ backup' = [backup EXCEPT ![b].rest = rest] /\ UNCHANGED store
      /\ backup[b].pc = "walk" /\ c \in backup[b].live
      /\ ToSet(backup[b].rest) = {c} \cup ToSet(rest)
  BY RestSet DEF ReuseChunk, Cutting, BackupAt
<1> HIDE DEF c, rest
<1>3. /\ backup'[b].pc = "walk" /\ backup'[b].parent = backup[b].parent
      /\ backup'[b].live = backup[b].live /\ backup'[b].tree = backup[b].tree
      /\ backup'[b].rest = rest /\ backup'[b].new = backup[b].new
      /\ backup'[b].open = backup[b].open /\ backup'[b].id = backup[b].id
  BY <1>1, <1>2 DEF BackupRunOK, BackupFields
<1>4. Indexed' = Indexed /\ \A k, y : BlobStored(k, y) => BlobStored(k, y)'
  BY <1>2 DEF store, Indexed, BlobStored
<1>5. TreeInv(b)'
  BY <1>1, <1>2, <1>3, <1>4 DEF BackupRunInv, TreeInv
<1>6. ParentInv(b)'
  BY <1>1, <1>2, <1>3, <1>4 DEF BackupRunInv, ParentInv
<1> QED BY <1>1, <1>2, <1>3, <1>4, <1>5, <1>6 DEF BackupRunInv, BackupAt, PackedOrBuffered, WriteInv, Writing

\* No pack in the store is one that is being filled, and none is called NoPack.
LEMMA NewPacksAssigned ==
    ASSUME Inv, NEW b \in Backups
    PROVE  /\ backup[b].open \notin DOMAIN packs
           /\ \A x \in DOMAIN backup[b].new : backup[b].new[x] # NoPack
           /\ NoPack \notin DOMAIN packs
<1>1. StoreTypeOK /\ BackupRunOK(backup[b])
  BY DEF Inv, TypeOK, BackupTypeOK
<1>2. usedPacks \subseteq PackIds /\ DOMAIN packs \subseteq usedPacks
  BY <1>1 DEF StoreTypeOK, IsPartial
<1>3. IsPartial(backup[b].new, Chunks, usedPacks)
  BY <1>1 DEF BackupRunOK
<1> QED BY <1>2, <1>3, NoIdAssumption DEF Inv, OpenPacks, IsPartial

\* Storing a pack that was not there takes nothing away.
LEMMA PutPackGrows ==
    ASSUME NEW b, NEW k, NEW held, k \notin DOMAIN packs,
           packs' = packs \/ packs' = Put(packs, k, held),
           UNCHANGED <<nodes, nodeChunks, chunkMan, records>>
    PROVE  Grows(b)
<1>1. \A j \in DOMAIN packs : j \in DOMAIN packs' /\ packs'[j] = packs[j]
  BY DEF Put
<1>2. \A j, x : BlobStored(j, x) => BlobStored(j, x)'
  BY <1>1 DEF BlobStored
<1> QED BY <1>2 DEF Grows, Indexed

\* A chunk packed is in the buffer of the open pack, or in the pack just stored.
LEMMA AddChunkSafe ==
    ASSUME Inv, NEW b \in Backups, NEW k \in PackIds, NEW full \in BOOLEAN, AddChunk(b, k, full)
    PROVE  Grows(b) /\ BackupRunInv(b)' /\ k \notin DOMAIN packs
<1> DEFINE c == Head(backup[b].rest)
           rest == Tail(backup[b].rest)
           new == backup[b].new
           assigned == Put(new, c, k)
           held == Buffered(assigned, k)
           open == IF full THEN NoPack ELSE k
           live == backup[b].live \cup {c}
<1>1. BackupRunInv(b) /\ BackupRunOK(backup[b]) /\ backup = [d \in Backups |-> backup[d]]
  BY DEF Inv, BackupInv, TypeOK, BackupTypeOK
<1>2. backup' = [backup EXCEPT ![b].rest = rest, ![b].live = live,
                               ![b].new = assigned, ![b].open = open]
  BY <1>1 DEF AddChunk, BackupRunOK, BackupFields
<1>3. /\ backup[b].pc = "walk"
      /\ ToSet(backup[b].rest) = {c} \cup ToSet(rest)
      /\ \/ backup[b].open = NoPack /\ k \in FreshPacks
         \/ backup[b].open # NoPack /\ k = backup[b].open
      /\ packs' = IF full THEN Put(packs, k, held) ELSE packs
      /\ UNCHANGED <<nodes, nodeChunks, chunkMan, packMan, records, usedSnaps>>
  BY RestSet DEF AddChunk, Cutting, BackupAt
<1>4. k \notin DOMAIN packs /\ k # NoPack
  <2>1. DOMAIN packs \subseteq usedPacks
    BY DEF Inv, TypeOK, StoreTypeOK, IsPartial
  <2> QED BY <1>3, <2>1, NewPacksAssigned, NoIdAssumption DEF FreshPacks
<1>5. DOMAIN assigned = DOMAIN new \cup {c} /\ assigned[c] = k
      /\ \A x \in DOMAIN new : x # c => assigned[x] = new[x]
  BY DEF Put
<1>6. held = {x \in DOMAIN assigned : assigned[x] = k}
  BY DEF Buffered
<1>7. PackedOrBuffered(new, backup[b].open) /\ \A x \in DOMAIN new : new[x] # NoPack
  BY <1>1, NewPacksAssigned DEF BackupRunInv
<1> HIDE DEF c, rest, assigned, held, live, new
<1>8. Grows(b)
  BY <1>3, <1>4, PutPackGrows
<1>9. /\ backup'[b].pc = "walk" /\ backup'[b].parent = backup[b].parent
      /\ backup'[b].live = live /\ backup'[b].tree = backup[b].tree
      /\ backup'[b].rest = rest /\ backup'[b].new = assigned
      /\ backup'[b].open = open /\ backup'[b].id = backup[b].id
  BY <1>1, <1>2, <1>3 DEF BackupRunOK, BackupFields
<1>10. ASSUME NEW x \in DOMAIN assigned
       PROVE  assigned[x] = open \/ (assigned[x] \in DOMAIN packs' /\ x \in packs'[assigned[x]])
  <2>1. CASE assigned[x] = k /\ full
    <3>1. k \in DOMAIN packs' /\ packs'[k] = held
      BY <1>3, <2>1 DEF Put
    <3> QED BY <1>6, <2>1, <3>1
  <2>2. CASE assigned[x] = k /\ ~full
    BY <2>2
  <2>3. CASE assigned[x] # k
    <3>1. x \in DOMAIN new /\ assigned[x] = new[x]
      BY <1>5, <2>3
    <3>2. BlobStored(new[x], x)
      BY <1>3, <1>7, <2>3, <3>1 DEF PackedOrBuffered
    <3> QED BY <1>8, <3>1, <3>2 DEF Grows, BlobStored
  <2> QED BY <2>1, <2>2, <2>3
<1>11. PackedOrBuffered(backup[b].new, backup[b].open)'
  BY <1>9, <1>10 DEF PackedOrBuffered, BlobStored
<1>12. ParentInv(b)'
  BY <1>1, <1>3, <1>8, <1>9 DEF BackupRunInv, ParentInv, Grows
<1>13. TreeInv(b)'
  <2>1. TreeInv(b) /\ live = backup[b].live \cup {c} /\ new = backup[b].new
    BY <1>1 DEF BackupRunInv, live, new
  <2>2. Indexed \subseteq Indexed' /\ DOMAIN assigned = DOMAIN new \cup {c}
    BY <1>5, <1>8 DEF Grows
  <2> QED BY <1>3, <1>9, <2>1, <2>2 DEF TreeInv
<1>14. WriteInv(b)' /\ (BackupAt(b, "idle") => backup[b] = BackupIdle)'
  BY <1>1, <1>3, <1>9 DEF BackupRunInv, WriteInv, Writing, BackupAt
<1> QED BY <1>4, <1>8, <1>11, <1>12, <1>13, <1>14 DEF BackupRunInv

-----------------------------------------------------------------------------
\* Once the packer is flushed all the new chunks are in packs in the store, and the
\* identifier drawn is nobody else's.
LEMMA FlushBackupSafe ==
    ASSUME Inv, NEW b \in Backups, NEW s \in SnapIds, FlushBackup(b, s)
    PROVE  /\ Grows(b) /\ BackupRunInv(b)' /\ backup'[b].open = NoPack /\ backup'[b].id = s
           /\ \A d \in Backups : backup[d].id # s
<1> DEFINE k == backup[b].open
           new == backup[b].new
           held == Buffered(new, k)
<1>1. BackupRunInv(b) /\ BackupRunOK(backup[b]) /\ backup = [d \in Backups |-> backup[d]]
  BY DEF Inv, BackupInv, TypeOK, BackupTypeOK
<1>2. /\ backup' = [backup EXCEPT ![b].pc = "putNodes", ![b].open = NoPack, ![b].id = s,
                                  ![b].parent = <<>>, ![b].live = {}]
      /\ packs' = IF k = NoPack THEN packs ELSE Put(packs, k, held)
      /\ UNCHANGED <<nodes, nodeChunks, chunkMan, packMan, records, usedPacks>>
      /\ backup[b].pc = "walk" /\ backup[b].rest = <<>> /\ s \in FreshSnaps
  BY DEF FlushBackup, Walking, BackupAt
<1>3. held = {x \in DOMAIN new : new[x] = k}
  BY DEF Buffered
<1>4. /\ PackedOrBuffered(new, k) /\ \A x \in DOMAIN new : new[x] # NoPack
      /\ k \notin DOMAIN packs
  BY <1>1, NewPacksAssigned DEF BackupRunInv
<1>5. backup'[b].id = s /\ backup'[b].open = NoPack /\ backup'[b].pc = "putNodes"
      /\ backup'[b].parent = <<>> /\ backup'[b].live = {} /\ backup'[b].tree = backup[b].tree
      /\ backup'[b].rest = backup[b].rest /\ backup'[b].new = new
  BY <1>1, <1>2 DEF BackupRunOK, BackupFields
<1> HIDE DEF held
<1>6. Grows(b)
  BY <1>2, <1>4, PutPackGrows
<1>7. \A x \in DOMAIN new : new[x] \in DOMAIN packs' /\ x \in packs'[new[x]]
  <2>1. SUFFICES ASSUME NEW x \in DOMAIN new PROVE new[x] \in DOMAIN packs' /\ x \in packs'[new[x]]
    OBVIOUS
  <2>2. CASE new[x] = k
    <3>1. k \in DOMAIN packs' /\ packs'[k] = held
      BY <1>2, <1>4, <2>2 DEF Put
    <3> QED BY <1>3, <2>2, <3>1
  <2>3. CASE new[x] # k
    <3>1. BlobStored(new[x], x)
      BY <1>4, <2>3 DEF PackedOrBuffered
    <3> QED BY <1>6, <3>1 DEF Grows, BlobStored
  <2> QED BY <2>2, <2>3
<1>8. PackedOrBuffered(backup[b].new, backup[b].open)'
  BY <1>5, <1>7 DEF PackedOrBuffered, BlobStored
<1>9. /\ s \notin usedSnaps /\ s # Index /\ s # NoSnap
      /\ s \notin records /\ s \notin DOMAIN chunkMan
      /\ \A d \in Backups : backup[d].id # s
  <2>1. s \notin usedSnaps /\ s # NoSnap
    BY <1>2, NoIdAssumption DEF FreshSnaps
  <2>2. s # Index
    BY KeysAssumption
  <2>3. records \subseteq usedSnaps /\ DOMAIN chunkMan \subseteq usedSnaps \cup {Index}
    BY DEF Inv, TypeOK, StoreTypeOK, IsPartial2
  <2>4. \A d \in Backups : backup[d].id \in usedSnaps \cup {NoSnap}
    BY DEF Inv, TypeOK, BackupTypeOK, BackupRunOK
  <2> QED BY <2>1, <2>2, <2>3, <2>4
<1>10. WriteInv(b)'
  BY <1>2, <1>5, <1>9, SMTT(30) DEF WriteInv, Writing
<1>11. TreeInv(b)'
  <2>1. TreeInv(b) /\ Indexed \subseteq Indexed'
    BY <1>1, <1>6 DEF BackupRunInv, Grows
  <2>2. backup'[b].rest = <<>> /\ backup'[b].live \subseteq Indexed' \cup DOMAIN backup'[b].new
    BY <1>2, <1>5
  <2>3. ASSUME NEW p \in DOMAIN backup[b].tree
        PROVE  LET tree == backup[b].tree IN
               /\ tree[p].chunks = tree[p].hash
               /\ ToSet(tree[p].chunks) \subseteq Indexed' \cup DOMAIN new \cup ToSet(backup[b].rest)
    BY <2>1 DEF TreeInv
  <2> HIDE DEF new
  <2> QED BY <1>5, <2>2, <2>3 DEF TreeInv
<1>12. ParentInv(b)' /\ (BackupAt(b, "idle") => backup[b] = BackupIdle)'
  BY <1>5 DEF ParentInv, BackupAt
<1> QED BY <1>5, <1>6, <1>8, <1>9, <1>10, <1>11, <1>12 DEF BackupRunInv

\* A step of the writing that only advances: what it holds is as before.
SamePlan(b) ==
    /\ backup'[b].parent = backup[b].parent
    /\ backup'[b].live = backup[b].live /\ backup'[b].tree = backup[b].tree
    /\ backup'[b].rest = backup[b].rest /\ backup'[b].new = backup[b].new
    /\ backup'[b].open = backup[b].open /\ backup'[b].id = backup[b].id

\* While the manifests are written the plan does not change.
LEMMA AdvanceSafe ==
    ASSUME Inv, NEW b \in Backups, Grows(b), SamePlan(b), backup[b].pc \in Writing,
           backup'[b].pc \in Writing, WriteInv(b)'
    PROVE  BackupRunInv(b)'
<1>1. BackupRunInv(b)
  BY DEF Inv, BackupInv
<1>2. PackedOrBuffered(backup[b].new, backup[b].open)'
  BY <1>1 DEF BackupRunInv, PackedOrBuffered, SamePlan, Grows
<1>3. ParentInv(b)' /\ (BackupAt(b, "idle") => backup[b] = BackupIdle)'
  BY DEF ParentInv, BackupAt, Writing
<1>4. TreeInv(b)'
  BY <1>1 DEF BackupRunInv, TreeInv, SamePlan, Grows, Writing
<1> QED BY <1>2, <1>3, <1>4 DEF BackupRunInv

\* The nodes written are the content hashes of the tree.
LEMMA WriteNodesSafe ==
    ASSUME Inv, NEW b \in Backups, WriteNodes(b)
    PROVE  Grows(b) /\ SamePlan(b) /\ BackupRunInv(b)'
<1> DEFINE tree == backup[b].tree
           hashes == [p \in DOMAIN tree |-> tree[p].hash]
           id == backup[b].id
<1>1. WriteInv(b) /\ BackupRunOK(backup[b]) /\ backup = [d \in Backups |-> backup[d]]
  BY DEF Inv, BackupInv, BackupRunInv, TypeOK, BackupTypeOK
<1>2. /\ nodes' = Put(nodes, id, hashes) /\ backup[b].pc = "putNodes"
      /\ backup' = [backup EXCEPT ![b].pc = "putNodeChunks"]
      /\ UNCHANGED <<packs, nodeChunks, chunkMan, packMan, records, usedPacks, usedSnaps>>
  BY DEF WriteNodes, BackupAt
<1>3. SamePlan(b) /\ backup'[b].pc = "putNodeChunks"
  BY <1>1, <1>2 DEF SamePlan, BackupRunOK, BackupFields
<1>4. id \in DOMAIN nodes' /\ nodes'[id] = hashes
      /\ \A s \in DOMAIN nodes : s # id => s \in DOMAIN nodes' /\ nodes'[s] = nodes[s]
  BY <1>2 DEF Put
<1>5. Grows(b)
  BY <1>2, <1>4 DEF Grows, BlobStored, Indexed
<1>6. WriteInv(b)'
  BY <1>1, <1>2, <1>3, <1>4, SMTT(30) DEF WriteInv, Writing, SamePlan
<1> QED BY <1>2, <1>3, <1>5, <1>6, AdvanceSafe DEF Writing

\* The chunk lists written are those of the tree.
LEMMA WriteNodeChunksSafe ==
    ASSUME Inv, NEW b \in Backups, WriteNodeChunks(b)
    PROVE  Grows(b) /\ SamePlan(b) /\ BackupRunInv(b)'
<1> DEFINE tree == backup[b].tree
           lists == [p \in DOMAIN tree |-> tree[p].chunks]
           id == backup[b].id
<1>1. WriteInv(b) /\ BackupRunOK(backup[b]) /\ backup = [d \in Backups |-> backup[d]]
  BY DEF Inv, BackupInv, BackupRunInv, TypeOK, BackupTypeOK
<1>2. /\ nodeChunks' = Put(nodeChunks, id, lists) /\ backup[b].pc = "putNodeChunks"
      /\ backup' = [backup EXCEPT ![b].pc = "putChunks"]
      /\ UNCHANGED <<packs, nodes, chunkMan, packMan, records, usedPacks, usedSnaps>>
  BY DEF WriteNodeChunks, BackupAt
<1>3. SamePlan(b) /\ backup'[b].pc = "putChunks"
  BY <1>1, <1>2 DEF SamePlan, BackupRunOK, BackupFields
<1>4. id \in DOMAIN nodeChunks' /\ nodeChunks'[id] = lists
      /\ \A s \in DOMAIN nodeChunks : s # id => s \in DOMAIN nodeChunks' /\ nodeChunks'[s] = nodeChunks[s]
  BY <1>2 DEF Put
<1>5. Grows(b)
  BY <1>2, <1>4 DEF Grows, BlobStored, Indexed
<1>6. WriteInv(b)'
  BY <1>1, <1>2, <1>3, <1>4, SMTT(30) DEF WriteInv, Writing, SamePlan
<1> QED BY <1>2, <1>3, <1>5, <1>6, AdvanceSafe DEF Writing

\* The manifest of the new chunks: its entries are true.
LEMMA WriteChunksSafe ==
    ASSUME Inv, NEW b \in Backups, WriteChunks(b)
    PROVE  Grows(b) /\ SamePlan(b) /\ BackupRunInv(b)' /\ EntriesSound'
<1> DEFINE id == backup[b].id
           new == backup[b].new
<1>1. WriteInv(b) /\ BackupRunOK(backup[b]) /\ backup = [d \in Backups |-> backup[d]]
      /\ PackedOrBuffered(new, backup[b].open) /\ EntriesSound
  BY DEF Inv, BackupInv, BackupRunInv, TypeOK, BackupTypeOK
<1>2. /\ chunkMan' = Put(chunkMan, id, new) /\ backup[b].pc = "putChunks"
      /\ backup' = [backup EXCEPT ![b].pc = "putPacks"]
      /\ UNCHANGED <<packs, nodes, nodeChunks, packMan, records, usedPacks, usedSnaps>>
  BY DEF WriteChunks, BackupAt
<1>3. SamePlan(b) /\ backup'[b].pc = "putPacks"
  BY <1>1, <1>2 DEF SamePlan, BackupRunOK, BackupFields
<1>4. /\ id \notin DOMAIN chunkMan /\ DOMAIN chunkMan' = DOMAIN chunkMan \cup {id}
      /\ chunkMan'[id] = new
      /\ \A k \in DOMAIN chunkMan : chunkMan'[k] = chunkMan[k]
  BY <1>1, <1>2 DEF Put, WriteInv
<1>5. Indexed \subseteq Indexed' /\ DOMAIN new \subseteq Indexed'
  BY <1>4 DEF Indexed
<1>6. Grows(b)
  BY <1>2, <1>4, <1>5 DEF Grows, BlobStored
<1>7. WriteInv(b)'
  BY <1>1, <1>2, <1>3, <1>5 DEF WriteInv, Writing, SamePlan
<1>8. EntriesSound'
  <2>1. \A x \in DOMAIN new : BlobStored(new[x], x)
    BY <1>1, <1>2, NewPacksAssigned DEF PackedOrBuffered, WriteInv, Writing
  <2>2. \A k \in DOMAIN chunkMan' : \A x \in DOMAIN chunkMan'[k] :
          chunkMan'[k][x] \in DOMAIN packs /\ x \in packs[chunkMan'[k][x]]
    BY <1>1, <1>4, <2>1 DEF EntriesSound, BlobStored
  <2> QED BY <1>2, <2>2 DEF EntriesSound, BlobStored
<1> QED BY <1>2, <1>3, <1>6, <1>7, <1>8, AdvanceSafe DEF Writing

\* The pack manifest is needed by no snapshot.
LEMMA WritePacksSafe ==
    ASSUME Inv, NEW b \in Backups, WritePacks(b)
    PROVE  Grows(b) /\ SamePlan(b) /\ BackupRunInv(b)'
<1>1. WriteInv(b) /\ BackupRunOK(backup[b]) /\ backup = [d \in Backups |-> backup[d]]
  BY DEF Inv, BackupInv, BackupRunInv, TypeOK, BackupTypeOK
<1>2. /\ backup[b].pc = "putPacks"
      /\ backup' = [backup EXCEPT ![b].pc = "putRecord"]
      /\ UNCHANGED <<packs, nodes, nodeChunks, chunkMan, records, usedPacks, usedSnaps>>
  BY DEF WritePacks, BackupAt
<1>3. SamePlan(b) /\ backup'[b].pc = "putRecord"
  BY <1>1, <1>2 DEF SamePlan, BackupRunOK, BackupFields
<1>4. Grows(b)
  BY <1>2 DEF Grows, BlobStored, Indexed
<1>5. WriteInv(b)'
  BY <1>1, <1>2, <1>3 DEF WriteInv, Writing, SamePlan, Indexed
<1> QED BY <1>2, <1>3, <1>4, <1>5, AdvanceSafe DEF Writing

\* The record is written when all that the snapshot needs is there.
LEMMA WriteSnapshotRecordSafe ==
    ASSUME Inv, NEW b \in Backups, WriteSnapshotRecord(b)
    PROVE  /\ Grows(b) /\ backup'[b] = BackupIdle
           /\ \A s \in records' \ records :
                /\ s \in DOMAIN nodes /\ s \in DOMAIN nodeChunks /\ nodeChunks[s] = nodes[s]
                /\ Refs(s) \subseteq Indexed
           /\ UNCHANGED <<packs, nodes, nodeChunks, chunkMan>>
<1> DEFINE id == backup[b].id
           tree == backup[b].tree
<1>1. BackupRunInv(b) /\ backup = [d \in Backups |-> backup[d]]
  BY DEF Inv, BackupInv, TypeOK, BackupTypeOK
<1>2. /\ records' = records \cup {id} /\ backup[b].pc = "putRecord"
      /\ backup' = [backup EXCEPT ![b] = BackupIdle]
      /\ UNCHANGED <<packs, nodes, nodeChunks, chunkMan, packMan, usedPacks, usedSnaps>>
  BY DEF WriteSnapshotRecord, BackupAt
<1>3. Grows(b)
  BY <1>2 DEF Grows, BlobStored, Indexed
<1>4. /\ id \in DOMAIN nodes /\ nodes[id] = [p \in DOMAIN tree |-> tree[p].hash]
      /\ id \in DOMAIN nodeChunks /\ nodeChunks[id] = [p \in DOMAIN tree |-> tree[p].chunks]
      /\ DOMAIN backup[b].new \subseteq Indexed
  BY <1>1, <1>2 DEF BackupRunInv, WriteInv
<1>5. \A p \in DOMAIN tree :
         tree[p].chunks = tree[p].hash /\ ToSet(tree[p].chunks) \subseteq Indexed
  <2>1. ToSet(backup[b].rest) = {}
    BY <1>1, <1>2 DEF BackupRunInv, TreeInv, ToSet
  <2> QED BY <1>1, <1>4, <2>1 DEF BackupRunInv, TreeInv
<1>6. nodeChunks[id] = nodes[id]
  BY <1>4, <1>5
<1>7. Refs(id) \subseteq Indexed
  BY <1>4, <1>5 DEF Refs, ChunksOf
<1> QED BY <1>1, <1>2, <1>3, <1>4, <1>6, <1>7

-----------------------------------------------------------------------------
\* What the steps of run b have in common.
BackupStepSafe(b) ==
    /\ Grows(b)
    /\ EntriesSound'
    /\ \A s \in records' \ records :
         /\ s \in DOMAIN nodes' /\ s \in DOMAIN nodeChunks' /\ nodeChunks'[s] = nodes'[s]
         /\ Refs(s)' \subseteq Indexed'
    /\ BackupRunInv(b)'
    /\ \A d \in Backups \ {b} : backup'[d] = backup[d]
    /\ backup'[b].open \in {NoPack, backup[b].open} \cup FreshPacks
    /\ backup'[b].open \notin DOMAIN packs'
    /\ \A k \in DOMAIN packs' \ DOMAIN packs : k # NoPack /\ (k = backup[b].open \/ k \in FreshPacks)
    /\ backup'[b].id \in {NoSnap, backup[b].id} \cup FreshSnaps

\* A step that only reads, or fails.
LEMMA BackupQuietSafe ==
    ASSUME Inv, NEW b \in Backups,
           LoadParent(b) \/ ReadCatalog(b) \/ FailBackup(b) \/ ReuseChunk(b)
             \/ \E p \in Paths : CarryFile(b, p) \/ \E x \in Contents : OpenFile(b, p, x)
    PROVE  BackupStepSafe(b)
<1>1. BackupRunOK(backup[b]) /\ backup = [d \in Backups |-> backup[d]] /\ EntriesSound
  BY DEF Inv, TypeOK, BackupTypeOK
<1>2. UNCHANGED store
  BY DEF LoadParent, ReadCatalog, FailBackup, ReuseChunk, CarryFile, OpenFile, LoadParentNodes,
         LoadParentChunks, ListLiveIndex, ReadLiveIndex
<1>3. Grows(b) /\ EntriesSound'
  BY <1>1, <1>2 DEF Grows, EntriesSound, BlobStored, Indexed, store
<1>4. BackupRunInv(b)'
  <2>1. ASSUME NEW p \in Paths, CarryFile(b, p) \/ \E x \in Contents : OpenFile(b, p, x)
        PROVE  BackupRunInv(b)'
    BY <2>1, CarryFileSafe, OpenFileSafe
  <2>2. CASE FailBackup(b)
    <3>1. backup'[b] = BackupIdle
      BY <1>1, <2>2 DEF FailBackup
    <3> QED BY <3>1, BackupIdleSafe
  <2>3. CASE LoadParent(b) \/ ReadCatalog(b) \/ ReuseChunk(b)
    BY <2>3, LoadParentSafe, LoadParentNodesSafe, LoadParentChunksSafe, LoadLiveIndexSafe,
       ReuseChunkSafe DEF ReadCatalog
  <2> QED BY <2>1, <2>2, <2>3
<1> DEFINE Kept == /\ \A d \in Backups \ {b} : backup'[d] = backup[d]
                   /\ backup'[b].open \in {NoPack, backup[b].open}
                   /\ backup'[b].id \in {NoSnap, backup[b].id}
<1>5. Kept
  <2>1. CASE FailBackup(b)
    BY <1>1, <2>1 DEF FailBackup, BackupIdle
  <2>2. CASE LoadParent(b)
    BY <1>1, <2>2 DEF LoadParent, BackupRunOK, BackupFields
  <2>3. CASE ReadCatalog(b)
    <3>1. CASE LoadParentNodes(b)
      BY <1>1, <3>1 DEF LoadParentNodes, BackupRunOK, BackupFields
    <3>2. CASE LoadParentChunks(b)
      BY <1>1, <3>2 DEF LoadParentChunks, BackupRunOK, BackupFields
    <3>3. CASE ListLiveIndex(b)
      BY <1>1, <3>3 DEF ListLiveIndex, BackupRunOK, BackupFields
    <3>4. CASE ReadLiveIndex(b)
      BY <1>1, <3>4 DEF ReadLiveIndex, BackupRunOK, BackupFields
    <3> QED BY <2>3, <3>1, <3>2, <3>3, <3>4 DEF ReadCatalog
  <2>4. CASE ReuseChunk(b)
    BY <1>1, <2>4 DEF ReuseChunk, BackupRunOK, BackupFields
  <2>5. ASSUME NEW p \in Paths, CarryFile(b, p) PROVE Kept
    BY <1>1, <2>5 DEF CarryFile, BackupRunOK, BackupFields
  <2>6. ASSUME NEW p \in Paths, NEW x \in Contents, OpenFile(b, p, x) PROVE Kept
    BY <1>1, <2>6 DEF OpenFile, BackupRunOK, BackupFields
  <2> QED BY <2>1, <2>2, <2>3, <2>4, <2>5, <2>6
<1>6. backup'[b].open \notin DOMAIN packs'
  BY <1>2, <1>5, NewPacksAssigned DEF store
<1> QED BY <1>2, <1>3, <1>4, <1>5, <1>6 DEF BackupStepSafe, store

\* A step that stores objects.
LEMMA BackupWriteSafe ==
    ASSUME Inv, NEW b \in Backups,
           (\E k \in PackIds, full \in BOOLEAN : AddChunk(b, k, full)) \/ WriteSnapshot(b)
    PROVE  BackupStepSafe(b)
<1>1. BackupRunOK(backup[b]) /\ backup = [d \in Backups |-> backup[d]] /\ EntriesSound
  BY DEF Inv, TypeOK, BackupTypeOK
<1>2. backup[b].open \notin DOMAIN packs /\ NoPack \notin DOMAIN packs
  BY NewPacksAssigned
<1>3. ASSUME Grows(b), UNCHANGED chunkMan PROVE EntriesSound'
  BY <1>1, <1>3 DEF Grows, EntriesSound
<1>4. ASSUME NEW k \in PackIds, NEW full \in BOOLEAN, AddChunk(b, k, full) PROVE BackupStepSafe(b)
  <2>1. Grows(b) /\ BackupRunInv(b)' /\ k \notin DOMAIN packs
    BY <1>4, AddChunkSafe, ZenonT(40)
  <2>2. /\ UNCHANGED <<chunkMan, records>>
        /\ k = backup[b].open \/ k \in FreshPacks
        /\ packs' = IF full THEN Put(packs, k, Buffered(Put(backup[b].new, Head(backup[b].rest), k), k))
                            ELSE packs
    BY <1>4 DEF AddChunk
  <2>3. /\ \A d \in Backups \ {b} : backup'[d] = backup[d]
        /\ backup'[b].open = IF full THEN NoPack ELSE k
        /\ backup'[b].id = backup[b].id
    <3> DEFINE rest == Tail(backup[b].rest)
               live == backup[b].live \cup {Head(backup[b].rest)}
               new == Put(backup[b].new, Head(backup[b].rest), k)
    <3>1. backup' = [backup EXCEPT ![b].rest = rest, ![b].live = live, ![b].new = new,
                                   ![b].open = IF full THEN NoPack ELSE k]
      BY <1>4 DEF AddChunk
    <3> HIDE DEF rest, live, new
    <3> QED BY <1>1, <3>1, SMTT(30) DEF BackupRunOK, BackupFields
  <2>4. DOMAIN packs' = IF full THEN DOMAIN packs \cup {k} ELSE DOMAIN packs
    BY <2>2 DEF Put
  <2>5. k # NoPack
    BY NoIdAssumption
  <2> QED BY <1>2, <1>3, <2>1, <2>2, <2>3, <2>4, <2>5 DEF BackupStepSafe
<1>5. ASSUME NEW s \in SnapIds, FlushBackup(b, s) PROVE BackupStepSafe(b)
  <2>1. Grows(b) /\ BackupRunInv(b)' /\ backup'[b].open = NoPack /\ backup'[b].id = s
    BY <1>5, FlushBackupSafe
  <2>2. /\ UNCHANGED <<chunkMan, records>> /\ s \in FreshSnaps
        /\ packs' = packs \/ \E held : backup[b].open # NoPack /\ packs' = Put(packs, backup[b].open, held)
    BY <1>5 DEF FlushBackup
  <2>3. \A d \in Backups \ {b} : backup'[d] = backup[d]
    BY <1>1, <1>5 DEF FlushBackup
  <2>4. DOMAIN packs' = DOMAIN packs \/ (backup[b].open # NoPack /\ DOMAIN packs' = DOMAIN packs \cup {backup[b].open})
    BY <2>2 DEF Put
  <2> QED BY <1>2, <1>3, <2>1, <2>2, <2>3, <2>4 DEF BackupStepSafe
<1>6. CASE WriteNodes(b) \/ WriteNodeChunks(b) \/ WriteChunks(b) \/ WritePacks(b)
  <2>1. Grows(b) /\ BackupRunInv(b)' /\ SamePlan(b) /\ UNCHANGED <<packs, records>>
    BY <1>6, WriteNodesSafe, WriteNodeChunksSafe, WriteChunksSafe, WritePacksSafe
    DEF WriteNodes, WriteNodeChunks, WriteChunks, WritePacks
  <2>2. EntriesSound'
    BY <1>3, <1>6, <2>1, WriteChunksSafe DEF WriteNodes, WriteNodeChunks, WritePacks
  <2>3. \A d \in Backups \ {b} : backup'[d] = backup[d]
    BY <1>1, <1>6 DEF WriteNodes, WriteNodeChunks, WriteChunks, WritePacks
  <2> QED BY <1>2, <2>1, <2>2, <2>3 DEF BackupStepSafe, SamePlan
<1>7. CASE WriteSnapshotRecord(b)
  <2>1. /\ Grows(b) /\ backup'[b] = BackupIdle
        /\ UNCHANGED <<packs, nodes, nodeChunks, chunkMan>>
        /\ \A s \in records' \ records :
             /\ s \in DOMAIN nodes /\ s \in DOMAIN nodeChunks /\ nodeChunks[s] = nodes[s]
             /\ Refs(s) \subseteq Indexed
    BY <1>7, WriteSnapshotRecordSafe
  <2>2. BackupRunInv(b)' /\ BackupIdle.open = NoPack /\ BackupIdle.id = NoSnap
    BY <2>1, BackupIdleSafe DEF BackupIdle
  <2>3. \A d \in Backups \ {b} : backup'[d] = backup[d]
    BY <1>1, <1>7 DEF WriteSnapshotRecord
  <2>4. \A s \in records' \ records : Refs(s)' = Refs(s)
    BY <2>1 DEF Refs
  <2>5. Indexed' = Indexed
    BY <2>1 DEF Indexed
  <2> QED BY <1>2, <1>3, <2>1, <2>2, <2>3, <2>4, <2>5 DEF BackupStepSafe
<1> QED BY <1>4, <1>5, <1>6, <1>7 DEF WriteSnapshot

\* Every step of a backup keeps the invariant, of the store and of all backups.
LEMMA BackupInvKept ==
    ASSUME Inv, NEW b \in Backups, LoadParent(b) \/ BackupStep(b)
    PROVE  /\ EntriesSound' /\ SnapshotsComplete' /\ BackupInv'
           /\ \A d \in Backups : backup'[d].open \notin DOMAIN packs'
           /\ \A d, e \in Backups : d # e /\ backup'[d].open # NoPack => backup'[d].open # backup'[e].open
<1>1. BackupStepSafe(b)
  BY BackupQuietSafe, BackupWriteSafe DEF BackupStep, WalkSource
<1>2. SnapshotsComplete'
  <2>1. SUFFICES ASSUME NEW s \in records'
                 PROVE /\ s \in DOMAIN nodes' /\ s \in DOMAIN nodeChunks'
                       /\ nodeChunks'[s] = nodes'[s] /\ Refs(s)' \subseteq Indexed'
    BY DEF SnapshotsComplete
  <2>2. CASE s \in records
    BY <1>1, <2>2, SnapshotsKept DEF BackupStepSafe
  <2>3. CASE s \notin records
    BY <1>1, <2>3 DEF BackupStepSafe
  <2> QED BY <2>2, <2>3
<1>3. \A d \in Backups : BackupRunInv(d)'
  BY <1>1, OthersKept DEF BackupStepSafe
<1>4. \A d \in Backups : backup[d].open \notin FreshPacks /\ backup[d].id \notin FreshSnaps
  BY NoIdAssumption DEF Inv, TypeOK, BackupTypeOK, BackupRunOK, FreshPacks, FreshSnaps
<1>5. \A d, e \in Backups : d # e /\ backup'[d].id # NoSnap => backup'[d].id # backup'[e].id
  BY <1>1, <1>4 DEF BackupStepSafe, Inv, BackupInv
<1>6. \A d, e \in Backups : d # e /\ backup'[d].open # NoPack => backup'[d].open # backup'[e].open
  BY <1>1, <1>4 DEF BackupStepSafe, Inv, OpenPacks
<1>7. \A d \in Backups : backup'[d].open \notin DOMAIN packs'
  <2>1. SUFFICES ASSUME NEW d \in Backups, d # b PROVE backup[d].open \notin DOMAIN packs'
    BY <1>1 DEF BackupStepSafe
  <2>2. backup[d].open \notin DOMAIN packs /\ NoPack \notin DOMAIN packs
    BY NewPacksAssigned
  <2>3. \A k \in DOMAIN packs' \ DOMAIN packs : k # NoPack /\ (k = backup[b].open \/ k \in FreshPacks)
    BY <1>1 DEF BackupStepSafe
  <2>4. backup[d].open # NoPack => backup[d].open # backup[b].open
    BY <2>1 DEF Inv, OpenPacks
  <2> QED BY <1>4, <2>2, <2>3, <2>4
<1> QED BY <1>1, <1>2, <1>3, <1>5, <1>6, <1>7 DEF BackupStepSafe, BackupInv

-----------------------------------------------------------------------------
(* Compactions. *)

\* The identifiers that stand for none are not drawn, and NoPack is not in the store.
LEMMA CompactNoPack ==
    ASSUME Inv
    PROVE  NoPack \notin usedPacks /\ NoPack \notin DOMAIN packs /\ Index \notin usedSnaps
<1>1. StoreTypeOK
  BY DEF Inv, TypeOK
<1>2. usedPacks \subseteq PackIds /\ usedSnaps \subseteq SnapIds /\ DOMAIN packs \subseteq usedPacks
  BY <1>1 DEF StoreTypeOK, IsPartial
<1>3. Index \notin SnapIds
  BY KeysAssumption
<1> QED BY <1>2, <1>3, NoIdAssumption

\* A run that holds nothing is safe.
LEMMA CompactIdleSafe ==
    ASSUME NEW c, compact'[c] = CompactIdle
    PROVE  CompactRunInv(c)'
<1>1. /\ CompactIdle.pc = "idle" /\ CompactIdle.idx = <<>> /\ CompactIdle.moved = <<>>
      /\ CompactIdle.open = NoPack /\ CompactIdle.oldChunks = {} /\ CompactIdle.doomed = {}
  BY DEF CompactIdle
<1>2. DOMAIN <<>> = {} /\ Range(<<>>) = {}
  BY DEF Range
<1>3. (CompactAt(c, "idle") => compact[c] = CompactIdle)' /\ LiveInv(c)' /\ IndexInv(c)'
  BY <1>1 DEF CompactAt, LiveInv, IndexInv, Deciding
<1>4. MovedInv(c)'
  BY <1>1, <1>2 DEF MovedInv, PackedOrBuffered, Deciding, Replaced
<1>5. ReplaceInv(c)'
  BY <1>1 DEF ReplaceInv, Replaced
<1> QED BY <1>3, <1>4, <1>5 DEF CompactRunInv

\* What readers rely on survives a step that only adds packs.
LEMMA ReadersKept ==
    ASSUME Inv, \A k, x : BlobStored(k, x) => BlobStored(k, x)',
           UNCHANGED <<nodes, nodeChunks, chunkMan, records>>
    PROVE  EntriesSound' /\ SnapshotsComplete'
<1>1. EntriesSound'
  BY DEF Inv, EntriesSound
<1>2. SnapshotsComplete'
  BY DEF Inv, SnapshotsComplete, Refs, Indexed
<1> QED BY <1>1, <1>2

\* What a step of compaction c ensures.
CompactStepSafe(c) ==
    /\ EntriesSound'
    /\ SnapshotsComplete'
    /\ CompactRunInv(c)'
    /\ compact'[c].open \notin DOMAIN packs'

\* A step that touches no object that readers read.
LEMMA CompactQuiet ==
    ASSUME Inv, NEW c, UNCHANGED <<packs, nodes, nodeChunks, chunkMan, records>>,
           CompactRunInv(c)', compact'[c].open \notin DOMAIN packs
    PROVE  CompactStepSafe(c)
<1>1. \A k, x : BlobStored(k, x) => BlobStored(k, x)'
  BY DEF BlobStored
<1> QED BY <1>1, ReadersKept DEF CompactStepSafe

-----------------------------------------------------------------------------
(* Reading the repository. *)

Reading == {"nodes", "nodeChunks", "list", "index", "packIndex", "relocate"}

\* While nothing has been moved, only what is live and what is in the index matters.
LEMMA ReadingSafe ==
    ASSUME NEW c \in Compactors, StoreTypeOK', CompactTypeOK', compact'[c].pc \in Reading,
           compact'[c].moved = <<>>, compact'[c].open = NoPack, compact'[c].doomed = {},
           LiveInv(c)', IndexInv(c)'
    PROVE  CompactRunInv(c)'
<1>1. IsPartial(compact[c].idx, Chunks, usedPacks)' /\ (compact[c].oldChunks \subseteq usedSnaps)'
  BY DEF CompactTypeOK, CompactRunOK
<1>2. NoPack \notin usedPacks' /\ Index \notin usedSnaps'
  <2>1. usedPacks' \subseteq PackIds /\ usedSnaps' \subseteq SnapIds
    BY DEF StoreTypeOK
  <2> QED BY <2>1, NoIdAssumption, KeysAssumption
<1>3. NoPack \notin Range(compact'[c].idx)
  BY <1>1, <1>2 DEF IsPartial, Range
<1>4. DOMAIN <<>> = {}
  OBVIOUS
<1>5. MovedInv(c)'
  BY <1>3, <1>4 DEF MovedInv, PackedOrBuffered, Reading, Deciding, Replaced
<1>6. ReplaceInv(c)'
  BY <1>1, <1>2 DEF ReplaceInv, Reading, Replaced
<1>7. (CompactAt(c, "idle") => compact[c] = CompactIdle)'
  BY DEF CompactAt, Reading
<1> QED BY <1>5, <1>6, <1>7 DEF CompactRunInv

\* At first every recorded snapshot is still to be read.
LEMMA ListSnapshotsSafe ==
    ASSUME Inv, NEW c \in Compactors, ListSnapshots(c)
    PROVE  CompactStepSafe(c)
<1>1. CompactRunInv(c) /\ CompactRunOK(compact[c]) /\ compact = [d \in Compactors |-> compact[d]]
  BY DEF Inv, CompactInv, TypeOK, CompactTypeOK
<1>2. compact[c] = CompactIdle /\ UNCHANGED store
  BY <1>1 DEF ListSnapshots, CompactRunInv
<1>3. /\ CompactIdle.moved = <<>> /\ CompactIdle.open = NoPack /\ CompactIdle.doomed = {}
  BY DEF CompactIdle
<1>4. /\ compact'[c].pc = IF records = {} THEN "list" ELSE "nodes"
      /\ compact'[c].unread = records
      /\ compact'[c].moved = compact[c].moved /\ compact'[c].open = compact[c].open
      /\ compact'[c].doomed = compact[c].doomed
  BY <1>1 DEF ListSnapshots, CompactRunOK, CompactFields
<1>5. StoreTypeOK' /\ CompactTypeOK'
  BY CompactStepType DEF Inv
<1>6. LiveInv(c)' /\ IndexInv(c)' /\ compact'[c].pc \in Reading
  BY <1>2, <1>4 DEF LiveInv, IndexInv, Deciding, Reading, store
<1>7. CompactRunInv(c)'
  BY <1>2, <1>3, <1>4, <1>5, <1>6, ReadingSafe
<1> QED BY <1>2, <1>3, <1>4, <1>7, CompactNoPack, CompactQuiet DEF store

\* A run that reads has moved nothing.
LEMMA ReadingState ==
    ASSUME Inv, NEW c \in Compactors, compact[c].pc \in Reading \ {"relocate"}
    PROVE  compact[c].moved = <<>> /\ compact[c].open = NoPack /\ compact[c].doomed = {}
<1>1. MovedInv(c) /\ ReplaceInv(c)
  BY DEF Inv, CompactInv, CompactRunInv
<1> QED BY <1>1 DEF MovedInv, ReplaceInv, Reading, Deciding, Replaced

\* The nodes of a snapshot are only passed over.
LEMMA ReadNodesSafe ==
    ASSUME Inv, NEW c \in Compactors, ReadNodes(c)
    PROVE  CompactStepSafe(c)
<1>1. CompactRunInv(c) /\ CompactRunOK(compact[c]) /\ compact = [d \in Compactors |-> compact[d]]
  BY DEF Inv, CompactInv, TypeOK, CompactTypeOK
<1>2. /\ compact'[c].pc = "nodeChunks" /\ compact[c].pc = "nodes" /\ UNCHANGED store
      /\ compact'[c].unread = compact[c].unread /\ compact'[c].live = compact[c].live
      /\ compact'[c].moved = compact[c].moved /\ compact'[c].open = compact[c].open
      /\ compact'[c].doomed = compact[c].doomed
  BY <1>1 DEF ReadNodes, CompactAt, CompactRunOK, CompactFields
<1>3. StoreTypeOK' /\ CompactTypeOK'
  BY CompactStepType DEF Inv, CompactStep, ReadRepository
<1>4. compact[c].moved = <<>> /\ compact[c].open = NoPack /\ compact[c].doomed = {}
  BY <1>2, ReadingState DEF Reading
<1>5. LiveInv(c)' /\ IndexInv(c)' /\ compact'[c].pc \in Reading
  BY <1>1, <1>2 DEF CompactRunInv, LiveInv, IndexInv, Deciding, Reading, store, Refs
<1>6. CompactRunInv(c)'
  BY <1>2, <1>3, <1>4, <1>5, ReadingSafe
<1> QED BY <1>2, <1>4, <1>6, CompactNoPack, CompactQuiet DEF store

\* The chunks of the snapshot just read are live from now on.
LEMMA ReadNodeChunksSafe ==
    ASSUME Inv, NEW c \in Compactors, ReadNodeChunks(c)
    PROVE  CompactStepSafe(c)
<1> DEFINE s == Min(compact[c].unread)
           unread == compact[c].unread \ {s}
           live == compact[c].live \cup ChunksOf(LoadedNodeChunks(s))
<1>1. CompactRunInv(c) /\ CompactRunOK(compact[c]) /\ compact = [d \in Compactors |-> compact[d]]
  BY DEF Inv, CompactInv, TypeOK, CompactTypeOK
<1>2. /\ compact[c].pc = "nodeChunks" /\ UNCHANGED store
      /\ compact' = [compact EXCEPT ![c].pc = IF unread = {} THEN "list" ELSE "nodes",
                                    ![c].unread = unread, ![c].live = live]
  BY <1>1 DEF ReadNodeChunks, CompactAt, CompactRunOK, CompactFields
<1>3. s \in records => Refs(s) \subseteq live
  BY DEF Inv, SnapshotsComplete, Refs, LoadedNodeChunks
<1>4. compact[c].live \subseteq live /\ \A x \in compact[c].unread : x = s \/ x \in unread
  OBVIOUS
<1> HIDE DEF s, unread, live
<1>5. /\ compact'[c].pc = IF unread = {} THEN "list" ELSE "nodes"
      /\ compact'[c].unread = unread /\ compact'[c].live = live
      /\ compact'[c].moved = compact[c].moved /\ compact'[c].open = compact[c].open
      /\ compact'[c].doomed = compact[c].doomed
  BY <1>1, <1>2 DEF CompactRunOK, CompactFields
<1>6. StoreTypeOK' /\ CompactTypeOK'
  BY CompactStepType DEF Inv, CompactStep, ReadRepository
<1>7. compact[c].moved = <<>> /\ compact[c].open = NoPack /\ compact[c].doomed = {}
  BY <1>2, ReadingState DEF Reading
<1>8. LiveInv(c)'
  <2>1. ASSUME NEW t \in records PROVE t \in unread \/ Refs(t) \subseteq live
    BY <1>1, <1>2, <1>3, <1>4 DEF CompactRunInv, LiveInv
  <2> QED BY <1>2, <1>5, <2>1 DEF LiveInv, store, Refs
<1>9. IndexInv(c)' /\ compact'[c].pc \in Reading
  BY <1>5 DEF IndexInv, Deciding, Reading
<1>10. CompactRunInv(c)'
  BY <1>5, <1>6, <1>7, <1>8, <1>9, ReadingSafe
<1> QED BY <1>2, <1>5, <1>7, <1>10, CompactNoPack, CompactQuiet DEF store

\* What is merged is all that the manifests say, but for index.parquet's entries.
LEMMA MergedListing ==
    ASSUME Inv
    PROVE  /\ Indexed = DOMAIN MergeManifests(ListedManifests) \cup
                        (IF IndexListed THEN DOMAIN chunkMan[Index] ELSE {})
           /\ \A x \in DOMAIN MergeManifests(ListedManifests) :
                BlobStored(MergeManifests(ListedManifests)[x], x)
<1> DEFINE m == ListedManifests
           merged == MergeManifests(m)
<1>1. StoreTypeOK /\ EntriesSound
  BY DEF Inv, TypeOK
<1>2. DOMAIN m = DOMAIN chunkMan \ {Index} /\ \A k \in DOMAIN m : m[k] = chunkMan[k]
  BY DEF ListedManifests, Restrict
<1>3. Index \in Nat /\ DOMAIN m \subseteq 0 .. Index
  BY <1>1, <1>2, ManifestKeysBound, KeysAssumption
<1>4. /\ DOMAIN merged = UNION {DOMAIN m[k] : k \in DOMAIN m}
      /\ \A x \in DOMAIN merged : \E k \in DOMAIN m : x \in DOMAIN m[k] /\ merged[x] = m[k][x]
  BY <1>3, MergeFacts
<1> HIDE DEF m, merged
<1>5. Indexed = DOMAIN merged \cup (IF IndexListed THEN DOMAIN chunkMan[Index] ELSE {})
  BY <1>2, <1>4 DEF Indexed, IndexListed
<1>6. \A x \in DOMAIN merged : BlobStored(merged[x], x)
  BY <1>1, <1>2, <1>4 DEF EntriesSound
<1> QED BY <1>5, <1>6 DEF merged, m

\* What is listed covers the index but for index.parquet, and is true.
LEMMA ListChunkIndexSafe ==
    ASSUME Inv, NEW c \in Compactors, ListChunkIndex(c)
    PROVE  CompactStepSafe(c)
<1> DEFINE merged == MergeManifests(ListedManifests)
<1>1. CompactRunInv(c) /\ CompactRunOK(compact[c]) /\ compact = [d \in Compactors |-> compact[d]]
  BY DEF Inv, CompactInv, TypeOK, CompactTypeOK
<1>2. /\ compact[c].pc = "list" /\ UNCHANGED store
      /\ compact' = [compact EXCEPT ![c].pc = IF IndexListed THEN "index" ELSE "packIndex",
                                    ![c].idx = merged]
  BY DEF ListChunkIndex, CompactAt
<1>3. /\ Indexed = DOMAIN merged \cup (IF IndexListed THEN DOMAIN chunkMan[Index] ELSE {})
      /\ \A x \in DOMAIN merged : merged[x] \in DOMAIN packs /\ x \in packs[merged[x]]
  BY MergedListing DEF BlobStored
<1> HIDE DEF merged
<1>4. /\ compact'[c].pc = IF IndexListed THEN "index" ELSE "packIndex"
      /\ compact'[c].idx = merged
      /\ compact'[c].unread = compact[c].unread /\ compact'[c].live = compact[c].live
      /\ compact'[c].moved = compact[c].moved /\ compact'[c].open = compact[c].open
      /\ compact'[c].doomed = compact[c].doomed
  BY <1>1, <1>2 DEF CompactRunOK, CompactFields
<1>5. StoreTypeOK' /\ CompactTypeOK'
  BY CompactStepType DEF Inv, CompactStep, ReadRepository
<1>6. compact[c].moved = <<>> /\ compact[c].open = NoPack /\ compact[c].doomed = {}
  BY <1>2, ReadingState DEF Reading
<1>7. LiveInv(c)' /\ compact'[c].pc \in Reading
  BY <1>1, <1>2, <1>4 DEF CompactRunInv, LiveInv, Reading, store, Refs
<1>8. IndexInv(c)'
  <2>1. /\ packs' = packs /\ chunkMan' = chunkMan
        /\ Indexed' = Indexed /\ IndexListed' = IndexListed
    BY <1>2 DEF store, Indexed, IndexListed
  <2>2. \A x \in DOMAIN compact'[c].idx : BlobStored(compact[c].idx[x], x)'
    BY <1>3, <1>4, <2>1 DEF BlobStored
  <2>3. CASE IndexListed
    BY <1>3, <1>4, <2>1, <2>2, <2>3 DEF IndexInv, Deciding
  <2>4. CASE ~IndexListed
    BY <1>3, <1>4, <2>1, <2>2, <2>4 DEF IndexInv, Deciding
  <2> QED BY <2>3, <2>4
<1>9. CompactRunInv(c)'
  BY <1>4, <1>5, <1>6, <1>7, <1>8, ReadingSafe
<1> QED BY <1>2, <1>4, <1>6, <1>9, CompactNoPack, CompactQuiet DEF store

\* With index.parquet the index read is whole.
LEMMA ReadChunkIndexSafe ==
    ASSUME Inv, NEW c \in Compactors, ReadChunkIndex(c)
    PROVE  CompactStepSafe(c)
<1> DEFINE whole == WithIndexFile(compact[c].idx)
<1>1. CompactRunInv(c) /\ CompactRunOK(compact[c]) /\ compact = [d \in Compactors |-> compact[d]]
  BY DEF Inv, CompactInv, TypeOK, CompactTypeOK
<1>2. /\ compact[c].pc = "index" /\ IndexListed /\ UNCHANGED store
      /\ compact' = [compact EXCEPT ![c].pc = "packIndex", ![c].idx = whole]
  BY <1>1 DEF ReadChunkIndex, CompactAt, CompactRunOK, CompactFields
<1>3. Indexed \subseteq DOMAIN whole
  BY <1>1, <1>2 DEF WithIndexFile, CompactRunInv, IndexInv
<1>4. \A x \in DOMAIN whole : whole[x] \in DOMAIN packs /\ x \in packs[whole[x]]
  <2>1. \A x \in DOMAIN chunkMan[Index] : BlobStored(chunkMan[Index][x], x)
    BY <1>2 DEF Inv, EntriesSound, IndexListed
  <2>2. \A x \in DOMAIN compact[c].idx : BlobStored(compact[c].idx[x], x)
    BY <1>1, <1>2 DEF CompactRunInv, IndexInv
  <2> QED BY <2>1, <2>2 DEF WithIndexFile, BlobStored
<1> HIDE DEF whole
<1>5. /\ compact'[c].pc = "packIndex" /\ compact'[c].idx = whole
      /\ compact'[c].unread = compact[c].unread /\ compact'[c].live = compact[c].live
      /\ compact'[c].moved = compact[c].moved /\ compact'[c].open = compact[c].open
      /\ compact'[c].doomed = compact[c].doomed
  BY <1>1, <1>2 DEF CompactRunOK, CompactFields
<1>6. StoreTypeOK' /\ CompactTypeOK'
  BY CompactStepType DEF Inv, CompactStep, ReadRepository
<1>7. compact[c].moved = <<>> /\ compact[c].open = NoPack /\ compact[c].doomed = {}
  BY <1>2, ReadingState DEF Reading
<1>8. LiveInv(c)' /\ compact'[c].pc \in Reading
  BY <1>1, <1>2, <1>5 DEF CompactRunInv, LiveInv, Reading, store, Refs
<1>9. IndexInv(c)'
  BY <1>2, <1>3, <1>4, <1>5 DEF IndexInv, Deciding, store, Indexed, BlobStored
<1>10. CompactRunInv(c)'
  BY <1>5, <1>6, <1>7, <1>8, <1>9, ReadingSafe
<1> QED BY <1>2, <1>5, <1>7, <1>10, CompactNoPack, CompactQuiet DEF store

\* The pack index decides nothing.
LEMMA ReadPackIndexSafe ==
    ASSUME Inv, NEW c \in Compactors, ReadPackIndex(c)
    PROVE  CompactStepSafe(c)
<1>1. CompactRunInv(c) /\ CompactRunOK(compact[c]) /\ compact = [d \in Compactors |-> compact[d]]
  BY DEF Inv, CompactInv, TypeOK, CompactTypeOK
<1>2. /\ compact'[c].pc = "relocate" /\ compact[c].pc = "packIndex" /\ UNCHANGED store
      /\ compact'[c].unread = compact[c].unread /\ compact'[c].live = compact[c].live
      /\ compact'[c].idx = compact[c].idx
      /\ compact'[c].moved = compact[c].moved /\ compact'[c].open = compact[c].open
      /\ compact'[c].doomed = compact[c].doomed
  BY <1>1 DEF ReadPackIndex, CompactAt, CompactRunOK, CompactFields
<1>3. StoreTypeOK' /\ CompactTypeOK'
  BY CompactStepType DEF Inv, CompactStep, ReadRepository
<1>4. compact[c].moved = <<>> /\ compact[c].open = NoPack /\ compact[c].doomed = {}
  BY <1>2, ReadingState DEF Reading
<1>5. LiveInv(c)' /\ compact'[c].pc \in Reading
  BY <1>1, <1>2 DEF CompactRunInv, LiveInv, Reading, store, Refs
<1>6. IndexInv(c)'
  BY <1>1, <1>2 DEF CompactRunInv, IndexInv, Deciding, store, Indexed, BlobStored
<1>7. CompactRunInv(c)'
  BY <1>2, <1>3, <1>4, <1>5, <1>6, ReadingSafe
<1> QED BY <1>2, <1>4, <1>7, CompactNoPack, CompactQuiet DEF store

-----------------------------------------------------------------------------
(* Relocation. *)

\* The index a run decides by names packs that were drawn.
LEMMA KnownPacks ==
    ASSUME Inv, NEW c \in Compactors
    PROVE  /\ Range(compact[c].idx) \subseteq usedPacks
           /\ \A x \in DOMAIN compact[c].moved : compact[c].moved[x] \in usedPacks
<1>1. IsPartial(compact[c].idx, Chunks, usedPacks) /\ IsPartial(compact[c].moved, Chunks, usedPacks)
  BY DEF Inv, TypeOK, CompactTypeOK, CompactRunOK
<1> QED BY <1>1 DEF IsPartial, Range

\* Storing a pack under an identifier that is not in the store.
LEMMA StorePack ==
    ASSUME NEW k, NEW held, k \notin DOMAIN packs, packs' = packs \/ packs' = Put(packs, k, held)
    PROVE  /\ \A j, x : BlobStored(j, x) => BlobStored(j, x)'
           /\ DOMAIN packs \subseteq DOMAIN packs' /\ DOMAIN packs' \subseteq DOMAIN packs \cup {k}
<1>1. \A j \in DOMAIN packs : j \in DOMAIN packs' /\ packs'[j] = packs[j]
  BY DEF Put
<1> QED BY <1>1 DEF BlobStored, Put

\* A chunk moved is in the packer's buffer or in a pack the old index does not name.
LEMMA RelocateSafe ==
    ASSUME Inv, NEW c \in Compactors, NEW x \in Chunks, NEW k \in PackIds, NEW full \in BOOLEAN,
           Relocate(c, x, k, full)
    PROVE  CompactStepSafe(c)
<1> DEFINE moved == compact[c].moved
           assigned == Put(moved, x, k)
           held == EntriesIn(assigned, k)
           open == IF full THEN NoPack ELSE k
<1>1. CompactRunInv(c) /\ CompactRunOK(compact[c]) /\ compact = [d \in Compactors |-> compact[d]]
  BY DEF Inv, CompactInv, TypeOK, CompactTypeOK
<1>2. /\ compact[c].pc = "relocate"
      /\ \/ compact[c].open = NoPack /\ k \in FreshPacks
         \/ compact[c].open # NoPack /\ k = compact[c].open
      /\ packs' = IF full THEN Put(packs, k, held) ELSE packs
      /\ UNCHANGED <<nodes, nodeChunks, chunkMan, packMan, records, usedSnaps>>
      /\ compact' = [compact EXCEPT ![c].moved = assigned, ![c].open = open]
  BY DEF Relocate, CompactAt
<1>3. k \notin DOMAIN packs /\ k # NoPack /\ k \notin Range(compact[c].idx)
  <2>1. DOMAIN packs \subseteq usedPacks /\ compact[c].open \notin DOMAIN packs
    BY DEF Inv, TypeOK, StoreTypeOK, IsPartial, OpenPacks
  <2>2. compact[c].open \notin Range(compact[c].idx)
    BY <1>1 DEF CompactRunInv, MovedInv
  <2> QED BY <1>2, <2>1, <2>2, KnownPacks, NoIdAssumption DEF FreshPacks
<1>4. DOMAIN assigned = DOMAIN moved \cup {x} /\ assigned[x] = k
      /\ \A y \in DOMAIN moved : y # x => assigned[y] = moved[y]
  BY DEF Put
<1>5. held = {y \in DOMAIN assigned : assigned[y] = k}
  BY DEF EntriesIn
<1>6. /\ \A y \in DOMAIN moved : moved[y] \notin Range(compact[c].idx) /\ moved[y] # NoPack
      /\ \A y \in DOMAIN moved : moved[y] = compact[c].open \/ BlobStored(moved[y], y)
      /\ compact[c].open \notin Range(compact[c].idx)
  BY <1>1, KnownPacks, CompactNoPack DEF CompactRunInv, MovedInv, PackedOrBuffered
<1>7. NoPack \notin Range(compact[c].idx) /\ NoPack \notin DOMAIN packs
  BY KnownPacks, CompactNoPack
<1> HIDE DEF moved, assigned, held
<1>8. /\ \A j, y : BlobStored(j, y) => BlobStored(j, y)'
      /\ DOMAIN packs' \subseteq DOMAIN packs \cup {k}
      /\ ~full => DOMAIN packs' = DOMAIN packs
  BY <1>2, <1>3, StorePack
<1>9. /\ compact'[c].pc = compact[c].pc /\ compact'[c].idx = compact[c].idx
      /\ compact'[c].unread = compact[c].unread /\ compact'[c].live = compact[c].live
      /\ compact'[c].moved = assigned /\ compact'[c].open = open
      /\ compact'[c].oldChunks = compact[c].oldChunks /\ compact'[c].doomed = compact[c].doomed
  BY <1>1, <1>2 DEF CompactRunOK, CompactFields
<1>10. ASSUME NEW y \in DOMAIN assigned
       PROVE  assigned[y] = open \/ (assigned[y] \in DOMAIN packs' /\ y \in packs'[assigned[y]])
  <2>1. CASE assigned[y] = k /\ full
    <3>1. k \in DOMAIN packs' /\ packs'[k] = held
      BY <1>2, <2>1 DEF Put
    <3> QED BY <1>5, <2>1, <3>1
  <2>2. CASE assigned[y] = k /\ ~full
    BY <2>2
  <2>3. CASE assigned[y] # k
    <3>1. y \in DOMAIN moved /\ assigned[y] = moved[y]
      BY <1>4, <2>3
    <3>2. BlobStored(moved[y], y)
      BY <1>2, <1>6, <2>3, <3>1
    <3> QED BY <1>8, <3>1, <3>2 DEF BlobStored
  <2> QED BY <2>1, <2>2, <2>3
<1>11. MovedInv(c)'
  <2>1. PackedOrBuffered(compact[c].moved, compact[c].open)'
    BY <1>9, <1>10 DEF PackedOrBuffered, BlobStored
  <2>2. \A y \in DOMAIN assigned : assigned[y] \notin Range(compact[c].idx)
    BY <1>3, <1>4, <1>6
  <2>3. open \notin Range(compact[c].idx)
    BY <1>3, <1>7
  <2> QED BY <1>2, <1>9, <2>1, <2>2, <2>3 DEF MovedInv, Deciding, Replaced
<1>12. LiveInv(c)'
  BY <1>1, <1>2, <1>9 DEF CompactRunInv, LiveInv, Refs
<1>13. IndexInv(c)'
  BY <1>1, <1>2, <1>8, <1>9 DEF CompactRunInv, IndexInv, Deciding, Indexed
<1>14. ReplaceInv(c)'
  BY <1>1, <1>2, <1>9 DEF CompactRunInv, ReplaceInv, Replaced
<1>15. CompactRunInv(c)'
  BY <1>2, <1>9, <1>11, <1>12, <1>13, <1>14 DEF CompactRunInv, CompactAt
<1>16. EntriesSound' /\ SnapshotsComplete'
  BY <1>2, <1>8, ReadersKept
<1>17. open \notin DOMAIN packs'
  BY <1>3, <1>7, <1>8
<1> QED BY <1>9, <1>15, <1>16, <1>17 DEF CompactStepSafe

\* Once flushed, every chunk moved is in the store.
LEMMA FlushRelocatedSafe ==
    ASSUME Inv, NEW c \in Compactors, FlushRelocated(c)
    PROVE  CompactStepSafe(c)
<1> DEFINE k == compact[c].open
           moved == compact[c].moved
           held == EntriesIn(moved, k)
<1>1. CompactRunInv(c) /\ CompactRunOK(compact[c]) /\ compact = [d \in Compactors |-> compact[d]]
  BY DEF Inv, CompactInv, TypeOK, CompactTypeOK
<1>2. /\ compact[c].pc = "relocate" /\ ToMove(c) = {}
      /\ packs' = IF k = NoPack THEN packs ELSE Put(packs, k, held)
      /\ UNCHANGED <<nodes, nodeChunks, chunkMan, packMan, records, usedPacks, usedSnaps>>
      /\ \/ compact' = [compact EXCEPT ![c] = CompactIdle]
         \/ compact' = [compact EXCEPT ![c].pc = "listChunks", ![c].open = NoPack]
  BY DEF FlushRelocated, CompactAt
<1>3. /\ \A y \in DOMAIN moved : moved[y] \notin Range(compact[c].idx) /\ moved[y] # NoPack
      /\ \A y \in DOMAIN moved : moved[y] = k \/ BlobStored(moved[y], y)
      /\ k \notin DOMAIN packs
  BY <1>1, KnownPacks, CompactNoPack DEF CompactRunInv, MovedInv, PackedOrBuffered, Inv, OpenPacks
<1>4. held = {y \in DOMAIN moved : moved[y] = k}
  BY DEF EntriesIn
<1>5. NoPack \notin Range(compact[c].idx) /\ NoPack \notin DOMAIN packs
  BY KnownPacks, CompactNoPack
<1> HIDE DEF held, moved, k
<1>6. /\ \A j, y : BlobStored(j, y) => BlobStored(j, y)'
      /\ DOMAIN packs' \subseteq DOMAIN packs \cup {k}
  BY <1>2, <1>3, StorePack
<1>7. NoPack \notin DOMAIN packs'
  BY <1>2, <1>5 DEF Put
<1>8. EntriesSound' /\ SnapshotsComplete'
  BY <1>2, <1>6, ReadersKept
<1>9. CASE compact' = [compact EXCEPT ![c] = CompactIdle]
  <2>1. compact'[c] = CompactIdle /\ CompactIdle.open = NoPack
    BY <1>1, <1>9 DEF CompactIdle
  <2> QED BY <1>7, <1>8, <2>1, CompactIdleSafe DEF CompactStepSafe
<1>10. CASE compact' = [compact EXCEPT ![c].pc = "listChunks", ![c].open = NoPack]
  <2>1. /\ compact'[c].pc = "listChunks" /\ compact'[c].idx = compact[c].idx
        /\ compact'[c].unread = compact[c].unread /\ compact'[c].live = compact[c].live
        /\ compact'[c].moved = moved /\ compact'[c].open = NoPack
        /\ compact'[c].oldChunks = compact[c].oldChunks /\ compact'[c].doomed = compact[c].doomed
    BY <1>1, <1>10 DEF CompactRunOK, CompactFields, moved
  <2>2. ASSUME NEW y \in DOMAIN moved
        PROVE  moved[y] \in DOMAIN packs' /\ y \in packs'[moved[y]]
    <3>1. CASE moved[y] = k
      BY <1>2, <1>3, <1>4, <3>1 DEF Put
    <3>2. CASE moved[y] # k
      BY <1>3, <1>6, <3>2 DEF BlobStored
    <3> QED BY <3>1, <3>2
  <2>3. ToMove(c)' = {}
    BY <1>2, <2>1 DEF ToMove, Candidates, moved
  <2>4. MovedInv(c)'
    <3>1. PackedOrBuffered(compact[c].moved, compact[c].open)'
      BY <2>1, <2>2 DEF PackedOrBuffered, BlobStored
    <3> QED BY <1>3, <1>5, <2>1, <2>3, <3>1 DEF MovedInv, Deciding, Replaced
  <2>5. LiveInv(c)'
    BY <1>1, <1>2, <2>1 DEF CompactRunInv, LiveInv, Refs
  <2>6. IndexInv(c)'
    BY <1>1, <1>2, <1>6, <2>1 DEF CompactRunInv, IndexInv, Deciding, Indexed
  <2>7. ReplaceInv(c)'
    BY <1>1, <1>2, <2>1 DEF CompactRunInv, ReplaceInv, Replaced
  <2>8. CompactRunInv(c)'
    BY <2>1, <2>4, <2>5, <2>6, <2>7 DEF CompactRunInv, CompactAt
  <2> QED BY <1>7, <1>8, <2>1, <2>8 DEF CompactStepSafe
<1> QED BY <1>2, <1>9, <1>10

-----------------------------------------------------------------------------
(* Replacing the index, and deleting the packs out of use. *)

Later == {"listChunks", "listPacks", "putChunks", "putPacks", "dropChunks", "dropPacks",
          "dropDead", "dropCandidates"}

OutOfUse(c) == Dead(c) \cup Candidates(c)

\* The new index keeps every live chunk that is indexed, names no pack that is out of
\* use, and is true.
LEMMA NewChunksFacts ==
    ASSUME Inv, NEW c \in Compactors, compact[c].pc \in Later
    PROVE  /\ DOMAIN compact[c].idx \cap compact[c].live \subseteq DOMAIN NewChunks(c)
           /\ \A x \in DOMAIN NewChunks(c) : NewChunks(c)[x] \notin OutOfUse(c)
           /\ compact[c].pc \in Deciding =>
                \A x \in DOMAIN NewChunks(c) : BlobStored(NewChunks(c)[x], x)
           /\ \A x \in DOMAIN compact[c].moved : BlobStored(compact[c].moved[x], x)
           /\ OutOfUse(c) \subseteq Range(compact[c].idx)
<1> DEFINE idx == compact[c].idx
           live == compact[c].live
           moved == compact[c].moved
           new == NewChunks(c)
           kept == {x \in DOMAIN idx : idx[x] \notin OutOfUse(c)}
<1>1. MovedInv(c) /\ IndexInv(c)
  BY DEF Inv, CompactInv, CompactRunInv
<1>2. /\ DOMAIN new = kept \cup DOMAIN moved
      /\ \A x \in DOMAIN moved : new[x] = moved[x]
      /\ \A x \in kept \ DOMAIN moved : new[x] = idx[x]
  BY DEF NewChunks, OutOfUse
<1>3. Dead(c) \subseteq Range(idx) /\ Candidates(c) \subseteq Range(idx)
  BY DEF Dead, Candidates, DeadPacks, CandidatePacks
<1>4. ToMove(c) = {} /\ compact[c].open = NoPack
  BY <1>1 DEF MovedInv, Later, Deciding, Replaced
<1>5. \A x \in DOMAIN moved : moved[x] \notin Range(idx) /\ BlobStored(moved[x], x)
  BY <1>1, <1>4, KnownPacks, CompactNoPack DEF MovedInv, PackedOrBuffered
<1>6. ASSUME NEW x \in DOMAIN idx \cap live PROVE x \in DOMAIN new
  <2>1. idx[x] \notin Dead(c)
    BY DEF Dead, DeadPacks, EntriesIn
  <2>2. idx[x] \in Candidates(c) => x \in DOMAIN moved
    BY <1>4 DEF ToMove
  <2> QED BY <1>2, <2>1, <2>2 DEF OutOfUse
<1>7. \A x \in DOMAIN new : new[x] \notin OutOfUse(c)
  BY <1>2, <1>3, <1>5 DEF OutOfUse
<1>8. compact[c].pc \in Deciding => \A x \in DOMAIN new : BlobStored(new[x], x)
  BY <1>1, <1>2, <1>5 DEF IndexInv
<1> QED BY <1>3, <1>5, <1>6, <1>7, <1>8 DEF OutOfUse

\* A step that does not change what the run decides by, nor the packs moved.
SameDecision(c) ==
    /\ compact'[c].unread = compact[c].unread /\ compact'[c].live = compact[c].live
    /\ compact'[c].idx = compact[c].idx /\ compact'[c].moved = compact[c].moved
    /\ compact'[c].open = compact[c].open

\* Then it also leaves alone what is computed from that.
LEMMA DecisionKept ==
    ASSUME NEW c, SameDecision(c)
    PROVE  /\ Dead(c)' = Dead(c) /\ Candidates(c)' = Candidates(c)
           /\ ToMove(c)' = ToMove(c) /\ NewChunks(c)' = NewChunks(c)
           /\ OutOfUse(c)' = OutOfUse(c)
<1>1. Dead(c)' = Dead(c) /\ Candidates(c)' = Candidates(c)
  BY DEF SameDecision, Dead, Candidates
<1> QED BY <1>1 DEF SameDecision, ToMove, NewChunks, OutOfUse

\* From the flush on, only the index and what is to be deleted have to be looked at.
LEMMA LaterSafe ==
    ASSUME Inv, NEW c \in Compactors, SameDecision(c), compact[c].pc \in Later,
           compact'[c].pc \in Later, UNCHANGED <<nodeChunks, records>>,
           \A x \in DOMAIN compact[c].moved : BlobStored(compact[c].moved[x], x)',
           IndexInv(c)', ReplaceInv(c)'
    PROVE  CompactRunInv(c)'
<1>1. LiveInv(c) /\ MovedInv(c)
  BY DEF Inv, CompactInv, CompactRunInv
<1>2. LiveInv(c)'
  BY <1>1 DEF LiveInv, SameDecision, Later, Refs
<1>3. MovedInv(c)'
  <2>1. PackedOrBuffered(compact[c].moved, compact[c].open)'
    BY DEF PackedOrBuffered, SameDecision
  <2> QED BY <1>1, <2>1, DecisionKept DEF MovedInv, SameDecision, Later, Deciding, Replaced
<1> QED BY <1>2, <1>3 DEF CompactRunInv, CompactAt, Later

\* Steps that leave the packs and the chunk manifests alone.
LEMMA LaterQuietSafe ==
    ASSUME Inv, NEW c \in Compactors, SameDecision(c), compact[c].pc \in Later,
           compact'[c].pc \in Later, UNCHANGED <<packs, nodes, nodeChunks, chunkMan, records>>,
           compact[c].pc \in Deciding \/ compact'[c].pc \notin Deciding,
           ReplaceInv(c)'
    PROVE  CompactStepSafe(c)
<1>1. IndexInv(c) /\ MovedInv(c)
  BY DEF Inv, CompactInv, CompactRunInv
<1>2. IndexInv(c)'
  <2>1. Indexed' = Indexed /\ compact'[c].idx = compact[c].idx /\ compact'[c].pc # "index"
    BY DEF Indexed, SameDecision, Later
  <2>2. compact'[c].pc \in Deciding => compact[c].pc \in Deciding
    OBVIOUS
  <2> QED BY <1>1, <2>1, <2>2 DEF IndexInv, BlobStored
<1>3. \A x \in DOMAIN compact[c].moved : BlobStored(compact[c].moved[x], x)'
  BY NewChunksFacts DEF SameDecision, BlobStored
<1>4. compact'[c].open \notin DOMAIN packs
  BY DEF SameDecision, Inv, OpenPacks
<1> QED BY <1>2, <1>3, <1>4, LaterSafe, CompactQuiet

\* The invariant of a run, unfolded.
LEMMA CompactRunFacts ==
    ASSUME Inv, NEW c \in Compactors
    PROVE  /\ LiveInv(c) /\ IndexInv(c) /\ MovedInv(c) /\ ReplaceInv(c)
           /\ CompactRunOK(compact[c]) /\ compact = [d \in Compactors |-> compact[d]]
BY DEF Inv, CompactInv, CompactRunInv, TypeOK, CompactTypeOK

\* The manifests to delete are all but index.parquet.
LEMMA ListOldSafe ==
    ASSUME Inv, NEW c \in Compactors, ListOldChunks(c) \/ ListOldPacks(c)
    PROVE  CompactStepSafe(c)
<1>1. CASE ListOldChunks(c)
  <2>1. /\ SameDecision(c) /\ compact[c].pc = "listChunks" /\ compact'[c].pc = "listPacks"
        /\ compact'[c].oldChunks = DOMAIN chunkMan \ {Index}
        /\ compact'[c].doomed = compact[c].doomed /\ UNCHANGED store
    BY <1>1, CompactRunFacts DEF ListOldChunks, CompactAt, SameDecision, CompactRunOK, CompactFields
  <2>2. ReplaceInv(c)'
    BY <2>1, CompactRunFacts DEF ReplaceInv, Replaced, store
  <2> QED BY <2>1, <2>2, LaterQuietSafe DEF Later, Deciding, store
<1>2. CASE ListOldPacks(c)
  <2>1. /\ SameDecision(c) /\ compact[c].pc = "listPacks" /\ compact'[c].pc = "putChunks"
        /\ compact'[c].oldChunks = compact[c].oldChunks
        /\ compact'[c].doomed = compact[c].doomed /\ UNCHANGED store
    BY <1>2, CompactRunFacts DEF ListOldPacks, CompactAt, SameDecision, CompactRunOK, CompactFields
  <2>2. ReplaceInv(c)'
    BY <2>1, CompactRunFacts DEF ReplaceInv, Replaced, store
  <2> QED BY <2>1, <2>2, LaterQuietSafe DEF Later, Deciding, store
<1> QED BY <1>1, <1>2

\* The new index is true, and lists every chunk that a recorded snapshot needs.
LEMMA PutChunkIndexSafe ==
    ASSUME Inv, NEW c \in Compactors, PutChunkIndex(c)
    PROVE  CompactStepSafe(c)
<1> DEFINE new == NewChunks(c)
<1>1. /\ SameDecision(c) /\ compact[c].pc = "putChunks" /\ compact'[c].pc = "putPacks"
      /\ compact'[c].oldChunks = compact[c].oldChunks
      /\ compact'[c].doomed = compact[c].doomed
      /\ UNCHANGED <<packs, nodes, nodeChunks, packMan, records, usedPacks, usedSnaps>>
  BY CompactRunFacts DEF PutChunkIndex, CompactAt, SameDecision, CompactRunOK, CompactFields
<1>2. /\ \A x \in DOMAIN new : BlobStored(new[x], x)
      /\ DOMAIN compact[c].idx \cap compact[c].live \subseteq DOMAIN new
      /\ \A x \in DOMAIN compact[c].moved : BlobStored(compact[c].moved[x], x)
  BY <1>1, NewChunksFacts DEF Later, Deciding
<1>3. \A s \in records : Refs(s) \subseteq DOMAIN new
  <2>1. \A s \in records : Refs(s) \subseteq compact[c].live
    BY <1>1, CompactRunFacts DEF LiveInv
  <2>2. \A s \in records : Refs(s) \subseteq DOMAIN compact[c].idx
    BY <1>1, CompactRunFacts DEF IndexInv, Deciding, Inv, SnapshotsComplete
  <2> QED BY <1>2, <2>1, <2>2
<1>4. new = NewChunks(c)'
  BY <1>1, DecisionKept
<1>5. chunkMan' = Put(chunkMan, Index, new)
  BY DEF PutChunkIndex
<1> HIDE DEF new
<1>6. /\ DOMAIN chunkMan' = DOMAIN chunkMan \cup {Index} /\ chunkMan'[Index] = new
      /\ \A k \in DOMAIN chunkMan : k # Index => chunkMan'[k] = chunkMan[k]
  BY <1>5 DEF Put
<1>7. EntriesSound'
  BY <1>1, <1>2, <1>6 DEF Inv, EntriesSound, BlobStored
<1>8. SnapshotsComplete'
  <2>1. DOMAIN new \subseteq Indexed'
    BY <1>6 DEF Indexed
  <2>2. \A s \in records : Refs(s)' = Refs(s)
    BY <1>1 DEF Refs
  <2> QED BY <1>1, <1>3, <2>1, <2>2 DEF Inv, SnapshotsComplete
<1>9. ReplaceInv(c)'
  <2>1. \A s \in records : Refs(s)' = Refs(s)
    BY <1>1 DEF Refs
  <2>2. ReplaceInv(c)
    BY CompactRunFacts
  <2>3. DOMAIN chunkMan \subseteq compact[c].oldChunks \cup {Index}
    BY <1>1, <2>2 DEF ReplaceInv
  <2> QED BY <1>1, <1>3, <1>4, <1>6, <2>1, <2>2, <2>3 DEF ReplaceInv, Replaced, IndexListed
<1>10. IndexInv(c)'
  BY <1>1 DEF IndexInv, Deciding
<1>11. CompactRunInv(c)'
  <2>1. \A x \in DOMAIN compact[c].moved : BlobStored(compact[c].moved[x], x)'
    BY <1>1, <1>2 DEF SameDecision, BlobStored
  <2> QED BY <1>1, <1>9, <1>10, <2>1, LaterSafe DEF Later
<1>12. compact'[c].open \notin DOMAIN packs'
  BY <1>1 DEF SameDecision, Inv, OpenPacks
<1> QED BY <1>7, <1>8, <1>11, <1>12 DEF CompactStepSafe

\* The pack index is read by no restore.
LEMMA PutPackIndexSafe ==
    ASSUME Inv, NEW c \in Compactors, PutPackIndex(c)
    PROVE  CompactStepSafe(c)
<1>1. /\ SameDecision(c) /\ compact[c].pc = "putPacks" /\ compact'[c].pc = "dropChunks"
      /\ compact'[c].oldChunks = compact[c].oldChunks
      /\ compact'[c].doomed = compact[c].doomed
      /\ UNCHANGED <<packs, nodes, nodeChunks, chunkMan, records>>
  BY CompactRunFacts DEF PutPackIndex, CompactAt, SameDecision, CompactRunOK, CompactFields
<1>2. ReplaceInv(c)'
  BY <1>1, CompactRunFacts, DecisionKept DEF ReplaceInv, Replaced, IndexListed, Refs
<1> QED BY <1>1, <1>2, LaterQuietSafe DEF Later, Deciding

\* A manifest that is deleted is not index.parquet, which has all that is needed.
LEMMA DropChunkManifestSafe ==
    ASSUME Inv, NEW c \in Compactors, DropChunkManifest(c)
    PROVE  CompactStepSafe(c)
<1> DEFINE k == Min(compact[c].oldChunks)
           rest == compact[c].oldChunks \ {k}
<1>1. k \in compact[c].oldChunks
  <2>1. compact[c].oldChunks \subseteq Nat
    BY CompactRunFacts, KeysAssumption DEF CompactRunOK, Inv, TypeOK, StoreTypeOK
  <2> QED BY <2>1, MinIn DEF DropChunkManifest
<1>2. /\ compact[c].pc = "dropChunks" /\ chunkMan' = Delete(chunkMan, k)
      /\ compact' = [compact EXCEPT ![c].oldChunks = rest]
      /\ UNCHANGED <<packs, nodes, nodeChunks, records>>
  BY CompactRunFacts DEF DropChunkManifest, CompactAt, CompactRunOK, CompactFields
<1>3. ReplaceInv(c)
  BY CompactRunFacts
<1>4. k # Index /\ \A j \in compact[c].oldChunks : j = k \/ j \in rest
  BY <1>1, <1>3 DEF ReplaceInv
<1>5. rest \subseteq compact[c].oldChunks
  OBVIOUS
<1> HIDE DEF k, rest
<1>6. /\ SameDecision(c) /\ compact'[c].pc = "dropChunks" /\ compact'[c].oldChunks = rest
      /\ compact'[c].doomed = compact[c].doomed
  BY <1>2, CompactRunFacts DEF SameDecision, CompactRunOK, CompactFields
<1>7. DOMAIN chunkMan' = DOMAIN chunkMan \ {k} /\ \A j \in DOMAIN chunkMan' : chunkMan'[j] = chunkMan[j]
  BY <1>2 DEF Delete
<1>8. EntriesSound'
  BY <1>2, <1>7 DEF Inv, EntriesSound, BlobStored
<1>9. \A s \in records : Refs(s)' = Refs(s)
  BY <1>2 DEF Refs
<1>10. /\ Index \in DOMAIN chunkMan' /\ chunkMan'[Index] = NewChunks(c)
       /\ \A s \in records : Refs(s) \subseteq DOMAIN NewChunks(c)
  BY <1>2, <1>3, <1>4, <1>7 DEF ReplaceInv, Replaced, IndexListed
<1>11. SnapshotsComplete'
  <2>1. DOMAIN NewChunks(c) \subseteq Indexed'
    BY <1>10 DEF Indexed
  <2> QED BY <1>2, <1>9, <1>10, <2>1 DEF Inv, SnapshotsComplete
<1>12. ReplaceInv(c)'
  <2>1. DOMAIN chunkMan' \subseteq rest \cup {Index}
    BY <1>2, <1>3, <1>4, <1>7 DEF ReplaceInv
  <2>2. Index \notin rest
    BY <1>3, <1>5 DEF ReplaceInv
  <2>3. NewChunks(c)' = NewChunks(c) /\ compact'[c].doomed = {}
    BY <1>2, <1>3, <1>6, DecisionKept DEF ReplaceInv
  <2> QED BY <1>2, <1>6, <1>9, <1>10, <2>1, <2>2, <2>3 DEF ReplaceInv, Replaced, IndexListed
<1>13. CompactRunInv(c)'
  <2>1. \A x \in DOMAIN compact[c].moved : BlobStored(compact[c].moved[x], x)'
    BY <1>2, NewChunksFacts DEF Later, BlobStored
  <2>2. IndexInv(c)'
    BY <1>6 DEF IndexInv, Deciding
  <2> QED BY <1>2, <1>6, <1>12, <2>1, <2>2, LaterSafe DEF Later
<1>14. compact'[c].open \notin DOMAIN packs'
  BY <1>2, <1>6 DEF SameDecision, Inv, OpenPacks
<1> QED BY <1>8, <1>11, <1>13, <1>14 DEF CompactStepSafe

\* When none is left to delete, index.parquet is the only chunk manifest.
LEMMA ChunkManifestsDroppedSafe ==
    ASSUME Inv, NEW c \in Compactors, ChunkManifestsDropped(c)
    PROVE  CompactStepSafe(c)
<1>1. /\ SameDecision(c) /\ compact[c].pc = "dropChunks" /\ compact'[c].pc = "dropPacks"
      /\ compact'[c].oldChunks = compact[c].oldChunks /\ compact[c].oldChunks = {}
      /\ compact'[c].doomed = compact[c].doomed
      /\ UNCHANGED <<packs, nodes, nodeChunks, chunkMan, records>>
  BY CompactRunFacts
  DEF ChunkManifestsDropped, CompactAt, SameDecision, CompactRunOK, CompactFields, store
<1>2. ReplaceInv(c)'
  BY <1>1, CompactRunFacts, DecisionKept DEF ReplaceInv, Replaced, IndexListed, Refs
<1> QED BY <1>1, <1>2, LaterQuietSafe DEF Later, Deciding

\* Deleting a pack manifest disturbs nothing.
LEMMA DropPackManifestSafe ==
    ASSUME Inv, NEW c \in Compactors, DropPackManifest(c)
    PROVE  CompactStepSafe(c)
<1>1. /\ SameDecision(c) /\ compact[c].pc = "dropPacks" /\ compact'[c].pc = "dropPacks"
      /\ compact'[c].oldChunks = compact[c].oldChunks
      /\ compact'[c].doomed = compact[c].doomed
      /\ UNCHANGED <<packs, nodes, nodeChunks, chunkMan, records>>
  BY CompactRunFacts DEF DropPackManifest, CompactAt, SameDecision, CompactRunOK, CompactFields
<1>2. ReplaceInv(c)'
  BY <1>1, CompactRunFacts, DecisionKept DEF ReplaceInv, Replaced, IndexListed, Refs
<1> QED BY <1>1, <1>2, LaterQuietSafe DEF Later, Deciding

\* The packs to delete are those out of use.
LEMMA DoomSafe ==
    ASSUME Inv, NEW c \in Compactors, PackManifestsDropped(c) \/ DeadDropped(c)
    PROVE  CompactStepSafe(c)
<1>1. /\ SameDecision(c) /\ compact[c].pc \in {"dropPacks", "dropDead"}
      /\ compact'[c].pc \in {"dropDead", "dropCandidates"}
      /\ compact'[c].oldChunks = compact[c].oldChunks
      /\ compact'[c].doomed \subseteq Dead(c) \cup Candidates(c)
      /\ UNCHANGED <<packs, nodes, nodeChunks, chunkMan, records>>
  <2>1. CASE PackManifestsDropped(c)
    BY <2>1, CompactRunFacts
    DEF PackManifestsDropped, CompactAt, SameDecision, CompactRunOK, CompactFields, store
  <2>2. CASE DeadDropped(c)
    BY <2>2, CompactRunFacts
    DEF DeadDropped, CompactAt, SameDecision, CompactRunOK, CompactFields, store
  <2> QED BY <2>1, <2>2
<1>2. ReplaceInv(c)'
  BY <1>1, CompactRunFacts, DecisionKept DEF ReplaceInv, Replaced, IndexListed, Refs
<1> QED BY <1>1, <1>2, LaterQuietSafe DEF Later, Deciding

\* A pack is deleted when no manifest names it any more.
LEMMA DropPackSafe ==
    ASSUME Inv, NEW c \in Compactors, NEW k \in PackIds, DropPack(c, k)
    PROVE  CompactStepSafe(c)
<1> DEFINE rest == compact[c].doomed \ {k}
<1>1. /\ compact[c].pc \in {"dropDead", "dropCandidates"} /\ k \in compact[c].doomed
      /\ packs' = Delete(packs, k)
      /\ compact' = [compact EXCEPT ![c].doomed = rest]
      /\ UNCHANGED <<nodes, nodeChunks, chunkMan, records>>
  BY CompactRunFacts DEF DropPack, CompactAt, CompactRunOK, CompactFields
<1>2. rest \subseteq compact[c].doomed
  OBVIOUS
<1> HIDE DEF rest
<1>3. /\ SameDecision(c) /\ compact'[c].pc = compact[c].pc
      /\ compact'[c].oldChunks = compact[c].oldChunks /\ compact'[c].doomed = rest
  BY <1>1, CompactRunFacts DEF SameDecision, CompactRunOK, CompactFields
<1>4. /\ DOMAIN chunkMan \subseteq {Index} /\ chunkMan[Index] = NewChunks(c)
      /\ k \in OutOfUse(c)
  BY <1>1, CompactRunFacts DEF ReplaceInv, Replaced, OutOfUse
<1>5. /\ \A x \in DOMAIN NewChunks(c) : NewChunks(c)[x] # k
      /\ \A x \in DOMAIN compact[c].moved : BlobStored(compact[c].moved[x], x)
      /\ k \in Range(compact[c].idx)
  BY <1>1, <1>4, NewChunksFacts DEF Later
<1>6. \A j, x : j # k /\ BlobStored(j, x) => BlobStored(j, x)'
  BY <1>1 DEF BlobStored, Delete
<1>7. EntriesSound'
  BY <1>1, <1>4, <1>5, <1>6 DEF Inv, EntriesSound
<1>8. SnapshotsComplete'
  BY <1>1 DEF Inv, SnapshotsComplete, Refs, Indexed
<1>9. ReplaceInv(c)'
  BY <1>1, <1>2, <1>3, CompactRunFacts, DecisionKept DEF ReplaceInv, Replaced, IndexListed, Refs
<1>10. CompactRunInv(c)'
  <2>1. \A x \in DOMAIN compact[c].moved : BlobStored(compact[c].moved[x], x)'
    <3>1. \A x \in DOMAIN compact[c].moved : compact[c].moved[x] # k
      BY <1>5, CompactRunFacts DEF MovedInv
    <3> QED BY <1>3, <1>5, <1>6, <3>1 DEF SameDecision
  <2>2. IndexInv(c)'
    BY <1>1, <1>3 DEF IndexInv, Deciding
  <2> QED BY <1>1, <1>3, <1>9, <2>1, <2>2, LaterSafe DEF Later
<1>11. compact'[c].open \notin DOMAIN packs'
  BY <1>1, <1>3 DEF SameDecision, Inv, OpenPacks, Delete
<1> QED BY <1>7, <1>8, <1>10, <1>11 DEF CompactStepSafe

\* A run that ends or fails leaves the store as it is.
LEMMA CompactEndSafe ==
    ASSUME Inv, NEW c \in Compactors, FinishCompact(c) \/ FailCompact(c)
    PROVE  CompactStepSafe(c)
<1>1. compact'[c] = CompactIdle /\ UNCHANGED <<packs, nodes, nodeChunks, chunkMan, records>>
  BY CompactRunFacts DEF FinishCompact, FailCompact, store
<1>2. CompactIdle.open = NoPack
  BY DEF CompactIdle
<1> QED BY <1>1, <1>2, CompactIdleSafe, CompactNoPack, CompactQuiet

-----------------------------------------------------------------------------
\* Every step of a compaction.
LEMMA EachCompactStepSafe ==
    ASSUME Inv, NEW c \in Compactors, ListSnapshots(c) \/ CompactStep(c)
    PROVE  CompactStepSafe(c)
<1>1. CASE ListSnapshots(c) \/ ReadRepository(c)
  BY <1>1, ListSnapshotsSafe, ReadNodesSafe, ReadNodeChunksSafe, ListChunkIndexSafe,
     ReadChunkIndexSafe, ReadPackIndexSafe DEF ReadRepository
<1>2. CASE RelocateChunks(c)
  BY <1>2, RelocateSafe, FlushRelocatedSafe DEF RelocateChunks
<1>3. CASE ReplaceIndex(c)
  BY <1>3, ListOldSafe, PutChunkIndexSafe, PutPackIndexSafe, DropChunkManifestSafe,
     ChunkManifestsDroppedSafe, DropPackManifestSafe, DoomSafe DEF ReplaceIndex
<1>4. CASE DropPacks(c) \/ FailCompact(c)
  BY <1>4, DropPackSafe, DoomSafe, CompactEndSafe DEF DropPacks
<1> QED BY <1>1, <1>2, <1>3, <1>4 DEF CompactStep
=============================================================================
