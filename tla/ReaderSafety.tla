---------------------------- MODULE ReaderSafety ----------------------------
(***************************************************************************)
(* Readers beside writers, for every value of the constants: readers       *)
(* change nothing in the repository, and a restore that returns without an *)
(* error has written what was backed up.                                   *)
(***************************************************************************)
EXTENDS RepositorySafety, ReaderRepository

\* Taking the next chunk from the rest leaves what is written and to be written.
LEMMA NextChunk ==
    ASSUME NEW S, NEW written \in Seq(S), NEW rest \in Seq(S), rest # <<>>
    PROVE  /\ Append(written, Head(rest)) \in Seq(S) /\ Tail(rest) \in Seq(S)
           /\ Append(written, Head(rest)) \o Tail(rest) = written \o rest
OBVIOUS

\* So does having nothing left.
LEMMA NoChunkLeft ==
    ASSUME NEW S, NEW s \in Seq(S)
    PROVE  s \o <<>> = s /\ <<>> \o s = s
OBVIOUS

-----------------------------------------------------------------------------
\* A step of anything but time is a step of the writers or leaves the repository as it is.
LEMMA ReaderNextWrites ==
    ASSUME [ReaderNext]_allVars
    PROVE  [Next]_vars \/ Decay
BY DEF ReaderNext, NextWriter, NextRestore, NextVerify, allVars

\* Readers change nothing in the repository: beside them it is still Repository, with all
\* that holds of it.
LEMMA WritersUnaffected == ASSUME Fragile = {} PROVE ReaderSpec => Spec
<1>1. ReaderInit => Init
  BY DEF ReaderInit
<1>2. [ReaderNext]_allVars => [Next]_vars
  BY ReaderNextWrites DEF Decay
<1> QED BY <1>1, <1>2, PTL DEF ReaderSpec, Spec

-----------------------------------------------------------------------------
(* The types of what readers hold, under any schedule and any decay. *)

\* Identifiers are only added, whatever writes.
LEMMA WritersDraw ==
    ASSUME TypedInv, [Next]_vars
    PROVE  Drawing
<1>0. TypeOK /\ Identified
  BY DEF TypedInv
<1>1. CASE NextBackup
  BY <1>0, <1>1, BackupStepType DEF NextBackup, StartBackup
<1>2. CASE NextCompact
  BY <1>0, <1>2, CompactStepType DEF NextCompact, StartCompact
<1>3. CASE NextForget
  BY <1>0, <1>3, ForgetStepType DEF NextForget, StartForget
<1>4. CASE UNCHANGED vars
  BY <1>4 DEF vars, store, Drawing
<1> QED BY <1>1, <1>2, <1>3, <1>4 DEF Next

\* Decay leaves the repository well-typed.
LEMMA DecayType ==
    ASSUME TypedInv, Decay
    PROVE  TypedInv' /\ Drawing
<1>1. UNCHANGED <<store, backup, compact, forget>>
  BY DEF Decay
<1>2. StoreTypeOK' /\ Drawing
  BY <1>1 DEF TypedInv, TypeOK, StoreTypeOK, Drawing, store
<1>3. BackupTypeOK' /\ CompactTypeOK' /\ ForgetTypeOK'
  BY <1>1, <1>2, BackupUnchanged, CompactUnchanged, ForgetUnchanged DEF TypedInv, TypeOK
<1>4. Identified'
  BY <1>1, <1>2 DEF TypedInv, Identified, Drawing
<1> QED BY <1>2, <1>3, <1>4 DEF TypedInv, TypeOK

\* What decays is a blob that was stored.
LEMMA DecayedTyped ==
    ASSUME TypedInv, decayed \subseteq usedPacks \X Chunks, [Next]_vars \/ Decay
    PROVE  decayed' \subseteq usedPacks' \X Chunks
<1>1. CASE [Next]_vars
  <2>1. usedPacks \subseteq usedPacks'
    BY <1>1, WritersDraw DEF Drawing
  <2>2. decayed' = decayed
    BY <1>1, Zenon DEF Next, vars
  <2> QED BY <2>1, <2>2
<1>2. CASE Decay
  <2>1. PICK k \in DOMAIN packs : \E c \in packs[k] : decayed' = decayed \cup {<<k, c>>}
    BY <1>2 DEF Decay
  <2>2. k \in usedPacks /\ packs[k] \subseteq Chunks
    BY <2>1 DEF TypedInv, TypeOK, StoreTypeOK, IsPartial
  <2>3. usedPacks' = usedPacks
    BY <1>2 DEF Decay, store
  <2> QED BY <2>1, <2>2, <2>3
<1> QED BY <1>1, <1>2

\* Before the files, a restore has selected none.
ReadersTyped ==
    /\ TypedInv /\ RestoreTypeOK /\ VerifyTypeOK /\ decayed \subseteq usedPacks \X Chunks
    /\ \A r \in Restorers : restore[r].pc \notin {"files", "write"} => restore[r].selected = {}

\* One run of restore, and its destination.
RestoreRunOK(r, d, l) ==
    /\ DOMAIN r = RestoreFields
    /\ r.pc \in RestorePCs
    /\ r.id \in usedSnaps \cup {NoSnap}
    /\ IsPartial(r.tree, Paths, [hash : Contents, chunks : Seq(Chunks)])
    /\ IsPartial(r.idx, Chunks, usedPacks)
    /\ r.todo \subseteq Paths /\ r.selected \subseteq DOMAIN r.tree /\ r.file \subseteq Paths
    /\ r.rest \in Seq(Chunks)
    /\ r.pc \notin {"files", "write"} => r.selected = {}
    /\ IsPartial(d, Paths, Seq(Chunks))
    /\ IsPartial(l, Paths, Paths)

\* One run of verification.
VerifyRunOK(r) ==
    /\ DOMAIN r = VerifyFields
    /\ r.pc \in VerifyPCs /\ r.deep \in BOOLEAN
    /\ r.unread \subseteq r.snaps /\ r.snaps \subseteq usedSnaps
    /\ IsPartial(r.idx, Chunks, usedPacks)
    /\ r.id \in usedSnaps \cup {NoSnap} /\ r.files \subseteq Paths
    /\ r.todo \subseteq Chunks /\ r.checked \subseteq Chunks

\* The types run by run.
LEMMA RunByRun ==
    /\ ReadersTyped <=> /\ TypedInv /\ decayed \subseteq usedPacks \X Chunks
                        /\ DOMAIN restore = Restorers /\ DOMAIN dest = Restorers
                        /\ DOMAIN links = Restorers /\ DOMAIN verify = Verifiers
                        /\ \A r \in Restorers : RestoreRunOK(restore[r], dest[r], links[r])
                        /\ \A v \in Verifiers : VerifyRunOK(verify[v])
BY DEF ReadersTyped, RestoreTypeOK, VerifyTypeOK, RestoreRunOK, VerifyRunOK

\* A run that holds nothing is well-typed.
LEMMA ReadersIdleOK ==
    /\ \A d, l : IsPartial(d, Paths, Seq(Chunks)) /\ IsPartial(l, Paths, Paths)
                   => RestoreRunOK(RestoreIdle, d, l)
    /\ VerifyRunOK(VerifyIdle)
<1>1. /\ DOMAIN RestoreIdle = RestoreFields /\ RestoreIdle.pc = "idle" /\ RestoreIdle.id = NoSnap
      /\ RestoreIdle.tree = <<>> /\ RestoreIdle.idx = <<>> /\ RestoreIdle.selected = {}
      /\ RestoreIdle.todo = {} /\ RestoreIdle.file = {} /\ RestoreIdle.rest = <<>>
      /\ <<>> \in Seq(Chunks)
  BY DEF RestoreIdle, RestoreFields
<1>2. /\ DOMAIN VerifyIdle = VerifyFields /\ VerifyIdle.pc = "idle" /\ VerifyIdle.deep = FALSE
      /\ VerifyIdle.snaps = {} /\ VerifyIdle.unread = {} /\ VerifyIdle.idx = <<>>
      /\ VerifyIdle.id = NoSnap /\ VerifyIdle.files = {} /\ VerifyIdle.todo = {}
      /\ VerifyIdle.checked = {}
  BY DEF VerifyIdle, VerifyFields
<1> QED BY <1>1, <1>2, EmptyPartial DEF RestoreRunOK, VerifyRunOK, RestorePCs, VerifyPCs

\* What a run holds stays well-typed when identifiers are drawn.
LEMMA RunsWiden ==
    ASSUME Drawing
    PROVE  /\ \A r, d, l : RestoreRunOK(r, d, l) => RestoreRunOK(r, d, l)'
           /\ \A r : VerifyRunOK(r) => VerifyRunOK(r)'
<1>1. ASSUME NEW idx, IsPartial(idx, Chunks, usedPacks)
      PROVE  IsPartial(idx, Chunks, usedPacks')
  BY <1>1, WidenPartial DEF Drawing
<1> QED BY <1>1 DEF RestoreRunOK, VerifyRunOK, Drawing

\* What the index is read as is typed like a manifest.
LEMMA IndexReadType ==
    ASSUME StoreTypeOK
    PROVE  /\ IsPartial(MergeManifests(ListedManifests), Chunks, usedPacks)
           /\ \A idx : IsPartial(idx, Chunks, usedPacks) /\ IndexListed
                         => IsPartial(WithIndexFile(idx), Chunks, usedPacks)
<1>1. IndexListed => IsPartial(chunkMan[Index], Chunks, usedPacks)
  BY DEF StoreTypeOK, IsPartial2, IndexListed
<1>2. ASSUME NEW idx, IsPartial(idx, Chunks, usedPacks), IndexListed
      PROVE  IsPartial(WithIndexFile(idx), Chunks, usedPacks)
  BY <1>1, <1>2 DEF WithIndexFile, IsPartial
<1> QED BY <1>2, MergeListedType

\* What is read of a snapshot's chunk lists is chunks.
LEMMA ListsReadType ==
    ASSUME StoreTypeOK, NEW s
    PROVE  /\ \A p : ChunkList(LoadedNodeChunks(s), p) \in Seq(Chunks)
           /\ \A p : ToSet(ChunkList(LoadedNodeChunks(s), p)) \subseteq Chunks
<1>1. \A p : ChunkList(LoadedNodeChunks(s), p) \in Seq(Chunks)
  BY DEF StoreTypeOK, IsPartial2, IsPartial, LoadedNodeChunks, ChunkList
<1>2. \A list \in Seq(Chunks) : ToSet(list) \subseteq Chunks
  BY DEF ToSet
<1> QED BY <1>1, <1>2

\* Reading the catalog keeps a restore well-typed.
LEMMA RestoreReadType ==
    ASSUME TypeOK, NEW r \in Restorers, DOMAIN restore = Restorers, UNCHANGED vars,
           RestoreRunOK(restore[r], dest[r], links[r]),
           \/ \E s \in SnapIds : ResolveRestore(r, s)
           \/ RestoreNodes(r) \/ RestoreNodeChunks(r) \/ RestoreListIndex(r) \/ RestoreReadIndex(r)
    PROVE  RestoreRunOK(restore[r], dest[r], links[r])'
<1> DEFINE run == restore[r]
           d == dest[r]
           l == links[r]
<1>1. /\ DOMAIN run = RestoreFields /\ RestoreRunOK(run, d, l) /\ StoreTypeOK
      /\ usedSnaps' = usedSnaps /\ usedPacks' = usedPacks
  BY DEF RestoreRunOK, TypeOK, vars, store
<1>2. ASSUME NEW s \in SnapIds, ResolveRestore(r, s) PROVE RestoreRunOK(restore[r], dest[r], links[r])'
  <2>1. s \in usedSnaps
    BY <1>1, <1>2 DEF ResolveRestore, StoreTypeOK
  <2> QED BY <1>1, <1>2, <2>1 DEF ResolveRestore, RestoreRunOK, RestoreFields, RestorePCs, RestoreAt, destination
<1>3. CASE RestoreNodes(r)
  <2> DEFINE tree == [p \in DOMAIN nodes[run.id] |-> [hash |-> nodes[run.id][p], chunks |-> <<>>]]
  <2>1. run.id \in DOMAIN nodes /\ IsPartial(nodes[run.id], Paths, Contents) /\ <<>> \in Seq(Chunks)
    BY <1>1, <1>3 DEF RestoreNodes, StoreTypeOK, IsPartial2
  <2>2. IsPartial(tree, Paths, [hash : Contents, chunks : Seq(Chunks)])
    BY <2>1 DEF IsPartial
  <2>3. /\ DOMAIN restore'[r] = RestoreFields /\ restore'[r].pc = "nodeChunks" /\ restore'[r].tree = tree
        /\ restore'[r].id = run.id /\ restore'[r].idx = run.idx /\ restore'[r].selected = run.selected
        /\ restore'[r].todo = run.todo /\ restore'[r].file = run.file /\ restore'[r].rest = run.rest
        /\ run.pc = "nodes" /\ dest' = dest /\ links' = links
    BY <1>1, <1>3 DEF RestoreNodes, RestoreFields, RestoreAt, destination
  <2> HIDE DEF tree
  <2> QED BY <1>1, <2>2, <2>3 DEF RestoreRunOK, RestorePCs
<1>4. CASE RestoreNodeChunks(r)
  <2> DEFINE lists == LoadedNodeChunks(run.id)
             tree == [p \in DOMAIN run.tree |-> [hash |-> run.tree[p].hash, chunks |-> ChunkList(lists, p)]]
  <2>1. \A p : ChunkList(lists, p) \in Seq(Chunks)
    BY <1>1, ListsReadType
  <2>2. IsPartial(run.tree, Paths, [hash : Contents, chunks : Seq(Chunks)])
    BY <1>1 DEF RestoreRunOK
  <2>3. IsPartial(tree, Paths, [hash : Contents, chunks : Seq(Chunks)])
    <3> HIDE DEF lists
    <3> QED BY <2>1, <2>2 DEF IsPartial
  <2>4. /\ DOMAIN restore'[r] = RestoreFields /\ restore'[r].pc = "list" /\ restore'[r].tree = tree
        /\ restore'[r].id = run.id /\ restore'[r].idx = run.idx /\ restore'[r].selected = run.selected
        /\ restore'[r].todo = run.todo /\ restore'[r].file = run.file /\ restore'[r].rest = run.rest
        /\ run.pc = "nodeChunks" /\ dest' = dest /\ links' = links
    BY <1>1, <1>4 DEF RestoreNodeChunks, RestoreFields, RestoreAt, destination
  <2> HIDE DEF tree
  <2> QED BY <1>1, <2>3, <2>4 DEF RestoreRunOK, RestorePCs
<1>5. CASE RestoreListIndex(r) \/ RestoreReadIndex(r)
  <2> DEFINE idx == restore'[r].idx
  <2>1. /\ DOMAIN restore'[r] = RestoreFields /\ restore'[r].pc \in {"index", "select"}
        /\ restore'[r].tree = run.tree
        /\ restore'[r].id = run.id /\ restore'[r].selected = run.selected
        /\ restore'[r].todo = run.todo /\ restore'[r].file = run.file /\ restore'[r].rest = run.rest
        /\ run.pc \in {"list", "index"} /\ dest' = dest /\ links' = links
        /\ \/ idx = MergeManifests(ListedManifests)
           \/ IndexListed /\ idx = WithIndexFile(run.idx)
    BY <1>1, <1>5 DEF RestoreListIndex, RestoreReadIndex, RestoreFields, RestoreAt, destination
  <2>2. IsPartial(run.idx, Chunks, usedPacks)
    BY <1>1 DEF RestoreRunOK
  <2>3. IsPartial(idx, Chunks, usedPacks)
    BY <1>1, <2>1, <2>2, IndexReadType
  <2> QED BY <1>1, <2>1, <2>3 DEF RestoreRunOK, RestorePCs
<1> QED BY <1>2, <1>3, <1>4, <1>5

\* So does writing the files.
LEMMA RestoreWriteType ==
    ASSUME NEW r \in Restorers, DOMAIN restore = Restorers, DOMAIN dest = Restorers,
           DOMAIN links = Restorers, UNCHANGED vars,
           RestoreRunOK(restore[r], dest[r], links[r]),
           \/ \E prefix \in Selections : SelectNodes(r, prefix)
           \/ \E p \in Paths : CreateFile(r, p)
           \/ \E p, q \in Paths : RestoreLink(r, p, q)
           \/ WriteChunk(r) \/ CloseFile(r) \/ FinishRestore(r) \/ FailRestore(r)
    PROVE  RestoreRunOK(restore[r], dest[r], links[r])'
<1> DEFINE run == restore[r]
           d == dest[r]
           l == links[r]
<1>1. /\ DOMAIN run = RestoreFields /\ RestoreRunOK(run, d, l)
      /\ usedSnaps' = usedSnaps /\ usedPacks' = usedPacks
  BY DEF RestoreRunOK, vars, store
<1>2. ASSUME NEW prefix \in Selections, SelectNodes(r, prefix) PROVE RestoreRunOK(restore[r], dest[r], links[r])'
  <2>1. prefix \subseteq Paths
    BY SelectionsAssumption
  <2> QED BY <1>1, <1>2, <2>1 DEF SelectNodes, RestoreRunOK, RestoreFields, RestorePCs, RestoreAt, destination
<1>3. ASSUME NEW p \in Paths, CreateFile(r, p) PROVE RestoreRunOK(restore[r], dest[r], links[r])'
  <2> DEFINE place == PlaceOf(r, p)
  <2>1. /\ DOMAIN restore'[r] = RestoreFields /\ restore'[r].pc = "write" /\ restore'[r].tree = run.tree
        /\ restore'[r].id = run.id /\ restore'[r].idx = run.idx /\ restore'[r].selected = run.selected
        /\ restore'[r].todo = run.todo \ {p} /\ restore'[r].file = {place}
        /\ restore'[r].rest = run.tree[p].chunks
        /\ run.pc = "files" /\ p \in DOMAIN run.tree /\ dest'[r] = Put(d, place, <<>>) /\ links' = links
    BY <1>1, <1>3 DEF CreateFile, BeginFile, RestoreFields, RestoreAt
  <2>2. run.tree[p].chunks \in Seq(Chunks) /\ place \in Paths
    BY <1>1, <2>1 DEF RestoreRunOK, IsPartial, PlaceOf
  <2>3. IsPartial(dest'[r], Paths, Seq(Chunks))
    <3>1. <<>> \in Seq(Chunks) /\ IsPartial(d, Paths, Seq(Chunks))
      BY <1>1 DEF RestoreRunOK
    <3>2. IsPartial(Put(d, place, <<>>), Paths, Seq(Chunks))
      <4> HIDE DEF d, place
      <4> QED BY <2>2, <3>1, PutPartial
    <3> QED BY <2>1, <3>2
  <2> HIDE DEF place
  <2> QED BY <1>1, <2>1, <2>2, <2>3 DEF RestoreRunOK, RestorePCs
<1>7. ASSUME NEW p \in Paths, NEW q \in Paths, RestoreLink(r, p, q)
      PROVE  RestoreRunOK(restore[r], dest[r], links[r])'
  <2>1. /\ DOMAIN restore'[r] = RestoreFields /\ restore'[r].pc = "files" /\ restore'[r].tree = run.tree
        /\ restore'[r].id = run.id /\ restore'[r].idx = run.idx /\ restore'[r].selected = run.selected
        /\ restore'[r].todo = run.todo \ {p} /\ restore'[r].file = run.file /\ restore'[r].rest = run.rest
        /\ run.pc = "files" /\ dest'[r] = Delete(d, p) /\ links'[r] = Put(l, p, q)
    BY <1>1, <1>7 DEF RestoreLink, RestoreFields, RestoreAt
  <2>2. IsPartial(d, Paths, Seq(Chunks)) /\ IsPartial(l, Paths, Paths)
    BY <1>1 DEF RestoreRunOK
  <2> HIDE DEF d, l
  <2>3. IsPartial(Delete(d, p), Paths, Seq(Chunks)) /\ IsPartial(Put(l, p, q), Paths, Paths)
    BY <2>2, PutPartial DEF IsPartial, Delete
  <2> QED BY <1>1, <2>1, <2>3 DEF RestoreRunOK, RestorePCs
<1>4. CASE WriteChunk(r)
  <2> DEFINE x == Head(run.rest)
  <2>1. /\ DOMAIN restore'[r] = RestoreFields /\ restore'[r].pc = "write" /\ restore'[r].tree = run.tree
        /\ restore'[r].id = run.id /\ restore'[r].idx = run.idx /\ restore'[r].selected = run.selected
        /\ restore'[r].todo = run.todo /\ restore'[r].file = run.file
        /\ restore'[r].rest = Tail(run.rest) /\ run.rest # <<>> /\ run.pc = "write"
        /\ dest'[r] = [p \in DOMAIN d |-> IF p \in run.file THEN Append(d[p], x) ELSE d[p]]
        /\ links' = links
    BY <1>1, <1>4 DEF WriteChunk, RestoreFields, RestoreAt
  <2>2. x \in Chunks /\ Tail(run.rest) \in Seq(Chunks)
    <3>1. run.rest \in Seq(Chunks)
      BY <1>1 DEF RestoreRunOK
    <3> QED BY <2>1, <3>1
  <2>3. IsPartial(dest'[r], Paths, Seq(Chunks))
    <3> HIDE DEF x
    <3>1. \A list \in Seq(Chunks) : Append(list, x) \in Seq(Chunks)
      BY <2>2
    <3>2. IsPartial(d, Paths, Seq(Chunks))
      BY <1>1 DEF RestoreRunOK
    <3> QED BY <2>1, <3>1, <3>2 DEF IsPartial
  <2> QED BY <1>1, <2>1, <2>2, <2>3 DEF RestoreRunOK, RestorePCs
<1>5. CASE CloseFile(r)
  BY <1>1, <1>5 DEF CloseFile, RestoreRunOK, RestoreFields, RestorePCs, RestoreAt, destination
<1>6. CASE FinishRestore(r) \/ FailRestore(r)
  <2>1. /\ restore'[r] = RestoreIdle /\ dest' = dest /\ links' = links
        /\ IsPartial(d, Paths, Seq(Chunks)) /\ IsPartial(l, Paths, Paths)
    BY <1>1, <1>6 DEF FinishRestore, FailRestore, RestoreRunOK, destination
  <2>2. RestoreRunOK(RestoreIdle, d, l)
    BY <2>1, ReadersIdleOK
  <2> QED BY <1>1, <2>1, <2>2 DEF RestoreRunOK
<1> QED BY <1>2, <1>3, <1>4, <1>5, <1>6, <1>7

\* Every step of a verification keeps it well-typed.
LEMMA VerifyRunType ==
    ASSUME TypeOK, NEW v \in Verifiers, DOMAIN verify = Verifiers, UNCHANGED vars,
           VerifyRunOK(verify[v]),
           (\E deep \in BOOLEAN : VerifySnapshots(v, deep)) \/ VerifyStep(v)
    PROVE  VerifyRunOK(verify[v])'
<1> DEFINE run == verify[v]
<1>1. /\ DOMAIN run = VerifyFields /\ VerifyRunOK(run) /\ StoreTypeOK
      /\ usedSnaps' = usedSnaps /\ usedPacks' = usedPacks
  BY DEF VerifyRunOK, TypeOK, vars, store
<1>2. ASSUME NEW deep \in BOOLEAN, VerifySnapshots(v, deep) PROVE VerifyRunOK(verify[v])'
  <2>1. records \subseteq usedSnaps
    BY <1>1 DEF StoreTypeOK
  <2> QED BY <1>1, <1>2, <2>1 DEF VerifySnapshots, VerifyRunOK, VerifyFields, VerifyPCs
<1>3. CASE VerifyListIndex(v) \/ VerifyReadIndex(v)
  <2> DEFINE idx == verify'[v].idx
  <2>1. /\ DOMAIN verify'[v] = VerifyFields /\ verify'[v].pc \in {"index", "nodes"}
        /\ verify'[v].deep = run.deep /\ verify'[v].snaps = run.snaps /\ verify'[v].unread = run.unread
        /\ verify'[v].id = run.id /\ verify'[v].files = run.files
        /\ verify'[v].todo = run.todo /\ verify'[v].checked = run.checked
        /\ \/ idx = MergeManifests(ListedManifests)
           \/ IndexListed /\ idx = WithIndexFile(run.idx)
    BY <1>1, <1>3 DEF VerifyListIndex, VerifyReadIndex, VerifyFields
  <2>2. IsPartial(run.idx, Chunks, usedPacks)
    BY <1>1 DEF VerifyRunOK
  <2>3. IsPartial(idx, Chunks, usedPacks)
    BY <1>1, <2>1, <2>2, IndexReadType
  <2> QED BY <1>1, <2>1, <2>3 DEF VerifyRunOK, VerifyPCs
<1>4. CASE VerifyNodes(v)
  <2> DEFINE s == Min(run.unread)
  <2>1. s \in run.unread /\ s \in DOMAIN nodes
    <3>1. run.unread \in SUBSET Nat /\ run.unread # {}
      BY <1>1, <1>4, KeysAssumption DEF VerifyNodes, VerifyRunOK, StoreTypeOK
    <3> QED BY <1>4, <3>1, MinIn DEF VerifyNodes
  <2>2. /\ DOMAIN verify'[v] = VerifyFields /\ verify'[v].pc = "nodeChunks"
        /\ verify'[v].deep = run.deep /\ verify'[v].snaps = run.snaps
        /\ verify'[v].unread = run.unread \ {s} /\ verify'[v].idx = run.idx
        /\ verify'[v].id = s /\ verify'[v].files = DOMAIN nodes[s]
        /\ verify'[v].todo = run.todo /\ verify'[v].checked = run.checked
    BY <1>1, <1>4 DEF VerifyNodes, VerifyFields
  <2>3. DOMAIN nodes[s] \subseteq Paths
    BY <1>1, <2>1 DEF StoreTypeOK, IsPartial2, IsPartial
  <2> HIDE DEF s
  <2> QED BY <1>1, <2>1, <2>2, <2>3 DEF VerifyRunOK, VerifyPCs
<1>5. CASE VerifyNodeChunks(v)
  <2> DEFINE todo == UNION {ToSet(ChunkList(LoadedNodeChunks(run.id), p)) : p \in run.files}
  <2>1. todo \subseteq Chunks
    BY <1>1, ListsReadType
  <2>2. /\ DOMAIN verify'[v] = VerifyFields /\ verify'[v].pc = "check"
        /\ verify'[v].deep = run.deep /\ verify'[v].snaps = run.snaps
        /\ verify'[v].unread = run.unread /\ verify'[v].idx = run.idx
        /\ verify'[v].id = run.id /\ verify'[v].files = run.files
        /\ verify'[v].todo = todo /\ verify'[v].checked = run.checked
    BY <1>1, <1>5 DEF VerifyNodeChunks, VerifyFields
  <2> HIDE DEF todo
  <2> QED BY <1>1, <2>1, <2>2 DEF VerifyRunOK, VerifyPCs
<1>6. CASE (\E x \in Chunks : CheckChunk(v, x)) \/ SnapshotChecked(v)
  <2>1. /\ DOMAIN verify'[v] = VerifyFields /\ verify'[v].pc \in {"check", "nodes"}
        /\ verify'[v].deep = run.deep /\ verify'[v].snaps = run.snaps
        /\ verify'[v].unread = run.unread /\ verify'[v].idx = run.idx
        /\ verify'[v].id = run.id /\ verify'[v].files = run.files
        /\ verify'[v].todo \subseteq run.todo
        /\ \/ verify'[v].checked = run.checked
           \/ \E x \in Chunks : verify'[v].checked = run.checked \cup {x}
    <3>1. CASE \E x \in Chunks : CheckChunk(v, x)
      BY <1>1, <3>1 DEF CheckChunk, VerifyFields, VerifyAt
    <3>2. CASE SnapshotChecked(v)
      BY <1>1, <3>2 DEF SnapshotChecked, VerifyFields, VerifyAt
    <3> QED BY <1>6, <3>1, <3>2
  <2> QED BY <1>1, <2>1 DEF VerifyRunOK, VerifyPCs
<1>7. CASE ReportProblem(v) \/ ReportSound(v) \/ FailVerify(v)
  <2>1. verify'[v] = VerifyIdle
    BY <1>7 DEF ReportProblem, ReportSound, FailVerify
  <2> QED BY <1>1, <2>1, ReadersIdleOK DEF VerifyRunOK
<1> QED BY <1>2, <1>3, <1>4, <1>5, <1>6, <1>7 DEF VerifyStep

\* A step of one verification is nothing to another.
LEMMA VerifyFrame ==
    ASSUME NEW v \in Verifiers, DOMAIN verify = Verifiers,
           (\E deep \in BOOLEAN : VerifySnapshots(v, deep)) \/ VerifyStep(v)
    PROVE  DOMAIN verify' = Verifiers /\ \A u \in Verifiers \ {v} : verify'[u] = verify[u]
<1>1. CASE (\E deep \in BOOLEAN : VerifySnapshots(v, deep)) \/ VerifyListIndex(v) \/ VerifyReadIndex(v)
  BY <1>1 DEF VerifySnapshots, VerifyListIndex, VerifyReadIndex
<1>2. CASE VerifyNodes(v) \/ VerifyNodeChunks(v) \/ SnapshotChecked(v)
  BY <1>2 DEF VerifyNodes, VerifyNodeChunks, SnapshotChecked
<1>3. CASE \E x \in Chunks : CheckChunk(v, x)
  BY <1>3 DEF CheckChunk
<1>4. CASE ReportProblem(v) \/ ReportSound(v) \/ FailVerify(v)
  BY <1>4 DEF ReportProblem, ReportSound, FailVerify
<1> QED BY <1>1, <1>2, <1>3, <1>4 DEF VerifyStep

\* Nor is a step of one restore.
LEMMA RestoreDomains ==
    ASSUME NEW r \in Restorers, DOMAIN restore = Restorers, DOMAIN dest = Restorers,
           DOMAIN links = Restorers,
           (\E s \in SnapIds : ResolveRestore(r, s)) \/ RestoreStep(r)
    PROVE  /\ DOMAIN restore' = Restorers /\ DOMAIN dest' = Restorers /\ DOMAIN links' = Restorers
           /\ \A q \in Restorers \ {r} :
                restore'[q] = restore[q] /\ dest'[q] = dest[q] /\ links'[q] = links[q]
<1>1. CASE \/ \E s \in SnapIds : ResolveRestore(r, s)
           \/ RestoreNodes(r) \/ RestoreNodeChunks(r) \/ RestoreListIndex(r) \/ RestoreReadIndex(r)
  BY <1>1 DEF ResolveRestore, RestoreNodes, RestoreNodeChunks, RestoreListIndex, RestoreReadIndex, destination
<1>2. CASE (\E prefix \in Selections : SelectNodes(r, prefix)) \/ \E p \in Paths : CreateFile(r, p)
  BY <1>2 DEF SelectNodes, CreateFile, BeginFile, destination
<1>3. CASE \E p, q \in Paths : RestoreLink(r, p, q)
  BY <1>3 DEF RestoreLink
<1>4. CASE WriteChunk(r) \/ CloseFile(r) \/ FinishRestore(r) \/ FailRestore(r)
  BY <1>4 DEF WriteChunk, CloseFile, FinishRestore, FailRestore, destination
<1> QED BY <1>1, <1>2, <1>3, <1>4 DEF RestoreStep

\* The types are kept by every step, of writers, of readers and of time.
LEMMA ReadersTypedKept ==
    ASSUME ReadersTyped, [ReaderNext]_allVars
    PROVE  ReadersTyped'
<1>0. decayed' \subseteq usedPacks' \X Chunks
  BY ReaderNextWrites, DecayedTyped DEF ReadersTyped
<1>1. /\ TypedInv /\ TypeOK
      /\ DOMAIN restore = Restorers /\ DOMAIN dest = Restorers /\ DOMAIN links = Restorers
      /\ DOMAIN verify = Verifiers
      /\ \A r \in Restorers : RestoreRunOK(restore[r], dest[r], links[r])
      /\ \A v \in Verifiers : VerifyRunOK(verify[v])
  BY RunByRun DEF TypedInv
<1>2. ASSUME TypedInv', Drawing, UNCHANGED readerVars PROVE ReadersTyped'
  <2>1. /\ \A r \in Restorers : RestoreRunOK(restore[r], dest[r], links[r])'
        /\ \A v \in Verifiers : VerifyRunOK(verify[v])'
    BY <1>1, <1>2, RunsWiden DEF readerVars, destination
  <2> QED BY <1>0, <1>1, <1>2, <2>1, RunByRun DEF readerVars, destination, ReadersTyped, RestoreTypeOK, VerifyTypeOK, RestoreRunOK, VerifyRunOK
<1>3. CASE NextWriter \/ UNCHANGED allVars
  <2>1. [Next]_vars /\ UNCHANGED readerVars
    BY <1>3 DEF NextWriter, allVars
  <2> QED BY <1>1, <1>2, <2>1, NextTypeOK, WritersDraw
<1>4. CASE Decay
  <2>1. UNCHANGED readerVars
    BY <1>4 DEF Decay
  <2> QED BY <1>1, <1>2, <1>4, <2>1, DecayType
<1>5. ASSUME UNCHANGED vars PROVE TypedInv' /\ Drawing
  BY <1>1, <1>5, NextTypeOK, WritersDraw
<1>6. CASE NextRestore
  <2>1. PICK r \in Restorers : (\E s \in SnapIds : ResolveRestore(r, s)) \/ RestoreStep(r)
    BY <1>6 DEF NextRestore
  <2>2. UNCHANGED <<vars, verify>>
    BY <1>6 DEF NextRestore
  <2>3. RestoreRunOK(restore[r], dest[r], links[r])'
    BY <1>1, <2>1, <2>2, RestoreReadType, RestoreWriteType DEF RestoreStep
  <2>4. /\ DOMAIN restore' = Restorers /\ DOMAIN dest' = Restorers /\ DOMAIN links' = Restorers
        /\ \A q \in Restorers \ {r} :
             restore'[q] = restore[q] /\ dest'[q] = dest[q] /\ links'[q] = links[q]
    BY <1>1, <2>1, RestoreDomains
  <2>5. \A q \in Restorers : RestoreRunOK(restore[q], dest[q], links[q])'
    BY <1>1, <1>5, <2>2, <2>3, <2>4, RunsWiden
  <2>6. \A v \in Verifiers : VerifyRunOK(verify[v])'
    BY <1>1, <1>5, <2>2, RunsWiden
  <2> QED BY <1>0, <1>1, <1>5, <2>2, <2>4, <2>5, <2>6 DEF ReadersTyped, RestoreTypeOK, VerifyTypeOK, RestoreRunOK, VerifyRunOK
<1>7. CASE NextVerify
  <2>1. PICK v \in Verifiers : (\E deep \in BOOLEAN : VerifySnapshots(v, deep)) \/ VerifyStep(v)
    BY <1>7 DEF NextVerify
  <2>2. UNCHANGED <<vars, restore, dest, links>>
    BY <1>7 DEF NextVerify, destination
  <2>3. VerifyRunOK(verify[v])'
    BY <1>1, <2>1, <2>2, VerifyRunType
  <2>4. DOMAIN verify' = Verifiers /\ \A u \in Verifiers \ {v} : verify'[u] = verify[u]
    BY <1>1, <2>1, VerifyFrame
  <2>5. \A u \in Verifiers : VerifyRunOK(verify[u])'
    BY <1>1, <1>5, <2>2, <2>3, <2>4, RunsWiden
  <2>6. \A r \in Restorers : RestoreRunOK(restore[r], dest[r], links[r])'
    BY <1>1, <1>5, <2>2, RunsWiden
  <2> QED BY <1>0, <1>1, <1>5, <2>2, <2>4, <2>5, <2>6 DEF ReadersTyped, RestoreTypeOK, VerifyTypeOK, RestoreRunOK, VerifyRunOK
<1> QED BY <1>3, <1>4, <1>6, <1>7 DEF ReaderNext

\* So they hold at every step.
LEMMA ReadersTypedAlways == ReaderSpec => []ReadersTyped
<1>1. ReaderInit => ReadersTyped
  <2> SUFFICES ASSUME ReaderInit PROVE ReadersTyped
    OBVIOUS
  <2>1. TypedInv /\ decayed = {}
    BY InitTyped DEF ReaderInit, Init, InitStore
  <2>2. /\ restore = [r \in Restorers |-> RestoreIdle] /\ dest = [r \in Restorers |-> <<>>]
        /\ links = [r \in Restorers |-> <<>>] /\ verify = [v \in Verifiers |-> VerifyIdle]
    BY DEF ReaderInit, InitRestore, InitVerify
  <2>3. /\ \A r \in Restorers : RestoreRunOK(restore[r], dest[r], links[r])
        /\ \A v \in Verifiers : VerifyRunOK(verify[v])
    BY <2>2, ReadersIdleOK, EmptyPartial
  <2> QED BY <2>1, <2>2, <2>3, RunByRun
<1>2. ReadersTyped /\ [ReaderNext]_allVars => ReadersTyped'
  BY ReadersTypedKept
<1> QED BY <1>1, <1>2, PTL DEF ReaderSpec

\* Every variable keeps its type beside readers too, whatever the schedule, whatever is kept
\* apart and whatever decays.
THEOREM ReadersTypeCorrect == ReaderSpec => []ReaderTypeOK
<1>1. ReadersTyped => ReaderTypeOK
  BY DEF ReadersTyped, TypedInv, ReaderTypeOK
<1> QED BY <1>1, ReadersTypedAlways, PTL

-----------------------------------------------------------------------------
\* Under a disciplined schedule the writers' invariant holds beside readers and whatever
\* decays: every recorded snapshot keeps its tree, its lists and the packs they lead to.
THEOREM ReaderInvariance == ASSUME Disciplined PROVE ReaderSpec => []Inv
<1>1. ReaderInit => Inv
  BY InitInv DEF ReaderInit
<1>2. ASSUME Inv, [ReaderNext]_allVars PROVE Inv'
  <2>1. CASE [Next]_vars
    BY <1>2, <2>1, NextInv
  <2>2. CASE Decay
    <3>1. TypeOK' /\ UNCHANGED <<store, backup, compact, forget>>
      BY <1>2, <2>2, InvTyped, DecayType DEF TypedInv, Decay
    <3> QED BY <1>2, <3>1, InvStays
  <2> QED BY <1>2, <2>1, <2>2, ReaderNextWrites
<1> QED BY <1>1, <1>2, PTL DEF ReaderSpec

-----------------------------------------------------------------------------
\* While a reader runs that forgets are kept from, nothing is forgotten.
LEMMA NothingForgotten ==
    ASSUME TypeOK, "forget" \in KeepOut, ReadersAlone, RunningReaders # {}, NextWriter
    PROVE  ~NextForget
<1> SUFFICES ASSUME NEW f \in Forgetters, StartForget(f) \/ ForgetStep(f) PROVE FALSE
  BY DEF NextForget
<1>1. RunningForgets = {} /\ RunningForgets' = {}
  BY DEF ReadersAlone, AdmitReader, NextWriter, KeptOut
<1>2. CASE ForgetStep(f)
  <2>1. ~ForgetAt(f, "idle")
    BY <1>2 DEF ForgetStep, DeleteRecord, DeleteNodes, DeleteNodeChunks, FailForget, ForgetAt
  <2> QED BY <1>1, <2>1 DEF RunningForgets
<1>3. CASE StartForget(f)
  <2>1. PICK s \in SnapIds : ResolveForget(f, s)
    BY <1>3 DEF StartForget
  <2>2. forget'[f].pc = "record"
    BY <2>1 DEF ResolveForget, TypeOK, ForgetTypeOK
  <2> QED BY <1>1, <2>2 DEF RunningForgets, ForgetAt
<1> QED BY <1>2, <1>3

\* Nor compacted, while one runs that compactions are kept from.
LEMMA NothingCompacted ==
    ASSUME TypeOK, "compact" \in KeepOut, ReadersAlone, RunningReaders # {}, NextWriter
    PROVE  ~NextCompact
<1> SUFFICES ASSUME NEW c \in Compactors, StartCompact(c) \/ CompactStep(c) PROVE FALSE
  BY DEF NextCompact
<1>1. RunningCompactions = {} /\ RunningCompactions' = {}
  BY DEF ReadersAlone, AdmitReader, NextWriter, KeptOut
<1>2. CASE CompactStep(c)
  <2>1. ~CompactAt(c, "idle")
    BY <1>2 DEF CompactStep, ReadRepository, ReadNodes, ReadNodeChunks, ListChunkIndex,
       ReadChunkIndex, ReadPackIndex, RelocateChunks, Relocate, FlushRelocated, ReplaceIndex,
       ListOldChunks, ListOldPacks, PutChunkIndex, PutPackIndex, DropChunkManifest,
       ChunkManifestsDropped, DropPackManifest, PackManifestsDropped, DropPacks, DropPack,
       DeadDropped, FinishCompact, FailCompact, CompactAt
  <2> QED BY <1>1, <2>1 DEF RunningCompactions
<1>3. CASE StartCompact(c)
  <2>1. compact'[c].pc \in {"list", "nodes"}
    BY <1>3 DEF StartCompact, ListSnapshots, TypeOK, CompactTypeOK, CompactRunOK, CompactFields
  <2> QED BY <1>1, <2>1 DEF RunningCompactions, CompactAt
<1> QED BY <1>2, <1>3

\* Then the trees of the recorded snapshots stay.
LEMMA TreesStay ==
    ASSUME Inv, "forget" \in KeepOut, ReadersAlone, RunningReaders # {}, NextWriter
    PROVE  \A s \in records : s \in records' /\ nodes'[s] = nodes[s]
<1>1. CASE NextBackup
  <2>1. PICK b \in Backups : LoadParent(b) \/ BackupStep(b)
    BY <1>1 DEF NextBackup, StartBackup
  <2>2. Grows(b) /\ backup[b].id \notin records
    BY <2>1, BackupQuietSafe, BackupWriteSafe, OwnIdUnrecorded DEF BackupStep, WalkSource, BackupStepSafe
  <2> QED BY <2>2 DEF Grows, Inv, SnapshotsComplete
<1>2. CASE NextCompact
  <2>1. PICK c \in Compactors : ListSnapshots(c) \/ CompactStep(c)
    BY <1>2 DEF NextCompact, StartCompact
  <2> QED BY <2>1, CompactWrites DEF Inv
<1>3. ~NextForget
  BY NothingForgotten DEF Inv
<1> QED BY <1>1, <1>2, <1>3 DEF NextWriter, Next

\* Readers keep their distance.
LEMMA ReadersStayAlone ==
    ASSUME TypeOK, ReadersAlone, [ReaderNext]_allVars
    PROVE  ReadersAlone'
<1>1. CASE NextWriter
  <2>1. RunningReaders' = RunningReaders
    BY <1>1 DEF NextWriter, readerVars, RunningReaders, RunningRestores, RunningVerifies, RestoreAt, VerifyAt
  <2> QED BY <1>1, <2>1 DEF NextWriter, KeptOut, ReadersAlone, AdmitReader
<1>2. CASE NextRestore
  <2>1. AdmitReader' = AdmitReader
    BY <1>2 DEF NextRestore, vars, AdmitReader, RunningBackups, RunningCompactions, RunningForgets,
       BackupAt, CompactAt, ForgetAt
  <2>2. PICK r \in Restorers : (AdmitReader /\ \E s \in SnapIds : ResolveRestore(r, s)) \/ RestoreStep(r)
    BY <1>2 DEF NextRestore
  <2>3. RestoreStep(r) => r \in RunningRestores
    BY DEF RestoreStep, RestoreNodes, RestoreNodeChunks, RestoreListIndex, RestoreReadIndex, SelectNodes,
       CreateFile, BeginFile, RestoreLink, WriteChunk, CloseFile, FinishRestore, FailRestore, RunningRestores, RestoreAt
  <2> QED BY <2>1, <2>2, <2>3 DEF ReadersAlone, RunningReaders
<1>3. CASE NextVerify
  <2>1. AdmitReader' = AdmitReader
    BY <1>3 DEF NextVerify, vars, AdmitReader, RunningBackups, RunningCompactions, RunningForgets,
       BackupAt, CompactAt, ForgetAt
  <2>2. PICK v \in Verifiers : (AdmitReader /\ \E deep \in BOOLEAN : VerifySnapshots(v, deep)) \/ VerifyStep(v)
    BY <1>3 DEF NextVerify
  <2>3. VerifyStep(v) => v \in RunningVerifies
    BY DEF VerifyStep, VerifyListIndex, VerifyReadIndex, VerifyNodes, VerifyNodeChunks, CheckChunk,
       SnapshotChecked, ReportProblem, ReportSound, FailVerify, RunningVerifies, VerifyAt
  <2> QED BY <2>1, <2>2, <2>3 DEF ReadersAlone, RunningReaders
<1>4. CASE UNCHANGED allVars
  BY <1>4 DEF allVars, vars, readerVars, ReadersAlone, AdmitReader, RunningReaders,
     RunningRestores, RunningVerifies, RunningBackups, RunningCompactions, RunningForgets,
     BackupAt, CompactAt, ForgetAt, RestoreAt, VerifyAt
<1>5. CASE Decay
  BY <1>5 DEF Decay, readerVars, ReadersAlone, AdmitReader, RunningReaders,
     RunningRestores, RunningVerifies, RunningBackups, RunningCompactions, RunningForgets,
     BackupAt, CompactAt, ForgetAt, RestoreAt, VerifyAt
<1> QED BY <1>1, <1>2, <1>3, <1>4, <1>5 DEF ReaderNext

-----------------------------------------------------------------------------
\* A process that runs no restore satisfies the invariant.
LEMMA IdleRestore ==
    ASSUME NEW r \in Restorers
    PROVE  /\ restore[r] = RestoreIdle => DOMAIN restore[r] = RestoreFields /\ RestoreRunInv(r)
           /\ restore'[r] = RestoreIdle => DOMAIN restore'[r] = RestoreFields /\ RestoreRunInv(r)'
<1>1. /\ DOMAIN RestoreIdle = RestoreFields /\ RestoreIdle.pc = "idle"
      /\ RestoreIdle.file = {} /\ RestoreIdle.rest = <<>> /\ <<>> \in Seq(Chunks)
  BY DEF RestoreIdle, RestoreFields
<1> QED BY <1>1 DEF RestoreRunInv

\* Reading the catalog keeps the invariant of the run.
LEMMA RestoreReads ==
    ASSUME Inv, RestoreInv, NEW r \in Restorers, UNCHANGED vars,
           \/ \E s \in SnapIds : ResolveRestore(r, s)
           \/ RestoreNodes(r) \/ RestoreNodeChunks(r) \/ RestoreListIndex(r) \/ RestoreReadIndex(r)
    PROVE  DOMAIN restore'[r] = RestoreFields /\ RestoreRunInv(r)'
<1> DEFINE run == restore[r]
<1>1. /\ restore = [q \in Restorers |-> restore[q]]
      /\ DOMAIN run = RestoreFields /\ RestoreRunInv(r)
      /\ UNCHANGED <<nodes, nodeChunks, records, chunkMan>>
      /\ SnapshotsComplete
  BY DEF RestoreInv, Inv, vars, store
<1>2. ASSUME NEW s \in SnapIds, ResolveRestore(r, s)
      PROVE  DOMAIN restore'[r] = RestoreFields /\ RestoreRunInv(r)'
  <2>1. /\ DOMAIN restore'[r] = RestoreFields /\ restore'[r].pc = "nodes" /\ restore'[r].id = s
        /\ s \in records /\ run.pc = "idle"
        /\ restore'[r].file = run.file /\ restore'[r].rest = run.rest
    BY <1>1, <1>2 DEF ResolveRestore, RestoreFields, RestoreAt, destination
  <2> QED BY <1>1, <2>1 DEF RestoreRunInv
<1>3. CASE RestoreNodes(r)
  <2>1. /\ DOMAIN restore'[r] = RestoreFields /\ restore'[r].pc = "nodeChunks" /\ restore'[r].id = run.id
        /\ DOMAIN restore'[r].tree = DOMAIN nodes[run.id] /\ run.pc = "nodes"
        /\ restore'[r].file = run.file /\ restore'[r].rest = run.rest
    BY <1>1, <1>3 DEF RestoreNodes, RestoreFields, RestoreAt, destination
  <2> QED BY <1>1, <2>1 DEF RestoreRunInv
<1>4. CASE RestoreNodeChunks(r)
  <2>1. /\ run.id \in records /\ DOMAIN run.tree = DOMAIN nodes[run.id]
        /\ LoadedNodeChunks(run.id) = nodes[run.id]
    BY <1>1, <1>4 DEF RestoreNodeChunks, RestoreRunInv, RestoreAt, SnapshotsComplete, LoadedNodeChunks
  <2>2. \A p \in DOMAIN run.tree : ChunkList(LoadedNodeChunks(run.id), p) = nodes[run.id][p]
    BY <2>1 DEF ChunkList
  <2>3. /\ DOMAIN restore'[r] = RestoreFields /\ restore'[r].pc = "list" /\ restore'[r].id = run.id
        /\ restore'[r].file = run.file /\ restore'[r].rest = run.rest /\ run.pc = "nodeChunks"
        /\ DOMAIN restore'[r].tree = DOMAIN run.tree
        /\ \A p \in DOMAIN run.tree : restore'[r].tree[p].chunks = ChunkList(LoadedNodeChunks(run.id), p)
    BY <1>1, <1>4 DEF RestoreNodeChunks, RestoreFields, RestoreAt, destination
  <2> QED BY <1>1, <2>1, <2>2, <2>3 DEF RestoreRunInv
<1>5. CASE RestoreListIndex(r) \/ RestoreReadIndex(r)
  BY <1>1, <1>5 DEF RestoreListIndex, RestoreReadIndex, RestoreRunInv, RestoreFields, RestoreAt, destination, ClearOfLinks
<1> QED BY <1>2, <1>3, <1>4, <1>5

\* So does writing the files.
LEMMA RestoreWrites ==
    ASSUME Inv, RestoreInv, NEW r \in Restorers, UNCHANGED vars,
           \/ \E prefix \in Selections : SelectNodes(r, prefix)
           \/ \E p \in Paths : CreateFile(r, p)
           \/ \E p, q \in Paths : RestoreLink(r, p, q)
           \/ WriteChunk(r) \/ CloseFile(r) \/ FinishRestore(r) \/ FailRestore(r)
    PROVE  DOMAIN restore'[r] = RestoreFields /\ RestoreRunInv(r)'
<1> DEFINE run == restore[r]
<1>1. /\ restore = [q \in Restorers |-> restore[q]]
      /\ dest = [q \in Restorers |-> dest[q]] /\ links = [q \in Restorers |-> links[q]]
      /\ DOMAIN run = RestoreFields /\ RestoreRunInv(r)
      /\ UNCHANGED <<nodes, records>>
  BY DEF RestoreInv, Inv, vars, store
<1>2. \A p \in DOMAIN run.tree : run.pc \in {"files", "write"} => run.tree[p].chunks \in Seq(Chunks)
  <2>1. \A s \in records : s \in DOMAIN nodes /\ IsPartial(nodes[s], Paths, Contents)
    BY DEF Inv, SnapshotsComplete, TypeOK, StoreTypeOK, IsPartial2
  <2> QED BY <1>1, <2>1, ContentsAssumption DEF RestoreRunInv, IsPartial
<1>3. ASSUME NEW prefix \in Selections, SelectNodes(r, prefix)
      PROVE  DOMAIN restore'[r] = RestoreFields /\ RestoreRunInv(r)'
  BY <1>1, <1>3 DEF SelectNodes, RestoreRunInv, RestoreFields, RestoreAt, destination
<1>4. ASSUME NEW p \in Paths, CreateFile(r, p)
      PROVE  DOMAIN restore'[r] = RestoreFields /\ RestoreRunInv(r)'
  <2>1. /\ DOMAIN restore'[r] = RestoreFields /\ restore'[r].pc = "write"
        /\ restore'[r].file = {PlaceOf(r, p)}
        /\ restore'[r].todo = run.todo \ {p} /\ restore'[r].rest = run.tree[p].chunks
        /\ restore'[r].selected = run.selected /\ restore'[r].tree = run.tree
        /\ restore'[r].id = run.id /\ links' = links
        /\ dest'[r] = Put(dest[r], PlaceOf(r, p), <<>>)
        /\ p \in run.todo \cap DOMAIN run.tree /\ run.pc = "files"
    BY <1>1, <1>4 DEF CreateFile, BeginFile, RestoreFields, RestoreAt
  <2>2. /\ run.tree[p].chunks \in Seq(Chunks) /\ run.file = {}
        /\ run.tree[p].chunks = <<>> \o run.tree[p].chunks /\ <<>> \in Seq(Chunks)
    <3>1. run.tree[p].chunks \in Seq(Chunks) /\ run.file = {}
      BY <1>1, <1>2, <2>1, SMTT(30) DEF RestoreRunInv
    <3> QED BY <3>1, NoChunkLeft
  <2>3. ClearOfLinks(r)' = ClearOfLinks(r)
    BY <2>1 DEF ClearOfLinks
  <2>4. CASE ~ClearOfLinks(r)
    BY <1>1, <2>1, <2>2, <2>3, <2>4, ZenonT(40) DEF RestoreRunInv
  <2>5. CASE ClearOfLinks(r)
    <3>1. p \in run.selected /\ PlaceOf(r, p) = p
      BY <1>1, <2>1, <2>5 DEF RestoreRunInv, ClearOfLinks, PlaceOf
    <3>2. /\ dest'[r][p] = <<>> /\ DOMAIN dest'[r] = DOMAIN dest[r] \cup {p}
          /\ \A q \in DOMAIN dest[r] \ {p} : dest'[r][q] = dest[r][q]
      BY <2>1, <3>1 DEF Put
    <3>3. /\ restore'[r].file = {p}
          /\ \A q \in run.selected \ run.todo :
               q \in DOMAIN dest[r] /\ dest[r][q] \in Seq(Chunks) /\ run.tree[q].chunks = dest[r][q]
      BY <1>1, <2>1, <2>2, <2>5, <3>1 DEF RestoreRunInv
    <3>4. \A q \in run.selected \ restore'[r].todo :
             /\ q \in DOMAIN dest'[r] /\ dest'[r][q] \in Seq(Chunks)
             /\ run.tree[q].chunks = IF q \in {p} THEN dest'[r][q] \o restore'[r].rest ELSE dest'[r][q]
      BY <2>1, <2>2, <3>2, <3>3
    <3> QED BY <1>1, <2>1, <2>2, <2>3, <3>3, <3>4, ZenonT(40) DEF RestoreRunInv
  <2> QED BY <2>4, <2>5
<1>8. ASSUME NEW p \in Paths, NEW q \in Paths, RestoreLink(r, p, q)
      PROVE  DOMAIN restore'[r] = RestoreFields /\ RestoreRunInv(r)'
  <2>1. /\ DOMAIN restore'[r] = RestoreFields /\ restore'[r].pc = "files"
        /\ restore'[r].file = run.file /\ restore'[r].rest = run.rest
        /\ restore'[r].todo = run.todo \ {p}
        /\ restore'[r].selected = run.selected /\ restore'[r].tree = run.tree
        /\ restore'[r].id = run.id
        /\ dest'[r] = Delete(dest[r], p) /\ links'[r] = Put(links[r], p, q)
        /\ p \notin DOMAIN run.tree /\ run.pc = "files"
    BY <1>1, <1>8 DEF RestoreLink, RestoreFields, RestoreAt
  <2>2. /\ run.selected \subseteq DOMAIN run.tree /\ p \notin run.selected /\ run.file = {}
    BY <1>1, <2>1 DEF RestoreRunInv
  <2>3. ClearOfLinks(r)' = ClearOfLinks(r)
    BY <2>1, <2>2 DEF ClearOfLinks, Put
  <2>4. \A u \in run.selected : /\ u \in DOMAIN dest[r] => u \in DOMAIN dest'[r]
                                /\ u \in DOMAIN dest[r] => dest'[r][u] = dest[r][u]
                                /\ u \notin run.todo <=> u \notin restore'[r].todo
    BY <2>1, <2>2 DEF Delete
  <2> QED BY <1>1, <2>1, <2>2, <2>3, <2>4, ZenonT(40) DEF RestoreRunInv
<1>5. CASE WriteChunk(r)
  <2> DEFINE x == Head(run.rest)
  <2>1. /\ DOMAIN restore'[r] = RestoreFields /\ restore'[r].pc = "write" /\ run.pc = "write"
        /\ restore'[r].file = run.file /\ restore'[r].todo = run.todo
        /\ restore'[r].rest = Tail(run.rest) /\ run.rest # <<>>
        /\ restore'[r].selected = run.selected /\ restore'[r].tree = run.tree
        /\ restore'[r].id = run.id
        /\ dest'[r] = [p \in DOMAIN dest[r] |->
                          IF p \in run.file THEN Append(dest[r][p], x) ELSE dest[r][p]]
        /\ links' = links
    BY <1>1, <1>5 DEF WriteChunk, RestoreFields, RestoreAt
  <2>5. ClearOfLinks(r)' = ClearOfLinks(r)
    BY <2>1 DEF ClearOfLinks
  <2>2. run.rest \in Seq(Chunks) /\ Tail(run.rest) \in Seq(Chunks)
    BY <1>1, <2>1 DEF RestoreRunInv
  <2>3. ASSUME ClearOfLinks(r), NEW p \in run.selected \ run.todo, p \in run.file
        PROVE  /\ p \in DOMAIN dest'[r] /\ dest'[r][p] \in Seq(Chunks)
               /\ run.tree[p].chunks = dest'[r][p] \o Tail(run.rest)
    <3>1. p \in DOMAIN dest[r] /\ dest[r][p] \in Seq(Chunks) /\ run.tree[p].chunks = dest[r][p] \o run.rest
      BY <1>1, <2>1, <2>3 DEF RestoreRunInv
    <3>2. dest'[r][p] = Append(dest[r][p], x)
      BY <2>1, <2>3, <3>1
    <3>3. /\ Append(dest[r][p], x) \in Seq(Chunks)
          /\ Append(dest[r][p], x) \o Tail(run.rest) = dest[r][p] \o run.rest
      <4> DEFINE written == dest[r][p]
                 rest == run.rest
      <4>1. written \in Seq(Chunks) /\ rest \in Seq(Chunks) /\ rest # <<>>
        BY <2>1, <2>2, <3>1
      <4> HIDE DEF written, rest
      <4>2. /\ Append(written, Head(rest)) \in Seq(Chunks)
            /\ Append(written, Head(rest)) \o Tail(rest) = written \o rest
        BY <4>1, NextChunk
      <4> QED BY <4>2 DEF written, rest
    <3> HIDE DEF x
    <3> QED BY <2>1, <3>1, <3>2, <3>3
  <2>4. ASSUME ClearOfLinks(r), NEW p \in run.selected \ run.todo, p \notin run.file
        PROVE  p \in DOMAIN dest'[r] /\ dest'[r][p] = dest[r][p] /\ dest[r][p] \in Seq(Chunks)
    <3>1. p \in DOMAIN dest[r] /\ dest[r][p] \in Seq(Chunks)
      BY <1>1, <2>1, <2>4 DEF RestoreRunInv
    <3> HIDE DEF x
    <3> QED BY <2>1, <2>4, <3>1
  <2> HIDE DEF x
  <2> QED BY <1>1, <2>1, <2>2, <2>3, <2>4, <2>5, ZenonT(40) DEF RestoreRunInv
<1>6. CASE CloseFile(r)
  <2>1. /\ DOMAIN restore'[r] = RestoreFields /\ restore'[r].pc = "files" /\ run.pc = "write"
        /\ restore'[r].file = {} /\ restore'[r].todo = run.todo /\ restore'[r].rest = <<>> /\ run.rest = <<>>
        /\ restore'[r].selected = run.selected /\ restore'[r].tree = run.tree
        /\ restore'[r].id = run.id /\ dest' = dest /\ ClearOfLinks(r)' = ClearOfLinks(r)
    BY <1>1, <1>6 DEF CloseFile, RestoreFields, RestoreAt, destination, ClearOfLinks
  <2>2. ClearOfLinks(r) => \A p \in run.selected \ run.todo : dest[r][p] \o run.rest = dest[r][p]
    BY <1>1, <2>1, NoChunkLeft DEF RestoreRunInv
  <2> QED BY <1>1, <2>1, <2>2, ZenonT(60) DEF RestoreRunInv
<1>7. CASE FinishRestore(r) \/ FailRestore(r)
  <2>1. restore'[r] = RestoreIdle
    BY <1>1, <1>7 DEF FinishRestore, FailRestore
  <2> QED BY <2>1, IdleRestore
<1> QED BY <1>3, <1>4, <1>5, <1>6, <1>7, <1>8

\* A step of one restore is nothing to another.
LEMMA RestoreFrame ==
    ASSUME RestoreInv, NEW r \in Restorers,
           (\E s \in SnapIds : ResolveRestore(r, s)) \/ RestoreStep(r)
    PROVE  /\ restore' = [q \in Restorers |-> restore'[q]]
           /\ dest' = [q \in Restorers |-> dest'[q]] /\ links' = [q \in Restorers |-> links'[q]]
           /\ \A q \in Restorers \ {r} :
                restore'[q] = restore[q] /\ dest'[q] = dest[q] /\ links'[q] = links[q]
<1>1. /\ restore = [q \in Restorers |-> restore[q]]
      /\ dest = [q \in Restorers |-> dest[q]] /\ links = [q \in Restorers |-> links[q]]
  BY DEF RestoreInv
<1>2. CASE \/ \E s \in SnapIds : ResolveRestore(r, s)
           \/ RestoreNodes(r) \/ RestoreNodeChunks(r) \/ RestoreListIndex(r) \/ RestoreReadIndex(r)
  <2>1. dest' = dest /\ links' = links
    BY <1>2 DEF ResolveRestore, RestoreNodes, RestoreNodeChunks, RestoreListIndex, RestoreReadIndex, destination
  <2>2. CASE \E s \in SnapIds : ResolveRestore(r, s)
    BY <1>1, <2>1, <2>2 DEF ResolveRestore
  <2>3. CASE RestoreNodes(r)
    BY <1>1, <2>1, <2>3 DEF RestoreNodes
  <2>4. CASE RestoreNodeChunks(r)
    BY <1>1, <2>1, <2>4 DEF RestoreNodeChunks
  <2>5. CASE RestoreListIndex(r) \/ RestoreReadIndex(r)
    BY <1>1, <2>1, <2>5 DEF RestoreListIndex, RestoreReadIndex
  <2> QED BY <1>2, <2>2, <2>3, <2>4, <2>5
<1>3. CASE (\E prefix \in Selections : SelectNodes(r, prefix)) \/ \E p \in Paths : CreateFile(r, p)
  BY <1>1, <1>3 DEF SelectNodes, CreateFile, BeginFile, destination
<1>4. CASE WriteChunk(r) \/ CloseFile(r) \/ FinishRestore(r) \/ FailRestore(r)
  BY <1>1, <1>4 DEF WriteChunk, CloseFile, FinishRestore, FailRestore, destination
<1>5. CASE \E p, q \in Paths : RestoreLink(r, p, q)
  BY <1>1, <1>5 DEF RestoreLink
<1> QED BY <1>2, <1>3, <1>4, <1>5 DEF RestoreStep

\* RestoreInv is inductive.
LEMMA RestoreInvKept ==
    ASSUME "forget" \in KeepOut, Inv, RestoreInv, [ReaderNext]_allVars
    PROVE  RestoreInv'
<1>1. ReadersAlone'
  BY ReadersStayAlone DEF Inv, RestoreInv
<1>2. CASE NextWriter
  <2>1. restore' = restore /\ dest' = dest /\ links' = links
    BY <1>2 DEF NextWriter, readerVars, destination
  <2>2. ASSUME NEW r \in Restorers PROVE RestoreRunInv(r)'
    <3>1. CASE restore[r].pc = "idle"
      BY <2>1, <3>1 DEF RestoreInv, RestoreRunInv
    <3>2. CASE restore[r].pc # "idle"
      <4>1. RunningReaders # {}
        BY <3>2 DEF RunningReaders, RunningRestores, RestoreAt
      <4>2. \A s \in records : s \in records' /\ nodes'[s] = nodes[s]
        BY <1>2, <4>1, TreesStay DEF RestoreInv
      <4>3. RestoreRunInv(r) /\ restore[r].id \in records
        BY <3>2 DEF RestoreInv, RestoreRunInv
      <4> QED BY <2>1, <3>2, <4>2, <4>3 DEF RestoreRunInv, ClearOfLinks
    <3> QED BY <3>1, <3>2
  <2> QED BY <1>1, <2>1, <2>2 DEF RestoreInv
<1>3. CASE NextRestore
  <2>1. UNCHANGED vars
    BY <1>3 DEF NextRestore
  <2>2. PICK r \in Restorers : (\E s \in SnapIds : ResolveRestore(r, s)) \/ RestoreStep(r)
    BY <1>3 DEF NextRestore
  <2>3. DOMAIN restore'[r] = RestoreFields /\ RestoreRunInv(r)'
    BY <2>1, <2>2, RestoreReads, RestoreWrites DEF RestoreStep
  <2>4. ASSUME NEW q \in Restorers \ {r} PROVE DOMAIN restore'[q] = RestoreFields /\ RestoreRunInv(q)'
    <3>1. restore'[q] = restore[q] /\ dest'[q] = dest[q] /\ links'[q] = links[q]
      BY <2>2, RestoreFrame
    <3>2. ClearOfLinks(q)' = ClearOfLinks(q)
      BY <3>1 DEF ClearOfLinks
    <3>3. DOMAIN restore[q] = RestoreFields /\ RestoreRunInv(q) /\ UNCHANGED <<records, nodes>>
      BY <2>1 DEF RestoreInv, vars, store
    <3> QED BY <3>1, <3>2, <3>3 DEF RestoreRunInv
  <2> QED BY <1>1, <2>2, <2>3, <2>4, RestoreFrame DEF RestoreInv
<1>4. CASE NextVerify \/ UNCHANGED allVars
  <2>1. UNCHANGED <<vars, restore, dest, links>>
    BY <1>4 DEF NextVerify, allVars, readerVars, destination
  <2> QED BY <1>1, <2>1 DEF RestoreInv, RestoreRunInv, ClearOfLinks, vars, store
<1>5. CASE Decay
  <2>1. UNCHANGED <<store, restore, dest, links>>
    BY <1>5 DEF Decay, readerVars, destination
  <2> QED BY <1>1, <2>1 DEF RestoreInv, RestoreRunInv, ClearOfLinks, store
<1> QED BY <1>2, <1>3, <1>4, <1>5 DEF ReaderNext

\* It holds before anything runs.
LEMMA InitRestoreInv == ReaderInit => RestoreInv
<1> SUFFICES ASSUME ReaderInit PROVE RestoreInv
  OBVIOUS
<1>1. /\ restore = [r \in Restorers |-> RestoreIdle] /\ dest = [r \in Restorers |-> <<>>]
      /\ links = [r \in Restorers |-> <<>>] /\ verify = [v \in Verifiers |-> VerifyIdle]
  BY DEF ReaderInit, InitRestore, InitVerify
<1>2. RunningReaders = {}
  BY <1>1 DEF RunningReaders, RunningRestores, RunningVerifies, RestoreAt, VerifyAt, RestoreIdle, VerifyIdle
<1> QED BY <1>1, <1>2, IdleRestore DEF RestoreInv, ReadersAlone

\* Beside any backups and compactions of a disciplined schedule, and whatever decays, a restore
\* that forgets are kept away from is the restore of a recorded snapshot, at every step.
THEOREM RestoreInvariance ==
    ASSUME Disciplined, "forget" \in KeepOut
    PROVE  ReaderSpec => []RestoreInv
<1>1. Inv /\ RestoreInv /\ [ReaderNext]_allVars => RestoreInv'
  BY RestoreInvKept
<1> QED BY <1>1, ReaderInvariance, InitRestoreInv, PTL DEF ReaderSpec

\* When it returns without an error, and no earlier run left a symlink at the path of a file
\* it wrote, the destination holds each file it selected as the backup read it, over whatever
\* files were there before and whatever symlinks the run made itself.
THEOREM RestoresAreRight ==
    ASSUME Disciplined, "forget" \in KeepOut
    PROVE  ReaderSpec => RestoredRight
<1>1. ASSUME Inv, RestoreInv, NEW r \in Restorers, FinishRestore(r), ClearOfLinks(r),
             NEW p \in restore[r].selected
      PROVE  /\ restore[r].id \in DOMAIN nodes /\ p \in DOMAIN nodes[restore[r].id]
             /\ p \in DOMAIN dest[r] /\ dest[r][p] = nodes[restore[r].id][p]
  <2>1. restore[r].pc = "files" /\ restore[r].todo \cap DOMAIN restore[r].tree = {}
    BY <1>1 DEF FinishRestore, RestoreAt
  <2>2. RestoreRunInv(r)
    BY <1>1 DEF RestoreInv
  <2>3. p \in restore[r].selected \ restore[r].todo
    BY <1>1, <2>1, <2>2 DEF RestoreRunInv
  <2> QED BY <1>1, <2>1, <2>2, <2>3 DEF RestoreRunInv, Inv, SnapshotsComplete
<1>2. Inv /\ RestoreInv /\ [ReaderNext]_allVars =>
        [\A r \in Restorers : FinishRestore(r) /\ ClearOfLinks(r) => HoldsSelected(r)]_allVars
  BY <1>1 DEF HoldsSelected
<1> QED BY <1>2, ReaderInvariance, RestoreInvariance, PTL DEF ReaderSpec, RestoredRight
-----------------------------------------------------------------------------
(* Verifications beside backups and forgets: what they report of the       *)
(* repository is so.                                                       *)

\* A backup makes nodes under its own identifier only, ...
LEMMA NodesMade ==
    ASSUME TypeOK, NEW b \in Backups, LoadParent(b) \/ BackupStep(b)
    PROVE  DOMAIN nodes' \subseteq DOMAIN nodes \cup {backup[b].id}
<1>1. CASE WriteNodes(b)
  BY <1>1 DEF WriteNodes, Put
<1>2. CASE WriteSnapshot(b) /\ ~WriteNodes(b)
  BY <1>2 DEF WriteSnapshot, FlushBackup, WriteNodeChunks, WriteChunks, WritePacks, WriteSnapshotRecord
<1>3. CASE ~WriteSnapshot(b)
  BY <1>3, QuietTrees DEF BackupStep, TypeOK
<1> QED BY <1>1, <1>2, <1>3

\* ... and never that of a snapshot another process has listed, so that what is left of such a
\* snapshot stays as it is.
LEMMA KeptBesideBackup ==
    ASSUME Inv, NEW b \in Backups, LoadParent(b) \/ BackupStep(b), NEW s \in usedSnaps, KeptWhole(s)
    PROVE  /\ KeptWhole(s)'
           /\ s \in DOMAIN nodes' => s \in DOMAIN nodes /\ nodes'[s] = nodes[s] /\ Refs(s)' = Refs(s)
<1>1. /\ Grows(b) /\ backup'[b].id \in {NoSnap, backup[b].id} \cup FreshSnaps
      /\ \A d \in Backups \ {b} : backup'[d] = backup[d]
  BY BackupQuietSafe, BackupWriteSafe DEF BackupStep, WalkSource, BackupStepSafe
<1>2. s # NoSnap /\ s \notin FreshSnaps
  BY NoIdAssumption DEF Inv, TypeOK, StoreTypeOK, FreshSnaps
<1>3. \A d \in Backups : backup'[d].id # s
  BY <1>1, <1>2 DEF KeptWhole
<1>4. s # backup[b].id /\ DOMAIN nodes' \subseteq DOMAIN nodes \cup {backup[b].id}
  BY NodesMade DEF KeptWhole, Inv
<1>5. s \in DOMAIN nodes' => /\ s \in DOMAIN nodes /\ nodes'[s] = nodes[s]
                            /\ s \in DOMAIN nodeChunks' /\ nodeChunks'[s] = nodeChunks[s]
                            /\ Refs(s)' = Refs(s) /\ Indexed \subseteq Indexed'
  BY <1>1, <1>4 DEF Grows, KeptWhole, Refs
<1> QED BY <1>3, <1>5 DEF KeptWhole

\* A forget takes the nodes of a snapshot before its chunk lists.
LEMMA NodesGoFirst ==
    ASSUME Inv, NodesFirst, NEW f \in Forgetters, StartForget(f) \/ ForgetStep(f)
    PROVE  /\ NodesFirst' /\ UNCHANGED <<packs, chunkMan>>
           /\ \A s \in DOMAIN nodes' :
                /\ s \in DOMAIN nodes /\ nodes'[s] = nodes[s]
                /\ s \in DOMAIN nodeChunks => s \in DOMAIN nodeChunks' /\ nodeChunks'[s] = nodeChunks[s]
<1>1. forget \in [Forgetters -> [pc : ForgetPCs, id : usedSnaps \cup {NoSnap}]]
  BY DEF Inv, TypeOK, ForgetTypeOK
<1>2. CASE StartForget(f) \/ DeleteRecord(f) \/ FailForget(f)
  <2>1. /\ UNCHANGED <<packs, nodes, nodeChunks, chunkMan>> /\ forget'[f].pc # "nodeChunks"
        /\ \A g \in Forgetters \ {f} : forget'[g] = forget[g]
    BY <1>1, <1>2 DEF StartForget, ResolveForget, DeleteRecord, FailForget, ForgetIdle, store
  <2> QED BY <2>1 DEF NodesFirst, ForgetAt
<1>3. CASE DeleteNodes(f)
  <2>1. /\ nodes' = Delete(nodes, forget[f].id) /\ forget'[f].id = forget[f].id
        /\ \A g \in Forgetters \ {f} : forget'[g] = forget[g]
        /\ UNCHANGED <<packs, nodeChunks, chunkMan>>
    BY <1>1, <1>3 DEF DeleteNodes
  <2>2. NodesFirst'
    BY <2>1 DEF NodesFirst, ForgetAt, Delete
  <2> QED BY <2>1, <2>2 DEF Delete
<1>4. CASE DeleteNodeChunks(f)
  <2>1. /\ nodeChunks' = Delete(nodeChunks, forget[f].id) /\ forget'[f].pc = "idle"
        /\ \A g \in Forgetters \ {f} : forget'[g] = forget[g]
        /\ UNCHANGED <<packs, nodes, chunkMan>> /\ forget[f].id \notin DOMAIN nodes
    BY <1>1, <1>4 DEF DeleteNodeChunks, ForgetIdle, NodesFirst
  <2>2. NodesFirst'
    BY <2>1 DEF NodesFirst, ForgetAt
  <2> QED BY <2>1, <2>2 DEF Delete
<1> QED BY <1>2, <1>3, <1>4 DEF ForgetStep

-----------------------------------------------------------------------------

\* A backup that holds nothing has nothing decayed.
LEMMA IdleFresh ==
    ASSUME NEW b, decayed' \subseteq PackIds \X Chunks, backup'[b] = BackupIdle
    PROVE  BackupFresh(b)'
<1>1. BackupIdle.open = NoPack /\ BackupIdle.new = <<>> /\ BackupIdle.pc = "idle"
  BY DEF BackupIdle
<1>2. \A x : <<NoPack, x>> \notin decayed'
  BY NoIdAssumption
<1> QED BY <1>1, <1>2 DEF BackupFresh

\* A step of backup b adds at most the manifest of what it has packed.
ManifestsGrow(b) ==
    \/ chunkMan' = chunkMan
    \/ /\ backup[b].id \in SnapIds \ DOMAIN chunkMan
       /\ chunkMan' = Put(chunkMan, backup[b].id, backup[b].new)

\* It replaces none, and its entries are fresh.
LEMMA FreshManifest ==
    ASSUME NEW b, ManifestsGrow(b), BackupFresh(b), decayed' = decayed
    PROVE  /\ \A k \in DOMAIN chunkMan : k \in DOMAIN chunkMan' /\ chunkMan'[k] = chunkMan[k]
           /\ \A x : EntriesFresh(x) => EntriesFresh(x)'
           /\ IndexListed' = IndexListed
<1>1. CASE chunkMan' = chunkMan
  BY <1>1 DEF EntriesFresh, IndexListed
<1>2. CASE chunkMan' # chunkMan
  <2> DEFINE id == backup[b].id
             new == backup[b].new
  <2>1. id \in SnapIds \ DOMAIN chunkMan /\ chunkMan' = Put(chunkMan, id, new)
    BY <1>2 DEF ManifestsGrow
  <2>2. \A x \in DOMAIN new : <<new[x], x>> \notin decayed
    BY DEF BackupFresh
  <2>3. id # Index
    BY <2>1, KeysAssumption
  <2> HIDE DEF id, new
  <2>4. /\ DOMAIN chunkMan' = DOMAIN chunkMan \cup {id} /\ chunkMan'[id] = new
        /\ \A k \in DOMAIN chunkMan : chunkMan'[k] = chunkMan[k]
    BY <2>1 DEF Put
  <2> QED BY <2>2, <2>3, <2>4 DEF EntriesFresh, IndexListed
<1> QED BY <1>1, <1>2

\* So what another backup holds stays fresh.
LEMMA OthersFresh ==
    ASSUME NEW b, NEW d, ManifestsGrow(b), BackupFresh(b), BackupFresh(d), decayed' = decayed,
           backup'[d] = backup[d]
    PROVE  BackupFresh(d)'
<1>1. /\ \A x : EntriesFresh(x) => EntriesFresh(x)'
      /\ IndexListed' = IndexListed /\ (IndexListed => chunkMan'[Index] = chunkMan[Index])
  BY FreshManifest DEF IndexListed
<1> HIDE DEF IndexListed, EntriesFresh, ManifestsGrow
<1> QED BY <1>1 DEF BackupFresh

\* And so does what the backup itself holds.
LEMMA OwnFresh ==
    ASSUME Inv, NEW b \in Backups, LoadParent(b) \/ BackupStep(b), BackupFresh(b),
           decayed \subseteq usedPacks \X Chunks, decayed' = decayed
    PROVE  ManifestsGrow(b) /\ BackupFresh(b)'
<1> DEFINE run == backup[b]
<1>1. /\ backup = [d \in Backups |-> backup[d]] /\ BackupRunOK(run) /\ WriteInv(b)
      /\ usedPacks \subseteq PackIds /\ (BackupAt(b, "idle") => run = BackupIdle)
  BY DEF Inv, TypeOK, StoreTypeOK, BackupTypeOK, BackupInv, BackupRunInv
<1>2. DOMAIN run = BackupFields /\ decayed' \subseteq PackIds \X Chunks
  BY <1>1 DEF BackupRunOK
<1> USE DEF BackupAt, BackupFields
<1>3. CASE LoadParent(b) \/ LoadParentNodes(b) \/ LoadParentChunks(b)
  <2>1. /\ chunkMan' = chunkMan /\ backup'[b].new = run.new /\ backup'[b].open = run.open
        /\ backup'[b].pc \in {"nodes", "nodeChunks", "list"}
    BY <1>1, <1>2, <1>3 DEF LoadParent, LoadParentNodes, LoadParentChunks, store
  <2> QED BY <2>1 DEF ManifestsGrow, BackupFresh, EntriesFresh
<1>4. CASE ListLiveIndex(b)
  <2>1. /\ chunkMan' = chunkMan /\ backup'[b].new = run.new /\ backup'[b].open = run.open
        /\ backup'[b].pc = IF IndexListed THEN "index" ELSE "walk"
        /\ backup'[b].live = DOMAIN MergeManifests(ListedManifests)
    BY <1>1, <1>2, <1>4 DEF ListLiveIndex, store
  <2>2. ASSUME NEW x \in Chunks, x \notin backup'[b].live
        PROVE  (IndexListed /\ x \in DOMAIN chunkMan[Index]) \/ EntriesFresh(x)'
    <3>1. CASE x \in Indexed
      BY <2>1, <2>2, <3>1, ListedIndex
    <3>2. CASE x \notin Indexed
      BY <2>1, <3>2 DEF Indexed, EntriesFresh
    <3> QED BY <3>1, <3>2
  <2>3. IndexListed' = IndexListed
    BY <2>1 DEF IndexListed
  <2>4. \A x : EntriesFresh(x)' = EntriesFresh(x)
    BY <2>1 DEF EntriesFresh
  <2> HIDE DEF IndexListed, EntriesFresh
  <2> QED BY <2>1, <2>2, <2>3, <2>4 DEF ManifestsGrow, BackupFresh
<1>5. CASE ReadLiveIndex(b)
  <2>1. /\ chunkMan' = chunkMan /\ backup'[b].new = run.new /\ backup'[b].open = run.open
        /\ run.pc = "index" /\ IndexListed
        /\ backup'[b].pc = "walk" /\ backup'[b].live = run.live \cup DOMAIN chunkMan[Index]
    BY <1>1, <1>2, <1>5 DEF ReadLiveIndex, store
  <2> QED BY <2>1 DEF ManifestsGrow, BackupFresh, EntriesFresh
<1>6. CASE ReuseChunk(b) \/ \E p \in Paths : CarryFile(b, p) \/ \E x \in Contents : OpenFile(b, p, x)
  <2>1. /\ chunkMan' = chunkMan /\ backup'[b].new = run.new /\ backup'[b].open = run.open
        /\ run.pc = "walk" /\ backup'[b].pc = "walk" /\ backup'[b].live = run.live
    <3>1. CASE ReuseChunk(b)
      BY <1>1, <1>2, <3>1 DEF ReuseChunk, Cutting, store
    <3>2. ASSUME NEW p \in Paths, CarryFile(b, p) \/ \E x \in Contents : OpenFile(b, p, x)
          PROVE  /\ chunkMan' = chunkMan /\ run.pc = "walk"
                 /\ \E tree, rest : backup' = [backup EXCEPT ![b].tree = tree, ![b].rest = rest]
      <4>1. CASE CarryFile(b, p)
        <5>1. backup' = [backup EXCEPT ![b].tree = Put(@, p, run.parent[p]), ![b].rest = run.rest]
          BY <1>1, <1>2, <4>1 DEF CarryFile
        <5> QED BY <4>1, <5>1 DEF CarryFile, Walking, store
      <4>2. CASE \E x \in Contents : OpenFile(b, p, x)
        BY <4>2 DEF OpenFile, Walking, store
      <4> QED BY <3>2, <4>1, <4>2
    <3> QED BY <1>1, <1>2, <1>6, <3>1, <3>2, ZenonT(60)
  <2> QED BY <2>1 DEF ManifestsGrow, BackupFresh, EntriesFresh
<1>7. ASSUME NEW k \in PackIds, NEW full \in BOOLEAN, AddChunk(b, k, full)
      PROVE  ManifestsGrow(b) /\ BackupFresh(b)'
  <2> DEFINE c == Head(run.rest)
  <2>1. c \in Chunks
    BY <1>1, <1>7 DEF AddChunk, Cutting, BackupRunOK
  <2>2. /\ chunkMan' = chunkMan /\ run.pc = "walk" /\ backup'[b].pc = "walk" /\ c \notin run.live
        /\ backup'[b].new = Put(run.new, c, k) /\ backup'[b].live = run.live \cup {c}
        /\ backup'[b].open = IF full THEN NoPack ELSE k
        /\ IF run.open = NoPack THEN k \in FreshPacks ELSE k = run.open
    BY <1>1, <1>2, <1>7 DEF AddChunk, Cutting
  <2>3. \A x \in Chunks : <<k, x>> \notin decayed /\ <<NoPack, x>> \notin decayed
    BY <1>1, <1>2, <2>2, NoIdAssumption DEF FreshPacks, BackupFresh
  <2>4. EntriesFresh(c)
    BY <2>1, <2>2 DEF BackupFresh
  <2>5. \A x : EntriesFresh(x)' = EntriesFresh(x)
    BY <2>2 DEF EntriesFresh
  <2> HIDE DEF c
  <2>6. /\ DOMAIN backup'[b].new = DOMAIN run.new \cup {c} /\ backup'[b].new[c] = k
        /\ \A x \in DOMAIN run.new \ {c} : backup'[b].new[x] = run.new[x]
    BY <2>2 DEF Put
  <2>7. \A x \in DOMAIN backup'[b].new : <<backup'[b].new[x], x>> \notin decayed /\ EntriesFresh(x)
    BY <2>1, <2>3, <2>4, <2>6 DEF BackupFresh
  <2>8. \A x \in Chunks \ backup'[b].live : EntriesFresh(x)
    BY <2>2 DEF BackupFresh
  <2>9. \A x \in Chunks : <<backup'[b].open, x>> \notin decayed
    BY <2>2, <2>3
  <2> HIDE DEF EntriesFresh
  <2> QED BY <2>2, <2>5, <2>7, <2>8, <2>9 DEF ManifestsGrow, BackupFresh
<1>8. CASE \/ \E s \in SnapIds : FlushBackup(b, s)
           \/ WriteNodes(b) \/ WriteNodeChunks(b) \/ WritePacks(b)
  <2>1. /\ chunkMan' = chunkMan /\ backup'[b].new = run.new /\ backup'[b].open \in {run.open, NoPack}
        /\ backup'[b].pc \notin {"index", "walk"}
    <3>1. CASE \E s \in SnapIds : FlushBackup(b, s)
      BY <1>1, <1>2, <3>1 DEF FlushBackup
    <3>2. CASE WriteNodes(b) \/ WriteNodeChunks(b) \/ WritePacks(b)
      <4>1. /\ chunkMan' = chunkMan
            /\ \E pc \in {"putNodeChunks", "putChunks", "putRecord"} : backup' = [backup EXCEPT ![b].pc = pc]
        BY <3>2 DEF WriteNodes, WriteNodeChunks, WritePacks
      <4> QED BY <1>1, <1>2, <4>1
    <3> QED BY <1>8, <3>1, <3>2
  <2>2. \A x \in Chunks : <<NoPack, x>> \notin decayed
    BY <1>2, NoIdAssumption
  <2> QED BY <2>1, <2>2 DEF ManifestsGrow, BackupFresh, EntriesFresh
<1>9. CASE WriteChunks(b)
  <2>1. /\ chunkMan' = Put(chunkMan, run.id, run.new) /\ backup'[b].new = run.new
        /\ backup'[b].open = run.open /\ run.pc = "putChunks" /\ backup'[b].pc = "putPacks"
    BY <1>1, <1>2, <1>9 DEF WriteChunks
  <2>2. ManifestsGrow(b)
    BY <1>1, <2>1 DEF ManifestsGrow, WriteInv, Writing
  <2>3. \A x : EntriesFresh(x) => EntriesFresh(x)'
    BY <2>2, FreshManifest
  <2> HIDE DEF EntriesFresh
  <2> QED BY <2>1, <2>2, <2>3 DEF BackupFresh
<1>10. CASE WriteSnapshotRecord(b) \/ FailBackup(b)
  <2>1. chunkMan' = chunkMan /\ backup'[b] = BackupIdle
    BY <1>1, <1>10 DEF WriteSnapshotRecord, FailBackup, store
  <2> QED BY <1>2, <2>1, IdleFresh DEF ManifestsGrow
<1> QED BY <1>3, <1>4, <1>5, <1>6, <1>7, <1>8, <1>9, <1>10
    DEF BackupStep, ReadCatalog, WalkSource, WriteSnapshot

-----------------------------------------------------------------------------
\* A manifest that has no entry for a chunk does not change where the merge finds it.
LEMMA MergeOther ==
    ASSUME NEW n \in Nat, NEW m, DOMAIN m \subseteq 0 .. n, NEW k, k \notin DOMAIN m, NEW f,
           NEW x, x \in UNION {DOMAIN m[j] : j \in DOMAIN m}, x \notin DOMAIN f
    PROVE  MergeManifests(Put(m, k, f))[x] = MergeManifests(m)[x]
<1> DEFINE Holders(g, c) == {j \in DOMAIN g : c \in DOMAIN g[j]}
           all(g) == UNION {DOMAIN g[j] : j \in DOMAIN g}
           more == Put(m, k, f)
<1>1. /\ DOMAIN more = DOMAIN m \cup {k} /\ more[k] = f
      /\ \A j \in DOMAIN m : more[j] = m[j]
  BY DEF Put
<1>2. /\ MergeManifests(m) = [c \in all(m) |-> m[Max(Holders(m, c))][c]]
      /\ MergeManifests(more) = [c \in all(more) |-> more[Max(Holders(more, c))][c]]
  BY DEF MergeManifests
<1> HIDE DEF more
<1>3. Holders(more, x) = Holders(m, x) /\ x \in all(more) /\ x \in all(m)
  BY <1>1
<1>4. Max(Holders(m, x)) \in DOMAIN m
  <2>1. Holders(m, x) # {} /\ Holders(m, x) \in SUBSET (0 .. n)
    OBVIOUS
  <2>2. Max(Holders(m, x)) \in Holders(m, x)
    <3> HIDE DEF Holders
    <3> QED BY <2>1, MaxIn
  <2> QED BY <2>2
<1>5. /\ MergeManifests(m)[x] = m[Max(Holders(m, x))][x]
      /\ MergeManifests(more)[x] = more[Max(Holders(more, x))][x]
  <2> HIDE DEF Holders
  <2> QED BY <1>2, <1>3
<1> HIDE DEF Holders, all
<1> QED BY <1>1, <1>3, <1>4, <1>5 DEF more

\* Where the merged index finds chunk x stays the same, or both blobs are intact.
FoundAsGood(x) ==
    \/ ChunkIndex'[x] = ChunkIndex[x]
    \/ <<ChunkIndex[x], x>> \notin decayed /\ <<ChunkIndex'[x], x>> \notin decayed

\* So it does beside backups.
LEMMA FoundBeside ==
    ASSUME StoreTypeOK, StoreTypeOK', NEW b, ManifestsGrow(b), BackupFresh(b), decayed' = decayed,
           NEW x \in Indexed
    PROVE  FoundAsGood(x)
<1>1. /\ Index \in Nat /\ DOMAIN chunkMan \subseteq 0 .. Index /\ DOMAIN chunkMan' \subseteq 0 .. Index
  BY KeysAssumption DEF StoreTypeOK, IsPartial2
<1>2. /\ \A k \in DOMAIN chunkMan : k \in DOMAIN chunkMan' /\ chunkMan'[k] = chunkMan[k]
      /\ EntriesFresh(x) => EntriesFresh(x)'
  BY FreshManifest
<1>3. CASE EntriesFresh(x)
  <2>1. x \in UNION {DOMAIN chunkMan[k] : k \in DOMAIN chunkMan}
    BY DEF Indexed
  <2>2. x \in UNION {DOMAIN chunkMan'[k] : k \in DOMAIN chunkMan'}
    BY <1>2, <2>1
  <2>3. \E k \in DOMAIN chunkMan : x \in DOMAIN chunkMan[k] /\ ChunkIndex[x] = chunkMan[k][x]
    BY <1>1, <2>1, MergeFacts DEF ChunkIndex
  <2>4. \E k \in DOMAIN chunkMan' : x \in DOMAIN chunkMan'[k] /\ ChunkIndex'[x] = chunkMan'[k][x]
    BY <1>1, <2>2, MergeFacts DEF ChunkIndex
  <2>5. \A k \in DOMAIN chunkMan' : x \in DOMAIN chunkMan'[k] => <<chunkMan'[k][x], x>> \notin decayed
    BY <1>2, <1>3 DEF EntriesFresh
  <2>6. \A k \in DOMAIN chunkMan : x \in DOMAIN chunkMan[k] => <<chunkMan[k][x], x>> \notin decayed
    BY <1>3 DEF EntriesFresh
  <2> QED BY <2>3, <2>4, <2>5, <2>6 DEF FoundAsGood
<1>4. CASE ~EntriesFresh(x)
  <2>1. x \notin DOMAIN backup[b].new
    BY <1>4 DEF BackupFresh
  <2>2. CASE chunkMan' = chunkMan
    BY <2>2 DEF ChunkIndex, FoundAsGood
  <2>3. CASE chunkMan' # chunkMan
    <3>1. chunkMan' = Put(chunkMan, backup[b].id, backup[b].new) /\ backup[b].id \notin DOMAIN chunkMan
      BY <2>3 DEF ManifestsGrow
    <3>2. x \in UNION {DOMAIN chunkMan[k] : k \in DOMAIN chunkMan}
      BY DEF Indexed
    <3>3. MergeManifests(Put(chunkMan, backup[b].id, backup[b].new))[x] = MergeManifests(chunkMan)[x]
      BY <1>1, <2>1, <3>1, <3>2, MergeOther
    <3> QED BY <3>1, <3>3 DEF ChunkIndex, FoundAsGood
  <2> QED BY <2>2, <2>3
<1> QED BY <1>3, <1>4

\* What a step leaves to verification v: the snapshots it listed, as long as they have nodes, ...
SnapsKept(v) ==
    \A s \in verify[v].snaps :
        /\ KeptWhole(s)'
        /\ s \in DOMAIN nodes' => s \in DOMAIN nodes /\ nodes'[s] = nodes[s] /\ Refs(s)' = Refs(s)

\* ... and the index, but for a blob of a chunk that is as good as the one before.
IndexKept ==
    /\ IndexListed' = IndexListed /\ (IndexListed => chunkMan'[Index] = chunkMan[Index])
    /\ Indexed \subseteq Indexed'
    /\ \A k, x : BlobStored(k, x) => BlobStored(k, x)'
    /\ decayed' = decayed
    /\ \A x \in Indexed : FoundAsGood(x)

\* That is all a verification relies on.
LEMMA VerifyKept ==
    ASSUME NEW v, VerifyRunInv(v), SnapsKept(v), IndexKept, verify'[v] = verify[v]
    PROVE  VerifyRunInv(v)'
<1> DEFINE run == verify[v]
<1>1. KnownInv(v) /\ ProgressInv(v)
  BY DEF VerifyRunInv
<1>2. Left(v)' \subseteq Left(v) /\ \A s \in Left(v)' : nodes'[s] = nodes[s] /\ Refs(s)' = Refs(s)
  BY DEF SnapsKept, Left
<1>3. KnownInv(v)'
  <2> SUFFICES ASSUME run.pc \notin {"idle", "list"} PROVE KnownInv(v)'
    BY DEF KnownInv
  <2>1. run.pc = "index" => IndexListed /\ IndexListed' /\ chunkMan'[Index] = chunkMan[Index]
    BY <1>1 DEF KnownInv, IndexKept
  <2>2. Known(v)' = Known(v)
    BY <2>1 DEF Known, WithIndexFile, VerifyAt
  <2>3. \A s \in Left(v)' : Refs(s)' \subseteq DOMAIN Known(v)
    BY <1>1, <1>2 DEF KnownInv
  <2>4. DOMAIN Known(v) \subseteq Indexed /\ Indexed \subseteq Indexed'
    BY <1>1 DEF KnownInv, IndexKept
  <2>5. ASSUME NEW x \in DOMAIN Known(v)
        PROVE  BlobStored(Known(v)[x], x)' /\ FoundAlike(v, x)'
    <3>1. BlobStored(Known(v)[x], x) /\ FoundAlike(v, x) /\ x \in Indexed
      BY <1>1, <2>4, <2>5 DEF KnownInv
    <3>2. BlobStored(Known(v)[x], x)'
      <4>1. \A k : BlobStored(k, x) => BlobStored(k, x)'
        BY DEF IndexKept
      <4> QED BY <2>2, <3>1, <4>1 DEF BlobStored
    <3> QED BY <2>2, <3>1, <3>2 DEF FoundAlike, FoundAsGood, IndexKept
  <2> HIDE DEF run
  <2> QED BY <2>1, <2>2, <2>3, <2>4, <2>5 DEF KnownInv, run
<1>4. ProgressInv(v)'
  <2>1. \A x : Passed(v, x)' = Passed(v, x)
    BY DEF Passed, IndexKept
  <2> QED BY <1>1, <1>2, <2>1 DEF ProgressInv
<1> QED BY <1>3, <1>4 DEF VerifyRunInv, VerifyAt, SnapsKept

\* A backup leaves that to it.
LEMMA VerifyBesideBackup ==
    ASSUME Inv, StoreTypeOK', NEW b \in Backups, LoadParent(b) \/ BackupStep(b),
           ManifestsGrow(b), BackupFresh(b), decayed' = decayed,
           NEW v \in Verifiers, VerifyRunInv(v), VerifyRunOK(verify[v]), verify'[v] = verify[v]
    PROVE  VerifyRunInv(v)'
<1>1. SnapsKept(v)
  BY KeptBesideBackup DEF VerifyRunInv, VerifyRunOK, SnapsKept
<1>2. Indexed \subseteq Indexed' /\ \A k, x : BlobStored(k, x) => BlobStored(k, x)'
  <2>1. Grows(b)
    BY BackupQuietSafe, BackupWriteSafe DEF BackupStep, WalkSource, BackupStepSafe
  <2> QED BY <2>1 DEF Grows
<1>3. IndexListed' = IndexListed /\ (IndexListed => chunkMan'[Index] = chunkMan[Index])
  BY FreshManifest DEF IndexListed
<1>4. \A x \in Indexed : FoundAsGood(x)
  BY FoundBeside DEF Inv, TypeOK
<1>5. IndexKept
  BY <1>2, <1>3, <1>4 DEF IndexKept
<1> QED BY <1>1, <1>5, VerifyKept

\* So does a forget.
LEMMA VerifyBesideForget ==
    ASSUME Inv, NodesFirst, NEW f \in Forgetters, StartForget(f) \/ ForgetStep(f), UNCHANGED <<backup, decayed>>,
           NEW v \in Verifiers, VerifyRunInv(v), verify'[v] = verify[v]
    PROVE  VerifyRunInv(v)'
<1>1. /\ UNCHANGED <<packs, chunkMan>>
      /\ \A s \in DOMAIN nodes' :
           /\ s \in DOMAIN nodes /\ nodes'[s] = nodes[s]
           /\ s \in DOMAIN nodeChunks => s \in DOMAIN nodeChunks' /\ nodeChunks'[s] = nodeChunks[s]
  BY NodesGoFirst
<1>2. IndexKept
  BY <1>1 DEF IndexKept, IndexListed, Indexed, BlobStored, ChunkIndex, FoundAsGood
<1>3. SnapsKept(v)
  BY <1>1 DEF SnapsKept, VerifyRunInv, KeptWhole, Refs, Indexed
<1> QED BY <1>2, <1>3, VerifyKept

-----------------------------------------------------------------------------
\* A run that holds nothing satisfies the invariant.
LEMMA IdleVerify ==
    ASSUME NEW v
    PROVE  /\ verify[v] = VerifyIdle => VerifyRunInv(v)
           /\ verify'[v] = VerifyIdle => VerifyRunInv(v)'
<1>1. /\ VerifyIdle.pc = "idle" /\ VerifyIdle.snaps = {} /\ VerifyIdle.checked = {}
  BY DEF VerifyIdle
<1> QED BY <1>1 DEF VerifyRunInv, VerifyAt, KnownInv, ProgressInv, Left

\* Without a step of the writers, what is stored of a snapshot and the index stay.
LEMMA StillStored ==
    ASSUME UNCHANGED vars
    PROVE  /\ UNCHANGED <<nodes, nodeChunks, records, decayed, chunkMan>>
           /\ Indexed' = Indexed /\ ChunkIndex' = ChunkIndex /\ IndexListed' = IndexListed
           /\ \A s : Refs(s)' = Refs(s) /\ KeptWhole(s)' = KeptWhole(s)
           /\ \A k, x : BlobStored(k, x)' = BlobStored(k, x)
BY DEF vars, store, Indexed, ChunkIndex, IndexListed, Refs, BlobStored, KeptWhole

\* Reading the index keeps the invariant of a verification.
LEMMA VerifyReads ==
    ASSUME Inv, NEW v \in Verifiers, DOMAIN verify = Verifiers, VerifyRunOK(verify[v]),
           VerifyRunInv(v), UNCHANGED vars,
           (\E deep \in BOOLEAN : VerifySnapshots(v, deep)) \/ VerifyListIndex(v) \/ VerifyReadIndex(v)
    PROVE  VerifyRunInv(v)'
<1> DEFINE run == verify[v]
<1>1. /\ DOMAIN run = VerifyFields /\ KnownInv(v) /\ ProgressInv(v)
      /\ \A s \in run.snaps : KeptWhole(s)
      /\ \A s \in records : KeptWhole(s)
  BY OwnIdUnrecorded DEF VerifyRunOK, VerifyRunInv, Inv, SnapshotsComplete, KeptWhole
<1>2. /\ nodes' = nodes /\ decayed' = decayed
      /\ Indexed' = Indexed /\ ChunkIndex' = ChunkIndex /\ IndexListed' = IndexListed
      /\ \A s : Refs(s)' = Refs(s) /\ KeptWhole(s)' = KeptWhole(s)
      /\ \A k, x : BlobStored(k, x)' = BlobStored(k, x)
  BY StillStored
<1>3. ASSUME NEW deep \in BOOLEAN, VerifySnapshots(v, deep) PROVE VerifyRunInv(v)'
  <2>1. /\ verify'[v].pc = "list" /\ verify'[v].snaps = records /\ verify'[v].unread = records
        /\ verify'[v].checked = {}
    <3>1. run.checked = {}
      <4>1. run = VerifyIdle
        BY <1>3 DEF VerifySnapshots, VerifyRunInv
      <4> QED BY <4>1 DEF VerifyIdle
    <3> QED BY <1>1, <1>3, <3>1 DEF VerifySnapshots, VerifyFields
  <2> QED BY <1>1, <1>2, <2>1 DEF VerifyRunInv, VerifyAt, KnownInv, ProgressInv, Left
<1>4. ASSUME VerifyListIndex(v) \/ VerifyReadIndex(v), KnownInv(v)'
      PROVE  VerifyRunInv(v)'
  <2>1. /\ run.pc \in {"list", "index"} /\ verify'[v].pc \in {"index", "nodes"}
        /\ verify'[v].snaps = run.snaps /\ verify'[v].unread = run.unread
        /\ verify'[v].checked = run.checked
    BY <1>1, <1>4 DEF VerifyListIndex, VerifyReadIndex, VerifyAt, VerifyFields
  <2>2. ProgressInv(v)'
    BY <1>1, <1>2, <2>1 DEF ProgressInv, Left
  <2> QED BY <1>1, <1>2, <1>4, <2>1, <2>2 DEF VerifyRunInv, VerifyAt
<1>5. CASE VerifyListIndex(v)
  <2>1. /\ verify'[v].pc = IF IndexListed THEN "index" ELSE "nodes"
        /\ verify'[v].idx = MergeManifests(ListedManifests) /\ verify'[v].snaps = run.snaps
    BY <1>1, <1>5 DEF VerifyListIndex, VerifyFields
  <2>2. Known(v)' = IF IndexListed THEN WithIndexFile(MergeManifests(ListedManifests))
                                   ELSE MergeManifests(ListedManifests)
    BY <2>1, StillStored DEF Known, VerifyAt, WithIndexFile
  <2>3. Known(v)' = ChunkIndex
    BY <2>2, WholeIndex DEF Inv, TypeOK
  <2>4. DOMAIN ChunkIndex = Indexed /\ \A x \in DOMAIN ChunkIndex : BlobStored(ChunkIndex[x], x)
    BY MergedIndex
  <2>5. \A x : FoundAlike(v, x)'
    BY <1>2, <2>3 DEF FoundAlike
  <2>6. Left(v)' = Left(v) /\ \A s \in Left(v) : Refs(s) \subseteq Indexed
    BY <1>1, <1>2, <2>1 DEF Left, KeptWhole
  <2> QED BY <1>1, <1>2, <1>4, <1>5, <2>1, <2>3, <2>4, <2>5, <2>6 DEF KnownInv
<1>6. CASE VerifyReadIndex(v)
  <2>1. /\ run.pc = "index" /\ verify'[v].pc = "nodes" /\ verify'[v].idx = WithIndexFile(run.idx)
        /\ verify'[v].snaps = run.snaps
    BY <1>1, <1>6 DEF VerifyReadIndex, VerifyAt, VerifyFields
  <2>2. Known(v)' = Known(v)
    BY <2>1 DEF Known, VerifyAt
  <2>3. \A x : FoundAlike(v, x)' = FoundAlike(v, x)
    BY <1>2, <2>2 DEF FoundAlike
  <2>4. Left(v)' = Left(v)
    BY <1>2, <2>1 DEF Left
  <2> QED BY <1>1, <1>2, <1>4, <1>6, <2>1, <2>2, <2>3, <2>4 DEF KnownInv
<1> QED BY <1>3, <1>5, <1>6

\* So does going over the snapshots, chunk by chunk.
LEMMA VerifyChecks ==
    ASSUME Inv, NEW v \in Verifiers, DOMAIN verify = Verifiers, VerifyRunOK(verify[v]),
           VerifyRunInv(v), UNCHANGED vars,
           \/ VerifyNodes(v) \/ VerifyNodeChunks(v)
           \/ (\E x \in Chunks : CheckChunk(v, x)) \/ SnapshotChecked(v)
    PROVE  VerifyRunInv(v)'
<1> DEFINE run == verify[v]
<1>1. /\ DOMAIN run = VerifyFields /\ KnownInv(v) /\ ProgressInv(v)
      /\ (\A s \in run.snaps : KeptWhole(s)) /\ StoreTypeOK /\ VerifyRunOK(run)
  BY DEF VerifyRunOK, VerifyRunInv, Inv, TypeOK
<1>2. /\ nodes' = nodes /\ nodeChunks' = nodeChunks /\ decayed' = decayed
      /\ Indexed' = Indexed /\ ChunkIndex' = ChunkIndex
      /\ \A s : Refs(s)' = Refs(s) /\ KeptWhole(s)' = KeptWhole(s)
      /\ \A k, x : BlobStored(k, x)' = BlobStored(k, x)
  BY StillStored
<1>3. /\ run.pc \in {"nodes", "nodeChunks", "check"} /\ verify'[v].pc \in {"nodes", "nodeChunks", "check"}
      /\ verify'[v].snaps = run.snaps /\ verify'[v].idx = run.idx /\ verify'[v].deep = run.deep
  <2>1. CASE \E x \in Chunks : CheckChunk(v, x)
    <3>1. PICK x \in Chunks : CheckChunk(v, x)
      BY <2>1
    <3>2. /\ run.pc = "check"
          /\ \E todo, checked : verify' = [verify EXCEPT ![v].todo = todo, ![v].checked = checked]
      BY <3>1 DEF CheckChunk, VerifyAt
    <3> QED BY <1>1, <3>2 DEF VerifyFields
  <2>2. CASE VerifyNodes(v) \/ VerifyNodeChunks(v)
    BY <1>1, <2>2 DEF VerifyNodes, VerifyNodeChunks, VerifyAt, VerifyFields
  <2>3. CASE SnapshotChecked(v)
    BY <1>1, <2>3 DEF SnapshotChecked, VerifyAt, VerifyFields
  <2> QED BY <2>1, <2>2, <2>3
<1>4. /\ Known(v) = run.idx /\ Known(v)' = Known(v) /\ \A x : Passed(v, x)' = Passed(v, x)
      /\ \A x : FoundAlike(v, x)' = FoundAlike(v, x)
      /\ Left(v)' = Left(v)
  BY <1>2, <1>3 DEF Known, VerifyAt, Passed, FoundAlike, Left
<1>5. KnownInv(v)'
  BY <1>1, <1>2, <1>3, <1>4 DEF KnownInv
<1>6. ASSUME ProgressInv(v)' PROVE VerifyRunInv(v)'
  BY <1>1, <1>2, <1>3, <1>5, <1>6 DEF VerifyRunInv, VerifyAt
<1>7. CASE VerifyNodes(v)
  <2> DEFINE s == Min(run.unread)
  <2>1. s \in run.unread /\ s \in run.snaps
    <3>1. run.unread \in SUBSET Nat /\ run.unread # {} /\ run.unread \subseteq run.snaps
      BY <1>1, <1>7, KeysAssumption DEF VerifyNodes, VerifyRunOK, StoreTypeOK
    <3> QED BY <3>1, MinIn
  <2>2. /\ verify'[v].pc = "nodeChunks" /\ run.pc = "nodes"
        /\ verify'[v].unread = run.unread \ {s} /\ verify'[v].id = s /\ verify'[v].files = DOMAIN nodes[s]
        /\ verify'[v].checked = run.checked
    BY <1>1, <1>7 DEF VerifyNodes, VerifyAt, VerifyFields
  <2> HIDE DEF s
  <2>3. ProgressInv(v)'
    BY <1>1, <1>2, <1>3, <1>4, <2>1, <2>2 DEF ProgressInv
  <2> QED BY <1>6, <2>3
<1>8. CASE VerifyNodeChunks(v)
  <2> DEFINE todo == UNION {ToSet(ChunkList(LoadedNodeChunks(run.id), p)) : p \in run.files}
  <2>1. /\ verify'[v].pc = "check" /\ run.pc = "nodeChunks"
        /\ verify'[v].unread = run.unread /\ verify'[v].id = run.id /\ verify'[v].files = run.files
        /\ verify'[v].checked = run.checked /\ verify'[v].todo = todo
    BY <1>1, <1>8 DEF VerifyNodeChunks, VerifyAt, VerifyFields
  <2>2. run.id \in Left(v) =>
          /\ run.files = DOMAIN nodes[run.id]
          /\ run.id \in DOMAIN nodeChunks /\ nodeChunks[run.id] = nodes[run.id]
    BY <1>1, <2>1 DEF ProgressInv, Left, KeptWhole
  <2>3. run.id \in Left(v) => todo = Refs(run.id)
    BY <2>2 DEF Refs, ChunksOf, LoadedNodeChunks, ChunkList
  <2> HIDE DEF todo
  <2>4. ProgressInv(v)'
    BY <1>1, <1>2, <1>3, <1>4, <2>1, <2>3 DEF ProgressInv
  <2> QED BY <1>6, <2>4
<1>9. ASSUME NEW x \in Chunks, CheckChunk(v, x) PROVE VerifyRunInv(v)'
  <2>1. /\ verify'[v].pc = "check" /\ run.pc = "check"
        /\ verify'[v].unread = run.unread /\ verify'[v].id = run.id /\ verify'[v].files = run.files
        /\ verify'[v].checked \in {run.checked, run.checked \cup {x}} /\ verify'[v].todo = run.todo \ {x}
    BY <1>1, <1>9 DEF CheckChunk, VerifyAt, VerifyFields
  <2>2. Passed(v, x)
    <3>1. run.deep => x \in run.checked \/ BlobReadable(run.idx[x], x)
      BY <1>9 DEF CheckChunk, IsUnreadable
    <3> QED BY <1>1, <3>1 DEF Passed, BlobReadable, ProgressInv
  <2>3. ProgressInv(v)'
    BY <1>1, <1>2, <1>3, <1>4, <2>1, <2>2 DEF ProgressInv
  <2> QED BY <1>6, <2>3
<1>10. CASE SnapshotChecked(v)
  <2>1. /\ verify'[v].pc = "nodes" /\ run.pc = "check" /\ run.todo = {}
        /\ verify'[v].unread = run.unread /\ verify'[v].checked = run.checked
    BY <1>1, <1>10 DEF SnapshotChecked, VerifyAt, VerifyFields
  <2>2. ProgressInv(v)'
    BY <1>1, <1>2, <1>3, <1>4, <2>1 DEF ProgressInv
  <2> QED BY <1>6, <2>2
<1> QED BY <1>7, <1>8, <1>9, <1>10

\* A step that changes neither the repository nor the run is nothing to it.
LEMMA VerifyAside ==
    ASSUME UNCHANGED vars, NEW v, verify'[v] = verify[v], VerifyRunInv(v)
    PROVE  VerifyRunInv(v)'
<1>1. IndexKept
  BY StillStored DEF IndexKept, IndexListed, FoundAsGood
<1>2. SnapsKept(v)
  BY StillStored DEF SnapsKept, VerifyRunInv
<1> QED BY <1>1, <1>2, VerifyKept

\* VerifyInv is inductive.
LEMMA VerifyInvKept ==
    ASSUME Disciplined, "compact" \in KeepOut, Inv, ReadersTyped, VerifyInv,
           [ReaderNext]_allVars
    PROVE  VerifyInv'
<1>1. ReadersAlone' /\ TypeOK' /\ decayed' \subseteq PackIds \X Chunks
  BY ReadersTypedKept, ReadersStayAlone DEF VerifyInv, ReadersTyped, TypedInv, TypeOK, StoreTypeOK
<1>2. /\ DOMAIN verify = Verifiers /\ \A v \in Verifiers : VerifyRunOK(verify[v]) /\ VerifyRunInv(v)
      /\ \A b \in Backups : BackupFresh(b)
      /\ decayed \subseteq usedPacks \X Chunks /\ ReadersAlone /\ NodesFirst
  BY RunByRun DEF VerifyInv
<1>3. ASSUME RunningBackups = {}, UNCHANGED backup PROVE \A b \in Backups : BackupFresh(b)'
  <2>1. \A b \in Backups : backup[b] = BackupIdle
    BY <1>3 DEF RunningBackups, Inv, BackupInv, BackupRunInv
  <2> QED BY <1>1, <1>3, <2>1, IdleFresh
<1>4. ASSUME RunningReaders = {}, UNCHANGED verify PROVE \A v \in Verifiers : VerifyRunInv(v)'
  <2>1. \A v \in Verifiers : verify[v] = VerifyIdle
    BY <1>2, <1>4 DEF RunningReaders, RunningVerifies, VerifyRunInv
  <2> QED BY <1>4, <2>1, IdleVerify
<1>5. CASE NextWriter /\ NextBackup /\ UNCHANGED <<forget, decayed>>
  <2> PICK b \in Backups : StartBackup(b) \/ BackupStep(b)
    BY <1>5 DEF NextBackup
  <2>1. LoadParent(b) \/ BackupStep(b)
    BY DEF StartBackup
  <2>2. verify' = verify /\ decayed' = decayed
    BY <1>5 DEF NextWriter, readerVars
  <2>3. ManifestsGrow(b) /\ BackupFresh(b)'
    BY <1>2, <2>1, <2>2, OwnFresh
  <2>4. \A d \in Backups \ {b} : backup'[d] = backup[d]
    BY <2>1, BackupQuietSafe, BackupWriteSafe DEF BackupStep, WalkSource, BackupStepSafe
  <2>5. \A d \in Backups : BackupFresh(d)'
    BY <1>2, <2>2, <2>3, <2>4, OthersFresh
  <2>6. \A v \in Verifiers : VerifyRunInv(v)'
    BY <1>1, <1>2, <2>1, <2>2, <2>3, VerifyBesideBackup DEF TypeOK
  <2>7. NodesFirst'
    <3>1. RunningForgets = {} /\ forget' = forget
      BY <1>5, BackupAlone
    <3> QED BY <3>1 DEF RunningForgets, NodesFirst, ForgetAt
  <2> QED BY <1>1, <2>5, <2>6, <2>7 DEF VerifyInv
<1>6. CASE NextWriter /\ NextCompact /\ UNCHANGED <<backup, forget>>
  <2>1. /\ RunningBackups = {} /\ RunningReaders = {} /\ UNCHANGED verify
    BY <1>2, <1>6, CompactAlone, NothingCompacted DEF NextCompact, NextWriter, readerVars, Inv
  <2>2. nodes' = nodes
    BY <1>6, CompactWrites DEF NextCompact, StartCompact, Inv
  <2>3. NodesFirst'
    BY <1>2, <1>6, <2>2 DEF NodesFirst, ForgetAt
  <2> QED BY <1>1, <1>3, <1>4, <1>6, <2>1, <2>3 DEF VerifyInv
<1>7. CASE NextWriter /\ NextForget /\ UNCHANGED <<backup, decayed>>
  <2>1. PICK f \in Forgetters : StartForget(f) \/ ForgetStep(f)
    BY <1>7 DEF NextForget
  <2>2. RunningBackups = {} /\ UNCHANGED verify
    BY <1>7, <2>1, ForgetAlone DEF NextWriter, readerVars
  <2>3. NodesFirst'
    BY <1>2, <2>1, NodesGoFirst
  <2>4. \A v \in Verifiers : VerifyRunInv(v)'
    BY <1>2, <1>7, <2>1, <2>2, VerifyBesideForget
  <2> QED BY <1>1, <1>3, <1>7, <2>2, <2>3, <2>4 DEF VerifyInv
<1>8. CASE Decay
  <2>1. /\ RunningBackups = {} /\ RunningReaders = {} /\ UNCHANGED <<backup, verify>>
        /\ UNCHANGED <<nodes, forget>>
    BY <1>8 DEF Decay, readerVars, store
  <2>2. NodesFirst'
    BY <1>2, <2>1 DEF NodesFirst, ForgetAt
  <2> QED BY <1>1, <1>3, <1>4, <2>1, <2>2 DEF VerifyInv
<1>9. ASSUME UNCHANGED vars PROVE NodesFirst' /\ \A b \in Backups : BackupFresh(b)'
  BY <1>2, <1>9 DEF vars, store, BackupFresh, EntriesFresh, IndexListed, NodesFirst, ForgetAt
<1>10. CASE UNCHANGED <<vars, verify>>
  <2>1. \A v \in Verifiers : VerifyRunInv(v)'
    BY <1>2, <1>10, VerifyAside
  <2> QED BY <1>1, <1>9, <1>10, <2>1 DEF VerifyInv
<1>11. CASE NextVerify
  <2>1. PICK v \in Verifiers : (\E deep \in BOOLEAN : VerifySnapshots(v, deep)) \/ VerifyStep(v)
    BY <1>11 DEF NextVerify
  <2>2. UNCHANGED vars
    BY <1>11 DEF NextVerify
  <2>3. VerifyRunInv(v)'
    <3>1. CASE ReportProblem(v) \/ ReportSound(v) \/ FailVerify(v)
      <4>1. verify'[v] = VerifyIdle
        BY <1>2, <3>1 DEF ReportProblem, ReportSound, FailVerify
      <4> QED BY <4>1, IdleVerify
    <3> QED BY <1>2, <2>1, <2>2, <3>1, VerifyReads, VerifyChecks DEF VerifyStep
  <2>4. ASSUME NEW u \in Verifiers \ {v} PROVE VerifyRunInv(u)'
    <3>1. verify'[u] = verify[u]
      BY <1>2, <2>1, VerifyFrame
    <3> QED BY <1>2, <2>2, <3>1, VerifyAside
  <2> QED BY <1>1, <1>9, <2>2, <2>3, <2>4 DEF VerifyInv
<1>12. CASE NextWriter
  BY <1>5, <1>6, <1>7, <1>12 DEF NextWriter, Next
<1>13. CASE NextRestore \/ UNCHANGED allVars
  BY <1>10, <1>13 DEF NextRestore, allVars, readerVars
<1> QED BY <1>8, <1>11, <1>12, <1>13 DEF ReaderNext

\* Beside any backups and forgets of a disciplined schedule, and after whatever has decayed, a
\* verification that compactions are kept away from goes by an index that finds each chunk of
\* its snapshots as a restore would.
THEOREM VerifyInvariance ==
    ASSUME Disciplined, "compact" \in KeepOut
    PROVE  ReaderSpec => []VerifyInv
<1>1. ReaderInit => VerifyInv
  <2> SUFFICES ASSUME ReaderInit PROVE VerifyInv
    OBVIOUS
  <2>1. ReadersAlone
    BY InitRestoreInv DEF RestoreInv
  <2>2. \A b \in Backups : BackupFresh(b)
    <3>1. /\ decayed = {} /\ chunkMan = <<>> /\ \A b \in Backups : backup[b] = BackupIdle
      BY DEF ReaderInit, Init, InitStore, InitBackup
    <3>2. BackupIdle.new = <<>> /\ BackupIdle.pc = "idle"
      BY DEF BackupIdle
    <3> QED BY <3>1, <3>2 DEF BackupFresh
  <2>3. \A v \in Verifiers : VerifyRunInv(v)
    BY IdleVerify DEF ReaderInit, InitVerify
  <2>4. NodesFirst
    BY DEF ReaderInit, Init, InitForget, ForgetIdle, NodesFirst, ForgetAt
  <2> QED BY <2>1, <2>2, <2>3, <2>4 DEF VerifyInv
<1>2. Inv /\ ReadersTyped /\ VerifyInv /\ [ReaderNext]_allVars => VerifyInv'
  BY VerifyInvKept
<1> QED BY <1>1, <1>2, ReaderInvariance, ReadersTypedAlways, PTL DEF ReaderSpec

\* What a restore needs of a snapshot that has its nodes: the blobs of its chunks, where the
\* merged index finds them.
LEMMA WhenRestorable ==
    ASSUME Inv, NEW s \in DOMAIN nodes, KeptWhole(s)
    PROVE  AllRestorable(s) <=> \A x \in Refs(s) : BlobReadable(ChunkIndex[x], x)
<1>1. /\ s \in DOMAIN nodeChunks /\ nodeChunks[s] = nodes[s]
      /\ Refs(s) \subseteq DOMAIN ChunkIndex
  BY MergedIndex DEF KeptWhole
<1>2. ASSUME NEW p \in DOMAIN nodes[s]
      PROVE  FileReadable(s, p) <=>
               \A x \in ToSet(nodes[s][p]) : x \in DOMAIN ChunkIndex /\ BlobReadable(ChunkIndex[x], x)
  BY <1>1, <1>2 DEF FileReadable, LoadedNodeChunks, ChunkList
<1> QED BY <1>1, <1>2 DEF AllRestorable, Refs, ChunksOf

\* What a verification goes by is as good as what a restore goes by.
LEMMA KnownAsRestored ==
    ASSUME Inv, VerifyInv, NEW v \in Verifiers, verify[v].pc \in {"nodes", "check"},
           NEW s \in Left(v), NEW x \in Refs(s)
    PROVE  /\ x \in DOMAIN verify[v].idx
           /\ BlobReadable(verify[v].idx[x], x) <=> BlobReadable(ChunkIndex[x], x)
           /\ <<verify[v].idx[x], x>> \notin decayed => BlobReadable(verify[v].idx[x], x)
<1>1. KnownInv(v) /\ Known(v) = verify[v].idx
  BY DEF VerifyInv, VerifyRunInv, Known, VerifyAt
<1>2. x \in DOMAIN Known(v) /\ BlobStored(Known(v)[x], x) /\ FoundAlike(v, x) /\ x \in Indexed
  BY <1>1 DEF KnownInv
<1>3. BlobStored(ChunkIndex[x], x)
  BY <1>2, MergedIndex
<1> QED BY <1>1, <1>2, <1>3 DEF FoundAlike, BlobReadable

\* Every snapshot that a thorough verification listed, and that is still recorded, can be restored
\* when it returns without an error, whatever was backed up or forgotten meanwhile and whatever
\* had decayed.
THEOREM SoundIsRestorable ==
    ASSUME Disciplined, "compact" \in KeepOut
    PROVE  ReaderSpec => SoundMeansRestorable
<1>1. ASSUME Inv, VerifyInv, NEW v \in Verifiers, ReportSound(v), verify[v].deep,
             NEW s \in verify[v].snaps \cap records
      PROVE  AllRestorable(s)
  <2>1. verify[v].pc = "nodes" /\ verify[v].unread = {} /\ ProgressInv(v)
    BY <1>1 DEF ReportSound, VerifyAt, VerifyInv, VerifyRunInv
  <2>2. s \in Left(v) /\ KeptWhole(s)
    BY <1>1 DEF Inv, SnapshotsComplete, Left, VerifyInv, VerifyRunInv
  <2>3. \A x \in Refs(s) : <<verify[v].idx[x], x>> \notin decayed
    BY <1>1, <2>1, <2>2 DEF ProgressInv, Passed
  <2>4. \A x \in Refs(s) : BlobReadable(ChunkIndex[x], x)
    BY <1>1, <2>1, <2>2, <2>3, KnownAsRestored
  <2> QED BY <1>1, <2>2, <2>4, WhenRestorable DEF Left
<1>2. Inv /\ VerifyInv /\ [ReaderNext]_allVars =>
        [\A v \in Verifiers : ReportSound(v) /\ verify[v].deep =>
            \A s \in verify[v].snaps \cap records : AllRestorable(s)]_allVars
  BY <1>1
<1> QED BY <1>2, ReaderInvariance, VerifyInvariance, PTL DEF ReaderSpec, SoundMeansRestorable

\* And when it reports a problem, thorough or not, one of them cannot be restored: neither a
\* backup that is under way nor one that has just ended is taken for damage.
THEOREM ProblemIsDamage ==
    ASSUME Disciplined, "compact" \in KeepOut
    PROVE  ReaderSpec => ProblemMeansDamage
<1>1. ASSUME Inv, ReadersTyped, VerifyInv, NEW v \in Verifiers, ReportProblem(v)
      PROVE  \E s \in verify[v].snaps : ~AllRestorable(s)
  <2> DEFINE run == verify[v]
  <2>1. (\A s \in run.snaps : KeptWhole(s)) /\ ProgressInv(v) /\ VerifyRunOK(run)
    BY <1>1, RunByRun DEF VerifyInv, VerifyRunInv
  <2>2. CASE VerifyAt(v, "check") /\ \E x \in run.todo : IsMissing(v, x) \/ IsUnreadable(v, x)
    <3>1. PICK x \in run.todo : IsMissing(v, x) \/ IsUnreadable(v, x)
      BY <2>2
    <3>2. run.pc = "check" /\ run.id \in run.snaps
      BY <2>1, <2>2 DEF ProgressInv, VerifyAt
    <3>3. CASE run.id \notin DOMAIN nodes
      BY <3>2, <3>3 DEF AllRestorable
    <3>4. CASE run.id \in DOMAIN nodes
      <4>1. run.id \in Left(v) /\ KeptWhole(run.id) /\ x \in Refs(run.id)
        BY <2>1, <3>1, <3>2, <3>4 DEF ProgressInv, Left
      <4>2. x \in DOMAIN run.idx /\ ~BlobReadable(run.idx[x], x)
        BY <1>1, <3>1, <3>2, <4>1, KnownAsRestored DEF IsMissing, IsUnreadable
      <4>3. ~BlobReadable(ChunkIndex[x], x)
        BY <1>1, <3>2, <4>1, <4>2, KnownAsRestored
      <4> QED BY <1>1, <3>2, <3>4, <4>1, <4>3, WhenRestorable
    <3> QED BY <3>3, <3>4
  <2>3. CASE VerifyAt(v, "nodes") /\ run.unread # {} /\ Min(run.unread) \notin DOMAIN nodes
    <3>1. run.unread \in SUBSET Nat /\ run.unread # {} /\ run.unread \subseteq run.snaps
      <4>1. usedSnaps \subseteq Nat
        BY <1>1, KeysAssumption DEF Inv, TypeOK, StoreTypeOK
      <4> QED BY <2>1, <2>3, <4>1 DEF VerifyRunOK
    <3>2. Min(run.unread) \in run.snaps
      BY <3>1, MinIn
    <3> QED BY <2>1, <2>3, <3>2 DEF AllRestorable
  <2> QED BY <1>1, <2>2, <2>3 DEF ReportProblem
<1>2. Inv /\ ReadersTyped /\ VerifyInv /\ [ReaderNext]_allVars =>
        [\A v \in Verifiers : ReportProblem(v) =>
            \E s \in verify[v].snaps : ~AllRestorable(s)]_allVars
  BY <1>1
<1> QED BY <1>2, ReaderInvariance, ReadersTypedAlways, VerifyInvariance, PTL
    DEF ReaderSpec, ProblemMeansDamage
=============================================================================
