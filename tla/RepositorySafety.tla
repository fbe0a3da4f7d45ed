-------------------------- MODULE RepositorySafety --------------------------
(***************************************************************************)
(* The safety of the repository, for any number of processes, chunks,      *)
(* packs and snapshots: under a disciplined schedule Inv is inductive, no  *)
(* crash and no interleaving makes a recorded snapshot unrestorable, and   *)
(* Repository implements Archive.  Without any discipline, a recorded      *)
(* snapshot still has its trees.  And where nothing is broken off, the     *)
(* views of Lens count every chunk that there is once.                     *)
(***************************************************************************)
EXTENDS WriterSafety, Lens, FiniteSetTheorems, FunctionTheorems

\* Inv includes what type correctness needs.
LEMMA InvTyped == Inv => TypedInv
<1> SUFFICES ASSUME Inv, NEW b \in Backups, backup[b].pc \in Writing
             PROVE  backup[b].id \in usedSnaps
  BY DEF TypedInv, Inv, Identified
<1>1. WriteInv(b) /\ BackupRunOK(backup[b])
  BY DEF Inv, BackupInv, BackupRunInv, TypeOK, BackupTypeOK
<1> QED BY <1>1, NoIdAssumption DEF WriteInv, BackupRunOK

\* An empty repository satisfies the invariant.
LEMMA InitInv == Init => Inv
<1> SUFFICES ASSUME Init PROVE Inv
  OBVIOUS
<1>1. TypeOK
  BY InitTypeOK
<1>2. /\ packs = <<>> /\ chunkMan = <<>> /\ records = {}
      /\ \A b \in Backups : backup[b] = BackupIdle
      /\ \A c \in Compactors : compact[c] = CompactIdle
      /\ \A f \in Forgetters : forget[f] = ForgetIdle
  BY DEF Init, InitStore, InitBackup, InitCompact, InitForget
<1>3. /\ BackupIdle.pc = "idle" /\ BackupIdle.open = NoPack /\ BackupIdle.id = NoSnap
      /\ CompactIdle.pc = "idle" /\ CompactIdle.open = NoPack /\ ForgetIdle.pc = "idle"
  BY DEF BackupIdle, CompactIdle, ForgetIdle
<1>4. DOMAIN <<>> = {} /\ Range(<<>>) = {}
  BY DEF Range
<1>5. Exclusion
  BY <1>2, <1>3 DEF Exclusion, RunningBackups, RunningCompactions, BackupAt, CompactAt
<1>6. EntriesSound /\ SnapshotsComplete /\ OpenPacks
  BY <1>2, <1>3, <1>4 DEF EntriesSound, SnapshotsComplete, OpenPacks
<1>7. BackupInv
  <2>1. ASSUME NEW b \in Backups PROVE BackupRunInv(b)
    <3>1. /\ backup[b].pc = "idle" /\ backup[b].parent = <<>> /\ backup[b].live = {}
          /\ backup[b].tree = <<>> /\ backup[b].rest = <<>> /\ backup[b].new = <<>>
          /\ backup[b].id = NoSnap
      BY <1>2 DEF BackupIdle
    <3> QED BY <1>2, <1>4, <3>1
        DEF BackupRunInv, PackedOrBuffered, ParentInv, TreeInv, WriteInv, Writing
  <2> QED BY <1>2, <1>3, <2>1 DEF BackupInv
<1>8. CompactInv
  <2>1. SUFFICES ASSUME NEW c \in Compactors PROVE CompactRunInv(c)
    BY DEF CompactInv
  <2>2. /\ compact[c].pc = "idle" /\ compact[c].idx = <<>> /\ compact[c].moved = <<>>
        /\ compact[c].open = NoPack /\ compact[c].oldChunks = {} /\ compact[c].doomed = {}
    BY <1>2 DEF CompactIdle
  <2>3. LiveInv(c) /\ IndexInv(c) /\ ReplaceInv(c)
    BY <2>2 DEF LiveInv, IndexInv, ReplaceInv, Deciding, Replaced
  <2>4. MovedInv(c)
    BY <1>4, <2>2 DEF MovedInv, PackedOrBuffered, Deciding, Replaced
  <2> QED BY <1>2, <2>3, <2>4 DEF CompactRunInv
<1>9. ForgetInv
  BY <1>2, <1>3 DEF ForgetInv, ForgetAt
<1> QED BY <1>1, <1>5, <1>6, <1>7, <1>8, <1>9 DEF Inv

-----------------------------------------------------------------------------
\* While nothing of a kind runs, its processes hold nothing.
LEMMA NoBackupRuns ==
    ASSUME Inv, RunningBackups = {}, UNCHANGED backup
    PROVE  /\ BackupInv'
           /\ \A b \in Backups : backup[b].open = NoPack /\ BackupAt(b, "idle")
<1>1. \A b \in Backups : backup[b] = BackupIdle /\ BackupAt(b, "idle")
  BY DEF Inv, BackupInv, BackupRunInv, RunningBackups
<1>2. BackupIdle.open = NoPack /\ BackupIdle.id = NoSnap
  BY DEF BackupIdle
<1>3. \A b \in Backups : BackupRunInv(b)'
  BY <1>1, BackupIdleSafe
<1>4. \A b \in Backups : backup'[b].id = NoSnap
  BY <1>1, <1>2
<1>5. BackupInv'
  BY <1>3, <1>4 DEF BackupInv
<1> QED BY <1>1, <1>2, <1>5

\* No pack is stored without an identifier.
LEMMA NoPackStored ==
    ASSUME StoreTypeOK'
    PROVE  NoPack \notin DOMAIN packs'
<1>1. DOMAIN packs' \subseteq usedPacks' /\ usedPacks' \subseteq PackIds
  BY DEF StoreTypeOK, IsPartial
<1> QED BY <1>1, NoIdAssumption

\* A command that an admitted one excludes is not running.
LEMMA Admitted ==
    ASSUME Disciplined
    PROVE  /\ Admit("backup") => RunningCompactions = {} /\ RunningForgets = {}
           /\ Admit("compact") => RunningBackups = {} /\ RunningCompactions = {}
           /\ Admit("forget") => RunningBackups = {}
<1>1. /\ {"backup", "compact"} \in Conflicts /\ {"compact", "backup"} \in Conflicts
      /\ {"backup", "forget"} \in Conflicts /\ {"forget", "backup"} \in Conflicts
      /\ {"compact", "compact"} \in Conflicts
  <2>1. /\ {"backup", "compact"} = {"compact", "backup"}
        /\ {"backup", "forget"} = {"forget", "backup"}
        /\ {"compact", "compact"} = {"compact"}
    OBVIOUS
  <2> QED BY <2>1 DEF Disciplined
<1> QED BY <1>1 DEF Admit

-----------------------------------------------------------------------------
\* Nothing else runs beside a backup but other backups.
LEMMA BackupAlone ==
    ASSUME Inv, Disciplined, NEW b \in Backups, StartBackup(b) \/ BackupStep(b)
    PROVE  RunningCompactions = {} /\ RunningForgets = {}
<1>1. CASE StartBackup(b)
  BY <1>1, Admitted DEF StartBackup
<1>2. CASE BackupStep(b)
  <2>1. ~BackupAt(b, "idle")
    BY <1>2 DEF BackupStep, ReadCatalog, LoadParentNodes, LoadParentChunks, ListLiveIndex,
       ReadLiveIndex, WalkSource, CarryFile, OpenFile, ReuseChunk, AddChunk, Walking, Cutting,
       WriteSnapshot, FlushBackup, WriteNodes, WriteNodeChunks, WriteChunks, WritePacks,
       WriteSnapshotRecord, FailBackup, BackupAt
  <2> QED BY <2>1 DEF Inv, Exclusion, RunningBackups
<1> QED BY <1>1, <1>2

\* A step of a backup keeps the invariant, of everything.
LEMMA BackupNext ==
    ASSUME Inv, Disciplined, TypeOK', NEW b \in Backups, StartBackup(b) \/ BackupStep(b),
           UNCHANGED <<compact, forget>>
    PROVE  Inv'
<1>1. RunningCompactions = {} /\ RunningForgets = {}
  BY BackupAlone
<1>2. /\ EntriesSound' /\ SnapshotsComplete' /\ BackupInv'
      /\ \A d \in Backups : backup'[d].open \notin DOMAIN packs'
      /\ \A d, e \in Backups : d # e /\ backup'[d].open # NoPack => backup'[d].open # backup'[e].open
  BY BackupInvKept DEF StartBackup
<1>3. \A c \in Compactors : compact'[c] = CompactIdle
  BY <1>1 DEF RunningCompactions, Inv, CompactInv, CompactRunInv
<1>4. \A f \in Forgetters : forget'[f].pc = "idle"
  BY <1>1 DEF RunningForgets, ForgetAt
<1>5. Exclusion'
  BY <1>1 DEF Exclusion, RunningCompactions, RunningForgets, CompactAt, ForgetAt
<1>6. CompactInv'
  BY <1>3, CompactIdleSafe DEF CompactInv
<1>7. OpenPacks'
  <2>1. CompactIdle.open = NoPack
    BY DEF CompactIdle
  <2>2. \A c \in Compactors : compact'[c].open \notin DOMAIN packs'
    BY <1>3, <2>1, NoPackStored DEF TypeOK
  <2> QED BY <1>2, <2>2 DEF OpenPacks
<1>8. ForgetInv'
  BY <1>4 DEF ForgetInv, ForgetAt
<1> QED BY <1>2, <1>5, <1>6, <1>7, <1>8 DEF Inv

-----------------------------------------------------------------------------
\* No backup and no other compaction runs beside a compaction.
LEMMA CompactAlone ==
    ASSUME Inv, Disciplined, NEW c \in Compactors, StartCompact(c) \/ CompactStep(c)
    PROVE  RunningBackups = {} /\ \A d \in Compactors \ {c} : CompactAt(d, "idle")
<1>1. CASE StartCompact(c)
  BY <1>1, Admitted DEF StartCompact, RunningCompactions
<1>2. CASE CompactStep(c)
  <2>1. ~CompactAt(c, "idle")
    BY <1>2 DEF CompactStep, ReadRepository, ReadNodes, ReadNodeChunks, ListChunkIndex,
       ReadChunkIndex, ReadPackIndex, RelocateChunks, Relocate, FlushRelocated, ReplaceIndex,
       ListOldChunks, ListOldPacks, PutChunkIndex, PutPackIndex, DropChunkManifest,
       ChunkManifestsDropped, DropPackManifest, PackManifestsDropped, DropPacks, DropPack,
       DeadDropped, FinishCompact, FailCompact, CompactAt
  <2> QED BY <2>1 DEF Inv, Exclusion, RunningCompactions
<1> QED BY <1>1, <1>2

\* A compaction writes only its own state, packs and the indexes.
LEMMA CompactWrites ==
    ASSUME TypeOK, NEW c \in Compactors, ListSnapshots(c) \/ CompactStep(c)
    PROVE  /\ UNCHANGED <<nodes, nodeChunks, records, usedSnaps>>
           /\ \A d \in Compactors \ {c} : compact'[d] = compact[d]
<1>1. compact = [d \in Compactors |-> compact[d]]
  BY DEF TypeOK, CompactTypeOK
<1>2. CASE ListSnapshots(c) \/ ReadRepository(c) \/ FailCompact(c)
  BY <1>1, <1>2 DEF ListSnapshots, ReadRepository, ReadNodes, ReadNodeChunks, ListChunkIndex,
     ReadChunkIndex, ReadPackIndex, FailCompact, store
<1>3. CASE RelocateChunks(c)
  BY <1>1, <1>3 DEF RelocateChunks, Relocate, FlushRelocated
<1>4. CASE ReplaceIndex(c)
  BY <1>1, <1>4 DEF ReplaceIndex, ListOldChunks, ListOldPacks, PutChunkIndex, PutPackIndex,
     DropChunkManifest, ChunkManifestsDropped, DropPackManifest, PackManifestsDropped, store
<1>5. CASE DropPacks(c)
  BY <1>1, <1>5 DEF DropPacks, DropPack, DeadDropped, FinishCompact, store
<1> QED BY <1>2, <1>3, <1>4, <1>5 DEF CompactStep

\* So does a step of a compaction.
LEMMA CompactNext ==
    ASSUME Inv, Disciplined, TypeOK', NEW c \in Compactors, StartCompact(c) \/ CompactStep(c),
           UNCHANGED <<backup, forget>>
    PROVE  Inv'
<1>1. RunningBackups = {} /\ \A d \in Compactors \ {c} : CompactAt(d, "idle")
  BY CompactAlone
<1>2. CompactStepSafe(c)
  BY EachCompactStepSafe DEF StartCompact
<1>3. /\ UNCHANGED <<nodes, nodeChunks, records>>
      /\ \A d \in Compactors \ {c} : compact'[d] = compact[d]
  BY CompactWrites DEF StartCompact, Inv
<1>4. \A d \in Compactors \ {c} : compact'[d] = CompactIdle
  BY <1>1, <1>3 DEF Inv, CompactInv, CompactRunInv
<1>5. CompactIdle.open = NoPack /\ CompactIdle.pc = "idle" /\ NoPack \notin DOMAIN packs'
  BY NoPackStored DEF TypeOK, CompactIdle
<1>6. BackupInv' /\ \A b \in Backups : backup[b].open = NoPack /\ BackupAt(b, "idle")
  BY <1>1, NoBackupRuns
<1>7. Exclusion'
  BY <1>4, <1>5, <1>6 DEF Exclusion, RunningBackups, RunningCompactions, BackupAt, CompactAt
<1>8. CompactInv'
  BY <1>2, <1>4, CompactIdleSafe DEF CompactInv, CompactStepSafe
<1>9. OpenPacks'
  BY <1>2, <1>4, <1>5, <1>6 DEF OpenPacks, CompactStepSafe
<1>10. ForgetInv'
  BY <1>3 DEF Inv, ForgetInv, ForgetAt
<1> QED BY <1>2, <1>6, <1>7, <1>8, <1>9, <1>10 DEF Inv, CompactStepSafe

-----------------------------------------------------------------------------
\* No backup runs beside a forget; a compaction may.
LEMMA ForgetAlone ==
    ASSUME Inv, Disciplined, NEW f \in Forgetters, StartForget(f) \/ ForgetStep(f)
    PROVE  RunningBackups = {}
<1>1. CASE StartForget(f)
  BY <1>1, Admitted DEF StartForget
<1>2. CASE ForgetStep(f)
  <2>1. ~ForgetAt(f, "idle")
    BY <1>2 DEF ForgetStep, DeleteRecord, DeleteNodes, DeleteNodeChunks, FailForget, ForgetAt
  <2> QED BY <2>1 DEF Inv, Exclusion, RunningForgets
<1> QED BY <1>1, <1>2

\* What a forget deletes belongs to no snapshot that is still recorded.
LEMMA ForgetWrites ==
    ASSUME Inv, NEW f \in Forgetters, StartForget(f) \/ ForgetStep(f)
    PROVE  /\ UNCHANGED <<packs, chunkMan>> /\ records' \subseteq records
           /\ \A s \in records' :
                /\ s \in DOMAIN nodes => s \in DOMAIN nodes' /\ nodes'[s] = nodes[s]
                /\ s \in DOMAIN nodeChunks => s \in DOMAIN nodeChunks' /\ nodeChunks'[s] = nodeChunks[s]
           /\ ForgetInv'
<1>1. ForgetInv /\ forget \in [Forgetters -> [pc : ForgetPCs, id : usedSnaps \cup {NoSnap}]]
  BY DEF Inv, TypeOK, ForgetTypeOK
<1>2. CASE StartForget(f) \/ FailForget(f)
  <2>1. /\ UNCHANGED store /\ forget'[f].pc \in {"idle", "record"}
        /\ \A g \in Forgetters \ {f} : forget'[g] = forget[g]
    BY <1>1, <1>2 DEF StartForget, ResolveForget, FailForget, ForgetIdle
  <2>2. ForgetInv'
    BY <1>1, <2>1 DEF ForgetInv, ForgetAt, store
  <2> QED BY <2>1, <2>2 DEF store
<1>3. CASE DeleteRecord(f)
  <2>1. /\ records' = records \ {forget[f].id} /\ forget'[f].id = forget[f].id
        /\ \A g \in Forgetters \ {f} : forget'[g] = forget[g]
        /\ UNCHANGED <<packs, nodes, nodeChunks, chunkMan>>
    BY <1>1, <1>3 DEF DeleteRecord
  <2>2. ForgetInv'
    BY <1>1, <2>1 DEF ForgetInv, ForgetAt
  <2> QED BY <2>1, <2>2
<1>4. CASE DeleteNodes(f)
  <2>1. /\ nodes' = Delete(nodes, forget[f].id) /\ forget'[f].id = forget[f].id
        /\ \A g \in Forgetters \ {f} : forget'[g] = forget[g]
        /\ UNCHANGED <<packs, nodeChunks, chunkMan, records>> /\ ForgetAt(f, "nodes")
    BY <1>1, <1>4 DEF DeleteNodes
  <2>2. forget[f].id \notin records
    BY <1>1, <2>1 DEF ForgetInv
  <2>3. ForgetInv'
    BY <1>1, <2>1, <2>2 DEF ForgetInv, ForgetAt
  <2> QED BY <2>1, <2>2, <2>3 DEF Delete
<1>5. CASE DeleteNodeChunks(f)
  <2>1. /\ nodeChunks' = Delete(nodeChunks, forget[f].id) /\ forget'[f].pc = "idle"
        /\ \A g \in Forgetters \ {f} : forget'[g] = forget[g]
        /\ UNCHANGED <<packs, nodes, chunkMan, records>> /\ ForgetAt(f, "nodeChunks")
    BY <1>1, <1>5 DEF DeleteNodeChunks, ForgetIdle
  <2>2. forget[f].id \notin records
    BY <1>1, <2>1 DEF ForgetInv
  <2>3. ForgetInv'
    BY <1>1, <2>1 DEF ForgetInv, ForgetAt
  <2> QED BY <2>1, <2>2, <2>3 DEF Delete
<1> QED BY <1>2, <1>3, <1>4, <1>5 DEF ForgetStep

\* So does a step of a forget, beside a compaction or not.
LEMMA ForgetNext ==
    ASSUME Inv, Disciplined, TypeOK', NEW f \in Forgetters, StartForget(f) \/ ForgetStep(f),
           UNCHANGED <<backup, compact>>
    PROVE  Inv'
<1>1. BackupInv' /\ \A b \in Backups : backup[b].open = NoPack /\ BackupAt(b, "idle")
  BY ForgetAlone, NoBackupRuns
<1>2. /\ UNCHANGED <<packs, chunkMan>> /\ records' \subseteq records
      /\ \A s \in records' :
           /\ s \in DOMAIN nodes => s \in DOMAIN nodes' /\ nodes'[s] = nodes[s]
           /\ s \in DOMAIN nodeChunks => s \in DOMAIN nodeChunks' /\ nodeChunks'[s] = nodeChunks[s]
      /\ ForgetInv'
  BY ForgetWrites
<1>3. SnapshotsComplete /\ EntriesSound /\ OpenPacks /\ Exclusion
  BY DEF Inv
<1>4. \A s \in records' : Refs(s)' = Refs(s)
  BY <1>2, <1>3 DEF SnapshotsComplete, Refs
<1>5. Indexed' = Indexed /\ EntriesSound'
  BY <1>2, <1>3 DEF Indexed, EntriesSound, BlobStored
<1>6. SnapshotsComplete'
  BY <1>2, <1>3, <1>4, <1>5 DEF SnapshotsComplete
<1>7. Exclusion'
  BY <1>1, <1>3 DEF Exclusion, RunningBackups, RunningCompactions, BackupAt, CompactAt
<1>8. OpenPacks'
  BY <1>2, <1>3 DEF OpenPacks
<1>9. CompactInv'
  <2>1. SUFFICES ASSUME NEW c \in Compactors PROVE CompactRunInv(c)'
    BY DEF CompactInv
  <2>2. CompactRunInv(c)
    BY DEF Inv, CompactInv
  <2>3. LiveInv(c)'
    BY <1>2, <1>4, <2>2 DEF CompactRunInv, LiveInv
  <2>4. IndexInv(c)'
    BY <1>2, <1>5, <2>2 DEF CompactRunInv, IndexInv, IndexListed, BlobStored
  <2>5. Dead(c)' = Dead(c) /\ Candidates(c)' = Candidates(c)
    BY DEF Dead, Candidates
  <2>6. ToMove(c)' = ToMove(c) /\ NewChunks(c)' = NewChunks(c)
    BY <2>5 DEF ToMove, NewChunks
  <2>7. MovedInv(c)'
    BY <1>2, <2>2, <2>6 DEF CompactRunInv, MovedInv, PackedOrBuffered, BlobStored
  <2>8. ReplaceInv(c)'
    BY <1>2, <1>4, <2>2, <2>5, <2>6 DEF CompactRunInv, ReplaceInv, IndexListed
  <2> QED BY <2>2, <2>3, <2>4, <2>7, <2>8 DEF CompactRunInv, CompactAt
<1> QED BY <1>1, <1>2, <1>5, <1>6, <1>7, <1>8, <1>9 DEF Inv

-----------------------------------------------------------------------------
\* It is about the store and what the commands hold of it.
LEMMA InvStays ==
    ASSUME Inv, TypeOK', UNCHANGED <<store, backup, compact, forget>>
    PROVE  Inv'
<1>1. UNCHANGED <<packs, nodes, nodeChunks, chunkMan, records, backup, compact, forget>>
  BY DEF store
<1>2. EntriesSound' /\ SnapshotsComplete'
  BY <1>1 DEF Inv, EntriesSound, SnapshotsComplete, BlobStored, Refs, Indexed
<1>3. Exclusion' /\ OpenPacks' /\ ForgetInv'
  BY <1>1 DEF Inv, Exclusion, OpenPacks, ForgetInv, RunningBackups,
     RunningCompactions, RunningForgets, BackupAt, CompactAt, ForgetAt
<1>4. BackupInv'
  <2>1. ASSUME NEW b \in Backups PROVE BackupRunInv(b)'
    <3>1. BackupRunInv(b)
      BY DEF Inv, BackupInv
    <3>2. PackedOrBuffered(backup[b].new, backup[b].open)'
      BY <1>1, <3>1 DEF BackupRunInv, PackedOrBuffered, BlobStored
    <3>3. ParentInv(b)' /\ TreeInv(b)' /\ WriteInv(b)'
      BY <1>1, <3>1 DEF BackupRunInv, ParentInv, TreeInv, WriteInv, Indexed
    <3> QED BY <1>1, <3>1, <3>2, <3>3 DEF BackupRunInv, BackupAt
  <2> QED BY <1>1, <2>1 DEF Inv, BackupInv
<1>5. CompactInv'
  <2>1. SUFFICES ASSUME NEW c \in Compactors PROVE CompactRunInv(c)'
    BY DEF CompactInv
  <2>2. CompactRunInv(c)
    BY DEF Inv, CompactInv
  <2>3. LiveInv(c)' /\ IndexInv(c)'
    BY <1>1, <2>2 DEF CompactRunInv, LiveInv, IndexInv, Refs, Indexed, IndexListed, BlobStored
  <2>4. /\ Dead(c)' = Dead(c) /\ Candidates(c)' = Candidates(c)
    BY <1>1 DEF Dead, Candidates
  <2>5. ToMove(c)' = ToMove(c) /\ NewChunks(c)' = NewChunks(c)
    BY <1>1, <2>4 DEF ToMove, NewChunks
  <2>6. MovedInv(c)'
    BY <1>1, <2>2, <2>5 DEF CompactRunInv, MovedInv, PackedOrBuffered, BlobStored
  <2>7. ReplaceInv(c)'
    BY <1>1, <2>2, <2>4, <2>5 DEF CompactRunInv, ReplaceInv, IndexListed, Refs
  <2> QED BY <1>1, <2>2, <2>3, <2>6, <2>7 DEF CompactRunInv, CompactAt
<1> QED BY <1>1, <1>2, <1>3, <1>4, <1>5 DEF Inv

\* Inv is inductive.
LEMMA NextInv == ASSUME Disciplined PROVE Inv /\ [Next]_vars => Inv'
<1> SUFFICES ASSUME Inv, [Next]_vars PROVE Inv'
  OBVIOUS
<1>1. TypeOK'
  BY InvTyped, NextTypeOK DEF TypedInv
<1>2. CASE NextBackup /\ UNCHANGED <<compact, forget>>
  BY <1>1, <1>2, BackupNext DEF NextBackup
<1>3. CASE NextCompact /\ UNCHANGED <<backup, forget>>
  BY <1>1, <1>3, CompactNext DEF NextCompact
<1>4. CASE NextForget /\ UNCHANGED <<backup, compact>>
  BY <1>1, <1>4, ForgetNext DEF NextForget
<1>5. CASE UNCHANGED vars
  BY <1>1, <1>5, InvStays DEF vars
<1> QED BY <1>2, <1>3, <1>4, <1>5 DEF Next

\* The inductive invariant: compaction alone among writers, and no forget beside a
\* backup, is all that an operator has to see to.
THEOREM Invariance == ASSUME Disciplined PROVE Spec => []Inv
BY InitInv, NextInv, PTL DEF Spec

\* No command damages what it has stored.
Undamaged == Inv /\ decayed = {}

LEMMA StaysUndamaged == ASSUME Disciplined PROVE Spec => []Undamaged
<1>1. Init => Undamaged
  BY InitInv DEF Undamaged, Init, InitStore
<1>2. Undamaged /\ [Next]_vars => Undamaged'
  <2> SUFFICES ASSUME Undamaged, [Next]_vars PROVE decayed' = decayed /\ Inv'
    BY DEF Undamaged
  <2>1. decayed' = decayed
    BY Zenon DEF Next, vars
  <2> QED BY <2>1, NextInv DEF Undamaged
<1> QED BY <1>1, <1>2, PTL DEF Spec

-----------------------------------------------------------------------------
\* Merged by any reader, the manifests locate every chunk they list, truly.
LEMMA MergedIndex ==
    ASSUME Inv
    PROVE  /\ DOMAIN ChunkIndex = Indexed
           /\ \A x \in DOMAIN ChunkIndex : BlobStored(ChunkIndex[x], x)
<1>1. StoreTypeOK /\ EntriesSound
  BY DEF Inv, TypeOK
<1>2. Index \in Nat /\ DOMAIN chunkMan \subseteq 0 .. Index
  BY <1>1, ManifestKeysBound, KeysAssumption
<1>3. /\ DOMAIN ChunkIndex = Indexed
      /\ \A x \in DOMAIN ChunkIndex :
           \E k \in DOMAIN chunkMan : x \in DOMAIN chunkMan[k] /\ ChunkIndex[x] = chunkMan[k][x]
  BY <1>2, MergeFacts DEF ChunkIndex, Indexed
<1> QED BY <1>1, <1>3 DEF EntriesSound

\* What the invariant is for.
LEMMA InvRestorable == Undamaged => IndexSound /\ Restorable /\ Intact
<1> SUFFICES ASSUME Inv, decayed = {} PROVE IndexSound /\ Restorable /\ Intact
  BY DEF Undamaged
<1>1. IndexSound
  BY MergedIndex DEF IndexSound, BlobReadable
<1>2. Restorable
  BY MergedIndex DEF Restorable, BlobReadable, Inv, SnapshotsComplete, Refs
<1>3. Intact
  BY DEF Intact, Inv, SnapshotsComplete, LoadedNodeChunks, ChunkList
<1> QED BY <1>1, <1>2, <1>3

\* At every point of every run, crashes included, the merged index only names packs
\* that are there and hold the chunk: compaction repoints it before it deletes.
THEOREM IndexIsSound == ASSUME Disciplined PROVE Spec => []IndexSound
BY StaysUndamaged, InvRestorable, PTL

\* A snapshot that can be discovered can be restored: its trees are there, and each of
\* their chunks is indexed and in the pack the index names.
THEOREM SnapshotsRestorable == ASSUME Disciplined PROVE Spec => []Restorable
BY StaysUndamaged, InvRestorable, PTL

\* The chunk list read for a file of a recorded snapshot is that of its content.
THEOREM SnapshotsIntact == ASSUME Disciplined PROVE Spec => []Intact
BY StaysUndamaged, InvRestorable, PTL

-----------------------------------------------------------------------------
(* Repository implements Archive: what can be restored changes only by the *)
(* record that ends a backup and by the deletion of one in a forget.       *)

\* What can be restored, by snapshot.
Restorables == [s \in records |-> RestoredTree(s)]

RestoresTrees ==
    /\ Restorables = [s \in records |-> nodes[s]]
    /\ \A s \in records : s \in SnapIds /\ nodes[s] \in ArchiveView!Trees

\* A recorded snapshot restores to the tree of its nodes.
LEMMA InvRestoresTrees == Undamaged => RestoresTrees
<1> SUFFICES ASSUME Undamaged PROVE RestoresTrees
  OBVIOUS
<1>1. SnapshotsComplete /\ Restorable /\ StoreTypeOK
  BY InvRestorable DEF Undamaged, Inv, TypeOK
<1>2. \A s \in records : s \in SnapIds /\ s \in DOMAIN nodes /\ IsPartial(nodes[s], Paths, Contents)
  BY <1>1 DEF StoreTypeOK, IsPartial2, SnapshotsComplete
<1>3. ASSUME NEW s \in records PROVE RestoredTree(s) = nodes[s]
  <2>1. /\ s \in DOMAIN nodes /\ nodes[s] = [p \in DOMAIN nodes[s] |-> nodes[s][p]]
        /\ LoadedNodeChunks(s) = nodes[s]
    BY <1>1, <1>2 DEF SnapshotsComplete, LoadedNodeChunks, IsPartial
  <2>2. ASSUME NEW p \in DOMAIN nodes[s] PROVE RestoredFile(s, p) = nodes[s][p]
    <3>1. ChunkList(LoadedNodeChunks(s), p) = nodes[s][p]
      BY <2>1 DEF ChunkList
    <3>2. ToSet(nodes[s][p]) \subseteq ChunksOf(nodeChunks[s])
      BY <1>1 DEF ChunksOf, SnapshotsComplete
    <3> QED BY <1>1, <3>1, <3>2 DEF RestoredFile, FileReadable, Restorable
  <2> QED BY <2>1, <2>2 DEF RestoredTree
<1>4. ASSUME NEW s \in records PROVE nodes[s] \in ArchiveView!Trees
  BY <1>2 DEF IsPartial, ArchiveView!Trees
<1> QED BY <1>2, <1>3, <1>4 DEF Restorables, RestoresTrees

\* The same of the next state.
LEMMA InvRestoresTreesNext == Undamaged' => RestoresTrees'
BY InvRestoresTrees, PTL

\* At first nothing can be restored.
LEMMA InitArchive == Init => Restorables = [s \in {} |-> {}]
BY DEF Init, InitStore, Restorables

\* Taken one by one, the steps of the three commands are steps of the archive.
LEMMA BackupArchive ==
    ASSUME Undamaged, Undamaged', NEW b \in Backups, LoadParent(b) \/ BackupStep(b)
    PROVE  (\E s \in SnapIds : \E tree \in ArchiveView!Trees : ArchiveView!Commit(s, tree))
           \/ Restorables' = Restorables
<1> DEFINE id == backup[b].id
<1>1. Grows(b)
  BY BackupQuietSafe, BackupWriteSafe DEF BackupStep, WalkSource, BackupStepSafe, Undamaged
<1>2. id \notin records
  BY OwnIdUnrecorded DEF Undamaged
<1>3. \A s \in records : s \in records' /\ nodes'[s] = nodes[s]
  BY <1>1, <1>2 DEF Grows, Undamaged, Inv, SnapshotsComplete
<1>4. records' \subseteq records \cup {id}
  BY <1>1 DEF Grows
<1>5. /\ Restorables = [s \in records |-> nodes[s]]
      /\ Restorables' = [s \in records' |-> nodes'[s]]
      /\ \A s \in records' : s \in SnapIds /\ nodes'[s] \in ArchiveView!Trees
  BY InvRestoresTrees, InvRestoresTreesNext DEF RestoresTrees, ArchiveView!Trees
<1> HIDE DEF id
<1>6. CASE id \notin records'
  BY <1>3, <1>4, <1>5, <1>6
<1>7. CASE id \in records'
  <2>1. records' = records \cup {id}
    BY <1>3, <1>4, <1>7
  <2>2. Restorables' = [t \in records \cup {id} |-> IF t = id THEN nodes'[id] ELSE nodes[t]]
    BY <1>2, <1>3, <1>5, <2>1
  <2>3. DOMAIN Restorables = records
    BY <1>5
  <2>4. ArchiveView!Commit(id, nodes'[id])
    BY <1>2, <1>5, <2>2, <2>3 DEF ArchiveView!Commit, Restorables
  <2> QED BY <1>5, <1>7, <2>4
<1> QED BY <1>6, <1>7

\* A compaction changes nothing that can be restored.
LEMMA CompactArchive ==
    ASSUME Undamaged, Undamaged', NEW c \in Compactors, ListSnapshots(c) \/ CompactStep(c)
    PROVE  Restorables' = Restorables
<1>1. UNCHANGED <<nodes, records>>
  BY CompactWrites DEF Undamaged, Inv
<1> QED BY <1>1, InvRestoresTrees, InvRestoresTreesNext DEF RestoresTrees

\* A forget removes one tree, with the record.
LEMMA ForgetArchive ==
    ASSUME Undamaged, Undamaged', NEW f \in Forgetters, StartForget(f) \/ ForgetStep(f)
    PROVE  (\E s \in SnapIds : ArchiveView!Remove(s)) \/ Restorables' = Restorables
<1> DEFINE id == forget[f].id
<1>1. records' = records \/ records' = records \ {id}
  BY DEF StartForget, ResolveForget, ForgetStep, DeleteRecord, DeleteNodes, DeleteNodeChunks,
     FailForget, store
<1>2. \A s \in records' : nodes'[s] = nodes[s]
  BY ForgetWrites DEF Undamaged, Inv, SnapshotsComplete
<1>3. /\ Restorables = [s \in records |-> nodes[s]]
      /\ Restorables' = [s \in records' |-> nodes'[s]]
      /\ \A s \in records : s \in SnapIds
  BY InvRestoresTrees, InvRestoresTreesNext DEF RestoresTrees
<1> HIDE DEF id
<1>4. CASE records' = records
  BY <1>2, <1>3, <1>4
<1>5. CASE id \in records /\ records' = records \ {id}
  <2>1. Restorables' = [t \in records \ {id} |-> Restorables[t]]
    BY <1>2, <1>3, <1>5
  <2>2. DOMAIN Restorables = records
    BY <1>3
  <2>3. ArchiveView!Remove(id)
    BY <1>5, <2>1, <2>2 DEF ArchiveView!Remove, Restorables
  <2> QED BY <1>3, <1>5, <2>3
<1> QED BY <1>1, <1>4, <1>5

\* Every step of the repository is a step of the archive, or none.
LEMMA NextArchive ==
    Undamaged /\ Undamaged' /\ [Next]_vars => [ArchiveView!Next]_Restorables
<1> SUFFICES ASSUME Undamaged, Undamaged', [Next]_vars PROVE ArchiveView!Next \/ Restorables' = Restorables
  OBVIOUS
<1>1. CASE NextBackup
  BY <1>1, BackupArchive DEF NextBackup, StartBackup, ArchiveView!Next
<1>2. CASE NextCompact
  BY <1>2, CompactArchive DEF NextCompact, StartCompact
<1>3. CASE NextForget
  BY <1>3, ForgetArchive DEF NextForget, ArchiveView!Next
<1>4. CASE UNCHANGED vars
  <2>1. UNCHANGED <<nodes, records>>
    BY <1>4 DEF vars, store
  <2> QED BY <2>1, InvRestoresTrees, InvRestoresTreesNext DEF RestoresTrees
<1> QED BY <1>1, <1>2, <1>3, <1>4 DEF Next

\* Under a disciplined schedule a repository is, to whoever restores, an archive of
\* immutable trees: no compaction, crash or interleaving shows in what it restores.
THEOREM Refinement == ASSUME Disciplined PROVE Spec => ArchiveSpec
<1>1. Init => ArchiveView!Init
  BY InitArchive DEF ArchiveView!Init, Restorables
<1>2. Undamaged /\ Undamaged' /\ [Next]_vars => [ArchiveView!Next]_[s \in records |-> RestoredTree(s)]
  BY NextArchive DEF Restorables
<1> QED BY <1>1, <1>2, StaysUndamaged, PTL DEF Spec, ArchiveSpec, ArchiveView!Spec

-----------------------------------------------------------------------------
(* What a compaction achieves, beyond doing no harm: it decides by the     *)
(* whole index, moves only what is live out of the packs it gives up, and  *)
(* so leaves every pack of the index as full of live chunks as was asked.  *)

\* Read in two steps or at once, the index is the same.
LEMMA WholeIndex ==
    ASSUME StoreTypeOK
    PROVE  ChunkIndex = IF IndexListed THEN WithIndexFile(MergeManifests(ListedManifests))
                                       ELSE MergeManifests(ListedManifests)
<1> DEFINE m == ListedManifests
           H(f, c) == {k \in DOMAIN f : c \in DOMAIN f[k]}
           all(f) == UNION {DOMAIN f[k] : k \in DOMAIN f}
<1>1. /\ DOMAIN m = DOMAIN chunkMan \ {Index}
      /\ \A k \in DOMAIN m : m[k] = chunkMan[k]
      /\ m = [k \in DOMAIN chunkMan \ {Index} |-> chunkMan[k]]
      /\ chunkMan = [k \in DOMAIN chunkMan |-> chunkMan[k]]
  BY DEF ListedManifests, Restrict, StoreTypeOK, IsPartial2
<1>2. /\ ChunkIndex = [c \in all(chunkMan) |-> chunkMan[Max(H(chunkMan, c))][c]]
      /\ MergeManifests(m) = [c \in all(m) |-> m[Max(H(m, c))][c]]
  BY DEF ChunkIndex, MergeManifests
<1>3. Index \in Nat /\ DOMAIN chunkMan \subseteq 0 .. Index
  BY ManifestKeysBound, KeysAssumption
<1>4. CASE ~IndexListed
  <2>1. m = chunkMan
    BY <1>1, <1>4 DEF IndexListed
  <2> HIDE DEF m
  <2> QED BY <1>4, <2>1 DEF ChunkIndex, m
<1>5. CASE IndexListed
  <2> HIDE DEF m
  <2>1. ASSUME NEW c \in DOMAIN chunkMan[Index]
        PROVE  Max(H(chunkMan, c)) = Index
    <3>1. Index \in H(chunkMan, c) /\ H(chunkMan, c) \in SUBSET (0 .. Index)
      BY <1>3, <1>5 DEF IndexListed
    <3> HIDE DEF H
    <3>2. Max(H(chunkMan, c)) \in H(chunkMan, c) /\ Max(H(chunkMan, c)) >= Index
      BY <1>3, <3>1, MaxIn
    <3>3. Max(H(chunkMan, c)) \in 0 .. Index
      BY <3>1, <3>2
    <3> QED BY <1>3, <3>2, <3>3
  <2>2. ASSUME NEW c \in all(m), c \notin DOMAIN chunkMan[Index]
        PROVE  m[Max(H(m, c))][c] = chunkMan[Max(H(chunkMan, c))][c]
    <3>1. H(m, c) = H(chunkMan, c)
      BY <1>1, <2>2
    <3>2. H(m, c) # {} /\ H(m, c) \in SUBSET (0 .. Index)
      BY <1>1, <1>3
    <3>3. Max(H(m, c)) \in H(m, c)
      <4> HIDE DEF H
      <4> QED BY <1>3, <3>2, MaxIn
    <3>4. Max(H(m, c)) \in DOMAIN m
      BY <3>3
    <3> HIDE DEF H
    <3> QED BY <1>1, <3>1, <3>4
  <2>3. all(chunkMan) = all(m) \cup DOMAIN chunkMan[Index]
    BY <1>1, <1>5 DEF IndexListed
  <2> HIDE DEF H, all
  <2>4. DOMAIN MergeManifests(m) = all(m) /\ \A c \in all(m) : MergeManifests(m)[c] = m[Max(H(m, c))][c]
    BY <1>2
  <2>5. WithIndexFile(MergeManifests(m)) =
          [c \in all(m) \cup DOMAIN chunkMan[Index] |->
             IF c \in DOMAIN chunkMan[Index] THEN chunkMan[Index][c] ELSE MergeManifests(m)[c]]
    BY <2>4 DEF WithIndexFile
  <2>6. ChunkIndex = [c \in all(m) \cup DOMAIN chunkMan[Index] |->
                        IF c \in DOMAIN chunkMan[Index] THEN chunkMan[Index][c] ELSE MergeManifests(m)[c]]
    <3>1. \A c \in all(m) \cup DOMAIN chunkMan[Index] :
             chunkMan[Max(H(chunkMan, c))][c]
               = IF c \in DOMAIN chunkMan[Index] THEN chunkMan[Index][c] ELSE MergeManifests(m)[c]
      BY <2>1, <2>2, <2>4
    <3> QED BY <1>2, <2>3, <3>1
  <2> QED BY <1>5, <2>5, <2>6 DEF m
<1> QED BY <1>4, <1>5

\* The index a run decides by is the index, and what it has moved is live and in a
\* candidate pack.
TightInv(c) == LET r == compact[c] IN
    /\ r.pc = "index" => WithIndexFile(r.idx) = ChunkIndex
    /\ r.pc \in {"packIndex", "relocate"} => r.idx = ChunkIndex
    /\ \A x \in DOMAIN r.moved : x \in r.live \cap DOMAIN r.idx /\ r.idx[x] \in Candidates(c)

\* A run that holds nothing satisfies it.
LEMMA TightIdle ==
    ASSUME NEW c, compact[c] = CompactIdle
    PROVE  TightInv(c)
BY DEF TightInv, CompactIdle

\* It is kept by a step that changes neither the manifests nor what the run holds.
LEMMA TightUnchanged ==
    ASSUME NEW c, TightInv(c), UNCHANGED chunkMan, compact'[c] = compact[c]
    PROVE  TightInv(c)'
<1>1. ChunkIndex' = ChunkIndex /\ Candidates(c)' = Candidates(c) /\ WithIndexFile(compact[c].idx)' = WithIndexFile(compact[c].idx)
  BY DEF ChunkIndex, Candidates, WithIndexFile
<1> QED BY <1>1 DEF TightInv

\* A step of the one compaction that runs.
LEMMA CompactStepTight ==
    ASSUME Inv, NEW c \in Compactors, TightInv(c), ListSnapshots(c) \/ CompactStep(c)
    PROVE  TightInv(c)'
<1>1. CompactRunInv(c) /\ CompactRunOK(compact[c]) /\ compact = [d \in Compactors |-> compact[d]]
      /\ StoreTypeOK
  BY DEF Inv, CompactInv, TypeOK, CompactTypeOK
<1> USE DEF CompactAt, CompactRunOK, CompactFields
<1>2. ASSUME compact'[c] = CompactIdle PROVE TightInv(c)'
  BY <1>2 DEF TightInv, CompactIdle
<1>3. CASE ListSnapshots(c) \/ ReadNodes(c) \/ ReadNodeChunks(c)
  <2>1. /\ compact[c].pc \in {"idle", "nodes", "nodeChunks"}
        /\ compact'[c].pc \in {"nodes", "nodeChunks", "list"}
        /\ compact'[c].moved = compact[c].moved
    BY <1>1, <1>3 DEF ListSnapshots, ReadNodes, ReadNodeChunks
  <2>2. compact[c].moved = <<>>
    BY <1>1, <2>1 DEF CompactRunInv, MovedInv, Deciding, Replaced
  <2> QED BY <2>1, <2>2 DEF TightInv
<1>4. CASE ListChunkIndex(c)
  <2>1. /\ compact[c].pc = "list" /\ UNCHANGED chunkMan
        /\ compact'[c].pc = IF IndexListed THEN "index" ELSE "packIndex"
        /\ compact'[c].idx = MergeManifests(ListedManifests)
        /\ compact'[c].moved = compact[c].moved
    BY <1>1, <1>4 DEF ListChunkIndex, store
  <2>2. compact[c].moved = <<>>
    BY <1>1, <2>1 DEF CompactRunInv, MovedInv, Deciding, Replaced
  <2>3. ChunkIndex' = ChunkIndex /\ WithIndexFile(compact[c].idx)' = WithIndexFile(compact'[c].idx)
    BY <2>1 DEF ChunkIndex, WithIndexFile
  <2>4. compact'[c].pc = "index" => WithIndexFile(compact'[c].idx) = ChunkIndex
    BY <1>1, <2>1, WholeIndex
  <2>5. compact'[c].pc = "packIndex" => compact'[c].idx = ChunkIndex
    BY <1>1, <2>1, WholeIndex
  <2> QED BY <2>1, <2>2, <2>3, <2>4, <2>5 DEF TightInv
<1>5. CASE ReadChunkIndex(c)
  <2>1. /\ compact[c].pc = "index" /\ UNCHANGED chunkMan /\ compact'[c].pc = "packIndex"
        /\ compact'[c].idx = WithIndexFile(compact[c].idx)
        /\ compact'[c].moved = compact[c].moved
    BY <1>1, <1>5 DEF ReadChunkIndex, store
  <2>2. compact[c].moved = <<>>
    BY <1>1, <2>1 DEF CompactRunInv, MovedInv, Deciding, Replaced
  <2>3. ChunkIndex' = ChunkIndex
    BY <2>1 DEF ChunkIndex
  <2> QED BY <2>1, <2>2, <2>3 DEF TightInv
<1>6. ASSUME NEW x, NEW k, NEW full, Relocate(c, x, k, full) PROVE TightInv(c)'
  <2>1. /\ compact[c].pc = "relocate" /\ UNCHANGED chunkMan /\ compact'[c].pc = "relocate"
        /\ compact'[c].idx = compact[c].idx /\ compact'[c].live = compact[c].live
        /\ compact'[c].moved = Put(compact[c].moved, x, k) /\ x \in ToMove(c)
    BY <1>1, <1>6 DEF Relocate
  <2>2. ChunkIndex' = ChunkIndex /\ Candidates(c)' = Candidates(c)
    BY <2>1 DEF ChunkIndex, Candidates
  <2>3. DOMAIN compact'[c].moved = DOMAIN compact[c].moved \cup {x}
    BY <2>1 DEF Put
  <2>4. x \in compact[c].live \cap DOMAIN compact[c].idx /\ compact[c].idx[x] \in Candidates(c)
    BY <2>1 DEF ToMove
  <2> QED BY <2>1, <2>2, <2>3, <2>4 DEF TightInv
<1>7. ASSUME compact'[c].pc \notin {"index", "packIndex", "relocate"},
             compact'[c].idx = compact[c].idx, compact'[c].live = compact[c].live,
             compact'[c].moved = compact[c].moved
      PROVE  TightInv(c)'
  BY <1>7 DEF TightInv, Candidates
<1>8. CASE ReadPackIndex(c)
  <2>1. /\ compact[c].pc = "packIndex" /\ UNCHANGED chunkMan /\ compact'[c].pc = "relocate"
        /\ compact'[c].idx = compact[c].idx /\ compact'[c].moved = compact[c].moved
    BY <1>1, <1>8 DEF ReadPackIndex, store
  <2>2. compact[c].moved = <<>>
    BY <1>1, <2>1 DEF CompactRunInv, MovedInv, Deciding, Replaced
  <2>3. ChunkIndex' = ChunkIndex
    BY <2>1 DEF ChunkIndex
  <2> QED BY <2>1, <2>2, <2>3 DEF TightInv
<1>9. CASE FlushRelocated(c)
  BY <1>1, <1>2, <1>7, <1>9 DEF FlushRelocated
<1>10. CASE ReplaceIndex(c)
  BY <1>1, <1>7, <1>10 DEF ReplaceIndex, ListOldChunks, ListOldPacks, PutChunkIndex, PutPackIndex,
     DropChunkManifest, ChunkManifestsDropped, DropPackManifest, PackManifestsDropped
<1>11. CASE DropPacks(c) \/ FailCompact(c)
  BY <1>1, <1>2, <1>7, <1>11 DEF DropPacks, DropPack, DeadDropped, FinishCompact, FailCompact
<1> QED BY <1>3, <1>4, <1>5, <1>6, <1>8, <1>9, <1>10, <1>11
    DEF CompactStep, ReadRepository, RelocateChunks

\* A step of anyone, under the discipline.
LEMMA NextTight ==
    ASSUME Disciplined
    PROVE  Inv /\ Inv' /\ (\A c \in Compactors : TightInv(c)) /\ [Next]_vars
             => (\A c \in Compactors : TightInv(c))'
<1> SUFFICES ASSUME Inv, Inv', \A c \in Compactors : TightInv(c), [Next]_vars, NEW c \in Compactors
             PROVE  TightInv(c)'
  OBVIOUS
<1>1. ASSUME compact'[c].pc = "idle" PROVE TightInv(c)'
  <2>1. compact'[c] = CompactIdle
    BY <1>1 DEF Inv, CompactInv, CompactRunInv, CompactAt
  <2> QED BY <2>1 DEF TightInv, CompactIdle
<1>2. CASE NextBackup /\ UNCHANGED <<compact, forget>>
  <2>1. PICK b \in Backups : StartBackup(b) \/ BackupStep(b)
    BY <1>2 DEF NextBackup
  <2>2. RunningCompactions = {}
    BY <2>1, BackupAlone
  <2> QED BY <1>1, <1>2, <2>2 DEF RunningCompactions, CompactAt
<1>3. CASE NextCompact /\ UNCHANGED <<backup, forget>>
  <2>1. PICK d \in Compactors : StartCompact(d) \/ CompactStep(d)
    BY <1>3 DEF NextCompact
  <2>2. CASE c = d
    BY <2>1, <2>2, CompactStepTight DEF StartCompact
  <2>3. CASE c # d
    <3>1. CompactAt(c, "idle") /\ compact'[c] = compact[c]
      BY <2>1, <2>3, CompactAlone, CompactWrites DEF StartCompact, Inv
    <3> QED BY <1>1, <3>1 DEF CompactAt
  <2> QED BY <2>2, <2>3
<1>4. CASE NextForget /\ UNCHANGED <<backup, compact>>
  <2>1. UNCHANGED chunkMan
    BY <1>4 DEF NextForget, StartForget, ResolveForget, ForgetStep, DeleteRecord, DeleteNodes,
       DeleteNodeChunks, FailForget, store
  <2> QED BY <1>4, <2>1, TightUnchanged
<1>5. CASE UNCHANGED vars
  BY <1>5, TightUnchanged DEF vars, store
<1> QED BY <1>2, <1>3, <1>4, <1>5 DEF Next

\* The packs of an index that has no candidates and no dead ones are full enough.
LEMMA FullPacks ==
    ASSUME NEW idx, NEW live, IsFiniteSet(DOMAIN idx),
           NEW k \in Range(idx) \ (DeadPacks(idx, live) \cup CandidatePacks(idx, live))
    PROVE  100 * Cardinality(EntriesIn(idx, k) \cap live) >= Threshold * Cardinality(EntriesIn(idx, k))
<1> DEFINE all == EntriesIn(idx, k)
           part == EntriesIn(idx, k) \cap live
<1>1. IsFiniteSet(all) /\ IsFiniteSet(part)
  <2>1. all \in SUBSET DOMAIN idx /\ part \in SUBSET DOMAIN idx
    BY DEF EntriesIn
  <2> HIDE DEF all, part
  <2> QED BY <2>1, FS_Subset
<1>2. Cardinality(all) \in Nat /\ Cardinality(part) \in Nat
  <2> HIDE DEF all, part
  <2> QED BY <1>1, FS_CardinalityType
<1>3. ~(100 * Cardinality(part) < Threshold * Cardinality(all))
  BY DEF CandidatePacks
<1> HIDE DEF all, part
<1>4. 100 * Cardinality(part) \in Nat /\ Threshold * Cardinality(all) \in Nat
  BY <1>2, ThresholdAssumption
<1>5. 100 * Cardinality(part) >= Threshold * Cardinality(all)
  BY <1>3, <1>4
<1> QED BY <1>5 DEF all, part

\* So is a pack that holds live chunks only.
LEMMA LivePack ==
    ASSUME NEW held, IsFiniteSet(held), Threshold =< 100
    PROVE  100 * Cardinality(held) >= Threshold * Cardinality(held)
<1> DEFINE n == Cardinality(held)
<1>1. n \in Nat
  BY FS_CardinalityType
<1> HIDE DEF n
<1>2. 100 * n >= Threshold * n
  BY <1>1, ThresholdAssumption
<1> QED BY <1>2 DEF n

\* When a run returns, every pack of the index is as full as asked.
LEMMA ReturnsTight ==
    ASSUME Inv, NEW c \in Compactors, TightInv(c), Returns(c), IsFiniteSet(Chunks), Threshold =< 100,
           NEW k \in Range(ChunkIndex)
    PROVE  LET held == {x \in DOMAIN ChunkIndex : ChunkIndex[x] = k} IN
           100 * Cardinality(held \cap compact[c].live) >= Threshold * Cardinality(held)
<1> DEFINE idx == compact[c].idx
           live == compact[c].live
           moved == compact[c].moved
           held == {x \in DOMAIN ChunkIndex : ChunkIndex[x] = k}
<1>1. /\ CompactRunInv(c) /\ CompactRunOK(compact[c]) /\ StoreTypeOK
      /\ compact = [d \in Compactors |-> compact[d]]
  BY DEF Inv, CompactInv, TypeOK, CompactTypeOK
<1>2. IsFiniteSet(DOMAIN idx) /\ IsFiniteSet(DOMAIN moved)
  <2>1. DOMAIN idx \in SUBSET Chunks /\ DOMAIN moved \in SUBSET Chunks
    BY <1>1 DEF CompactRunOK, IsPartial
  <2> QED BY <2>1, FS_Subset
<1>3. CASE FlushRelocated(c) /\ compact'[c] = CompactIdle
  <2>1. compact[c].pc = "relocate" /\ Dead(c) \cup Candidates(c) = {}
    BY <1>1, <1>3 DEF FlushRelocated, CompactAt, CompactIdle, CompactRunOK, CompactFields
  <2>2. idx = ChunkIndex
    BY <2>1 DEF TightInv
  <2>3. held = EntriesIn(idx, k)
    BY <2>2 DEF EntriesIn
  <2>4. k \in Range(idx) \ (DeadPacks(idx, live) \cup CandidatePacks(idx, live))
    BY <2>1, <2>2 DEF Dead, Candidates
  <2> HIDE DEF idx, live
  <2> QED BY <1>2, <2>3, <2>4, FullPacks DEF live
<1>4. CASE FinishCompact(c)
  <2>1. /\ DOMAIN chunkMan = {Index} /\ chunkMan[Index] = NewChunks(c)
    BY <1>1, <1>4 DEF FinishCompact, CompactAt, CompactRunInv, ReplaceInv, Replaced, IndexListed
  <2>2. ChunkIndex = NewChunks(c)
    <3>1. DOMAIN ListedManifests = {}
      BY <2>1 DEF ListedManifests, Restrict
    <3>2. DOMAIN MergeManifests(ListedManifests) = {}
      BY <3>1 DEF MergeManifests
    <3>3. ChunkIndex = [x \in DOMAIN chunkMan[Index] |-> chunkMan[Index][x]]
      <4>1. ChunkIndex = WithIndexFile(MergeManifests(ListedManifests))
        BY <1>1, <2>1, WholeIndex DEF IndexListed
      <4> QED BY <3>2, <4>1 DEF WithIndexFile
    <3>4. NewChunks(c) = [x \in DOMAIN NewChunks(c) |-> NewChunks(c)[x]]
      BY DEF NewChunks
    <3> HIDE DEF idx, live, moved, held
    <3> QED BY <2>1, <3>3, <3>4
  <2> DEFINE kept == {x \in DOMAIN idx : idx[x] \notin Dead(c) \cup Candidates(c)}
  <2>3. /\ DOMAIN ChunkIndex = kept \cup DOMAIN moved
        /\ \A x \in kept \cup DOMAIN moved :
             ChunkIndex[x] = IF x \in DOMAIN moved THEN moved[x] ELSE idx[x]
    BY <2>2 DEF NewChunks
  <2>4. /\ \A x \in DOMAIN moved : x \in live \cap DOMAIN idx /\ idx[x] \in Candidates(c)
        /\ \A x \in DOMAIN moved : moved[x] \notin Range(idx)
    BY <1>1 DEF TightInv, CompactRunInv, MovedInv
  <2> HIDE DEF idx, live, moved
  <2>5. PICK x \in DOMAIN ChunkIndex : ChunkIndex[x] = k
    BY DEF Range
  <2>6. CASE x \in DOMAIN moved
    <3>1. k \notin Range(idx)
      BY <2>3, <2>4, <2>5, <2>6
    <3>2. \A y \in held : y \in DOMAIN moved
      BY <2>3, <3>1 DEF Range
    <3>3. held \in SUBSET DOMAIN moved /\ held \cap live = held
      BY <2>4, <3>2
    <3>4. IsFiniteSet(held)
      BY <1>2, <3>3, FS_Subset
    <3> HIDE DEF held
    <3>5. 100 * Cardinality(held \cap live) >= Threshold * Cardinality(held)
      BY <3>3, <3>4, LivePack
    <3> QED BY <3>5 DEF held, live
  <2>7. CASE x \notin DOMAIN moved
    <3>1. k = idx[x] /\ x \in DOMAIN idx /\ k \notin Dead(c) \cup Candidates(c)
      BY <2>3, <2>5, <2>7
    <3>2. k \in Range(idx)
      BY <3>1 DEF Range
    <3>3. held = EntriesIn(idx, k)
      BY <2>3, <2>4, <3>1, <3>2 DEF EntriesIn
    <3>4. k \notin DeadPacks(idx, live) \cup CandidatePacks(idx, live)
      BY <3>1 DEF Dead, Candidates, idx, live
    <3> HIDE DEF held
    <3>5. 100 * Cardinality(held \cap live) >= Threshold * Cardinality(held)
      BY <1>2, <3>2, <3>3, <3>4, FullPacks
    <3> QED BY <3>5 DEF held, live
  <2> QED BY <2>6, <2>7
<1> QED BY <1>3, <1>4 DEF Returns

\* With a threshold of at most the whole pack, a compaction that returns leaves in the
\* index no pack of which less than that is live, if its view of what is live is still
\* right: the loop over the packs passes over none, and moves nothing dead along.
THEOREM LeavesPacksTight ==
    ASSUME Disciplined, IsFiniteSet(Chunks), Threshold =< 100
    PROVE  Spec => CompactionTight
<1> DEFINE Tight == \A c \in Compactors :
         Returns(c) /\ compact[c].live = LiveChunks =>
            \A k \in Range(ChunkIndex) :
               LET held == {x \in DOMAIN ChunkIndex : ChunkIndex[x] = k}
               IN  100 * Cardinality(held \cap LiveChunks) >= Threshold * Cardinality(held)
<1>1. Init => \A c \in Compactors : TightInv(c)
  BY TightIdle DEF Init, InitCompact
<1>2. Inv /\ (\A c \in Compactors : TightInv(c)) => Tight
  BY ReturnsTight
<1>3. Inv /\ (\A c \in Compactors : TightInv(c)) /\ [Next]_vars => [Tight]_vars
  BY <1>2
<1> QED BY <1>1, <1>3, NextTight, Invariance, PTL DEF Spec, CompactionTight

-----------------------------------------------------------------------------
(* Without a discipline.  Of all that Inv says, the order of the writes    *)
(* and the deletions alone is enough for the trees.                        *)

\* A run that writes has an identifier of its own, not recorded and not being
\* forgotten, and under it the trees it has put.
TreesRunInv(b) == LET r == backup[b] IN
    r.pc \in Writing =>
        /\ r.id \in usedSnaps \ records
        /\ \A d \in Backups : b # d /\ backup[d].pc \in Writing => backup[d].id # r.id
        /\ \A f \in Forgetters : forget[f].id # r.id
        /\ r.pc # "putNodes" => r.id \in DOMAIN nodes
        /\ r.pc \notin {"putNodes", "putNodeChunks"} => r.id \in DOMAIN nodeChunks

TreesInv ==
    /\ TypedInv
    /\ TreesPresent
    /\ \A b \in Backups : TreesRunInv(b)
    /\ ForgetInv

\* It holds of an empty repository.
LEMMA InitTrees == Init => TreesInv
<1> SUFFICES ASSUME Init PROVE TreesInv
  OBVIOUS
<1>1. /\ records = {} /\ \A b \in Backups : backup[b].pc = "idle"
      /\ \A f \in Forgetters : forget[f].pc = "idle"
  BY DEF Init, InitStore, InitBackup, InitForget, BackupIdle, ForgetIdle
<1>2. TypedInv
  BY <1>1, InitTypeOK DEF TypedInv, Identified, Writing
<1> QED BY <1>1, <1>2 DEF TreesInv, TreesPresent, TreesRunInv, ForgetInv, ForgetAt, Writing

\* A backup that is not writing its manifests leaves all trees and records alone.
LEMMA QuietTrees ==
    ASSUME NEW b \in Backups, BackupTypeOK, LoadParent(b) \/ ReadCatalog(b) \/ WalkSource(b) \/ FailBackup(b)
    PROVE  /\ UNCHANGED <<nodes, nodeChunks, records, usedSnaps>>
           /\ \A d \in Backups \ {b} : backup'[d] = backup[d]
           /\ backup'[b].pc \notin Writing
<1>1. backup = [d \in Backups |-> backup[d]] /\ BackupRunOK(backup[b])
  BY DEF BackupTypeOK
<1>2. CASE LoadParent(b) \/ ReadCatalog(b) \/ FailBackup(b)
  BY <1>1, <1>2 DEF LoadParent, ReadCatalog, LoadParentNodes, LoadParentChunks, ListLiveIndex,
     ReadLiveIndex, FailBackup, BackupIdle, BackupRunOK, BackupFields, Writing, store
<1>3. ASSUME NEW p \in Paths, NEW x, CarryFile(b, p) \/ OpenFile(b, p, x)
      PROVE  /\ UNCHANGED <<nodes, nodeChunks, records, usedSnaps>>
             /\ \A d \in Backups \ {b} : backup'[d] = backup[d]
             /\ backup'[b].pc \notin Writing
  BY <1>1, <1>3 DEF CarryFile, OpenFile, Walking, BackupAt, BackupRunOK, BackupFields, Writing, store
<1>4. CASE ReuseChunk(b)
  BY <1>1, <1>4 DEF ReuseChunk, Cutting, BackupAt, BackupRunOK, BackupFields, Writing, store
<1>5. ASSUME NEW k, NEW full, AddChunk(b, k, full)
      PROVE  /\ UNCHANGED <<nodes, nodeChunks, records, usedSnaps>>
             /\ \A d \in Backups \ {b} : backup'[d] = backup[d]
             /\ backup'[b].pc \notin Writing
  BY <1>1, <1>5 DEF AddChunk, Cutting, BackupAt, BackupRunOK, BackupFields, Writing
<1> QED BY <1>2, <1>3, <1>4, <1>5 DEF WalkSource

\* A backup that writes puts the trees before the record.
LEMMA WriteTrees ==
    ASSUME TreesInv, NEW b \in Backups, WriteSnapshot(b), UNCHANGED forget
    PROVE  TreesPresent' /\ (\A d \in Backups : TreesRunInv(d)') /\ ForgetInv'
<1>1. /\ backup = [d \in Backups |-> backup[d]] /\ BackupRunOK(backup[b])
      /\ records \subseteq usedSnaps /\ usedSnaps \subseteq SnapIds
      /\ \A f \in Forgetters : forget[f].id \in usedSnaps \cup {NoSnap}
      /\ \A d \in Backups : backup[d].pc \in Writing => backup[d].id \in usedSnaps
  BY DEF TreesInv, TypedInv, TypeOK, StoreTypeOK, BackupTypeOK, ForgetTypeOK, Identified
<1>2. TreesPresent /\ ForgetInv /\ \A d \in Backups : TreesRunInv(d)
  BY DEF TreesInv
<1>3. ASSUME NEW s \in SnapIds, FlushBackup(b, s)
      PROVE  TreesPresent' /\ (\A d \in Backups : TreesRunInv(d)') /\ ForgetInv'
  <2>1. /\ UNCHANGED <<nodes, nodeChunks, records>> /\ s \notin usedSnaps
        /\ usedSnaps' = usedSnaps \cup {s} /\ s # NoSnap
        /\ \A d \in Backups \ {b} : backup'[d] = backup[d]
        /\ backup'[b].pc = "putNodes" /\ backup'[b].id = s
    BY <1>1, <1>3, NoIdAssumption DEF FlushBackup, FreshSnaps, BackupRunOK, BackupFields
  <2>2. \A d \in Backups \ {b} : TreesRunInv(d)'
    BY <1>1, <1>2, <2>1 DEF TreesRunInv
  <2>3. TreesRunInv(b)'
    BY <1>1, <2>1 DEF TreesRunInv
  <2> QED BY <1>2, <2>1, <2>2, <2>3 DEF TreesPresent, ForgetInv, ForgetAt
<1>4. CASE WriteNodes(b) \/ WriteNodeChunks(b) \/ WriteChunks(b) \/ WritePacks(b)
  <2>1. /\ UNCHANGED <<records, usedSnaps>> /\ backup[b].pc \in Writing
        /\ \A d \in Backups \ {b} : backup'[d] = backup[d]
        /\ backup'[b].id = backup[b].id
        /\ DOMAIN nodes \subseteq DOMAIN nodes' /\ DOMAIN nodeChunks \subseteq DOMAIN nodeChunks'
        /\ backup[b].pc = "putNodes" => backup[b].id \in DOMAIN nodes' /\ backup'[b].pc = "putNodeChunks"
        /\ backup[b].pc = "putNodeChunks" => backup[b].id \in DOMAIN nodeChunks'
    <3>1. CASE WriteNodes(b)
      BY <1>1, <3>1 DEF WriteNodes, Put, BackupAt, BackupRunOK, BackupFields, Writing
    <3>2. CASE WriteNodeChunks(b)
      BY <1>1, <3>2 DEF WriteNodeChunks, Put, BackupAt, BackupRunOK, BackupFields, Writing
    <3>3. CASE WriteChunks(b) \/ WritePacks(b)
      BY <1>1, <3>3 DEF WriteChunks, WritePacks, BackupAt, BackupRunOK, BackupFields, Writing
    <3> QED BY <1>4, <3>1, <3>2, <3>3
  <2>2. \A d \in Backups \ {b} : TreesRunInv(d)'
    BY <1>2, <2>1 DEF TreesRunInv
  <2>3. TreesRunInv(b)'
    BY <1>2, <2>1 DEF TreesRunInv
  <2> QED BY <1>2, <2>1, <2>2, <2>3 DEF TreesPresent, ForgetInv, ForgetAt
<1>5. CASE WriteSnapshotRecord(b)
  <2>1. /\ UNCHANGED <<nodes, nodeChunks, usedSnaps>> /\ backup[b].pc = "putRecord"
        /\ records' = records \cup {backup[b].id}
        /\ \A d \in Backups \ {b} : backup'[d] = backup[d]
        /\ backup'[b].pc = "idle"
    BY <1>1, <1>5 DEF WriteSnapshotRecord, BackupAt, BackupIdle
  <2>2. /\ backup[b].id \in DOMAIN nodes /\ backup[b].id \in DOMAIN nodeChunks
        /\ \A d \in Backups \ {b} : backup[d].pc \in Writing => backup[d].id # backup[b].id
        /\ \A f \in Forgetters : forget[f].id # backup[b].id
    BY <1>2, <2>1 DEF TreesRunInv, Writing
  <2>3. \A d \in Backups \ {b} : TreesRunInv(d)'
    BY <1>2, <2>1, <2>2 DEF TreesRunInv, Writing
  <2>4. TreesRunInv(b)'
    BY <2>1 DEF TreesRunInv, Writing
  <2> QED BY <1>2, <2>1, <2>2, <2>3, <2>4 DEF TreesPresent, ForgetInv, ForgetAt
<1> QED BY <1>3, <1>4, <1>5 DEF WriteSnapshot

\* A step of a backup keeps it.
LEMMA BackupTrees ==
    ASSUME TreesInv, NEW b \in Backups, LoadParent(b) \/ BackupStep(b), UNCHANGED forget
    PROVE  TreesPresent' /\ (\A d \in Backups : TreesRunInv(d)') /\ ForgetInv'
<1>1. CASE LoadParent(b) \/ ReadCatalog(b) \/ WalkSource(b) \/ FailBackup(b)
  <2>1. /\ UNCHANGED <<nodes, nodeChunks, records, usedSnaps>>
        /\ \A d \in Backups \ {b} : backup'[d] = backup[d]
        /\ backup'[b].pc \notin Writing
    BY <1>1, QuietTrees DEF TreesInv, TypedInv, TypeOK
  <2> QED BY <2>1 DEF TreesInv, TreesPresent, TreesRunInv, ForgetInv, ForgetAt
<1> QED BY <1>1, WriteTrees DEF BackupStep

\* A forget deletes no tree that a record or a writer needs.
LEMMA ForgetTrees ==
    ASSUME TreesInv, NEW f \in Forgetters, StartForget(f) \/ ForgetStep(f), UNCHANGED backup
    PROVE  TreesPresent' /\ (\A d \in Backups : TreesRunInv(d)') /\ ForgetInv'
<1> DEFINE id == forget[f].id
<1>1. /\ forget \in [Forgetters -> [pc : ForgetPCs, id : usedSnaps \cup {NoSnap}]]
      /\ usedSnaps \subseteq SnapIds
  BY DEF TreesInv, TypedInv, TypeOK, ForgetTypeOK, StoreTypeOK
<1>2. TreesPresent /\ ForgetInv /\ \A d \in Backups : TreesRunInv(d)
  BY DEF TreesInv
<1>3. /\ UNCHANGED usedSnaps /\ records' \subseteq records
      /\ \A g \in Forgetters \ {f} : forget'[g] = forget[g]
      /\ forget'[f].id \in {id, NoSnap} \cup records
      /\ forget'[f].pc \in {"nodes", "nodeChunks"} => forget'[f].id \notin records'
      /\ \A s \in records' : s # id \/ UNCHANGED <<nodes, nodeChunks>>
      /\ \A s : s # id => /\ s \in DOMAIN nodes => s \in DOMAIN nodes'
                          /\ s \in DOMAIN nodeChunks => s \in DOMAIN nodeChunks'
  <2>1. CASE StartForget(f) \/ FailForget(f)
    BY <1>1, <2>1 DEF StartForget, ResolveForget, FailForget, ForgetIdle, store
  <2>2. CASE DeleteRecord(f)
    BY <1>1, <2>2 DEF DeleteRecord
  <2>3. CASE DeleteNodes(f) \/ DeleteNodeChunks(f)
    <3>1. id \notin records
      BY <1>2, <2>3 DEF DeleteNodes, DeleteNodeChunks, ForgetInv
    <3> QED BY <1>1, <2>3, <3>1 DEF DeleteNodes, DeleteNodeChunks, Delete, ForgetIdle
  <2> QED BY <2>1, <2>2, <2>3 DEF ForgetStep
<1> HIDE DEF id
<1>4. TreesPresent'
  BY <1>2, <1>3 DEF TreesPresent
<1>5. ASSUME NEW d \in Backups PROVE TreesRunInv(d)'
  <2>1. backup[d].pc \in Writing => backup[d].id # id /\ backup[d].id \in SnapIds
    BY <1>1, <1>2 DEF TreesRunInv, id
  <2> QED BY <1>2, <1>3, <2>1, NoIdAssumption DEF TreesRunInv
<1>6. ForgetInv'
  BY <1>2, <1>3 DEF ForgetInv, ForgetAt
<1> QED BY <1>4, <1>5, <1>6

\* TreesInv is inductive.
LEMMA NextTrees == TreesInv /\ [Next]_vars => TreesInv'
<1> SUFFICES ASSUME TreesInv, [Next]_vars
             PROVE  TreesPresent' /\ (\A d \in Backups : TreesRunInv(d)') /\ ForgetInv'
  BY NextTypeOK DEF TreesInv
<1>1. CASE NextBackup /\ UNCHANGED <<compact, forget>>
  BY <1>1, BackupTrees DEF NextBackup, StartBackup
<1>2. CASE NextForget /\ UNCHANGED <<backup, compact>>
  BY <1>2, ForgetTrees DEF NextForget
<1>3. ASSUME UNCHANGED <<nodes, nodeChunks, records, usedSnaps, backup, forget>>
      PROVE  TreesPresent' /\ (\A d \in Backups : TreesRunInv(d)') /\ ForgetInv'
  BY <1>3 DEF TreesInv, TreesPresent, TreesRunInv, ForgetInv, ForgetAt
<1>4. CASE NextCompact /\ UNCHANGED <<backup, forget>>
  <2>1. PICK c \in Compactors : ListSnapshots(c) \/ CompactStep(c)
    BY <1>4 DEF NextCompact, StartCompact
  <2>2. UNCHANGED <<nodes, nodeChunks, records, usedSnaps>>
    BY <2>1, CompactWrites DEF TreesInv, TypedInv
  <2> QED BY <1>3, <1>4, <2>2
<1>5. CASE UNCHANGED vars
  BY <1>3, <1>5 DEF vars, store
<1> QED BY <1>1, <1>2, <1>4, <1>5 DEF Next

\* A recorded snapshot never misses its trees, however commands are interleaved and
\* wherever they die: record last on the way in, record first on the way out.
THEOREM TreesAlwaysPresent == Spec => []TreesPresent
<1>1. TreesInv => TreesPresent
  BY DEF TreesInv
<1> QED BY <1>1, InitTrees, NextTrees, PTL DEF Spec
-----------------------------------------------------------------------------
(* Deduplication.  What a backup stores is new because nothing but the     *)
(* backup itself adds to the index from the moment it lists it: neither    *)
(* another backup nor a compaction may run, a forget may.                  *)

LoneBackups == {{"backup"}, {"backup", "compact"}} \subseteq Conflicts

\* The index is all in what the run has read of it, or still to read; and until its
\* own manifest is there, nothing it packed is indexed.
DedupRunInv(b) == LET r == backup[b] IN
    /\ r.pc = "idle" => r.new = <<>>
    /\ r.pc = "index" => Indexed \subseteq r.live \cup DOMAIN chunkMan[Index]
    /\ r.pc = "walk" => Indexed \subseteq r.live
    /\ r.pc \notin {"putPacks", "putRecord"} => DOMAIN r.new \cap Indexed = {}

DedupInv ==
    /\ TypedInv
    /\ \A b, d \in RunningBackups : b = d
    /\ RunningBackups # {} => RunningCompactions = {}
    /\ \A b \in Backups : DedupRunInv(b)

\* It holds of an empty repository.
LEMMA InitDedup == Init => DedupInv
<1> SUFFICES ASSUME Init PROVE DedupInv
  OBVIOUS
<1>1. \A b \in Backups : backup[b].pc = "idle" /\ backup[b].new = <<>>
  BY DEF Init, InitBackup, BackupIdle
<1>2. \A b \in Backups : DedupRunInv(b)
  BY <1>1 DEF DedupRunInv
<1> QED BY <1>1, <1>2, InitTyped DEF DedupInv, RunningBackups, BackupAt

\* What the two reads of the chunk index leave out.
LEMMA ListedIndex ==
    LET listed == DOMAIN MergeManifests(ListedManifests) IN
    /\ IndexListed => Indexed \subseteq listed \cup DOMAIN chunkMan[Index]
    /\ ~IndexListed => Indexed \subseteq listed
<1> DEFINE m == ListedManifests
<1>1. /\ DOMAIN m = DOMAIN chunkMan \ {Index}
      /\ \A k \in DOMAIN m : m[k] = chunkMan[k]
  BY DEF ListedManifests, Restrict
<1>2. DOMAIN MergeManifests(m) = UNION {DOMAIN m[k] : k \in DOMAIN m}
  BY DEF MergeManifests
<1> HIDE DEF m
<1>3. ASSUME NEW k \in DOMAIN chunkMan, k # Index, NEW c \in DOMAIN chunkMan[k]
      PROVE  c \in DOMAIN MergeManifests(m)
  <2>1. k \in DOMAIN m /\ c \in DOMAIN m[k]
    BY <1>1, <1>3
  <2> QED BY <1>2, <2>1
<1> QED BY <1>3 DEF Indexed, IndexListed, m

\* A step of the one backup that runs.
LEMMA BackupDedup ==
    ASSUME DedupInv, LoneBackups, TypedInv', NEW b \in Backups, StartBackup(b) \/ BackupStep(b),
           UNCHANGED compact
    PROVE  DedupInv'
<1>1. /\ backup = [d \in Backups |-> backup[d]] /\ BackupRunOK(backup[b])
      /\ DedupRunInv(b) /\ StoreTypeOK
  BY DEF DedupInv, TypedInv, TypeOK, BackupTypeOK
<1>2. /\ \A d \in Backups \ {b} : backup[d].pc = "idle" /\ backup[d].new = <<>>
      /\ RunningCompactions = {}
  <2>1. CASE StartBackup(b)
    <3>1. {"backup", "backup"} = {"backup"}
      OBVIOUS
    <3>2. RunningBackups = {} /\ RunningCompactions = {}
      BY <2>1, <3>1 DEF StartBackup, Admit, LoneBackups
    <3> QED BY <3>2 DEF RunningBackups, BackupAt, DedupInv, DedupRunInv
  <2>2. CASE BackupStep(b)
    <3>1. ~BackupAt(b, "idle")
      BY <2>2 DEF BackupStep, ReadCatalog, LoadParentNodes, LoadParentChunks, ListLiveIndex,
         ReadLiveIndex, WalkSource, CarryFile, OpenFile, ReuseChunk, AddChunk, Walking, Cutting,
         WriteSnapshot, FlushBackup, WriteNodes, WriteNodeChunks, WriteChunks, WritePacks,
         WriteSnapshotRecord, FailBackup, BackupAt
    <3>2. b \in RunningBackups
      BY <3>1 DEF RunningBackups
    <3> QED BY <3>2 DEF RunningBackups, BackupAt, DedupInv, DedupRunInv
  <2> QED BY <2>1, <2>2
<1>3. (\A d \in Backups \ {b} : backup'[d] = backup[d]) /\ DedupRunInv(b)'
  <2> USE DEF BackupAt, BackupRunOK, BackupFields
  <2>1. CASE LoadParent(b) \/ LoadParentNodes(b) \/ LoadParentChunks(b) \/ FailBackup(b)
    <3>1. /\ UNCHANGED chunkMan /\ \A d \in Backups \ {b} : backup'[d] = backup[d]
          /\ \/ /\ backup'[b].new = backup[b].new
                /\ backup[b].pc \in {"idle", "nodes", "nodeChunks"}
                /\ backup'[b].pc \in {"nodes", "nodeChunks", "list"}
             \/ backup'[b] = BackupIdle
      BY <1>1, <2>1 DEF LoadParent, LoadParentNodes, LoadParentChunks, FailBackup, store
    <3> QED BY <1>1, <3>1 DEF DedupRunInv, Indexed, BackupIdle
  <2>2. CASE ListLiveIndex(b)
    <3>1. /\ UNCHANGED chunkMan /\ \A d \in Backups \ {b} : backup'[d] = backup[d]
          /\ backup'[b].new = backup[b].new /\ backup[b].pc = "list"
          /\ backup'[b].pc = IF IndexListed THEN "index" ELSE "walk"
          /\ backup'[b].live = DOMAIN MergeManifests(ListedManifests)
      BY <1>1, <2>2 DEF ListLiveIndex, store
    <3> QED BY <1>1, <3>1, ListedIndex DEF DedupRunInv, Indexed
  <2>3. CASE ReadLiveIndex(b)
    <3>1. /\ UNCHANGED chunkMan /\ \A d \in Backups \ {b} : backup'[d] = backup[d]
          /\ backup'[b].new = backup[b].new /\ backup[b].pc = "index"
          /\ backup'[b].pc = "walk"
          /\ backup'[b].live = backup[b].live \cup DOMAIN chunkMan[Index]
      BY <1>1, <2>3 DEF ReadLiveIndex, store
    <3> QED BY <1>1, <3>1 DEF DedupRunInv, Indexed
  <2>4. ASSUME NEW p \in Paths, NEW x, CarryFile(b, p) \/ OpenFile(b, p, x)
        PROVE  (\A d \in Backups \ {b} : backup'[d] = backup[d]) /\ DedupRunInv(b)'
    <3>1. /\ UNCHANGED chunkMan /\ \A d \in Backups \ {b} : backup'[d] = backup[d]
          /\ backup'[b].new = backup[b].new /\ backup'[b].live = backup[b].live
          /\ backup[b].pc = "walk" /\ backup'[b].pc = "walk"
      BY <1>1, <2>4 DEF CarryFile, OpenFile, Walking, store
    <3> QED BY <1>1, <3>1 DEF DedupRunInv, Indexed
  <2>5. CASE ReuseChunk(b)
    <3>1. /\ UNCHANGED chunkMan /\ \A d \in Backups \ {b} : backup'[d] = backup[d]
          /\ backup'[b].new = backup[b].new /\ backup'[b].live = backup[b].live
          /\ backup[b].pc = "walk" /\ backup'[b].pc = "walk"
      BY <1>1, <2>5 DEF ReuseChunk, Cutting, store
    <3> QED BY <1>1, <3>1 DEF DedupRunInv, Indexed
  <2>6. ASSUME NEW k, NEW full, AddChunk(b, k, full)
        PROVE  (\A d \in Backups \ {b} : backup'[d] = backup[d]) /\ DedupRunInv(b)'
    <3> DEFINE c == Head(backup[b].rest)
    <3>1. /\ UNCHANGED chunkMan /\ \A d \in Backups \ {b} : backup'[d] = backup[d]
          /\ backup'[b].new = Put(backup[b].new, c, k) /\ backup'[b].live = backup[b].live \cup {c}
          /\ backup[b].pc = "walk" /\ backup'[b].pc = "walk" /\ c \notin backup[b].live
      BY <1>1, <2>6 DEF AddChunk, Cutting
    <3> HIDE DEF c
    <3>2. DOMAIN backup'[b].new = DOMAIN backup[b].new \cup {c}
      BY <3>1 DEF Put
    <3>3. Indexed \subseteq backup[b].live /\ DOMAIN backup[b].new \cap Indexed = {}
      BY <1>1, <3>1 DEF DedupRunInv
    <3>4. Indexed' = Indexed
      BY <3>1 DEF Indexed
    <3>5. Indexed \subseteq backup'[b].live /\ DOMAIN backup'[b].new \cap Indexed = {}
      BY <3>1, <3>2, <3>3
    <3> QED BY <3>1, <3>4, <3>5 DEF DedupRunInv
  <2>7. ASSUME NEW s \in SnapIds, FlushBackup(b, s)
        PROVE  (\A d \in Backups \ {b} : backup'[d] = backup[d]) /\ DedupRunInv(b)'
    <3>1. /\ UNCHANGED chunkMan /\ \A d \in Backups \ {b} : backup'[d] = backup[d]
          /\ backup'[b].new = backup[b].new
          /\ backup[b].pc = "walk" /\ backup'[b].pc = "putNodes"
      BY <1>1, <2>7 DEF FlushBackup, Walking
    <3> QED BY <1>1, <3>1 DEF DedupRunInv, Indexed
  <2>8. CASE WriteNodes(b) \/ WriteNodeChunks(b)
    <3>1. /\ UNCHANGED chunkMan /\ \A d \in Backups \ {b} : backup'[d] = backup[d]
          /\ backup'[b].new = backup[b].new
          /\ backup[b].pc \in {"putNodes", "putNodeChunks"}
          /\ backup'[b].pc \in {"putNodeChunks", "putChunks"}
      BY <1>1, <2>8 DEF WriteNodes, WriteNodeChunks
    <3> QED BY <1>1, <3>1 DEF DedupRunInv, Indexed
  <2>9. CASE WriteChunks(b) \/ WritePacks(b)
    <3>1. /\ \A d \in Backups \ {b} : backup'[d] = backup[d]
          /\ backup'[b].pc \in {"putPacks", "putRecord"}
      BY <1>1, <2>9 DEF WriteChunks, WritePacks
    <3> QED BY <3>1 DEF DedupRunInv
  <2>10. CASE WriteSnapshotRecord(b)
    <3>1. /\ \A d \in Backups \ {b} : backup'[d] = backup[d]
          /\ backup'[b] = BackupIdle
      BY <1>1, <2>10 DEF WriteSnapshotRecord
    <3> QED BY <3>1 DEF DedupRunInv, BackupIdle
  <2> QED BY <2>1, <2>2, <2>3, <2>4, <2>5, <2>6, <2>7, <2>8, <2>9, <2>10
      DEF StartBackup, BackupStep, ReadCatalog, WalkSource, WriteSnapshot
<1>4. \A d \in Backups : DedupRunInv(d)'
  BY <1>2, <1>3 DEF DedupRunInv
<1>5. RunningBackups' \subseteq {b} /\ RunningCompactions' = {}
  BY <1>2, <1>3 DEF RunningBackups, RunningCompactions, BackupAt, CompactAt
<1> QED BY <1>4, <1>5 DEF DedupInv

\* A compaction changes the index only while no backup runs.
LEMMA CompactDedup ==
    ASSUME DedupInv, LoneBackups, TypedInv', NEW c \in Compactors, StartCompact(c) \/ CompactStep(c),
           UNCHANGED backup
    PROVE  DedupInv'
<1>1. RunningBackups = {}
  <2>1. CASE StartCompact(c)
    <3>1. {"compact", "backup"} = {"backup", "compact"}
      OBVIOUS
    <3> QED BY <2>1, <3>1 DEF StartCompact, Admit, LoneBackups
  <2>2. CASE CompactStep(c)
    <3>1. ~CompactAt(c, "idle")
      BY <2>2 DEF CompactStep, ReadRepository, ReadNodes, ReadNodeChunks, ListChunkIndex,
         ReadChunkIndex, ReadPackIndex, RelocateChunks, Relocate, FlushRelocated, ReplaceIndex,
         ListOldChunks, ListOldPacks, PutChunkIndex, PutPackIndex, DropChunkManifest,
         ChunkManifestsDropped, DropPackManifest, PackManifestsDropped, DropPacks, DropPack,
         DeadDropped, FinishCompact, FailCompact, CompactAt
    <3> QED BY <3>1 DEF DedupInv, RunningCompactions
  <2> QED BY <2>1, <2>2
<1>2. \A b \in Backups : backup[b].pc = "idle" /\ backup[b].new = <<>>
  BY <1>1 DEF RunningBackups, BackupAt, DedupInv, DedupRunInv
<1>3. \A b \in Backups : DedupRunInv(b)'
  BY <1>2 DEF DedupRunInv
<1>4. RunningBackups' = {}
  BY <1>2 DEF RunningBackups, BackupAt
<1> QED BY <1>3, <1>4 DEF DedupInv

\* DedupInv is inductive.
LEMMA NextDedup == ASSUME LoneBackups PROVE DedupInv /\ [Next]_vars => DedupInv'
<1> SUFFICES ASSUME DedupInv, [Next]_vars PROVE DedupInv'
  OBVIOUS
<1>1. TypedInv'
  BY NextTypeOK DEF DedupInv
<1>2. CASE NextBackup /\ UNCHANGED <<compact, forget>>
  BY <1>1, <1>2, BackupDedup DEF NextBackup
<1>3. CASE NextCompact /\ UNCHANGED <<backup, forget>>
  BY <1>1, <1>3, CompactDedup DEF NextCompact
<1>4. ASSUME UNCHANGED <<chunkMan, backup, compact>> PROVE DedupInv'
  <2>1. \A b \in Backups : DedupRunInv(b)'
    BY <1>4 DEF DedupInv, DedupRunInv, Indexed
  <2>2. UNCHANGED <<RunningBackups, RunningCompactions>>
    BY <1>4 DEF RunningBackups, RunningCompactions, BackupAt, CompactAt
  <2> QED BY <1>1, <2>1, <2>2 DEF DedupInv
<1>5. CASE NextForget /\ UNCHANGED <<backup, compact>>
  <2>1. UNCHANGED chunkMan
    BY <1>5 DEF NextForget, StartForget, ResolveForget, ForgetStep, DeleteRecord, DeleteNodes,
       DeleteNodeChunks, FailForget, store
  <2> QED BY <1>4, <1>5, <2>1
<1>6. CASE UNCHANGED vars
  BY <1>4, <1>6 DEF vars, store
<1> QED BY <1>2, <1>3, <1>5, <1>6 DEF Next

\* The keys of the merged index are the chunks some manifest lists.
LEMMA MergedKeys == StoreTypeOK => DOMAIN ChunkIndex = Indexed
BY DEF ChunkIndex, MergeManifests, Indexed

\* A backup beside which neither another one nor a compaction runs never stores a chunk
\* the index has: what it knew at the walk is still what is there when it writes.
THEOREM OnlyNewStored == ASSUME LoneBackups PROVE Spec => OnlyNewChunks
<1>1. DedupInv =>
        \A b \in Backups : WriteChunks(b) => DOMAIN backup[b].new \cap DOMAIN ChunkIndex = {}
  BY MergedKeys DEF DedupInv, DedupRunInv, WriteChunks, BackupAt, TypedInv, TypeOK
<1>2. DedupInv /\ [Next]_vars =>
        [\A b \in Backups : WriteChunks(b) => DOMAIN backup[b].new \cap DOMAIN ChunkIndex = {}]_vars
  BY <1>1
<1> QED BY <1>2, InitDedup, NextDedup, PTL DEF Spec, OnlyNewChunks

-----------------------------------------------------------------------------
(* The views.  Between the commands the rows of the manifest files are     *)
(* those of the merged index, if each command has written to its end.      *)

\* What the schedule and the earlier invariants say of the manifests.
ViewsInv == Inv /\ DedupInv /\ LensInv

\* An empty repository has no rows.
LEMMA InitLens == Init => LensInv
<1> SUFFICES ASSUME Init PROVE LensInv
  OBVIOUS
<1>1. /\ nodes = <<>> /\ chunkMan = <<>> /\ packMan = <<>>
      /\ \A c \in Compactors : compact[c] = CompactIdle
  BY DEF Init, InitStore, InitCompact
<1>2. DOMAIN <<>> = {} /\ CompactIdle.pc = "idle"
  BY DEF CompactIdle
<1>3. PackIndex = {}
  BY <1>1, <1>2 DEF PackIndex
<1> QED BY <1>1, <1>2, <1>3
    DEF LensInv, NodesOwned, ChunksApart, PacksApart, OldPacksListed, NewPacksUnlisted, Apart, Replacing

\* Packs are listed under identifiers that have been drawn.
LEMMA ListedPacksUsed ==
    ASSUME StoreTypeOK
    PROVE  PackIndex \subseteq usedPacks /\ NoPack \notin PackIndex
<1>1. \A k \in DOMAIN packMan : packMan[k] \subseteq usedPacks
  BY DEF StoreTypeOK, IsPartial
<1> QED BY <1>1, NoIdAssumption DEF PackIndex, StoreTypeOK

\* The same in the next state.
LEMMA NoPackListed ==
    ASSUME StoreTypeOK'
    PROVE  NoPack \notin PackIndex'
<1>1. /\ \A k \in DOMAIN packMan' : packMan'[k] \subseteq usedPacks'
      /\ usedPacks' \subseteq PackIds
  BY DEF StoreTypeOK, IsPartial
<1> QED BY <1>1, NoIdAssumption DEF PackIndex

\* One more file, whose rows are in no other.
LEMMA PutApart ==
    ASSUME NEW m, Apart(m), NEW k, NEW rows,
           \A j \in DOMAIN m : m[j] \cap rows = {}
    PROVE  Apart(Put(m, k, rows))
BY DEF Apart, Put

-----------------------------------------------------------------------------
\* What a step of a backup does to the manifests, and to its packs.
LEMMA BackupRows ==
    ASSUME ViewsInv, NEW b \in Backups, StartBackup(b) \/ BackupStep(b),
           FailBackup(b) => backup[b].pc \notin Writing \ {"putNodes"}
    PROVE  /\ \A d \in Backups \ {b} : backup'[d] = backup[d]
           /\ records \subseteq records'
           /\ \/ UNCHANGED nodes
              \/ /\ DOMAIN nodes' = DOMAIN nodes \cup {backup'[b].id}
                 /\ backup'[b].pc = "putNodeChunks"
           /\ backup[b].pc \in Writing \ {"putNodes"} =>
                 \/ backup'[b].pc \in Writing \ {"putNodes"} /\ backup'[b].id = backup[b].id
                 \/ backup[b].id \in records'
           /\ \/ UNCHANGED chunkMan
              \/ /\ backup[b].pc = "putChunks"
                 /\ chunkMan' = Put(chunkMan, backup[b].id, backup[b].new)
           /\ \/ UNCHANGED packMan
              \/ /\ backup[b].pc = "putPacks" /\ backup'[b].pc = "putRecord"
                 /\ packMan' = Put(packMan, backup[b].id, Range(backup[b].new))
           /\ backup'[b].pc # "putRecord" =>
                 \/ backup'[b] = BackupIdle
                 \/ /\ backup[b].pc # "putRecord"
                    /\ Range(backup'[b].new) \cup {backup'[b].open}
                         \subseteq Range(backup[b].new) \cup {backup[b].open, NoPack} \cup FreshPacks
<1>1. backup = [d \in Backups |-> backup[d]] /\ BackupRunOK(backup[b])
  BY DEF ViewsInv, Inv, TypeOK, BackupTypeOK
<1> USE DEF BackupAt, BackupRunOK, BackupFields
<1>2. CASE LoadParent(b) \/ ReadCatalog(b)
  <2>1. /\ UNCHANGED store /\ \A d \in Backups \ {b} : backup'[d] = backup[d]
        /\ backup'[b].new = backup[b].new /\ backup'[b].open = backup[b].open
        /\ backup[b].pc \in {"idle", "nodes", "nodeChunks", "list", "index"}
    BY <1>1, <1>2 DEF LoadParent, ReadCatalog, LoadParentNodes, LoadParentChunks, ListLiveIndex,
       ReadLiveIndex
  <2> QED BY <2>1 DEF store, Writing
<1>3. CASE FailBackup(b)
  <2>1. /\ UNCHANGED store /\ \A d \in Backups \ {b} : backup'[d] = backup[d]
        /\ backup'[b] = BackupIdle
    BY <1>1, <1>3 DEF FailBackup
  <2> QED BY <1>3, <2>1 DEF store
<1>4. ASSUME NEW p \in Paths, NEW x, CarryFile(b, p) \/ OpenFile(b, p, x) \/ ReuseChunk(b)
      PROVE  /\ UNCHANGED store /\ \A d \in Backups \ {b} : backup'[d] = backup[d]
             /\ backup'[b].new = backup[b].new /\ backup'[b].open = backup[b].open
             /\ backup[b].pc = "walk"
  BY <1>1, <1>4 DEF CarryFile, OpenFile, ReuseChunk, Walking, Cutting
<1>5. CASE \E p \in Paths : CarryFile(b, p) \/ \E x \in Contents : OpenFile(b, p, x)
  BY <1>4, <1>5 DEF store, Writing
<1>6. CASE ReuseChunk(b)
  <2>1. /\ UNCHANGED store /\ \A d \in Backups \ {b} : backup'[d] = backup[d]
        /\ backup'[b].new = backup[b].new /\ backup'[b].open = backup[b].open
        /\ backup[b].pc = "walk"
    BY <1>1, <1>6 DEF ReuseChunk, Cutting
  <2> QED BY <2>1 DEF store, Writing
<1>7. ASSUME NEW k \in PackIds, NEW full \in BOOLEAN, AddChunk(b, k, full)
      PROVE  /\ UNCHANGED <<nodes, chunkMan, packMan, records>>
             /\ \A d \in Backups \ {b} : backup'[d] = backup[d]
             /\ backup[b].pc = "walk"
             /\ Range(backup'[b].new) \cup {backup'[b].open}
                  \subseteq Range(backup[b].new) \cup {backup[b].open, NoPack} \cup FreshPacks
  <2>1. /\ UNCHANGED <<nodes, chunkMan, packMan, records>>
        /\ \A d \in Backups \ {b} : backup'[d] = backup[d]
        /\ backup[b].pc = "walk"
        /\ backup'[b].new = Put(backup[b].new, Head(backup[b].rest), k)
        /\ backup'[b].open = IF full THEN NoPack ELSE k
        /\ k \in FreshPacks \/ k = backup[b].open
    BY <1>1, <1>7 DEF AddChunk, Cutting
  <2>2. Range(backup'[b].new) \subseteq Range(backup[b].new) \cup {k}
    BY <2>1 DEF Put, Range
  <2> QED BY <2>1, <2>2
<1>8. CASE \E k \in PackIds, full \in BOOLEAN : AddChunk(b, k, full)
  <2>1. /\ UNCHANGED <<nodes, chunkMan, packMan, records>>
        /\ \A d \in Backups \ {b} : backup'[d] = backup[d]
        /\ backup[b].pc = "walk"
        /\ Range(backup'[b].new) \cup {backup'[b].open}
             \subseteq Range(backup[b].new) \cup {backup[b].open, NoPack} \cup FreshPacks
    BY <1>7, <1>8
  <2> QED BY <2>1 DEF Writing
<1>9. ASSUME NEW s \in SnapIds, FlushBackup(b, s)
      PROVE  /\ UNCHANGED <<nodes, chunkMan, packMan, records>>
             /\ \A d \in Backups \ {b} : backup'[d] = backup[d]
             /\ backup[b].pc = "walk"
             /\ backup'[b].new = backup[b].new /\ backup'[b].open = NoPack
  BY <1>1, <1>9 DEF FlushBackup, Walking
<1>10. CASE \E s \in SnapIds : FlushBackup(b, s)
  BY <1>9, <1>10 DEF Writing
<1>11. CASE WriteNodes(b) \/ WriteNodeChunks(b)
  <2>1. /\ UNCHANGED <<chunkMan, packMan, records>>
        /\ \A d \in Backups \ {b} : backup'[d] = backup[d]
        /\ backup'[b].new = backup[b].new /\ backup'[b].open = backup[b].open
        /\ backup'[b].id = backup[b].id
        /\ \/ /\ backup[b].pc = "putNodes" /\ backup'[b].pc = "putNodeChunks"
              /\ \E tree : nodes' = Put(nodes, backup[b].id, tree)
           \/ backup[b].pc = "putNodeChunks" /\ backup'[b].pc = "putChunks" /\ UNCHANGED nodes
    BY <1>1, <1>11 DEF WriteNodes, WriteNodeChunks
  <2> QED BY <2>1 DEF Writing, Put
<1>12. CASE WriteChunks(b) \/ WritePacks(b)
  <2>1. /\ UNCHANGED <<nodes, records>>
        /\ \A d \in Backups \ {b} : backup'[d] = backup[d]
        /\ backup'[b].new = backup[b].new /\ backup'[b].open = backup[b].open
        /\ backup'[b].id = backup[b].id
        /\ \/ /\ backup[b].pc = "putChunks" /\ backup'[b].pc = "putPacks"
              /\ chunkMan' = Put(chunkMan, backup[b].id, backup[b].new) /\ UNCHANGED packMan
           \/ /\ backup[b].pc = "putPacks" /\ backup'[b].pc = "putRecord"
              /\ packMan' = Put(packMan, backup[b].id, Range(backup[b].new)) /\ UNCHANGED chunkMan
    BY <1>1, <1>12 DEF WriteChunks, WritePacks
  <2> QED BY <2>1 DEF Writing
<1>13. CASE WriteSnapshotRecord(b)
  <2>1. /\ UNCHANGED <<nodes, chunkMan, packMan>> /\ records' = records \cup {backup[b].id}
        /\ \A d \in Backups \ {b} : backup'[d] = backup[d]
        /\ backup'[b] = BackupIdle /\ backup[b].pc = "putRecord"
    BY <1>1, <1>13 DEF WriteSnapshotRecord
  <2> QED BY <2>1
<1> QED BY <1>2, <1>3, <1>5, <1>6, <1>8, <1>10, <1>11, <1>12, <1>13
    DEF StartBackup, BackupStep, WalkSource, WriteSnapshot

\* A backup's step keeps the rows apart: what it stores is new, and in packs of its own.
LEMMA BackupLens ==
    ASSUME ViewsInv, Inv', Disciplined, LoneBackups, NEW b \in Backups,
           StartBackup(b) \/ BackupStep(b), Unbroken, UNCHANGED <<compact, forget>>
    PROVE  LensInv'
<1>1. FailBackup(b) => backup[b].pc \notin Writing \ {"putNodes"}
  BY DEF Unbroken
<1>2. LensInv /\ Inv /\ StoreTypeOK /\ StoreTypeOK'
  BY DEF ViewsInv, Inv, TypeOK
<1>3. NodesOwned'
  <2>1. SUFFICES ASSUME NEW s \in DOMAIN nodes', s \notin records'
        PROVE  \/ \E d \in Backups : backup'[d].pc \in Writing \ {"putNodes"} /\ backup'[d].id = s
               \/ \E f \in Forgetters : forget'[f].pc = "nodes" /\ forget'[f].id = s
    BY DEF NodesOwned, ForgetAt
  <2>2. CASE s \in DOMAIN nodes
    <3>1. \/ \E d \in Backups : backup[d].pc \in Writing \ {"putNodes"} /\ backup[d].id = s
          \/ \E f \in Forgetters : forget[f].pc = "nodes" /\ forget[f].id = s
      BY <1>1, <1>2, <2>1, <2>2, BackupRows DEF LensInv, NodesOwned, ForgetAt
    <3> QED BY <1>1, <2>1, <3>1, BackupRows
  <2>3. CASE s \notin DOMAIN nodes
    <3>1. s = backup'[b].id /\ backup'[b].pc = "putNodeChunks"
      BY <1>1, <2>3, BackupRows
    <3> QED BY <3>1 DEF Writing
  <2> QED BY <2>2, <2>3
<1>4. ChunksApart'
  <2>1. SUFFICES ASSUME \A c \in Compactors : ~Replacing(c, {"putPacks", "dropChunks"})'
        PROVE  Apart([k \in DOMAIN chunkMan |-> DOMAIN chunkMan[k]])'
    BY DEF ChunksApart
  <2>2. Apart([k \in DOMAIN chunkMan |-> DOMAIN chunkMan[k]])
    BY <1>2, <2>1 DEF LensInv, ChunksApart, Replacing
  <2>3. CASE backup[b].pc = "putChunks" /\ chunkMan' = Put(chunkMan, backup[b].id, backup[b].new)
    <3> DEFINE m == [k \in DOMAIN chunkMan |-> DOMAIN chunkMan[k]]
               n == [k \in DOMAIN chunkMan' |-> DOMAIN chunkMan'[k]]
               new == DOMAIN backup[b].new
    <3>1. new \cap Indexed = {}
      BY <2>3 DEF ViewsInv, DedupInv, DedupRunInv
    <3>2. \A j \in DOMAIN m : m[j] \cap new = {}
      BY <3>1 DEF Indexed
    <3>3. n = Put(m, backup[b].id, new)
      BY <2>3 DEF Put
    <3> HIDE DEF m, n, new
    <3>4. Apart(n)
      BY <2>2, <3>2, <3>3, PutApart DEF m
    <3> QED BY <3>4 DEF n, Apart
  <2> QED BY <1>1, <2>2, <2>3, BackupRows
<1>5. PacksApart'
  <2>1. SUFFICES ASSUME \A c \in Compactors : ~Replacing(c, {"dropChunks", "dropPacks"})'
        PROVE  Apart(packMan)'
    BY DEF PacksApart
  <2>2. Apart(packMan)
    BY <1>2, <2>1 DEF LensInv, PacksApart, Replacing
  <2>3. CASE backup[b].pc = "putPacks" /\ packMan' = Put(packMan, backup[b].id, Range(backup[b].new))
    <3>1. Range(backup[b].new) \cap PackIndex = {}
      BY <1>2, <2>3 DEF LensInv, NewPacksUnlisted
    <3>2. \A j \in DOMAIN packMan : packMan[j] \cap Range(backup[b].new) = {}
      BY <3>1 DEF PackIndex
    <3>3. Apart(packMan')
      BY <2>2, <2>3, <3>2, PutApart
    <3> QED BY <3>3 DEF Apart
  <2> QED BY <1>1, <2>2, <2>3, BackupRows DEF Apart
<1>6. OldPacksListed'
  <2>1. \A c \in Compactors : compact[c].pc = "idle"
    BY <1>2, BackupAlone DEF RunningCompactions, CompactAt
  <2> QED BY <2>1 DEF OldPacksListed, Replacing
<1>7. NewPacksUnlisted'
  <2>1. SUFFICES ASSUME NEW d \in Backups, backup'[d].pc # "putRecord"
        PROVE  (Range(backup'[d].new) \cup {backup'[d].open}) \cap PackIndex' = {}
    BY DEF NewPacksUnlisted
  <2>2. CASE backup'[d] = BackupIdle
    <3>1. BackupIdle.new = <<>> /\ BackupIdle.open = NoPack /\ Range(<<>>) = {}
      BY DEF BackupIdle, Range
    <3>2. NoPack \notin PackIndex'
      BY <1>2, NoPackListed
    <3> QED BY <2>2, <3>1, <3>2
  <2>3. CASE d # b
    <3>1. ~BackupAt(b, "idle") \/ RunningBackups = {}
      <4>1. CASE StartBackup(b)
        <5>1. {"backup", "backup"} = {"backup"}
          OBVIOUS
        <5> QED BY <4>1, <5>1 DEF StartBackup, Admit, LoneBackups
      <4>2. CASE BackupStep(b)
        BY <4>2 DEF BackupStep, ReadCatalog, LoadParentNodes, LoadParentChunks, ListLiveIndex,
           ReadLiveIndex, WalkSource, CarryFile, OpenFile, ReuseChunk, AddChunk, Walking, Cutting,
           WriteSnapshot, FlushBackup, WriteNodes, WriteNodeChunks, WriteChunks, WritePacks,
           WriteSnapshotRecord, FailBackup, BackupAt
      <4> QED BY <4>1, <4>2
    <3>2. BackupAt(d, "idle")
      BY <2>3, <3>1 DEF ViewsInv, DedupInv, RunningBackups
    <3>3. backup'[d] = BackupIdle
      BY <1>1, <1>2, <2>3, <3>2, BackupRows DEF Inv, BackupInv, BackupRunInv
    <3> QED BY <2>2, <3>3
  <2>4. CASE d = b /\ backup'[b] # BackupIdle
    <3>1. /\ backup[b].pc # "putRecord" /\ UNCHANGED packMan
          /\ Range(backup'[b].new) \cup {backup'[b].open}
               \subseteq Range(backup[b].new) \cup {backup[b].open, NoPack} \cup FreshPacks
      BY <1>1, <2>1, <2>4, BackupRows
    <3>2. (Range(backup[b].new) \cup {backup[b].open}) \cap PackIndex = {}
      BY <1>2, <3>1 DEF LensInv, NewPacksUnlisted
    <3>3. (FreshPacks \cup {NoPack}) \cap PackIndex = {}
      BY <1>2, ListedPacksUsed DEF FreshPacks
    <3>4. PackIndex' = PackIndex
      BY <3>1 DEF PackIndex
    <3> QED BY <2>4, <3>1, <3>2, <3>3, <3>4
  <2> QED BY <2>2, <2>3, <2>4
<1> QED BY <1>3, <1>4, <1>5, <1>6, <1>7 DEF LensInv

-----------------------------------------------------------------------------
\* What a step of a compaction does to the manifests: it lists, puts, and deletes.
LEMMA CompactRows ==
    ASSUME ViewsInv, NEW c \in Compactors, StartCompact(c) \/ CompactStep(c),
           FailCompact(c) => compact[c].pc \notin {"putPacks", "dropChunks", "dropPacks"}
    PROVE  /\ UNCHANGED <<nodes, records>>
           /\ \A d \in Compactors \ {c} : compact'[d] = compact[d]
           /\ \/ UNCHANGED chunkMan
              \/ compact'[c].pc \in {"putPacks", "dropChunks"}
           /\ compact[c].pc \in {"putPacks", "dropChunks"} =>
                 compact'[c].pc \in {"putPacks", "dropChunks", "dropPacks"}
           /\ \/ UNCHANGED packMan
              \/ compact'[c].pc \in {"dropChunks", "dropPacks"}
           /\ compact[c].pc \in {"dropChunks", "dropPacks"} =>
                 \/ compact'[c].pc \in {"dropChunks", "dropPacks"}
                 \/ UNCHANGED packMan /\ compact[c].pc = "dropPacks" /\ compact[c].oldPacks = {}
           /\ compact'[c].pc \in {"putChunks", "putPacks", "dropChunks", "dropPacks"} =>
                 \/ UNCHANGED packMan /\ compact'[c].oldPacks = DOMAIN packMan \ {Index}
                 \/ /\ compact[c].pc \in {"putChunks", "putPacks", "dropChunks", "dropPacks"}
                    /\ \/ /\ DOMAIN packMan' \subseteq DOMAIN packMan \cup {Index}
                          /\ compact'[c].oldPacks = compact[c].oldPacks
                       \/ \E k : /\ DOMAIN packMan' = DOMAIN packMan \ {k}
                                 /\ compact'[c].oldPacks = compact[c].oldPacks \ {k}
<1>1. /\ compact = [d \in Compactors |-> compact[d]] /\ CompactRunOK(compact[c])
      /\ UNCHANGED <<nodes, records>> /\ \A d \in Compactors \ {c} : compact'[d] = compact[d]
  BY CompactWrites DEF ViewsInv, Inv, TypeOK, CompactTypeOK, StartCompact
<1> USE DEF CompactAt, CompactRunOK, CompactFields
<1>2. CASE ListSnapshots(c) \/ ReadRepository(c)
  <2>1. /\ UNCHANGED store
        /\ compact[c].pc \in {"idle", "nodes", "nodeChunks", "list", "index", "packIndex"}
        /\ compact'[c].pc \in {"nodes", "nodeChunks", "list", "index", "packIndex", "relocate"}
    BY <1>1, <1>2 DEF ListSnapshots, ReadRepository, ReadNodes, ReadNodeChunks, ListChunkIndex,
       ReadChunkIndex, ReadPackIndex
  <2> QED BY <1>1, <2>1 DEF store
<1>3. CASE FailCompact(c)
  <2>1. UNCHANGED store /\ compact'[c].pc = "idle"
    BY <1>1, <1>3 DEF FailCompact, CompactIdle
  <2> QED BY <1>1, <1>3, <2>1 DEF store
<1>4. ASSUME NEW x \in Chunks, NEW k \in PackIds, NEW full \in BOOLEAN, Relocate(c, x, k, full)
      PROVE  /\ UNCHANGED <<chunkMan, packMan>>
             /\ compact[c].pc = "relocate" /\ compact'[c].pc = "relocate"
  BY <1>1, <1>4 DEF Relocate
<1>5. CASE \E x \in Chunks, k \in PackIds, full \in BOOLEAN : Relocate(c, x, k, full)
  BY <1>1, <1>4, <1>5
<1>6. CASE FlushRelocated(c)
  <2>1. /\ UNCHANGED <<chunkMan, packMan>>
        /\ compact[c].pc = "relocate" /\ compact'[c].pc \in {"idle", "listChunks"}
    BY <1>1, <1>6 DEF FlushRelocated, CompactIdle
  <2> QED BY <1>1, <2>1
<1>7. CASE ListOldChunks(c)
  <2>1. UNCHANGED store /\ compact[c].pc = "listChunks" /\ compact'[c].pc = "listPacks"
    BY <1>1, <1>7 DEF ListOldChunks
  <2> QED BY <1>1, <2>1 DEF store
<1>8. CASE ListOldPacks(c)
  <2>1. /\ UNCHANGED store /\ compact[c].pc = "listPacks" /\ compact'[c].pc = "putChunks"
        /\ compact'[c].oldPacks = DOMAIN packMan \ {Index}
    BY <1>1, <1>8 DEF ListOldPacks
  <2> QED BY <1>1, <2>1 DEF store
<1>9. CASE PutChunkIndex(c)
  <2>1. /\ UNCHANGED packMan /\ compact[c].pc = "putChunks" /\ compact'[c].pc = "putPacks"
        /\ compact'[c].oldPacks = compact[c].oldPacks
    BY <1>1, <1>9 DEF PutChunkIndex
  <2> QED BY <1>1, <2>1
<1>10. CASE PutPackIndex(c)
  <2>1. /\ UNCHANGED chunkMan /\ compact[c].pc = "putPacks" /\ compact'[c].pc = "dropChunks"
        /\ compact'[c].oldPacks = compact[c].oldPacks
        /\ \E object : packMan' = Put(packMan, Index, object)
    BY <1>1, <1>10 DEF PutPackIndex
  <2>2. DOMAIN packMan' = DOMAIN packMan \cup {Index}
    BY <2>1 DEF Put
  <2> QED BY <1>1, <2>1, <2>2
<1>11. CASE DropChunkManifest(c) \/ ChunkManifestsDropped(c)
  <2>1. /\ UNCHANGED packMan /\ compact[c].pc = "dropChunks"
        /\ compact'[c].oldPacks = compact[c].oldPacks
        /\ \/ compact'[c].pc = "dropChunks"
           \/ compact'[c].pc = "dropPacks" /\ UNCHANGED chunkMan
    BY <1>1, <1>11 DEF DropChunkManifest, ChunkManifestsDropped, store
  <2> QED BY <1>1, <2>1
<1>12. CASE DropPackManifest(c)
  <2>1. PICK k : /\ UNCHANGED chunkMan /\ compact[c].pc = "dropPacks"
                 /\ compact'[c].pc = "dropPacks"
                 /\ compact'[c].oldPacks = compact[c].oldPacks \ {k}
                 /\ packMan' = Delete(packMan, k)
    BY <1>1, <1>12 DEF DropPackManifest
  <2>2. DOMAIN packMan' = DOMAIN packMan \ {k}
    BY <2>1, DeleteFacts
  <2> QED BY <1>1, <2>1, <2>2
<1>13. CASE PackManifestsDropped(c)
  <2>1. /\ UNCHANGED store /\ compact[c].pc = "dropPacks" /\ compact'[c].pc = "dropDead"
        /\ compact[c].oldPacks = {}
    BY <1>1, <1>13 DEF PackManifestsDropped
  <2> QED BY <1>1, <2>1 DEF store
<1>14. CASE DropPacks(c)
  <2>1. /\ UNCHANGED <<chunkMan, packMan>> /\ compact[c].pc \in {"dropDead", "dropCandidates"}
        /\ compact'[c].pc \in {"dropDead", "dropCandidates", "idle"}
    BY <1>1, <1>14 DEF DropPacks, DropPack, DeadDropped, FinishCompact, CompactIdle, store
  <2> QED BY <1>1, <2>1
<1> QED BY <1>2, <1>3, <1>5, <1>6, <1>7, <1>8, <1>9, <1>10, <1>11, <1>12, <1>13, <1>14
    DEF StartCompact, CompactStep, RelocateChunks, ReplaceIndex

\* A compaction's step: two files may list one thing only from the first put to the last delete.
LEMMA CompactLens ==
    ASSUME ViewsInv, Inv', Disciplined, NEW c \in Compactors,
           StartCompact(c) \/ CompactStep(c), Unbroken, UNCHANGED <<backup, forget>>
    PROVE  LensInv'
<1>1. /\ FailCompact(c) => compact[c].pc \notin {"putPacks", "dropChunks", "dropPacks"}
      /\ LensInv /\ Inv /\ StoreTypeOK /\ StoreTypeOK'
  BY DEF Unbroken, ViewsInv, Inv, TypeOK
<1>2. RunningBackups = {} /\ \A d \in Compactors \ {c} : CompactAt(d, "idle")
  BY <1>1, CompactAlone
<1>3. \A d \in Compactors \ {c} : compact[d].pc = "idle" /\ compact'[d].pc = "idle"
  BY <1>1, <1>2, CompactRows DEF CompactAt
<1>4. NodesOwned'
  BY <1>1, CompactRows DEF LensInv, NodesOwned, ForgetAt
<1>5. ChunksApart'
  <2>1. SUFFICES ASSUME ~Replacing(c, {"putPacks", "dropChunks"})'
        PROVE  Apart([k \in DOMAIN chunkMan |-> DOMAIN chunkMan[k]])'
    BY DEF ChunksApart
  <2>2. CASE compact[c].pc \in {"putPacks", "dropChunks"}
    <3>1. compact'[c].pc = "dropPacks"
      BY <1>1, <2>1, <2>2, CompactRows DEF Replacing
    <3>2. DOMAIN chunkMan' \subseteq {Index}
      BY <3>1 DEF Inv, CompactInv, CompactRunInv, ReplaceInv
    <3> QED BY <3>2 DEF Apart
  <2>3. CASE compact[c].pc \notin {"putPacks", "dropChunks"}
    <3>1. UNCHANGED chunkMan
      BY <1>1, <2>1, CompactRows DEF Replacing
    <3>2. \A d \in Compactors : ~Replacing(d, {"putPacks", "dropChunks"})
      BY <1>3, <2>3 DEF Replacing
    <3>3. Apart([k \in DOMAIN chunkMan |-> DOMAIN chunkMan[k]])
      BY <1>1, <3>2 DEF LensInv, ChunksApart
    <3> QED BY <3>1, <3>3
  <2> QED BY <2>2, <2>3
<1>6. PacksApart'
  <2>1. SUFFICES ASSUME ~Replacing(c, {"dropChunks", "dropPacks"})'
        PROVE  Apart(packMan)'
    BY DEF PacksApart
  <2>2. UNCHANGED packMan
    BY <1>1, <2>1, CompactRows DEF Replacing
  <2>3. CASE compact[c].pc \in {"dropChunks", "dropPacks"}
    <3>1. compact[c].pc = "dropPacks" /\ compact[c].oldPacks = {}
      BY <1>1, <2>1, <2>3, CompactRows DEF Replacing
    <3>2. DOMAIN packMan \subseteq {Index}
      BY <1>1, <3>1 DEF LensInv, OldPacksListed, Replacing
    <3> QED BY <2>2, <3>2 DEF Apart
  <2>4. CASE compact[c].pc \notin {"dropChunks", "dropPacks"}
    <3>1. \A d \in Compactors : ~Replacing(d, {"dropChunks", "dropPacks"})
      BY <1>3, <2>4 DEF Replacing
    <3>2. Apart(packMan)
      BY <1>1, <3>1 DEF LensInv, PacksApart
    <3> QED BY <2>2, <3>2 DEF Apart
  <2> QED BY <2>3, <2>4
<1>7. OldPacksListed'
  <2>1. SUFFICES ASSUME compact'[c].pc \in {"putChunks", "putPacks", "dropChunks", "dropPacks"}
        PROVE  DOMAIN packMan' \subseteq compact'[c].oldPacks \cup {Index}
    BY <1>3 DEF OldPacksListed, Replacing
  <2>2. compact[c].pc \in {"putChunks", "putPacks", "dropChunks", "dropPacks"} =>
          DOMAIN packMan \subseteq compact[c].oldPacks \cup {Index}
    BY <1>1 DEF LensInv, OldPacksListed, Replacing
  <2> QED BY <1>1, <2>1, <2>2, CompactRows
<1>8. NewPacksUnlisted'
  <2>1. SUFFICES ASSUME NEW b \in Backups
        PROVE  (Range(backup'[b].new) \cup {backup'[b].open}) \cap PackIndex' = {}
    BY DEF NewPacksUnlisted
  <2>2. backup'[b] = BackupIdle
    BY <1>1, <1>2 DEF RunningBackups, Inv, BackupInv, BackupRunInv
  <2>3. BackupIdle.new = <<>> /\ BackupIdle.open = NoPack /\ Range(<<>>) = {}
    BY DEF BackupIdle, Range
  <2> QED BY <1>1, <2>2, <2>3, NoPackListed
<1> QED BY <1>4, <1>5, <1>6, <1>7, <1>8 DEF LensInv

-----------------------------------------------------------------------------
\* What a step of a forget does to the nodes of a snapshot that it has taken from the records.
LEMMA ForgetLens ==
    ASSUME ViewsInv, NEW f \in Forgetters, StartForget(f) \/ ForgetStep(f), Unbroken,
           UNCHANGED <<backup, compact>>
    PROVE  LensInv'
<1>1. /\ LensInv
      /\ FailForget(f) => ~ForgetAt(f, "nodes")
      /\ forget \in [Forgetters -> [pc : ForgetPCs, id : usedSnaps \cup {NoSnap}]]
  BY DEF ViewsInv, Inv, TypeOK, ForgetTypeOK, Unbroken
<1>2. UNCHANGED <<chunkMan, packMan>> /\ \A g \in Forgetters \ {f} : forget'[g] = forget[g]
  BY <1>1 DEF StartForget, ResolveForget, ForgetStep, DeleteRecord, DeleteNodes, DeleteNodeChunks,
     FailForget, store
<1>3. NodesOwned'
  <2>1. CASE StartForget(f) \/ DeleteNodeChunks(f) \/ FailForget(f)
    <3>1. UNCHANGED <<nodes, records>> /\ forget[f].pc # "nodes"
      BY <1>1, <2>1 DEF StartForget, ResolveForget, DeleteNodeChunks, FailForget, ForgetAt, store
    <3> QED BY <1>1, <1>2, <3>1 DEF LensInv, NodesOwned, ForgetAt
  <2>2. CASE DeleteRecord(f)
    <3>1. /\ UNCHANGED nodes /\ records' = records \ {forget[f].id} /\ forget[f].pc = "record"
          /\ forget'[f].pc = "nodes" /\ forget'[f].id = forget[f].id
      BY <1>1, <2>2 DEF DeleteRecord, ForgetAt
    <3> QED BY <1>1, <1>2, <3>1 DEF LensInv, NodesOwned, ForgetAt
  <2>3. CASE DeleteNodes(f)
    <3>1. UNCHANGED records /\ nodes' = Delete(nodes, forget[f].id)
      BY <2>3 DEF DeleteNodes
    <3>2. DOMAIN nodes' = DOMAIN nodes \ {forget[f].id}
      BY <3>1, DeleteFacts
    <3> QED BY <1>1, <1>2, <3>1, <3>2 DEF LensInv, NodesOwned, ForgetAt
  <2> QED BY <2>1, <2>2, <2>3 DEF ForgetStep
<1>4. ChunksApart' /\ PacksApart' /\ OldPacksListed' /\ NewPacksUnlisted'
  BY <1>1, <1>2 DEF LensInv, ChunksApart, PacksApart, OldPacksListed, NewPacksUnlisted, Apart,
     Replacing, PackIndex
<1> QED BY <1>3, <1>4 DEF LensInv

\* LensInv is inductive beside the others, when no command is broken off.
LEMMA NextLens ==
    ASSUME Disciplined, LoneBackups
    PROVE  ViewsInv /\ [Next /\ Unbroken]_vars => ViewsInv'
<1> SUFFICES ASSUME ViewsInv, [Next /\ Unbroken]_vars PROVE ViewsInv'
  OBVIOUS
<1>1. Inv' /\ DedupInv'
  BY NextInv, NextDedup DEF ViewsInv
<1>2. CASE NextBackup /\ Unbroken /\ UNCHANGED <<compact, forget>>
  BY <1>1, <1>2, BackupLens DEF NextBackup, ViewsInv
<1>3. CASE NextCompact /\ Unbroken /\ UNCHANGED <<backup, forget>>
  BY <1>1, <1>3, CompactLens DEF NextCompact, ViewsInv
<1>4. CASE NextForget /\ Unbroken /\ UNCHANGED <<backup, compact>>
  BY <1>1, <1>4, ForgetLens DEF NextForget, ViewsInv
<1>5. CASE UNCHANGED vars
  <2>1. UNCHANGED <<nodes, chunkMan, packMan, records, backup, compact, forget>>
    BY <1>5 DEF vars, store
  <2>2. LensInv
    BY DEF ViewsInv
  <2>3. NodesOwned' /\ ChunksApart' /\ PacksApart' /\ OldPacksListed' /\ NewPacksUnlisted'
    BY <2>1, <2>2 DEF LensInv, NodesOwned, ChunksApart, PacksApart, OldPacksListed,
       NewPacksUnlisted, Apart, Replacing, PackIndex, ForgetAt
  <2> QED BY <1>1, <2>3 DEF ViewsInv, LensInv
<1> QED BY <1>2, <1>3, <1>4, <1>5 DEF Next

\* Why the views count what they say: no two files list one chunk, or one pack, except while a
\* compaction replaces them, in every run in which no command ends between its manifests
\* (Lens.Unbroken), under a schedule that keeps backups from each other too.
THEOREM ManifestsApart ==
    ASSUME Disciplined, LoneBackups
    PROVE  UnbrokenSpec => []LensInv
<1>1. Init => ViewsInv
  BY InitInv, InitDedup, InitLens DEF ViewsInv
<1>2. ViewsInv => LensInv
  BY DEF ViewsInv
<1> QED BY <1>1, <1>2, NextLens, PTL DEF UnbrokenSpec

-----------------------------------------------------------------------------
\* A view of files that have nothing in common counts each thing in them once.
LEMMA RowsCounted ==
    ASSUME NEW rows, NEW things, NEW f \in [rows -> things],
           \A r, s \in rows : f[r] = f[s] => r = s,
           \A x \in things : \E r \in rows : f[r] = x,
           IsFiniteSet(things)
    PROVE  Cardinality(rows) = Cardinality(things)
<1>1. f \in Bijection(rows, things)
  BY DEF Bijection, Injection, Surjection, IsInjective
<1>2. ExistsBijection(rows, things)
  BY <1>1 DEF ExistsBijection
<1>3. ExistsBijection(things, rows)
  BY <1>2, Fun_ExistsBijSymmetric
<1> QED BY <1>3, FS_Bijection

\* The rows of the chunks view are as many as the chunks in the index.
LEMMA ChunkRows ==
    ASSUME Apart([k \in DOMAIN chunkMan |-> DOMAIN chunkMan[k]]), IsFiniteSet(Indexed)
    PROVE  Cardinality(ChunksView) = Cardinality(Indexed)
<1> DEFINE f == [r \in ChunksView |-> r.hash]
<1>1. \A r \in ChunksView : /\ r.file \in DOMAIN chunkMan /\ r.hash \in DOMAIN chunkMan[r.file]
                            /\ r = [file |-> r.file, hash |-> r.hash]
  BY DEF ChunksView
<1>2. \A k \in DOMAIN chunkMan : \A x \in DOMAIN chunkMan[k] : [file |-> k, hash |-> x] \in ChunksView
  BY DEF ChunksView
<1>3. f \in [ChunksView -> Indexed]
  BY <1>1 DEF Indexed
<1>4. ASSUME NEW r \in ChunksView, NEW s \in ChunksView, r.hash = s.hash PROVE r = s
  <2>1. r.file = s.file
    BY <1>1, <1>4 DEF Apart
  <2> QED BY <1>1, <1>4, <2>1
<1>5. ASSUME NEW x \in Indexed PROVE \E r \in ChunksView : f[r] = x
  <2>1. PICK k \in DOMAIN chunkMan : x \in DOMAIN chunkMan[k]
    BY DEF Indexed
  <2>2. [file |-> k, hash |-> x] \in ChunksView
    BY <1>2, <2>1
  <2> QED BY <2>2
<1>6. \A r, s \in ChunksView : f[r] = f[s] => r = s
  BY <1>4
<1> HIDE DEF f
<1> QED BY <1>3, <1>5, <1>6, RowsCounted

\* The rows of the packs view are as many as the packs in the index.
LEMMA PackRows ==
    ASSUME Apart(packMan), IsFiniteSet(PackIndex)
    PROVE  Cardinality(PacksView) = Cardinality(PackIndex)
<1> DEFINE f == [r \in PacksView |-> r.pack]
<1>1. \A r \in PacksView : /\ r.file \in DOMAIN packMan /\ r.pack \in packMan[r.file]
                           /\ r = [file |-> r.file, pack |-> r.pack]
  BY DEF PacksView
<1>2. \A k \in DOMAIN packMan : \A x \in packMan[k] : [file |-> k, pack |-> x] \in PacksView
  BY DEF PacksView
<1>3. f \in [PacksView -> PackIndex]
  BY <1>1 DEF PackIndex
<1>4. ASSUME NEW r \in PacksView, NEW s \in PacksView, r.pack = s.pack PROVE r = s
  <2>1. r.file = s.file
    BY <1>1, <1>4 DEF Apart
  <2> QED BY <1>1, <1>4, <2>1
<1>5. ASSUME NEW x \in PackIndex PROVE \E r \in PacksView : f[r] = x
  <2>1. PICK k \in DOMAIN packMan : x \in packMan[k]
    BY DEF PackIndex
  <2>2. [file |-> k, pack |-> x] \in PacksView
    BY <1>2, <2>1
  <2> QED BY <2>2
<1>6. \A r, s \in PacksView : f[r] = f[s] => r = s
  BY <1>4
<1> HIDE DEF f
<1> QED BY <1>3, <1>5, <1>6, RowsCounted

\* zeaback query: between the commands, if none was broken off, a chunk of the index is one row of
\* the chunks view and a pack one of the packs view, so that count(*) is the storage there is
\* (how-it-works.md:246), and the nodes view is about snapshots that can be restored.
THEOREM ViewsCountRight ==
    ASSUME Disciplined, LoneBackups, IsFiniteSet(Chunks), IsFiniteSet(PackIds)
    PROVE  UnbrokenSpec => []ViewsCount
<1>1. ViewsInv => ViewsCount
  <2> SUFFICES ASSUME ViewsInv, AtRest PROVE ViewsCount
    BY DEF ViewsCount
  <2>1. LensInv /\ StoreTypeOK
    BY DEF ViewsInv, Inv, TypeOK
  <2>2. /\ \A b \in Backups : backup[b].pc = "idle"
        /\ \A c \in Compactors : compact[c].pc = "idle"
        /\ \A f \in Forgetters : forget[f].pc = "idle"
    BY DEF AtRest, RunningBackups, RunningCompactions, RunningForgets, BackupAt, CompactAt, ForgetAt
  <2>3. Apart([k \in DOMAIN chunkMan |-> DOMAIN chunkMan[k]]) /\ Apart(packMan)
    BY <2>1, <2>2 DEF LensInv, ChunksApart, PacksApart, Replacing
  <2>4. Cardinality(ChunksView) = Cardinality(DOMAIN ChunkIndex)
    <3>1. Indexed \subseteq Chunks
      BY <2>1 DEF Indexed, StoreTypeOK, IsPartial2, IsPartial
    <3> QED BY <2>1, <2>3, <3>1, FS_Subset, ChunkRows, MergedKeys
  <2>5. Cardinality(PacksView) = Cardinality(PackIndex)
    <3>1. PackIndex \subseteq PackIds
      BY <2>1, ListedPacksUsed DEF StoreTypeOK
    <3> QED BY <2>3, <3>1, FS_Subset, PackRows
  <2>6. {row.snap : row \in NodesView} \subseteq records
    <3>1. \A row \in NodesView : row.snap \in DOMAIN nodes
      BY DEF NodesView
    <3>2. DOMAIN nodes \subseteq records
      BY <2>1, <2>2 DEF LensInv, NodesOwned, Writing, ForgetAt
    <3> QED BY <3>1, <3>2
  <2> QED BY <2>4, <2>5, <2>6 DEF ViewsCount
<1>2. Init => ViewsInv
  BY InitInv, InitDedup, InitLens DEF ViewsInv
<1> QED BY <1>1, <1>2, NextLens, PTL DEF UnbrokenSpec
=============================================================================
