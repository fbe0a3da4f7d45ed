--------------------------- MODULE RepositoryTypes ---------------------------
(***************************************************************************)
(* Type correctness of Repository, for any number of processes, chunks,    *)
(* packs and snapshots and for any schedule.                               *)
(***************************************************************************)
EXTENDS RepositoryInv, WellFoundedInduction, TLAPS

-----------------------------------------------------------------------------
(* Facts about the operators of ObjectStore, on which all the proofs rest. *)

\* The empty prefix is a partial function of any kind.
LEMMA EmptyPartial ==
    ASSUME NEW S, NEW T
    PROVE  IsPartial(<<>>, S, T)
BY DEF IsPartial

\* The same for a prefix of manifests.
LEMMA EmptyPartial2 ==
    ASSUME NEW S, NEW D, NEW T
    PROVE  IsPartial2(<<>>, S, D, T)
BY DEF IsPartial2

\* A prefix stays well-typed when the sets of keys and objects grow.
LEMMA WidenPartial ==
    ASSUME NEW f, NEW S, NEW T, NEW S2, NEW T2,
           IsPartial(f, S, T), S \subseteq S2, T \subseteq T2
    PROVE  IsPartial(f, S2, T2)
BY DEF IsPartial

\* The same for a prefix of manifests.
LEMMA WidenPartial2 ==
    ASSUME NEW f, NEW S, NEW D, NEW T, NEW S2, NEW T2,
           IsPartial2(f, S, D, T), S \subseteq S2, T \subseteq T2
    PROVE  IsPartial2(f, S2, D, T2)
BY WidenPartial DEF IsPartial2

\* What Put and Delete do to the keys and objects of a prefix.
LEMMA PutFacts ==
    ASSUME NEW f, NEW k, NEW v
    PROVE  /\ DOMAIN Put(f, k, v) = DOMAIN f \cup {k}
           /\ Put(f, k, v)[k] = v
           /\ \A x \in DOMAIN f : x # k => Put(f, k, v)[x] = f[x]
BY DEF Put

\* Delete takes out one key and leaves the other objects alone.
LEMMA DeleteFacts ==
    ASSUME NEW f, NEW k
    PROVE  /\ DOMAIN Delete(f, k) = DOMAIN f \ {k}
           /\ \A x \in DOMAIN f : x # k => Delete(f, k)[x] = f[x]
BY DEF Delete

\* Put and Delete keep a prefix well-typed.
LEMMA PutPartial ==
    ASSUME NEW f, NEW S, NEW T, NEW k \in S, NEW v \in T, IsPartial(f, S, T)
    PROVE  IsPartial(Put(f, k, v), S, T)
BY DEF IsPartial, Put

\* The same for a prefix of manifests.
LEMMA PutPartial2 ==
    ASSUME NEW f, NEW S, NEW D, NEW T, NEW k \in S, NEW v,
           IsPartial2(f, S, D, T), IsPartial(v, D, T)
    PROVE  IsPartial2(Put(f, k, v), S, D, T)
BY DEF IsPartial2, Put

\* Deleting a key keeps a prefix well-typed.
LEMMA DeletePartial ==
    ASSUME NEW f, NEW S, NEW T, NEW k, IsPartial(f, S, T)
    PROVE  IsPartial(Delete(f, k), S, T)
BY DEF IsPartial, Delete

\* The same for a prefix of manifests.
LEMMA DeletePartial2 ==
    ASSUME NEW f, NEW S, NEW D, NEW T, NEW k, IsPartial2(f, S, D, T)
    PROVE  IsPartial2(Delete(f, k), S, D, T)
BY DEF IsPartial2, Delete

-----------------------------------------------------------------------------
\* The first and the last key of a listing are keys of it.
LEMMA MinIn ==
    ASSUME NEW S \in SUBSET Nat, S # {}
    PROVE  Min(S) \in S /\ \A y \in S : Min(S) =< y
<1> DEFINE Less == OpToRel(<, Nat)
<1>1. \A y, z \in Nat : y < z => <<y, z>> \in Less
  BY DEF OpToRel
<1>2. IsWellFoundedOn(Less, Nat)
  BY NatLessThanWellFounded
<1> HIDE DEF Less
<1>3. \E x \in S : \A y \in S : ~(<<y, x>> \in Less)
  BY <1>2, WFMin
<1>4. PICK x \in S : \A y \in S : ~(<<y, x>> \in Less)
  BY <1>3
<1>5. \A y \in S : x =< y
  <2>1. SUFFICES ASSUME NEW y \in S PROVE x =< y
    OBVIOUS
  <2>2. x \in Nat /\ y \in Nat
    OBVIOUS
  <2>3. <<y, x>> \notin Less
    BY <1>4
  <2>4. ~(y < x)
    BY <1>1, <2>2, <2>3
  <2> QED BY <2>2, <2>4
<1> QED BY <1>5 DEF Min

\* Max counts down from a bound: it is Min of the distances to n.
LEMMA MaxIn ==
    ASSUME NEW n \in Nat, NEW S \in SUBSET (0 .. n), S # {}
    PROVE  Max(S) \in S /\ \A y \in S : Max(S) >= y
<1> DEFINE R == {y \in Nat : \E x \in S : y = n - x}
<1>1. R # {}
  <2>1. PICK x \in S : TRUE
    OBVIOUS
  <2>2. n - x \in R
    BY <2>1
  <2> QED BY <2>2
<1>2. Min(R) \in R /\ \A y \in R : Min(R) =< y
  BY <1>1, MinIn
<1>3. PICK z \in S : Min(R) = n - z
  BY <1>2
<1>4. \A y \in S : z >= y
  <2>1. SUFFICES ASSUME NEW y \in S PROVE z >= y
    OBVIOUS
  <2>2. n - y \in R
    OBVIOUS
  <2>3. n - z =< n - y
    BY <1>2, <1>3, <2>2
  <2> QED BY <2>3
<1> QED BY <1>4 DEF Max

\* The chunks of a sequence are the first and those of the rest.
LEMMA HeadTailSet ==
    ASSUME NEW S, NEW s \in Seq(S), s # <<>>
    PROVE  ToSet(s) = {Head(s)} \cup ToSet(Tail(s))
<1>1. Len(s) \in Nat /\ Len(s) > 0 /\ DOMAIN s = 1 .. Len(s) /\ Head(s) = s[1]
  OBVIOUS
<1>2. /\ Tail(s) \in Seq(S) /\ Len(Tail(s)) = Len(s) - 1
      /\ \A i \in 1 .. Len(s) - 1 : Tail(s)[i] = s[i + 1]
  OBVIOUS
<1>3. DOMAIN Tail(s) = 1 .. Len(s) - 1
  BY <1>1, <1>2
<1>4. ASSUME NEW i \in 2 .. Len(s) PROVE \E j \in 1 .. Len(s) - 1 : s[i] = Tail(s)[j]
  <2>1. i - 1 \in 1 .. Len(s) - 1 /\ s[(i - 1) + 1] = s[i]
    BY <1>1
  <2> QED BY <1>2, <2>1
<1>5. ASSUME NEW j \in 1 .. Len(s) - 1 PROVE \E i \in 1 .. Len(s) : Tail(s)[j] = s[i]
  <2>1. j + 1 \in 1 .. Len(s)
    BY <1>1
  <2> QED BY <1>2, <2>1
<1>6. \A x \in ToSet(s) : x = Head(s) \/ x \in ToSet(Tail(s))
  <2>1. SUFFICES ASSUME NEW i \in 1 .. Len(s) PROVE s[i] = Head(s) \/ s[i] \in ToSet(Tail(s))
    BY <1>1 DEF ToSet
  <2>2. CASE i = 1
    BY <1>1, <2>2
  <2>3. CASE i \in 2 .. Len(s)
    BY <1>3, <1>4, <2>3 DEF ToSet
  <2> QED BY <1>1, <2>2, <2>3
<1>7. \A x \in ToSet(Tail(s)) : x \in ToSet(s)
  BY <1>1, <1>3, <1>5 DEF ToSet
<1>8. Head(s) \in ToSet(s)
  BY <1>1 DEF ToSet
<1> QED BY <1>6, <1>7, <1>8

-----------------------------------------------------------------------------
\* The merge of manifests has an entry for exactly the chunks that some manifest
\* has one for, and it is the entry of one of them.
LEMMA MergeFacts ==
    ASSUME NEW n \in Nat, NEW m, DOMAIN m \subseteq 0 .. n
    PROVE  /\ DOMAIN MergeManifests(m) = UNION {DOMAIN m[k] : k \in DOMAIN m}
           /\ \A c \in DOMAIN MergeManifests(m) :
                \E k \in DOMAIN m : c \in DOMAIN m[k] /\ MergeManifests(m)[c] = m[k][c]
<1> DEFINE Holders(c) == {k \in DOMAIN m : c \in DOMAIN m[k]}
           all == UNION {DOMAIN m[k] : k \in DOMAIN m}
<1>1. MergeManifests(m) = [c \in all |-> m[Max(Holders(c))][c]]
  BY DEF MergeManifests
<1>2. ASSUME NEW c \in all PROVE Max(Holders(c)) \in Holders(c)
  <2>1. Holders(c) # {} /\ Holders(c) \in SUBSET (0 .. n)
    OBVIOUS
  <2> HIDE DEF Holders
  <2> QED BY <2>1, MaxIn
<1>3. ASSUME NEW c \in all
      PROVE  \E k \in DOMAIN m : c \in DOMAIN m[k] /\ MergeManifests(m)[c] = m[k][c]
  <2> DEFINE k == Max(Holders(c))
  <2>1. k \in DOMAIN m /\ c \in DOMAIN m[k]
    BY <1>2
  <2>2. MergeManifests(m)[c] = m[k][c]
    BY <1>1
  <2> HIDE DEF k
  <2> QED BY <2>1, <2>2
<1>4. DOMAIN MergeManifests(m) = all
  BY <1>1
<1> HIDE DEF Holders, all
<1>5. \A c \in DOMAIN MergeManifests(m) :
         \E k \in DOMAIN m : c \in DOMAIN m[k] /\ MergeManifests(m)[c] = m[k][c]
  BY <1>3, <1>4
<1> USE DEF all
<1> QED BY <1>4, <1>5

\* Manifests are read in the order of their keys, which are numbers up to Index.
LEMMA ManifestKeysBound ==
    ASSUME StoreTypeOK
    PROVE  DOMAIN chunkMan \subseteq 0 .. Index /\ records \subseteq 0 .. Index
BY KeysAssumption DEF StoreTypeOK, IsPartial2

\* The merge of the manifests listed is typed like a manifest.
LEMMA MergeListedType ==
    ASSUME StoreTypeOK
    PROVE  IsPartial(MergeManifests(ListedManifests), Chunks, usedPacks)
<1> DEFINE m == ListedManifests
           merged == MergeManifests(m)
<1>1. DOMAIN m \subseteq 0 .. Index
  BY ManifestKeysBound DEF ListedManifests, Restrict
<1>2. \A k \in DOMAIN m : IsPartial(m[k], Chunks, usedPacks)
  BY DEF StoreTypeOK, IsPartial2, ListedManifests, Restrict
<1>3. merged = [c \in DOMAIN merged |-> merged[c]]
  BY DEF MergeManifests
<1>4. DOMAIN merged = UNION {DOMAIN m[k] : k \in DOMAIN m}
  BY <1>1, MergeFacts, KeysAssumption
<1>5. \A c \in DOMAIN merged :
         \E k \in DOMAIN m : c \in DOMAIN m[k] /\ merged[c] = m[k][c]
  BY <1>1, MergeFacts, KeysAssumption
<1> HIDE DEF m, merged
<1>6. DOMAIN merged \subseteq Chunks
  BY <1>2, <1>4 DEF IsPartial
<1>7. \A c \in DOMAIN merged : merged[c] \in usedPacks
  BY <1>2, <1>5 DEF IsPartial
<1>8. IsPartial(merged, Chunks, usedPacks)
  BY <1>3, <1>6, <1>7 DEF IsPartial
<1> QED BY <1>8 DEF m, merged

-----------------------------------------------------------------------------
(* The types. *)

\* A run of backup that holds nothing is well-typed.
LEMMA BackupIdleOK == BackupRunOK(BackupIdle)
<1>1. DOMAIN BackupIdle = BackupFields
  BY DEF BackupIdle, BackupFields
<1>2. /\ BackupIdle.pc = "idle" /\ BackupIdle.parentID = NoSnap /\ BackupIdle.parent = <<>>
      /\ BackupIdle.live = {} /\ BackupIdle.tree = <<>> /\ BackupIdle.rest = <<>>
      /\ BackupIdle.new = <<>> /\ BackupIdle.open = NoPack /\ BackupIdle.id = NoSnap
  BY DEF BackupIdle
<1>3. <<>> \in Seq(Chunks)
  OBVIOUS
<1> QED BY <1>1, <1>2, <1>3, EmptyPartial DEF BackupRunOK, BackupPCs

\* So is a compaction that holds nothing.
LEMMA CompactIdleOK == CompactRunOK(CompactIdle)
<1>1. DOMAIN CompactIdle = CompactFields
  BY DEF CompactIdle, CompactFields
<1>2. /\ CompactIdle.pc = "idle" /\ CompactIdle.unread = {} /\ CompactIdle.live = {}
      /\ CompactIdle.idx = <<>> /\ CompactIdle.packIdx = {} /\ CompactIdle.moved = <<>>
      /\ CompactIdle.open = NoPack /\ CompactIdle.oldChunks = {}
      /\ CompactIdle.oldPacks = {} /\ CompactIdle.doomed = {}
  BY DEF CompactIdle
<1> QED BY <1>1, <1>2, EmptyPartial DEF CompactRunOK, CompactPCs

\* The initial state is well-typed.
LEMMA InitTypeOK == Init => TypeOK
<1> SUFFICES ASSUME Init PROVE TypeOK
  OBVIOUS
<1>1. StoreTypeOK
  BY EmptyPartial, EmptyPartial2 DEF Init, InitStore, StoreTypeOK
<1>2. BackupTypeOK
  BY BackupIdleOK DEF Init, InitBackup, BackupTypeOK
<1>3. CompactTypeOK
  BY CompactIdleOK DEF Init, InitCompact, CompactTypeOK
<1>4. ForgetTypeOK
  BY DEF Init, InitForget, ForgetTypeOK, ForgetIdle, ForgetPCs
<1> QED BY <1>1, <1>2, <1>3, <1>4 DEF TypeOK

-----------------------------------------------------------------------------
\* What the processes hold stays well-typed when identifiers are drawn.
Drawing == usedPacks \subseteq usedPacks' /\ usedSnaps \subseteq usedSnaps'

\* A step of run b leaves the other runs well-typed, as identifiers are only added.
LEMMA BackupFrame ==
    ASSUME BackupTypeOK, Drawing, NEW b \in Backups, BackupRunOK(backup[b])',
           backup' = [backup EXCEPT ![b] = backup'[b]]
    PROVE  BackupTypeOK'
<1>1. \A d \in Backups : BackupRunOK(backup[d])'
  <2>1. SUFFICES ASSUME NEW d \in Backups, d # b PROVE BackupRunOK(backup[d])'
    OBVIOUS
  <2>2. BackupRunOK(backup[d]) /\ backup'[d] = backup[d]
    BY <2>1 DEF BackupTypeOK
  <2>3. IsPartial(backup[d].new, Chunks, usedPacks')
    BY <2>2, WidenPartial DEF BackupRunOK, Drawing
  <2> QED BY <2>2, <2>3 DEF BackupRunOK, Drawing
<1> QED BY <1>1 DEF BackupTypeOK

\* Steps of other commands leave the runs of backup well-typed.
LEMMA BackupUnchanged ==
    ASSUME BackupTypeOK, Drawing, UNCHANGED backup
    PROVE  BackupTypeOK'
<1>1. \A b \in Backups : BackupRunOK(backup[b])'
  <2>1. SUFFICES ASSUME NEW b \in Backups PROVE BackupRunOK(backup[b])'
    OBVIOUS
  <2>2. BackupRunOK(backup[b])
    BY DEF BackupTypeOK
  <2>3. IsPartial(backup[b].new, Chunks, usedPacks')
    BY <2>2, WidenPartial DEF BackupRunOK, Drawing
  <2> QED BY <2>2, <2>3 DEF BackupRunOK, Drawing
<1> QED BY <1>1 DEF BackupTypeOK

\* Steps of other commands leave the runs of compaction well-typed.
LEMMA CompactUnchanged ==
    ASSUME CompactTypeOK, Drawing, UNCHANGED compact
    PROVE  CompactTypeOK'
<1>1. \A c \in Compactors : CompactRunOK(compact[c])'
  <2>1. SUFFICES ASSUME NEW c \in Compactors PROVE CompactRunOK(compact[c])'
    OBVIOUS
  <2>2. CompactRunOK(compact[c])
    BY DEF CompactTypeOK
  <2>3. /\ IsPartial(compact[c].idx, Chunks, usedPacks')
        /\ IsPartial(compact[c].moved, Chunks, usedPacks')
    BY <2>2, WidenPartial DEF CompactRunOK, Drawing
  <2> QED BY <2>2, <2>3 DEF CompactRunOK, Drawing
<1> QED BY <1>1 DEF CompactTypeOK

\* A step of run c leaves the other compactions well-typed.
LEMMA CompactFrame ==
    ASSUME CompactTypeOK, Drawing, NEW c \in Compactors, CompactRunOK(compact[c])',
           compact' = [compact EXCEPT ![c] = compact'[c]]
    PROVE  CompactTypeOK'
<1>1. \A d \in Compactors : CompactRunOK(compact[d])'
  <2>1. SUFFICES ASSUME NEW d \in Compactors, d # c PROVE CompactRunOK(compact[d])'
    OBVIOUS
  <2>2. CompactRunOK(compact[d]) /\ compact'[d] = compact[d]
    BY <2>1 DEF CompactTypeOK
  <2>3. /\ IsPartial(compact[d].idx, Chunks, usedPacks')
        /\ IsPartial(compact[d].moved, Chunks, usedPacks')
    BY <2>2, WidenPartial DEF CompactRunOK, Drawing
  <2> QED BY <2>2, <2>3 DEF CompactRunOK, Drawing
<1> QED BY <1>1 DEF CompactTypeOK

\* Steps of other commands leave the forgets well-typed.
LEMMA ForgetUnchanged ==
    ASSUME ForgetTypeOK, Drawing, UNCHANGED forget
    PROVE  ForgetTypeOK'
BY DEF ForgetTypeOK, Drawing

-----------------------------------------------------------------------------
\* The steps of a backup that only read.
LEMMA BackupReadType ==
    ASSUME TypeOK, NEW b \in Backups, LoadParent(b) \/ ReadCatalog(b) \/ FailBackup(b)
    PROVE  BackupTypeOK'
<1> DEFINE r == backup[b]
<1>0. BackupTypeOK /\ StoreTypeOK
  BY DEF TypeOK
<1>2. CASE LoadParent(b)
  <2>1. Max(records) \in usedSnaps \cup {NoSnap} \/ records = {}
    <3>1. records \subseteq 0 .. Index
      BY <1>0, KeysAssumption DEF StoreTypeOK
    <3> QED BY <1>0, <3>1, KeysAssumption, MaxIn DEF StoreTypeOK
  <2>2. CASE records = {}
    <3>1. backup' = [backup EXCEPT ![b].pc = "list"] /\ UNCHANGED store
      BY <1>2, <2>2 DEF LoadParent
    <3> QED BY <1>0, <3>1, ZenonT(40) DEF BackupTypeOK, BackupRunOK, BackupPCs, BackupFields, store
  <2>3. CASE records # {}
    <3> DEFINE s == Max(records)
    <3>1. backup' = [backup EXCEPT ![b].pc = "nodes", ![b].parentID = s] /\ UNCHANGED store
      BY <1>2, <2>3 DEF LoadParent
    <3>2. s \in usedSnaps \cup {NoSnap}
      BY <2>1, <2>3
    <3> HIDE DEF s
    <3> QED BY <1>0, <3>1, <3>2, ZenonT(40) DEF BackupTypeOK, BackupRunOK, BackupPCs, BackupFields, store
  <2> QED BY <2>2, <2>3
<1>3. CASE LoadParentNodes(b)
  <2> DEFINE s == r.parentID
             pn == [p \in DOMAIN nodes[s] |-> [hash |-> nodes[s][p], chunks |-> <<>>]]
  <2>1. IsPartial(pn, Paths, Node)
    BY <1>0, <1>3 DEF LoadParentNodes, StoreTypeOK, IsPartial2, IsPartial, Node
  <2>2. backup' = [backup EXCEPT ![b].pc = "nodeChunks", ![b].parent = pn] /\ UNCHANGED store
    BY <1>3 DEF LoadParentNodes
  <2> HIDE DEF pn
  <2> QED BY <1>0, <2>1, <2>2 DEF BackupTypeOK, BackupRunOK, BackupPCs, BackupFields, store
<1>4. CASE LoadParentChunks(b)
  <2> DEFINE lists == LoadedNodeChunks(r.parentID)
             pn == [p \in DOMAIN r.parent |->
                      [hash |-> r.parent[p].hash, chunks |-> ChunkList(lists, p)]]
  <2>1. \A p : ChunkList(lists, p) \in Seq(Chunks)
    BY <1>0 DEF ChunkList, LoadedNodeChunks, StoreTypeOK, IsPartial2, IsPartial
  <2>2. IsPartial(r.parent, Paths, Node)
    BY <1>0 DEF BackupTypeOK, BackupRunOK
  <2>3. IsPartial(pn, Paths, Node)
    BY <2>1, <2>2 DEF IsPartial, Node
  <2>4. backup' = [backup EXCEPT ![b].pc = "list", ![b].parent = pn] /\ UNCHANGED store
    BY <1>4 DEF LoadParentChunks
  <2> HIDE DEF pn
  <2> QED BY <1>0, <2>3, <2>4 DEF BackupTypeOK, BackupRunOK, BackupPCs, BackupFields, store
<1>5. CASE ListLiveIndex(b)
  <2> DEFINE listed == DOMAIN MergeManifests(ListedManifests)
  <2>1. listed \subseteq Chunks
    BY <1>0 DEF MergeManifests, ListedManifests, Restrict, StoreTypeOK, IsPartial2, IsPartial
  <2>2. PICK pc \in {"index", "walk"} :
          backup' = [backup EXCEPT ![b].pc = pc, ![b].live = listed] /\ UNCHANGED store
    BY <1>5 DEF ListLiveIndex
  <2> HIDE DEF listed
  <2> QED BY <1>0, <2>1, <2>2 DEF BackupTypeOK, BackupRunOK, BackupPCs, BackupFields, store
<1>6. CASE ReadLiveIndex(b)
  <2> DEFINE read == DOMAIN chunkMan[Index]
  <2>1. read \subseteq Chunks
    BY <1>0, <1>6 DEF ReadLiveIndex, IndexListed, StoreTypeOK, IsPartial2, IsPartial
  <2>2. backup' = [backup EXCEPT ![b].pc = "walk", ![b].live = @ \cup read] /\ UNCHANGED store
    BY <1>6 DEF ReadLiveIndex
  <2> HIDE DEF read
  <2> QED BY <1>0, <2>1, <2>2 DEF BackupTypeOK, BackupRunOK, BackupPCs, BackupFields, store
<1>7. CASE FailBackup(b)
  <2>1. BackupRunOK(BackupIdle)' /\ backup' = [backup EXCEPT ![b] = BackupIdle] /\ Drawing
    BY <1>7, BackupIdleOK DEF FailBackup, store, BackupRunOK, Drawing
  <2> QED BY <1>0, <2>1, BackupFrame DEF BackupTypeOK
<1> QED BY <1>2, <1>3, <1>4, <1>5, <1>6, <1>7 DEF ReadCatalog

\* The steps of the walk over the source.
LEMMA CarryFileType ==
    ASSUME TypeOK, NEW b \in Backups, NEW p \in Paths, CarryFile(b, p)
    PROVE  BackupTypeOK'
<1> DEFINE tree == Put(backup[b].tree, p, backup[b].parent[p])
<1>1. BackupTypeOK
  BY DEF TypeOK
<1>2. IsPartial(backup[b].parent, Paths, Node) /\ IsPartial(backup[b].tree, Paths, Node)
  BY <1>1 DEF BackupTypeOK, BackupRunOK
<1>3. backup[b].parent[p] \in Node
  BY <1>2 DEF CarryFile, IsPartial
<1>4. IsPartial(tree, Paths, Node)
  BY <1>2, <1>3, PutPartial
<1>5. backup' = [backup EXCEPT ![b].tree = tree] /\ UNCHANGED store
  BY DEF CarryFile
<1> HIDE DEF tree
<1> QED BY <1>1, <1>4, <1>5 DEF BackupTypeOK, BackupRunOK, BackupFields, store

\* A file read gets a node with its content.
LEMMA OpenFileType ==
    ASSUME TypeOK, NEW b \in Backups, NEW p \in Paths, NEW x \in Contents, OpenFile(b, p, x)
    PROVE  BackupTypeOK'
<1> DEFINE tree == Put(backup[b].tree, p, [hash |-> x, chunks |-> x])
<1>1. BackupTypeOK
  BY DEF TypeOK
<1>2. x \in Seq(Chunks)
  BY ContentsAssumption
<1>3. [hash |-> x, chunks |-> x] \in Node
  BY <1>2 DEF Node
<1>4. IsPartial(backup[b].tree, Paths, Node)
  BY <1>1 DEF BackupTypeOK, BackupRunOK
<1>5. IsPartial(tree, Paths, Node)
  BY <1>3, <1>4, PutPartial
<1>6. backup' = [backup EXCEPT ![b].tree = tree, ![b].rest = x] /\ UNCHANGED store
  BY DEF OpenFile
<1> HIDE DEF tree
<1> QED BY <1>1, <1>2, <1>5, <1>6 DEF BackupTypeOK, BackupRunOK, BackupFields, store

\* The chunk cut is a chunk, and so is each of those left to cut.
LEMMA RestType ==
    ASSUME TypeOK, NEW b \in Backups, Cutting(b)
    PROVE  Head(backup[b].rest) \in Chunks /\ Tail(backup[b].rest) \in Seq(Chunks)
<1>1. backup[b].rest \in Seq(Chunks) /\ backup[b].rest # <<>>
  BY DEF TypeOK, BackupTypeOK, BackupRunOK, Cutting
<1> QED BY <1>1

\* A known chunk is skipped.
LEMMA ReuseChunkType ==
    ASSUME TypeOK, NEW b \in Backups, ReuseChunk(b)
    PROVE  BackupTypeOK'
<1> DEFINE rest == Tail(backup[b].rest)
<1>1. BackupTypeOK
  BY DEF TypeOK
<1>2. rest \in Seq(Chunks)
  BY RestType DEF ReuseChunk
<1>3. backup' = [backup EXCEPT ![b].rest = rest] /\ UNCHANGED store
  BY DEF ReuseChunk
<1> HIDE DEF rest
<1> QED BY <1>1, <1>2, <1>3 DEF BackupTypeOK, BackupRunOK, BackupFields, store

\* Storing a pack under an identifier that has been drawn, and drawing others.
LEMMA PutPackType ==
    ASSUME StoreTypeOK, NEW k \in PackIds, NEW held \in SUBSET Chunks,
           usedPacks' = usedPacks \cup {k}, packs' = packs \/ packs' = Put(packs, k, held),
           UNCHANGED <<nodes, nodeChunks, chunkMan, packMan, records, usedSnaps>>
    PROVE  StoreTypeOK'
<1>1. IsPartial(packs, usedPacks', SUBSET Chunks)
  BY WidenPartial DEF StoreTypeOK
<1>2. IsPartial(packs', usedPacks', SUBSET Chunks)
  BY <1>1, PutPartial
<1>3. IsPartial(packMan, usedSnaps \cup {Index}, SUBSET usedPacks')
  BY WidenPartial DEF StoreTypeOK
<1>4. IsPartial2(chunkMan, usedSnaps \cup {Index}, Chunks, usedPacks')
  BY WidenPartial2 DEF StoreTypeOK
<1> QED BY <1>2, <1>3, <1>4 DEF StoreTypeOK

\* A new chunk is assigned to the pack being filled.
LEMMA AddChunkType ==
    ASSUME TypeOK, NEW b \in Backups, NEW k \in PackIds, NEW full \in BOOLEAN,
           AddChunk(b, k, full)
    PROVE  StoreTypeOK' /\ BackupTypeOK' /\ Drawing
<1> DEFINE c == Head(backup[b].rest)
           rest == Tail(backup[b].rest)
           assigned == Put(backup[b].new, c, k)
           open == IF full THEN NoPack ELSE k
<1>1. BackupTypeOK /\ StoreTypeOK
  BY DEF TypeOK
<1>2. c \in Chunks /\ rest \in Seq(Chunks)
  BY RestType DEF AddChunk
<1>3. usedPacks' = usedPacks \cup {k} /\ usedSnaps' = usedSnaps
  BY DEF AddChunk
<1>4. IsPartial(assigned, Chunks, usedPacks')
  <2>1. IsPartial(backup[b].new, Chunks, usedPacks')
    BY <1>1, <1>3, WidenPartial DEF BackupTypeOK, BackupRunOK
  <2>2. k \in usedPacks'
    BY <1>3
  <2> QED BY <1>2, <2>1, <2>2, PutPartial
<1>5. StoreTypeOK'
  <2>1. Buffered(assigned, k) \in SUBSET Chunks
    BY <1>4 DEF Buffered, IsPartial
  <2>2. packs' = packs \/ packs' = Put(packs, k, Buffered(assigned, k))
    BY DEF AddChunk
  <2>3. UNCHANGED <<nodes, nodeChunks, chunkMan, packMan, records, usedSnaps>>
    BY DEF AddChunk
  <2> HIDE DEF assigned
  <2> QED BY <1>1, <1>3, <2>1, <2>2, <2>3, PutPackType
<1>6. backup' = [backup EXCEPT ![b].rest = rest, ![b].live = @ \cup {c},
                               ![b].new = assigned, ![b].open = open]
  BY DEF AddChunk
<1>7. open \in usedPacks' \cup {NoPack}
  BY <1>3
<1> HIDE DEF c, rest, assigned, open
<1>8. BackupRunOK(backup[b])'
  BY <1>1, <1>2, <1>3, <1>4, <1>6, <1>7 DEF BackupTypeOK, BackupRunOK, BackupFields
<1>9. Drawing
  BY <1>3 DEF Drawing
<1>10. backup' = [backup EXCEPT ![b] = backup'[b]]
  BY <1>1, <1>6 DEF BackupTypeOK
<1> QED BY <1>1, <1>5, <1>8, <1>9, <1>10, BackupFrame

-----------------------------------------------------------------------------
\* The steps that write the snapshot.
LEMMA FlushBackupType ==
    ASSUME TypeOK, NEW b \in Backups, NEW s \in SnapIds, FlushBackup(b, s)
    PROVE  StoreTypeOK' /\ BackupTypeOK' /\ Drawing
<1> DEFINE k == backup[b].open
           held == Buffered(backup[b].new, k)
<1>1. BackupTypeOK /\ StoreTypeOK
  BY DEF TypeOK
<1>2. /\ usedPacks' = usedPacks /\ usedSnaps' = usedSnaps \cup {s}
      /\ packs' = packs \/ (k # NoPack /\ packs' = Put(packs, k, held))
      /\ UNCHANGED <<nodes, nodeChunks, chunkMan, packMan, records>>
  BY DEF FlushBackup
<1>3. Drawing
  BY <1>2 DEF Drawing
<1>4. StoreTypeOK'
  <2>1. IsPartial(packs', usedPacks', SUBSET Chunks)
    <3>1. held \in SUBSET Chunks
      BY <1>1 DEF BackupTypeOK, BackupRunOK, Buffered, IsPartial
    <3>2. IsPartial(packs, usedPacks, SUBSET Chunks)
      BY <1>1 DEF StoreTypeOK
    <3>3. k \in usedPacks \/ k = NoPack
      BY <1>1 DEF BackupTypeOK, BackupRunOK
    <3> HIDE DEF held
    <3> QED BY <1>2, <3>1, <3>2, <3>3, PutPartial
  <2>2. /\ IsPartial2(nodes, usedSnaps', Paths, Contents)
        /\ IsPartial2(nodeChunks, usedSnaps', Paths, Seq(Chunks))
        /\ IsPartial2(chunkMan, usedSnaps' \cup {Index}, Chunks, usedPacks)
        /\ IsPartial(packMan, usedSnaps' \cup {Index}, SUBSET usedPacks)
    BY <1>1, <1>2, WidenPartial, WidenPartial2 DEF StoreTypeOK
  <2> QED BY <1>1, <1>2, <2>1, <2>2 DEF StoreTypeOK
<1>5. backup' = [backup EXCEPT ![b].pc = "putNodes", ![b].open = NoPack, ![b].id = s,
                               ![b].parent = <<>>, ![b].live = {}]
  BY DEF FlushBackup
<1>6. BackupRunOK(backup[b])'
  <2>1. IsPartial(<<>>, Paths, Node)
    BY EmptyPartial
  <2> QED BY <1>1, <1>2, <1>5, <2>1 DEF BackupTypeOK, BackupRunOK, BackupPCs, BackupFields
<1>7. backup' = [backup EXCEPT ![b] = backup'[b]]
  BY <1>1, <1>5 DEF BackupTypeOK
<1> QED BY <1>1, <1>3, <1>4, <1>6, <1>7, BackupFrame

\* The node manifests written are well-typed.
LEMMA WriteTreeType ==
    ASSUME TypeOK, NEW b \in Backups, WriteNodes(b) \/ WriteNodeChunks(b),
           backup[b].id \in usedSnaps
    PROVE  StoreTypeOK' /\ BackupTypeOK'
<1> DEFINE tree == backup[b].tree
           hashes == [p \in DOMAIN tree |-> tree[p].hash]
           lists == [p \in DOMAIN tree |-> tree[p].chunks]
<1>1. BackupTypeOK /\ StoreTypeOK
  BY DEF TypeOK
<1>2. IsPartial(tree, Paths, Node)
  BY <1>1 DEF BackupTypeOK, BackupRunOK
<1>3. IsPartial(hashes, Paths, Contents) /\ IsPartial(lists, Paths, Seq(Chunks))
  BY <1>2 DEF IsPartial, Node
<1>4. /\ nodes' = nodes \/ nodes' = Put(nodes, backup[b].id, hashes)
      /\ nodeChunks' = nodeChunks \/ nodeChunks' = Put(nodeChunks, backup[b].id, lists)
      /\ UNCHANGED <<packs, chunkMan, packMan, records, usedPacks, usedSnaps>>
  BY DEF WriteNodes, WriteNodeChunks
<1>5. PICK pc \in BackupPCs : backup' = [backup EXCEPT ![b].pc = pc]
  BY DEF WriteNodes, WriteNodeChunks, BackupPCs
<1> HIDE DEF hashes, lists
<1>6. StoreTypeOK'
  <2>1. IsPartial2(nodes', usedSnaps, Paths, Contents)
    BY <1>1, <1>3, <1>4, PutPartial2 DEF StoreTypeOK
  <2>2. IsPartial2(nodeChunks', usedSnaps, Paths, Seq(Chunks))
    BY <1>1, <1>3, <1>4, PutPartial2 DEF StoreTypeOK
  <2> QED BY <1>1, <1>4, <2>1, <2>2 DEF StoreTypeOK
<1>7. BackupTypeOK'
  BY <1>1, <1>4, <1>5 DEF BackupTypeOK, BackupRunOK, BackupFields
<1> QED BY <1>6, <1>7

\* So are the chunk and the pack manifest, and the record.
LEMMA WriteIndexType ==
    ASSUME TypeOK, NEW b \in Backups,
           WriteChunks(b) \/ WritePacks(b) \/ WriteSnapshotRecord(b),
           backup[b].id \in usedSnaps
    PROVE  StoreTypeOK' /\ BackupTypeOK'
<1> DEFINE r == backup[b]
           held == Range(r.new)
<1>1. BackupTypeOK /\ StoreTypeOK
  BY DEF TypeOK
<1>2. /\ chunkMan' = chunkMan \/ chunkMan' = Put(chunkMan, r.id, r.new)
      /\ packMan' = packMan \/ packMan' = Put(packMan, r.id, held)
      /\ records' = records \/ records' = records \cup {r.id}
      /\ UNCHANGED <<packs, nodes, nodeChunks, usedPacks, usedSnaps>>
  BY DEF WriteChunks, WritePacks, WriteSnapshotRecord
<1>3. IsPartial(r.new, Chunks, usedPacks)
  BY <1>1 DEF BackupTypeOK, BackupRunOK
<1>4. StoreTypeOK'
  <2>1. held \in SUBSET usedPacks
    BY <1>3 DEF IsPartial, Range
  <2> HIDE DEF held
  <2> DEFINE keys == usedSnaps \cup {Index}
  <2>0. /\ r.id \in keys
        /\ IsPartial2(chunkMan, keys, Chunks, usedPacks)
        /\ IsPartial(packMan, keys, SUBSET usedPacks)
    BY <1>1 DEF StoreTypeOK
  <2> HIDE DEF keys, r
  <2>2. IsPartial2(chunkMan', keys, Chunks, usedPacks)
    BY <1>2, <1>3, <2>0, PutPartial2
  <2>3. IsPartial(packMan', keys, SUBSET usedPacks)
    BY <1>2, <2>0, <2>1, PutPartial
  <2> USE DEF keys, r
  <2> QED BY <1>1, <1>2, <2>2, <2>3 DEF StoreTypeOK
<1>5. BackupTypeOK'
  <2>1. CASE WriteSnapshotRecord(b)
    <3>1. BackupRunOK(BackupIdle)' /\ Drawing
      BY <1>2, BackupIdleOK DEF BackupRunOK, Drawing
    <3>2. backup' = [backup EXCEPT ![b] = BackupIdle]
      BY <2>1 DEF WriteSnapshotRecord
    <3> QED BY <1>1, <3>1, <3>2, BackupFrame DEF BackupTypeOK
  <2>2. CASE WriteChunks(b) \/ WritePacks(b)
    <3>1. PICK pc \in BackupPCs : backup' = [backup EXCEPT ![b].pc = pc]
      BY <2>2 DEF WriteChunks, WritePacks, BackupPCs
    <3> QED BY <1>1, <1>2, <3>1 DEF BackupTypeOK, BackupRunOK, BackupFields
  <2> QED BY <2>1, <2>2
<1> QED BY <1>4, <1>5

-----------------------------------------------------------------------------
\* A run has its identifier when it writes.
Identified == \A b \in Backups : backup[b].pc \in Writing => backup[b].id \in usedSnaps

\* Every step of a backup.
LEMMA BackupStepType ==
    ASSUME TypeOK, Identified, NEW b \in Backups, LoadParent(b) \/ BackupStep(b)
    PROVE  StoreTypeOK' /\ BackupTypeOK' /\ Drawing
<1>0. StoreTypeOK
  BY DEF TypeOK
<1>1. ASSUME UNCHANGED store PROVE StoreTypeOK' /\ Drawing
  BY <1>0, <1>1 DEF StoreTypeOK, store, Drawing
<1>2. ASSUME UNCHANGED <<usedPacks, usedSnaps>> PROVE Drawing
  BY <1>2 DEF Drawing
<1>3. CASE LoadParent(b) \/ ReadCatalog(b) \/ FailBackup(b)
  <2>1. UNCHANGED store
    BY <1>3 DEF LoadParent, ReadCatalog, FailBackup, LoadParentNodes, LoadParentChunks,
                ListLiveIndex, ReadLiveIndex
  <2> QED BY <1>1, <1>3, <2>1, BackupReadType
<1>4. CASE WalkSource(b)
  <2>1. CASE \E p \in Paths : CarryFile(b, p) \/ \E x \in Contents : OpenFile(b, p, x)
    BY <1>1, <2>1, CarryFileType, OpenFileType DEF CarryFile, OpenFile
  <2>2. CASE ReuseChunk(b)
    BY <1>1, <2>2, ReuseChunkType DEF ReuseChunk
  <2>3. CASE \E k \in PackIds, full \in BOOLEAN : AddChunk(b, k, full)
    BY <2>3, AddChunkType
  <2> QED BY <1>4, <2>1, <2>2, <2>3 DEF WalkSource
<1>5. CASE WriteSnapshot(b)
  <2>1. CASE \E s \in SnapIds : FlushBackup(b, s)
    BY <2>1, FlushBackupType
  <2>2. CASE WriteNodes(b) \/ WriteNodeChunks(b)
    <3>1. backup[b].id \in usedSnaps /\ UNCHANGED <<usedPacks, usedSnaps>>
      BY <2>2 DEF Identified, WriteNodes, WriteNodeChunks, BackupAt, Writing
    <3> QED BY <1>2, <2>2, <3>1, WriteTreeType
  <2>3. CASE WriteChunks(b) \/ WritePacks(b) \/ WriteSnapshotRecord(b)
    <3>1. backup[b].id \in usedSnaps /\ UNCHANGED <<usedPacks, usedSnaps>>
      BY <2>3 DEF Identified, WriteChunks, WritePacks, WriteSnapshotRecord, BackupAt, Writing
    <3> QED BY <1>2, <2>3, <3>1, WriteIndexType
  <2> QED BY <1>5, <2>1, <2>2, <2>3 DEF WriteSnapshot
<1> QED BY <1>3, <1>4, <1>5 DEF BackupStep

\* A run keeps its identifier, and draws it before it writes.
LEMMA BackupIdentified ==
    ASSUME TypeOK, Identified, NEW b \in Backups, LoadParent(b) \/ BackupStep(b)
    PROVE  Identified'
<1>1. StoreTypeOK' /\ BackupTypeOK' /\ Drawing /\ BackupTypeOK
  BY BackupStepType DEF TypeOK
<1>2. \A d \in Backups \ {b} : backup'[d] = backup[d]
  BY <1>1 DEF BackupTypeOK, BackupStep, LoadParent, ReadCatalog, LoadParentNodes,
     LoadParentChunks, ListLiveIndex, ReadLiveIndex, FailBackup, WalkSource, CarryFile,
     OpenFile, ReuseChunk, AddChunk, WriteSnapshot, FlushBackup, WriteNodes, WriteNodeChunks,
     WriteChunks, WritePacks, WriteSnapshotRecord
<1>3. backup[b].pc \in Writing => backup[b].id \in usedSnaps
  BY DEF Identified
<1> USE <1>1, <1>3 DEF BackupTypeOK, BackupRunOK, BackupAt, Writing
<1>4. (backup[b].pc \in Writing => backup[b].id \in usedSnaps)'
  <2>1. CASE LoadParent(b) \/ ReadCatalog(b) \/ FailBackup(b)
    <3>1. backup'[b].pc \in {"idle", "nodes", "nodeChunks", "list", "index", "walk"}
      BY <2>1 DEF LoadParent, ReadCatalog, LoadParentNodes, LoadParentChunks, ListLiveIndex,
         ReadLiveIndex, FailBackup, BackupIdle, BackupFields
    <3> QED BY <3>1
  <2>2. CASE WalkSource(b)
    <3>1. ASSUME NEW p, CarryFile(b, p) PROVE backup'[b].pc = "walk"
      BY <3>1 DEF CarryFile, Walking, BackupFields
    <3>2. ASSUME NEW p, NEW x, OpenFile(b, p, x) PROVE backup'[b].pc = "walk"
      BY <3>2 DEF OpenFile, Walking, BackupFields
    <3>3. ASSUME ReuseChunk(b) PROVE backup'[b].pc = "walk"
      BY <3>3 DEF ReuseChunk, Cutting, BackupFields
    <3>4. ASSUME NEW k, NEW full, AddChunk(b, k, full) PROVE backup'[b].pc = "walk"
      <4>1. backup[b].pc = "walk"
        <5>1. Cutting(b)
          BY ONLY <3>4 DEF AddChunk
        <5> QED BY <5>1 DEF Cutting
      <4> DEFINE rest == Tail(backup[b].rest)
                 live == backup[b].live \cup {Head(backup[b].rest)}
                 new == Put(backup[b].new, Head(backup[b].rest), k)
                 open == IF full THEN NoPack ELSE k
      <4>2. backup' = [backup EXCEPT ![b].rest = rest, ![b].live = live,
                                     ![b].new = new, ![b].open = open]
        BY <3>4 DEF AddChunk
      <4> HIDE DEF rest, live, new, open
      <4> QED BY <4>1, <4>2 DEF BackupFields
    <3> QED BY <2>2, <3>1, <3>2, <3>3, <3>4 DEF WalkSource
  <2>3. CASE \E s \in SnapIds : FlushBackup(b, s)
    <3>1. backup'[b].id \in usedSnaps'
      BY <2>3, SMTT(30) DEF FlushBackup, BackupFields
    <3> QED BY <3>1
  <2>4. CASE WriteNodes(b) \/ WriteNodeChunks(b) \/ WriteChunks(b) \/ WritePacks(b)
    <3>1. backup'[b].id = backup[b].id /\ usedSnaps' = usedSnaps /\ backup[b].pc \in Writing
      BY <2>4 DEF WriteNodes, WriteNodeChunks, WriteChunks, WritePacks, BackupFields
    <3> QED BY <3>1
  <2>5. CASE WriteSnapshotRecord(b)
    <3>1. backup'[b].pc = "idle"
      BY <2>5 DEF WriteSnapshotRecord, BackupIdle
    <3> QED BY <3>1
  <2> QED BY <2>1, <2>2, <2>3, <2>4, <2>5 DEF BackupStep, WriteSnapshot
<1> QED BY <1>2, <1>4 DEF Identified, Drawing

-----------------------------------------------------------------------------
\* A step of a compaction that writes nothing, or deletes.
LEMMA CompactReadType ==
    ASSUME TypeOK, NEW c \in Compactors,
           ListSnapshots(c) \/ ReadRepository(c) \/ FailCompact(c)
    PROVE  CompactTypeOK' /\ UNCHANGED store
<1> DEFINE r == compact[c]
<1>1. CompactTypeOK /\ StoreTypeOK
  BY DEF TypeOK
<1> USE DEF CompactPCs, CompactFields
<1>2. CASE ListSnapshots(c)
  <2>1. PICK pc \in CompactPCs :
          compact' = [compact EXCEPT ![c].pc = pc, ![c].unread = records] /\ UNCHANGED store
    BY <1>2 DEF ListSnapshots
  <2>2. records \subseteq usedSnaps
    BY <1>1 DEF StoreTypeOK
  <2> QED BY <1>1, <2>1, <2>2 DEF CompactTypeOK, CompactRunOK, store
<1>3. CASE ReadNodes(c)
  <2>1. compact' = [compact EXCEPT ![c].pc = "nodeChunks"] /\ UNCHANGED store
    BY <1>3 DEF ReadNodes
  <2> QED BY <1>1, <2>1 DEF CompactTypeOK, CompactRunOK, store
<1>4. CASE ReadNodeChunks(c)
  <2> DEFINE s == Min(r.unread)
             found == ChunksOf(LoadedNodeChunks(s))
  <2>1. found \subseteq Chunks
    <3> HIDE DEF s
    <3> QED BY <1>1, SMTT(30) DEF ChunksOf, ToSet, LoadedNodeChunks, StoreTypeOK, IsPartial2, IsPartial
  <2>2. PICK pc \in CompactPCs :
          /\ compact' = [compact EXCEPT ![c].pc = pc, ![c].unread = r.unread \ {s},
                                        ![c].live = @ \cup found]
          /\ UNCHANGED store
    BY <1>4 DEF ReadNodeChunks
  <2> HIDE DEF found, s
  <2> QED BY <1>1, <2>1, <2>2 DEF CompactTypeOK, CompactRunOK, store
<1>5. CASE ListChunkIndex(c)
  <2> DEFINE idx == MergeManifests(ListedManifests)
  <2>1. IsPartial(idx, Chunks, usedPacks)
    BY <1>1, MergeListedType
  <2>2. PICK pc \in CompactPCs :
          compact' = [compact EXCEPT ![c].pc = pc, ![c].idx = idx] /\ UNCHANGED store
    BY <1>5 DEF ListChunkIndex
  <2> HIDE DEF idx
  <2> QED BY <1>1, <2>1, <2>2 DEF CompactTypeOK, CompactRunOK, store
<1>6. CASE ReadChunkIndex(c)
  <2> DEFINE idx == WithIndexFile(r.idx)
  <2>1. IsPartial(r.idx, Chunks, usedPacks)
    BY <1>1 DEF CompactTypeOK, CompactRunOK
  <2>2. IsPartial(chunkMan[Index], Chunks, usedPacks)
    BY <1>1, <1>6 DEF ReadChunkIndex, IndexListed, StoreTypeOK, IsPartial2
  <2>3. IsPartial(idx, Chunks, usedPacks)
    BY <2>1, <2>2 DEF WithIndexFile, IsPartial
  <2>4. compact' = [compact EXCEPT ![c].pc = "packIndex", ![c].idx = idx] /\ UNCHANGED store
    BY <1>6 DEF ReadChunkIndex
  <2> HIDE DEF idx
  <2> QED BY <1>1, <2>3, <2>4 DEF CompactTypeOK, CompactRunOK, store
<1>7. CASE ReadPackIndex(c)
  <2> DEFINE listed == PackIndex
  <2>1. listed \subseteq usedPacks
    BY <1>1 DEF PackIndex, StoreTypeOK, IsPartial
  <2>2. compact' = [compact EXCEPT ![c].pc = "relocate", ![c].packIdx = listed] /\ UNCHANGED store
    BY <1>7 DEF ReadPackIndex
  <2> HIDE DEF listed
  <2> QED BY <1>1, <2>1, <2>2 DEF CompactTypeOK, CompactRunOK, store
<1>8. CASE FailCompact(c)
  <2>1. /\ CompactRunOK(CompactIdle)' /\ compact' = [compact EXCEPT ![c] = CompactIdle]
        /\ UNCHANGED store /\ Drawing
    BY <1>8, CompactIdleOK DEF FailCompact, store, CompactRunOK, Drawing
  <2> QED BY <1>1, <2>1, CompactFrame DEF CompactTypeOK
<1> QED BY <1>2, <1>3, <1>4, <1>5, <1>6, <1>7, <1>8 DEF ReadRepository

\* The steps that relocate chunks.
LEMMA RelocateType ==
    ASSUME TypeOK, NEW c \in Compactors, NEW x \in Chunks, NEW k \in PackIds,
           NEW full \in BOOLEAN, Relocate(c, x, k, full)
    PROVE  StoreTypeOK' /\ CompactTypeOK' /\ Drawing
<1> DEFINE assigned == Put(compact[c].moved, x, k)
           open == IF full THEN NoPack ELSE k
<1>1. CompactTypeOK /\ StoreTypeOK
  BY DEF TypeOK
<1>2. /\ usedPacks' = usedPacks \cup {k}
      /\ UNCHANGED <<nodes, nodeChunks, chunkMan, packMan, records, usedSnaps>>
      /\ packs' = packs \/ packs' = Put(packs, k, EntriesIn(assigned, k))
  BY DEF Relocate
<1>3. IsPartial(assigned, Chunks, usedPacks') /\ IsPartial(compact[c].idx, Chunks, usedPacks')
  <2>1. /\ IsPartial(compact[c].moved, Chunks, usedPacks')
        /\ IsPartial(compact[c].idx, Chunks, usedPacks')
    BY <1>1, <1>2, WidenPartial DEF CompactTypeOK, CompactRunOK
  <2>2. k \in usedPacks'
    BY <1>2
  <2> QED BY <2>1, <2>2, PutPartial
<1>4. EntriesIn(assigned, k) \in SUBSET Chunks
  BY <1>3 DEF EntriesIn, IsPartial
<1>5. compact' = [compact EXCEPT ![c].moved = assigned, ![c].open = open]
  BY DEF Relocate
<1>6. open \in usedPacks' \cup {NoPack}
  BY <1>2
<1> HIDE DEF assigned, open
<1>7. StoreTypeOK'
  BY <1>1, <1>2, <1>4, PutPackType
<1>8. Drawing
  BY <1>2 DEF Drawing
<1>9. CompactRunOK(compact[c])'
  BY <1>1, <1>2, <1>3, <1>5, <1>6 DEF CompactTypeOK, CompactRunOK, CompactFields
<1>10. compact' = [compact EXCEPT ![c] = compact'[c]]
  BY <1>1, <1>5 DEF CompactTypeOK
<1> QED BY <1>1, <1>7, <1>8, <1>9, <1>10, CompactFrame

\* The last relocated chunks are stored.
LEMMA FlushRelocatedType ==
    ASSUME TypeOK, NEW c \in Compactors, FlushRelocated(c)
    PROVE  StoreTypeOK' /\ CompactTypeOK'
<1> DEFINE k == compact[c].open
           held == EntriesIn(compact[c].moved, k)
<1>1. CompactTypeOK /\ StoreTypeOK
  BY DEF TypeOK
<1>2. /\ packs' = packs \/ (k # NoPack /\ packs' = Put(packs, k, held))
      /\ UNCHANGED <<nodes, nodeChunks, chunkMan, packMan, records, usedPacks, usedSnaps>>
  BY DEF FlushRelocated
<1>3. StoreTypeOK'
  <2>1. held \in SUBSET Chunks
    BY <1>1 DEF CompactTypeOK, CompactRunOK, EntriesIn, IsPartial
  <2>2. k \in usedPacks \/ k = NoPack
    BY <1>1 DEF CompactTypeOK, CompactRunOK
  <2>3. usedPacks \subseteq PackIds
    BY <1>1 DEF StoreTypeOK
  <2> HIDE DEF held, k
  <2>4. CASE packs' = packs
    BY <1>1, <1>2, <2>4 DEF StoreTypeOK
  <2>5. CASE k \in usedPacks /\ packs' = Put(packs, k, held)
    <3>1. usedPacks' = usedPacks \cup {k}
      BY <1>2, <2>5
    <3> QED BY <1>1, <1>2, <2>1, <2>3, <2>5, <3>1, PutPackType
  <2> QED BY <1>2, <2>2, <2>4, <2>5
<1>4. CompactTypeOK'
  <2>1. CASE compact' = [compact EXCEPT ![c] = CompactIdle]
    <3>1. CompactRunOK(CompactIdle)' /\ Drawing
      BY <1>2, CompactIdleOK DEF CompactRunOK, Drawing
    <3> QED BY <1>1, <2>1, <3>1, CompactFrame DEF CompactTypeOK
  <2>2. CASE compact' = [compact EXCEPT ![c].pc = "listChunks", ![c].open = NoPack]
    BY <1>1, <1>2, <2>2 DEF CompactTypeOK, CompactRunOK, CompactFields, CompactPCs
  <2> QED BY <2>1, <2>2 DEF FlushRelocated
<1> QED BY <1>3, <1>4

\* The steps that replace the index.
LEMMA ReplaceIndexType ==
    ASSUME TypeOK, NEW c \in Compactors, ReplaceIndex(c)
    PROVE  StoreTypeOK' /\ CompactTypeOK' /\ UNCHANGED <<usedPacks, usedSnaps>>
<1> DEFINE r == compact[c]
           keys == usedSnaps \cup {Index}
<1>1. CompactTypeOK /\ StoreTypeOK
  BY DEF TypeOK
<1>2. /\ UNCHANGED <<packs, nodes, nodeChunks, records, usedPacks, usedSnaps>>
      /\ chunkMan' = chunkMan \/ chunkMan' = Put(chunkMan, Index, NewChunks(c))
           \/ chunkMan' = Delete(chunkMan, Min(r.oldChunks))
      /\ packMan' = packMan \/ packMan' = Put(packMan, Index, NewPacks(c))
           \/ packMan' = Delete(packMan, Min(r.oldPacks))
  BY DEF ReplaceIndex, ListOldChunks, ListOldPacks, PutChunkIndex, PutPackIndex,
         DropChunkManifest, ChunkManifestsDropped, DropPackManifest, PackManifestsDropped, store
<1>3. IsPartial(NewChunks(c), Chunks, usedPacks)
  <2>1. IsPartial(r.idx, Chunks, usedPacks) /\ IsPartial(r.moved, Chunks, usedPacks)
    BY <1>1 DEF CompactTypeOK, CompactRunOK
  <2> QED BY <2>1 DEF NewChunks, IsPartial
<1>4. NewPacks(c) \in SUBSET usedPacks
  BY <1>1 DEF NewPacks, CompactTypeOK, CompactRunOK, IsPartial, Range
<1>5. /\ Index \in keys
      /\ IsPartial2(chunkMan, keys, Chunks, usedPacks)
      /\ IsPartial(packMan, keys, SUBSET usedPacks)
  BY <1>1 DEF StoreTypeOK
<1>6. StoreTypeOK'
  <2> HIDE DEF keys, r
  <2>1. IsPartial2(chunkMan', keys, Chunks, usedPacks)
    BY <1>2, <1>3, <1>5, PutPartial2, DeletePartial2
  <2>2. IsPartial(packMan', keys, SUBSET usedPacks)
    BY <1>2, <1>4, <1>5, PutPartial, DeletePartial
  <2> USE DEF keys
  <2> QED BY <1>1, <1>2, <2>1, <2>2 DEF StoreTypeOK
<1>7. CompactTypeOK'
  <2> USE DEF CompactTypeOK, CompactRunOK, CompactFields, CompactPCs
  <2>1. CASE ListOldChunks(c)
    <3>1. DOMAIN chunkMan \ {Index} \subseteq usedSnaps
      BY <1>5 DEF IsPartial2
    <3> QED BY <1>1, <1>2, <2>1, <3>1 DEF ListOldChunks
  <2>2. CASE ListOldPacks(c)
    <3>1. DOMAIN packMan \ {Index} \subseteq usedSnaps
      BY <1>5 DEF IsPartial
    <3> QED BY <1>1, <1>2, <2>2, <3>1 DEF ListOldPacks
  <2>3. CASE PutChunkIndex(c) \/ PutPackIndex(c) \/ ChunkManifestsDropped(c)
    <3>1. PICK pc \in CompactPCs : compact' = [compact EXCEPT ![c].pc = pc]
      BY <2>3 DEF PutChunkIndex, PutPackIndex, ChunkManifestsDropped
    <3> QED BY <1>1, <1>2, <3>1
  <2>4. CASE DropChunkManifest(c) \/ DropPackManifest(c)
    <3>1. PICK k : \/ compact' = [compact EXCEPT ![c].oldChunks = @ \ {k}]
                   \/ compact' = [compact EXCEPT ![c].oldPacks = @ \ {k}]
      BY <2>4 DEF DropChunkManifest, DropPackManifest
    <3> QED BY <1>1, <1>2, <3>1
  <2>5. CASE PackManifestsDropped(c)
    <3> DEFINE dead == Dead(c)
    <3>1. dead \subseteq usedPacks
      BY <1>1 DEF Dead, DeadPacks, IsPartial, Range
    <3>2. compact' = [compact EXCEPT ![c].pc = "dropDead", ![c].doomed = dead]
      BY <2>5 DEF PackManifestsDropped
    <3> HIDE DEF dead
    <3> QED BY <1>1, <1>2, <3>1, <3>2
  <2> QED BY <2>1, <2>2, <2>3, <2>4, <2>5 DEF ReplaceIndex
<1> QED BY <1>2, <1>6, <1>7

\* The steps that delete packs.
LEMMA DropPacksType ==
    ASSUME TypeOK, NEW c \in Compactors, DropPacks(c)
    PROVE  StoreTypeOK' /\ CompactTypeOK' /\ UNCHANGED <<usedPacks, usedSnaps>>
<1>1. CompactTypeOK /\ StoreTypeOK
  BY DEF TypeOK
<1>2. /\ UNCHANGED <<nodes, nodeChunks, chunkMan, packMan, records, usedPacks, usedSnaps>>
      /\ packs' = packs \/ \E k : packs' = Delete(packs, k)
  BY DEF DropPacks, DropPack, DeadDropped, FinishCompact, store
<1>3. StoreTypeOK'
  <2>1. IsPartial(packs', usedPacks, SUBSET Chunks)
    BY <1>1, <1>2, DeletePartial DEF StoreTypeOK
  <2> QED BY <1>1, <1>2, <2>1 DEF StoreTypeOK
<1>4. CompactTypeOK'
  <2>1. CASE \E k \in PackIds : DropPack(c, k)
    <3>1. PICK k : compact' = [compact EXCEPT ![c].doomed = @ \ {k}]
      BY <2>1 DEF DropPack
    <3> QED BY <1>1, <1>2, <3>1 DEF CompactTypeOK, CompactRunOK, CompactFields
  <2>2. CASE DeadDropped(c)
    <3> DEFINE low == Candidates(c)
    <3>1. low \subseteq usedPacks
      BY <1>1 DEF Candidates, CandidatePacks, CompactTypeOK, CompactRunOK, IsPartial, Range
    <3>2. compact' = [compact EXCEPT ![c].pc = "dropCandidates", ![c].doomed = low]
      BY <2>2 DEF DeadDropped
    <3> HIDE DEF low
    <3> QED BY <1>1, <1>2, <3>1, <3>2 DEF CompactTypeOK, CompactRunOK, CompactFields, CompactPCs
  <2>3. CASE FinishCompact(c)
    <3>1. CompactRunOK(CompactIdle)' /\ compact' = [compact EXCEPT ![c] = CompactIdle] /\ Drawing
      BY <1>2, <2>3, CompactIdleOK DEF FinishCompact, CompactRunOK, Drawing
    <3> QED BY <1>1, <3>1, CompactFrame DEF CompactTypeOK
  <2> QED BY <2>1, <2>2, <2>3 DEF DropPacks
<1> QED BY <1>2, <1>3, <1>4

\* Every step of a compaction.
LEMMA CompactStepType ==
    ASSUME TypeOK, NEW c \in Compactors, ListSnapshots(c) \/ CompactStep(c)
    PROVE  StoreTypeOK' /\ CompactTypeOK' /\ Drawing
<1>1. StoreTypeOK
  BY DEF TypeOK
<1>2. CASE ListSnapshots(c) \/ ReadRepository(c) \/ FailCompact(c)
  <2>1. CompactTypeOK' /\ UNCHANGED store
    BY <1>2, CompactReadType
  <2> QED BY <1>1, <2>1 DEF StoreTypeOK, store, Drawing
<1>3. CASE \E x \in Chunks, k \in PackIds, full \in BOOLEAN : Relocate(c, x, k, full)
  BY <1>3, RelocateType
<1>4. CASE FlushRelocated(c) \/ ReplaceIndex(c) \/ DropPacks(c)
  <2>1. UNCHANGED <<usedPacks, usedSnaps>>
    BY <1>4, ReplaceIndexType, DropPacksType DEF FlushRelocated
  <2> QED BY <1>4, <2>1, FlushRelocatedType, ReplaceIndexType, DropPacksType DEF Drawing
<1> QED BY <1>2, <1>3, <1>4 DEF CompactStep, RelocateChunks

-----------------------------------------------------------------------------
\* The steps of a forget.
LEMMA ForgetStepType ==
    ASSUME TypeOK, NEW f \in Forgetters, (\E s \in SnapIds : ResolveForget(f, s)) \/ ForgetStep(f)
    PROVE  StoreTypeOK' /\ ForgetTypeOK' /\ Drawing
<1>1. ForgetTypeOK /\ StoreTypeOK
  BY DEF TypeOK
<1>2. /\ UNCHANGED <<packs, chunkMan, packMan, usedPacks, usedSnaps>>
      /\ nodes' = nodes \/ nodes' = Delete(nodes, forget[f].id)
      /\ nodeChunks' = nodeChunks \/ nodeChunks' = Delete(nodeChunks, forget[f].id)
      /\ records' \subseteq records
  BY DEF ResolveForget, ForgetStep, DeleteRecord, DeleteNodes, DeleteNodeChunks, FailForget, store
<1>3. StoreTypeOK'
  <2>1. IsPartial2(nodes', usedSnaps, Paths, Contents)
    BY <1>1, <1>2, DeletePartial2 DEF StoreTypeOK
  <2>2. IsPartial2(nodeChunks', usedSnaps, Paths, Seq(Chunks))
    BY <1>1, <1>2, DeletePartial2 DEF StoreTypeOK
  <2> QED BY <1>1, <1>2, <2>1, <2>2 DEF StoreTypeOK
<1>4. ForgetTypeOK'
  <2>1. ASSUME NEW s \in SnapIds, ResolveForget(f, s) PROVE ForgetTypeOK'
    BY <1>1, <1>2, <2>1 DEF ResolveForget, ForgetTypeOK, ForgetPCs, StoreTypeOK
  <2>2. CASE DeleteRecord(f) \/ DeleteNodes(f)
    BY <1>1, <1>2, <2>2 DEF DeleteRecord, DeleteNodes, ForgetTypeOK, ForgetPCs
  <2>3. CASE DeleteNodeChunks(f) \/ FailForget(f)
    BY <1>1, <1>2, <2>3 DEF DeleteNodeChunks, FailForget, ForgetTypeOK, ForgetPCs, ForgetIdle
  <2> QED BY <2>1, <2>2, <2>3 DEF ForgetStep
<1> QED BY <1>2, <1>3, <1>4 DEF Drawing

-----------------------------------------------------------------------------
TypedInv == TypeOK /\ Identified

\* It holds before anything runs.
LEMMA InitTyped == Init => TypedInv
<1>1. Init => Identified
  BY DEF Init, InitBackup, Identified, BackupIdle, Writing
<1> QED BY <1>1, InitTypeOK DEF TypedInv

\* TypedInv is inductive.
LEMMA NextTypeOK == TypedInv /\ [Next]_vars => TypedInv'
<1> SUFFICES ASSUME TypeOK, Identified, [Next]_vars PROVE TypeOK' /\ Identified'
  BY DEF TypedInv
<1>1. StoreTypeOK /\ BackupTypeOK /\ CompactTypeOK /\ ForgetTypeOK
  BY DEF TypeOK
<1>2. ASSUME Drawing, UNCHANGED backup PROVE Identified'
  BY <1>2 DEF Identified, Drawing
<1>3. CASE NextBackup /\ UNCHANGED <<compact, forget>>
  <2>1. PICK b \in Backups : LoadParent(b) \/ BackupStep(b)
    BY <1>3 DEF NextBackup, StartBackup
  <2>2. StoreTypeOK' /\ BackupTypeOK' /\ Drawing /\ Identified'
    BY <2>1, BackupStepType, BackupIdentified
  <2>3. CompactTypeOK' /\ ForgetTypeOK'
    BY <1>1, <1>3, <2>2, CompactUnchanged, ForgetUnchanged
  <2> QED BY <2>2, <2>3 DEF TypeOK
<1>4. CASE NextCompact /\ UNCHANGED <<backup, forget>>
  <2>1. PICK c \in Compactors : ListSnapshots(c) \/ CompactStep(c)
    BY <1>4 DEF NextCompact, StartCompact
  <2>2. StoreTypeOK' /\ CompactTypeOK' /\ Drawing
    BY <2>1, CompactStepType
  <2>3. BackupTypeOK' /\ ForgetTypeOK' /\ Identified'
    BY <1>1, <1>2, <1>4, <2>2, BackupUnchanged, ForgetUnchanged
  <2> QED BY <2>2, <2>3 DEF TypeOK
<1>5. CASE NextForget /\ UNCHANGED <<backup, compact>>
  <2>1. PICK f \in Forgetters : (\E s \in SnapIds : ResolveForget(f, s)) \/ ForgetStep(f)
    BY <1>5 DEF NextForget, StartForget
  <2>2. StoreTypeOK' /\ ForgetTypeOK' /\ Drawing
    BY <2>1, ForgetStepType
  <2>3. BackupTypeOK' /\ CompactTypeOK' /\ Identified'
    BY <1>1, <1>2, <1>5, <2>2, BackupUnchanged, CompactUnchanged
  <2> QED BY <2>2, <2>3 DEF TypeOK
<1>6. CASE UNCHANGED vars
  <2>1. UNCHANGED <<store, backup, compact, forget>> /\ Drawing
    BY <1>6 DEF vars, store, Drawing
  <2>2. StoreTypeOK'
    BY <1>1, <2>1 DEF StoreTypeOK, store
  <2> QED BY <1>1, <1>2, <2>1, <2>2, BackupUnchanged, CompactUnchanged, ForgetUnchanged DEF TypeOK
<1> QED BY <1>3, <1>4, <1>5, <1>6 DEF Next

\* Every variable keeps its type whatever the schedule: the repository on its own and
\* under any discipline, with any number of processes.
THEOREM TypeCorrect == Spec => []TypeOK
<1>1. Init => TypedInv
  BY InitTyped
<1>2. TypedInv => TypeOK
  BY DEF TypedInv
<1> QED BY <1>1, <1>2, NextTypeOK, PTL DEF Spec
=============================================================================
