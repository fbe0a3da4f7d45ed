-------------------------- MODULE LocalStoreProofs --------------------------
(***************************************************************************)
(* The local store for any files, keys, processes and objects: what is     *)
(* listed is whole, and but for power losses the store is AtomicStore.     *)
(***************************************************************************)
EXTENDS LocalStore, TLAPS

\* Writing the next block leaves what is written and to be written.
LEMMA NextBlock ==
    ASSUME NEW S, NEW written \in Seq(S), NEW rest \in Seq(S), rest # <<>>
    PROVE  /\ Append(written, Head(rest)) \in Seq(S) /\ Tail(rest) \in Seq(S)
           /\ Append(written, Head(rest)) \o Tail(rest) = written \o rest
OBVIOUS

\* What a put starts from is all to be written.
LEMMA NoBlock ==
    ASSUME NEW S, NEW s \in Seq(S)
    PROVE  s \o <<>> = s /\ <<>> \o s = s
OBVIOUS

\* A prefix is made of the same blocks.
LEMMA PrefixType ==
    ASSUME NEW S, NEW s \in Seq(S), NEW n \in 0 .. Len(s)
    PROVE  SubSeq(s, 1, n) \in Seq(S)
OBVIOUS

\* Two sequences of one length and the same members are the same.
LEMMA SameSequence ==
    ASSUME NEW S, NEW s \in Seq(S), NEW t \in Seq(S), Len(s) = Len(t),
           \A j \in 1 .. Len(s) : s[j] = t[j]
    PROVE  s = t
OBVIOUS

\* A window read to its end is the window.
LEMMA WindowRead ==
    ASSUME NEW S, NEW s \in Seq(S), NEW from \in Nat, NEW size \in Nat, NEW got \in Seq(S),
           Len(got) <= size, got = <<>> \/ from + Len(got) <= Len(s),
           \A j \in 1 .. Len(got) : got[j] = s[from + j],
           ~(Len(got) < size /\ from + Len(got) + 1 <= Len(s))
    PROVE  got = Window(s, <<from, size>>)
<1> DEFINE last == IF from + size < Len(s) THEN from + size ELSE Len(s)
<1>1. Window(s, <<from, size>>) = SubSeq(s, from + 1, last)
  BY DEF Window
<1>2. last \in Nat /\ last <= Len(s)
  OBVIOUS
<1>3. CASE from >= Len(s)
  <2>1. got = <<>>
    BY <1>3
  <2>2. SubSeq(s, from + 1, last) = <<>>
    BY <1>2, <1>3
  <2> QED BY <1>1, <2>1, <2>2
<1>4. CASE from < Len(s)
  <2>1. Len(got) = last - from
    BY <1>4
  <2>2. /\ Len(SubSeq(s, from + 1, last)) = last - from
        /\ \A j \in 1 .. last - from : SubSeq(s, from + 1, last)[j] = s[from + j]
    BY <1>2, <1>4
  <2>3. SubSeq(s, from + 1, last) \in Seq(S)
    BY <1>2, <1>4
  <2>4. \A j \in 1 .. Len(got) : got[j] = SubSeq(s, from + 1, last)[j]
    BY <2>1, <2>2
  <2> DEFINE part == SubSeq(s, from + 1, last)
  <2>5. Len(got) = Len(part) /\ part \in Seq(S) /\ \A j \in 1 .. Len(got) : got[j] = part[j]
    BY <2>1, <2>2, <2>3, <2>4
  <2> HIDE DEF part
  <2>6. got = part
    BY <2>5, SameSequence
  <2> QED BY <1>1, <2>6 DEF part
<1> QED BY <1>3, <1>4

\* What a change of entries leaves, and what it may leave behind on the disk.
LEMMA LinkEntries ==
    ASSUME TypeOK, NEW f, DOMAIN f \subseteq Names, Link(f),
           \A n \in DOMAIN f : f[n] \in used' \cup {NoInode},
           \A i \in Inodes \cap DOMAIN f : f[i] \in {i, NoInode},
           used \subseteq used'
    PROVE  /\ dir' \in [Names -> used' \cup {NoInode}]
           /\ maybe' \in [Names -> SUBSET (used' \cup {NoInode})]
           /\ \A n \in Names : dir'[n] \in maybe'[n]
           /\ \A i \in Inodes : maybe'[i] \subseteq {i, NoInode}
           /\ \A n \in Names : n \notin DOMAIN f => dir'[n] = dir[n] /\ maybe'[n] = maybe[n]
           /\ \A n \in Names \cap DOMAIN f : dir'[n] = f[n] /\ maybe'[n] = maybe[n] \cup {f[n]}
<1>1. /\ \A n \in Names : dir'[n] = IF n \in DOMAIN f THEN f[n] ELSE dir[n]
      /\ \A n \in Names : maybe'[n] = IF n \in DOMAIN f THEN maybe[n] \cup {f[n]} ELSE maybe[n]
      /\ dir' = [n \in Names |-> dir'[n]] /\ maybe' = [n \in Names |-> maybe'[n]]
  BY DEF Link
<1>2. \A n \in Names : /\ dir[n] \in used \cup {NoInode} /\ dir[n] \in maybe[n]
                       /\ maybe[n] \subseteq used \cup {NoInode}
  BY DEF TypeOK
<1>3. \A i \in Inodes : maybe[i] \subseteq {i, NoInode}
  BY DEF TypeOK
<1>4. ASSUME NEW i \in Inodes PROVE maybe'[i] \subseteq {i, NoInode}
  <2>1. maybe'[i] = IF i \in DOMAIN f THEN maybe[i] \cup {f[i]} ELSE maybe[i]
    BY <1>1 DEF Names
  <2>2. i \in DOMAIN f => f[i] \in {i, NoInode}
    OBVIOUS
  <2> QED BY <1>3, <2>1, <2>2
<1>5. ASSUME NEW n \in Names
      PROVE  /\ dir'[n] \in used' \cup {NoInode} /\ dir'[n] \in maybe'[n]
             /\ maybe'[n] \in SUBSET (used' \cup {NoInode})
  BY <1>1, <1>2
<1>6. dir' \in [Names -> used' \cup {NoInode}]
  BY <1>1, <1>5
<1>7. maybe' \in [Names -> SUBSET (used' \cup {NoInode})]
  BY <1>1, <1>5
<1> QED BY <1>1, <1>4, <1>5, <1>6, <1>7

-----------------------------------------------------------------------------
\* An empty store satisfies the invariant.
LEMMA InitStoreInv == Init => StoreInv
BY DEF Init, StoreInv, TypeOK, NamedInv, PutInv, ReadInv, PutIdle, ReadIdle, ReadAt, Names

\* What the invariant says of the variables one by one.
LEMMA Shapes ==
    ASSUME StoreInv
    PROVE  /\ put = [w \in Writers |-> put[w]] /\ read = [r \in Readers |-> read[r]]
           /\ \A w \in Writers : /\ put[w] = [pc |-> put[w].pc, key |-> put[w].key,
                                              inode |-> put[w].inode, rest |-> put[w].rest]
                                 /\ put[w].pc \in {"idle", "copy", "close", "rename"}
                                 /\ put[w].key \in Keys \cup {NoInode}
                                 /\ put[w].inode \in used \cup {NoInode}
                                 /\ put[w].rest \in Seq(Blocks)
           /\ \A r \in Readers : /\ read[r] = [pc |-> read[r].pc, inode |-> read[r].inode,
                                               window |-> read[r].window, got |-> read[r].got]
                                 /\ read[r].pc \in {"idle", "read"}
                                 /\ read[r].inode \in used \cup {NoInode}
                                 /\ read[r].window \in Nat \X Nat
                                 /\ read[r].got \in Seq(Blocks)
           /\ used \subseteq Inodes /\ \A i \in Inodes : data[i] \in Seq(Blocks)
BY DEF StoreInv, TypeOK

\* Each step keeps it.  A new file is nobody's yet.
LEMMA CreateTempSafe ==
    ASSUME StoreInv, NEW w \in Writers, NEW k \in Keys, NEW object \in Objects, NEW i \in Inodes,
           CreateTemp(w, k, object, i)
    PROVE  StoreInv'
<1>1. /\ i \notin used /\ used' = used \cup {i} /\ UNCHANGED <<data, synced, read, orphans>>
      /\ put' = [put EXCEPT ![w] = [pc |-> "copy", key |-> k, inode |-> i, rest |-> object]]
      /\ Link([n \in {i} |-> i])
  BY DEF CreateTemp
<1>2. /\ put'[w] = [pc |-> "copy", key |-> k, inode |-> i, rest |-> object]
      /\ \A v \in Writers \ {w} : put'[v] = put[v]
      /\ put' = [v \in Writers |-> put'[v]]
  BY <1>1, Shapes
<1>3. /\ dir' \in [Names -> used' \cup {NoInode}]
      /\ maybe' \in [Names -> SUBSET (used' \cup {NoInode})]
      /\ \A n \in Names : dir'[n] \in maybe'[n]
      /\ \A j \in Inodes : maybe'[j] \subseteq {j, NoInode}
      /\ \A n \in Names \ {i} : dir'[n] = dir[n] /\ maybe'[n] = maybe[n]
  <2> DEFINE f == [n \in {i} |-> i]
  <2>1. DOMAIN f = {i} /\ f[i] = i /\ {i} \subseteq Names
    BY DEF Names
  <2> HIDE DEF f
  <2>2. Link(f)
    BY <1>1 DEF f
  <2> QED BY <1>1, <2>1, <2>2, LinkEntries DEF StoreInv
<1>4. i # NoInode /\ i \notin Keys /\ object \in Seq(Blocks) /\ \A j \in Keys : j \in Names \ {i}
  BY FileAssumption, ObjectsAssumption DEF Names
<1>5. TypeOK'
  <2>1. put' \in [Writers -> [pc : {"idle", "copy", "close", "rename"}, key : Keys \cup {NoInode},
                             inode : used' \cup {NoInode}, rest : Seq(Blocks)]]
    <3>1. ASSUME NEW v \in Writers
          PROVE  put'[v] \in [pc : {"idle", "copy", "close", "rename"}, key : Keys \cup {NoInode},
                             inode : used' \cup {NoInode}, rest : Seq(Blocks)]
      BY <1>1, <1>2, <1>4 DEF StoreInv, TypeOK
    <3> QED BY <1>2, <3>1
  <2>2. read' \in [Readers -> [pc : {"idle", "read"}, inode : used' \cup {NoInode},
                              window : Nat \X Nat, got : Seq(Blocks)]]
    <3>1. ASSUME NEW r \in Readers
          PROVE  read'[r] \in [pc : {"idle", "read"}, inode : used' \cup {NoInode},
                              window : Nat \X Nat, got : Seq(Blocks)]
      BY <1>1 DEF StoreInv, TypeOK
    <3>2. read' = [r \in Readers |-> read'[r]]
      BY <1>1, Shapes
    <3> QED BY <3>1, <3>2
  <2> QED BY <1>1, <1>3, <2>1, <2>2 DEF StoreInv, TypeOK
<1>6. \A j \in Keys : maybe'[j] = maybe[j] /\ maybe[j] \subseteq used \cup {NoInode}
  BY <1>3, <1>4 DEF StoreInv, TypeOK, Names
<1>7. NamedInv'
  BY <1>1, <1>6 DEF StoreInv, NamedInv
<1>8. ASSUME NEW v \in Writers PROVE PutInv(v)'
  <2>1. CASE v = w
    <3>1. data[i] \o object \in Objects
      BY <1>1, <1>4, NoBlock DEF StoreInv
    <3>2. \A u \in Writers \ {w} : put[u].pc # "idle" => put[u].inode # i
      BY <1>1, <1>4, Shapes
    <3>3. \A r \in Readers : read[r].inode # i
      BY <1>1, <1>4, Shapes
    <3> QED BY <1>1, <1>2, <1>4, <1>6, <2>1, <3>1, <3>2, <3>3 DEF PutInv, ReadAt
  <2>2. CASE v # w
    <3>1. put[v].pc # "idle" => put[v].inode \in used /\ put[v].inode # i
      BY <1>1, Shapes DEF StoreInv, PutInv
    <3> QED BY <1>1, <1>2, <1>6, <2>2, <3>1 DEF StoreInv, PutInv, ReadAt
  <2> QED BY <2>1, <2>2
<1>9. \A r \in Readers : ReadInv(r)'
  BY <1>1 DEF StoreInv, ReadInv, ReadAt
<1> QED BY <1>1, <1>5, <1>7, <1>8, <1>9 DEF StoreInv

\* Writing a block changes a file nobody else has.
LEMMA CopyBlockSafe ==
    ASSUME StoreInv, NEW w \in Writers, CopyBlock(w)
    PROVE  StoreInv'
<1> DEFINE i == put[w].inode
<1>1. /\ put[w].pc = "copy" /\ put[w].rest # <<>>
      /\ data' = [data EXCEPT ![i] = Append(@, Head(put[w].rest))]
      /\ put' = [put EXCEPT ![w].rest = Tail(@)]
      /\ UNCHANGED <<synced, dir, maybe, used, read, orphans>>
  BY DEF CopyBlock, PutAt
<1>2. PutInv(w) /\ i \in used /\ i \in Inodes
  BY <1>1, Shapes DEF StoreInv, PutInv
<1>3. /\ data[i] \in Seq(Blocks) /\ put[w].rest \in Seq(Blocks)
      /\ data[i] \o put[w].rest \in Objects
  BY <1>1, <1>2, Shapes DEF PutInv
<1>4. /\ Append(data[i], Head(put[w].rest)) \in Seq(Blocks) /\ Tail(put[w].rest) \in Seq(Blocks)
      /\ Append(data[i], Head(put[w].rest)) \o Tail(put[w].rest) = data[i] \o put[w].rest
  <2> DEFINE written == data[i]
             rest == put[w].rest
  <2>1. written \in Seq(Blocks) /\ rest \in Seq(Blocks) /\ rest # <<>>
    BY <1>1, <1>3
  <2> HIDE DEF written, rest
  <2>2. /\ Append(written, Head(rest)) \in Seq(Blocks) /\ Tail(rest) \in Seq(Blocks)
        /\ Append(written, Head(rest)) \o Tail(rest) = written \o rest
    BY <2>1, NextBlock
  <2> QED BY <2>2 DEF written, rest
<1>5. /\ data'[i] = Append(data[i], Head(put[w].rest)) /\ \A j \in Inodes \ {i} : data'[j] = data[j]
      /\ data' \in [Inodes -> Seq(Blocks)]
  BY <1>1, <1>2, <1>4 DEF StoreInv, TypeOK
<1>6. /\ put'[w].pc = "copy" /\ put'[w].rest = Tail(put[w].rest) /\ put'[w].inode = i
      /\ put'[w].key = put[w].key
      /\ \A v \in Writers \ {w} : put'[v] = put[v]
      /\ put' \in [Writers -> [pc : {"idle", "copy", "close", "rename"}, key : Keys \cup {NoInode},
                              inode : used \cup {NoInode}, rest : Seq(Blocks)]]
  <2>1. /\ put' = [v \in Writers |-> put'[v]] /\ \A v \in Writers \ {w} : put'[v] = put[v]
        /\ put'[w] = [put[w] EXCEPT !.rest = Tail(put[w].rest)]
    BY <1>1, Shapes
  <2>2. put'[w] = [pc |-> "copy", key |-> put[w].key, inode |-> i, rest |-> Tail(put[w].rest)]
    <3> DEFINE p == put[w]
               rest == Tail(p.rest)
    <3>1. p = [pc |-> p.pc, key |-> p.key, inode |-> p.inode, rest |-> p.rest]
      BY Shapes
    <3> HIDE DEF p, rest
    <3>2. [p EXCEPT !.rest = rest] = [pc |-> p.pc, key |-> p.key, inode |-> p.inode, rest |-> rest]
      BY <3>1
    <3> QED BY <1>1, <2>1, <3>2 DEF p, rest
  <2>3. put'[w] \in [pc : {"idle", "copy", "close", "rename"}, key : Keys \cup {NoInode},
                     inode : used \cup {NoInode}, rest : Seq(Blocks)]
    BY <1>4, <2>2, Shapes
  <2>4. ASSUME NEW v \in Writers
        PROVE  put'[v] \in [pc : {"idle", "copy", "close", "rename"}, key : Keys \cup {NoInode},
                           inode : used \cup {NoInode}, rest : Seq(Blocks)]
    BY <2>1, <2>3 DEF StoreInv, TypeOK
  <2> QED BY <2>1, <2>2, <2>4
<1> HIDE DEF i
<1>7. TypeOK'
  BY <1>1, <1>5, <1>6 DEF StoreInv, TypeOK
<1>8. NamedInv'
  <2>1. ASSUME NEW k \in Keys, NEW j \in maybe[k] \ {NoInode} PROVE data'[j] = data[j]
    <3>1. i \notin maybe[k] /\ j \in Inodes
      BY <1>1, <1>2 DEF StoreInv, TypeOK, Names, PutInv, i
    <3> QED BY <1>5, <3>1
  <2> QED BY <1>1, <2>1 DEF StoreInv, NamedInv
<1>9. ASSUME NEW v \in Writers PROVE PutInv(v)'
  <2>1. CASE v = w
    <3>1. data'[i] \o Tail(put[w].rest) \in Objects
      BY <1>3, <1>4, <1>5
    <3>2. /\ put[w].key \in Keys /\ i # NoInode /\ \A k \in Keys : i \notin maybe[k]
          /\ \A u \in Writers \ {w} : put[u].pc # "idle" => put[u].inode # i
          /\ \A r \in Readers : read[r].pc = "read" => read[r].inode # i
      BY <1>1, <1>2 DEF PutInv, ReadAt, i
    <3> QED BY <1>1, <1>6, <2>1, <3>1, <3>2 DEF PutInv, ReadAt
  <2>2. CASE v # w
    <3>1. put[v].pc # "idle" => put[v].inode \in Inodes \ {i}
      BY <1>1, <1>2, <2>2, Shapes DEF StoreInv, PutInv, i
    <3> QED BY <1>1, <1>5, <1>6, <2>2, <3>1 DEF StoreInv, PutInv, ReadAt, i
  <2> QED BY <2>1, <2>2
<1>10. ASSUME NEW r \in Readers PROVE ReadInv(r)'
  <2>1. ReadAt(r, "read") => read[r].inode \in Inodes \ {i}
    BY <1>1, <1>2, Shapes DEF StoreInv, PutInv, ReadInv, i
  <2> QED BY <1>1, <1>5, <2>1 DEF StoreInv, ReadInv, ReadAt
<1>11. \A j \in Inodes \ used' : data'[j] = <<>>
  BY <1>1, <1>2, <1>5 DEF StoreInv
<1> QED BY <1>7, <1>8, <1>9, <1>10, <1>11 DEF StoreInv

\* Syncing and closing a file write nothing.
LEMMA SyncCloseSafe ==
    ASSUME StoreInv, NEW w \in Writers, SyncTemp(w) \/ CloseTemp(w)
    PROVE  StoreInv'
<1>1. /\ UNCHANGED <<data, dir, maybe, used, read, orphans>>
      /\ put[w].pc # "idle" /\ (put[w].pc = "copy" => put[w].rest = <<>>)
      /\ put'[w].pc \in {"close", "rename"} /\ put'[w].inode = put[w].inode
      /\ put'[w].rest = put[w].rest /\ put'[w].key = put[w].key
      /\ \A v \in Writers \ {w} : put'[v] = put[v]
      /\ put' \in [Writers -> [pc : {"idle", "copy", "close", "rename"}, key : Keys \cup {NoInode},
                              inode : used \cup {NoInode}, rest : Seq(Blocks)]]
      /\ synced \subseteq synced' /\ synced' \subseteq synced \cup {put[w].inode}
      /\ put[w].pc = "copy" /\ SyncSupported => put[w].inode \in synced'
  <2>1. /\ put \in [Writers -> [pc : {"idle", "copy", "close", "rename"}, key : Keys \cup {NoInode},
                               inode : used \cup {NoInode}, rest : Seq(Blocks)]]
        /\ UNCHANGED <<data, dir, maybe, used, read, orphans>>
    BY DEF SyncTemp, CloseTemp, StoreInv, TypeOK
  <2>2. CASE SyncTemp(w)
    <3>1. put[w].pc = "copy" /\ put[w].rest = <<>> /\ put' = [put EXCEPT ![w].pc = "close"]
          /\ synced' = IF SyncSupported THEN synced \cup {put[w].inode} ELSE synced
      BY <2>2 DEF SyncTemp, PutAt
    <3> QED BY <2>1, <3>1
  <2>3. CASE CloseTemp(w)
    <3>1. put[w].pc = "close" /\ put' = [put EXCEPT ![w].pc = "rename"] /\ synced' = synced
      BY <2>3 DEF CloseTemp, PutAt
    <3> QED BY <2>1, <3>1
  <2> QED BY <2>2, <2>3
<1>2. put[w].inode \in used
  BY <1>1, Shapes DEF StoreInv, PutInv
<1>3. TypeOK'
  BY <1>1, <1>2 DEF StoreInv, TypeOK
<1>4. NamedInv'
  BY <1>1 DEF StoreInv, NamedInv
<1>5. ASSUME NEW v \in Writers PROVE PutInv(v)'
  <2>1. PutInv(v) /\ PutInv(w)
    BY DEF StoreInv
  <2>2. CASE v = w
    BY <1>1, <2>1, <2>2 DEF PutInv, ReadAt
  <2>3. CASE v # w
    <3>1. /\ put'[v] = put[v] /\ data' = data /\ maybe' = maybe /\ read' = read
          /\ synced \subseteq synced'
      BY <1>1, <2>3
    <3>2. \A u \in Writers \ {v} : put'[u].pc # "idle" => put[u].pc # "idle" /\ put'[u].inode = put[u].inode
      <4> SUFFICES ASSUME NEW u \in Writers \ {v}, put'[u].pc # "idle"
                   PROVE  put[u].pc # "idle" /\ put'[u].inode = put[u].inode
        OBVIOUS
      <4>1. u = w \/ put'[u] = put[u]
        BY <1>1
      <4> QED BY <1>1, <4>1
    <3> QED BY <2>1, <3>1, <3>2 DEF PutInv, ReadAt
  <2> QED BY <2>2, <2>3
<1>6. \A r \in Readers : ReadInv(r)'
  BY <1>1 DEF StoreInv, ReadInv, ReadAt
<1> QED BY <1>1, <1>3, <1>4, <1>5, <1>6 DEF StoreInv

\* When a Put ends in one way or another, its process holds nothing, and the others what
\* they held.
LEMMA PutEnds ==
    ASSUME StoreInv, NEW w \in Writers, put' = [put EXCEPT ![w] = PutIdle],
           UNCHANGED <<data, synced, used, read>>, orphans' \subseteq used,
           dir' \in [Names -> used \cup {NoInode}],
           maybe' \in [Names -> SUBSET (used \cup {NoInode})],
           \A n \in Names : dir'[n] \in maybe'[n],
           \A j \in Inodes : maybe'[j] \subseteq {j, NoInode},
           NamedInv',
           \A v \in Writers \ {w}, k \in Keys :
              put[v].pc # "idle" /\ put[v].inode \notin maybe[k] => put[v].inode \notin maybe'[k]
    PROVE  StoreInv'
<1>1. /\ put'[w] = PutIdle /\ \A v \in Writers \ {w} : put'[v] = put[v]
      /\ put' = [v \in Writers |-> put'[v]]
  BY Shapes
<1>2. put' \in [Writers -> [pc : {"idle", "copy", "close", "rename"}, key : Keys \cup {NoInode},
                           inode : used \cup {NoInode}, rest : Seq(Blocks)]]
  <2>1. ASSUME NEW v \in Writers
        PROVE  put'[v] \in [pc : {"idle", "copy", "close", "rename"}, key : Keys \cup {NoInode},
                           inode : used \cup {NoInode}, rest : Seq(Blocks)]
    BY <1>1 DEF PutIdle, StoreInv, TypeOK
  <2> QED BY <1>1, <2>1
<1>3. TypeOK'
  BY <1>2 DEF StoreInv, TypeOK
<1>4. ASSUME NEW v \in Writers PROVE PutInv(v)'
  <2>1. CASE v = w
    BY <1>1, <2>1 DEF PutInv, PutIdle
  <2>2. CASE v # w
    <3>1. PutInv(v)
      BY DEF StoreInv
    <3>2. put'[w].pc = "idle"
      BY <1>1 DEF PutIdle
    <3> QED BY <1>1, <2>2, <3>1, <3>2 DEF PutInv, ReadAt
  <2> QED BY <2>1, <2>2
<1>5. \A r \in Readers : ReadInv(r)'
  BY DEF StoreInv, ReadInv, ReadAt
<1> QED BY <1>3, <1>4, <1>5 DEF StoreInv

\* The rename puts a finished file under its key.
LEMMA RenameTempSafe ==
    ASSUME StoreInv, NEW w \in Writers, RenameTemp(w)
    PROVE  StoreInv'
<1> DEFINE i == put[w].inode
           k == put[w].key
           f == [n \in {i, k} |-> IF n = k THEN i ELSE NoInode]
<1>1. /\ put[w].pc = "rename" /\ Link(f) /\ put' = [put EXCEPT ![w] = PutIdle]
      /\ UNCHANGED <<data, synced, used, read, orphans>>
  BY DEF RenameTemp, PutAt
<1>2. PutInv(w) /\ i \in used /\ i \in Inodes /\ k \in Keys /\ i # NoInode /\ i # k
  BY <1>1, Shapes, FileAssumption DEF StoreInv, PutInv
<1>3. data[i] \in Objects /\ (SyncSupported => i \in synced)
  <2>1. data[i] \o <<>> \in Objects /\ (SyncSupported => i \in synced)
    BY <1>1, <1>2 DEF PutInv
  <2>2. data[i] \in Seq(Blocks)
    BY <1>2, Shapes
  <2> QED BY <2>1, <2>2, NoBlock
<1>4. /\ dir' \in [Names -> used' \cup {NoInode}]
      /\ maybe' \in [Names -> SUBSET (used' \cup {NoInode})]
      /\ \A n \in Names : dir'[n] \in maybe'[n]
      /\ \A j \in Inodes : maybe'[j] \subseteq {j, NoInode}
      /\ \A n \in Names : n \notin {i, k} => dir'[n] = dir[n] /\ maybe'[n] = maybe[n]
      /\ dir'[k] = i /\ maybe'[k] = maybe[k] \cup {i}
      /\ dir'[i] = NoInode
  <2>1. /\ DOMAIN f = {i, k} /\ f[k] = i /\ f[i] = NoInode /\ {i, k} \subseteq Names
        /\ \A n \in DOMAIN f : f[n] \in used' \cup {NoInode}
        /\ \A j \in Inodes \cap DOMAIN f : f[j] \in {j, NoInode}
    BY <1>1, <1>2, FileAssumption DEF Names
  <2> HIDE DEF f
  <2> QED BY <1>1, <2>1, LinkEntries DEF StoreInv
<1> HIDE DEF f, i, k
<1>5. NamedInv'
  <2>1. \A j \in Keys \ {k} : maybe'[j] = maybe[j]
    BY <1>2, <1>4, FileAssumption DEF Names
  <2> QED BY <1>1, <1>3, <1>4, <2>1 DEF StoreInv, NamedInv
<1>6. ASSUME NEW v \in Writers \ {w}, NEW j \in Keys, put[v].pc # "idle", put[v].inode \notin maybe[j]
      PROVE  put[v].inode \notin maybe'[j]
  <2>1. put[v].inode # i
    BY <1>1, <1>2, <1>6 DEF PutInv, i
  <2> QED BY <1>2, <1>4, <1>6, <2>1, FileAssumption DEF Names
<1>7. orphans' \subseteq used
  BY <1>1 DEF StoreInv, TypeOK
<1> QED BY <1>1, <1>4, <1>5, <1>6, <1>7, PutEnds

\* A Put that fails takes its file away, and one that is killed leaves it.
LEMMA FailPutSafe ==
    ASSUME StoreInv, NEW w \in Writers, FailPut(w) \/ KillPut(w)
    PROVE  StoreInv'
<1> DEFINE i == put[w].inode
           f == [n \in {i} |-> NoInode]
<1>1. /\ put[w].pc # "idle" /\ put' = [put EXCEPT ![w] = PutIdle]
      /\ UNCHANGED <<data, synced, used, read>>
      /\ orphans' \subseteq orphans \cup {i}
  BY DEF FailPut, KillPut, PutAt
<1>2. i \in used /\ i \in Inodes /\ i # NoInode
  BY <1>1, Shapes DEF StoreInv, PutInv
<1>3. /\ dir' \in [Names -> used' \cup {NoInode}]
      /\ maybe' \in [Names -> SUBSET (used' \cup {NoInode})]
      /\ \A n \in Names : dir'[n] \in maybe'[n]
      /\ \A j \in Inodes : maybe'[j] \subseteq {j, NoInode}
      /\ \A n \in Names : n # i => dir'[n] = dir[n] /\ maybe'[n] = maybe[n]
  <2>1. CASE FailPut(w)
    <3>1. Link(f)
      BY <2>1 DEF FailPut
    <3>2. /\ DOMAIN f = {i} /\ f[i] = NoInode /\ {i} \subseteq Names
      BY <1>2 DEF Names
    <3> HIDE DEF f
    <3> QED BY <1>1, <3>1, <3>2, LinkEntries DEF StoreInv
  <2>2. CASE KillPut(w)
    BY <2>2 DEF KillPut, StoreInv, TypeOK
  <2> QED BY <2>1, <2>2
<1> HIDE DEF f, i
<1>4. \A k \in Keys : maybe'[k] = maybe[k]
  BY <1>2, <1>3, FileAssumption DEF Names
<1>5. NamedInv'
  BY <1>1, <1>4 DEF StoreInv, NamedInv
<1>6. orphans' \subseteq used
  BY <1>1, <1>2 DEF StoreInv, TypeOK
<1> QED BY <1>1, <1>3, <1>4, <1>5, <1>6, PutEnds

\* Deleting an object touches no file.
LEMMA DeleteObjectSafe ==
    ASSUME StoreInv, NEW k \in Keys, DeleteObject(k)
    PROVE  StoreInv'
<1> DEFINE f == [n \in {k} |-> NoInode]
<1>1. UNCHANGED <<data, synced, used, put, read, orphans>> /\ Link(f)
  BY DEF DeleteObject
<1>2. /\ dir' \in [Names -> used' \cup {NoInode}]
      /\ maybe' \in [Names -> SUBSET (used' \cup {NoInode})]
      /\ \A n \in Names : dir'[n] \in maybe'[n]
      /\ \A j \in Inodes : maybe'[j] \subseteq {j, NoInode}
      /\ \A n \in Names : n # k => maybe'[n] = maybe[n]
      /\ maybe'[k] = maybe[k] \cup {NoInode}
  <2>1. /\ DOMAIN f = {k} /\ f[k] = NoInode /\ {k} \subseteq Names /\ k \notin Inodes
    BY FileAssumption DEF Names
  <2> HIDE DEF f
  <2> QED BY <1>1, <2>1, LinkEntries DEF StoreInv
<1>3. \A j \in Keys : maybe'[j] \ {NoInode} = maybe[j] \ {NoInode}
  BY <1>2 DEF Names
<1>4. TypeOK'
  BY <1>1, <1>2 DEF StoreInv, TypeOK
<1>5. NamedInv'
  BY <1>1, <1>3 DEF StoreInv, NamedInv
<1>6. \A w \in Writers : PutInv(w)'
  BY <1>1, <1>3 DEF StoreInv, PutInv, ReadAt
<1>7. \A r \in Readers : ReadInv(r)'
  BY <1>1 DEF StoreInv, ReadInv, ReadAt
<1> QED BY <1>1, <1>4, <1>5, <1>6, <1>7 DEF StoreInv

\* Readers change nothing but what they have in hand.
LEMMA ReadersSafe ==
    ASSUME StoreInv, NEW r \in Readers, NEW e,
           e \in [pc : {"idle", "read"}, inode : used \cup {NoInode},
                  window : Nat \X Nat, got : Seq(Blocks)],
           read' = [read EXCEPT ![r] = e],
           UNCHANGED <<data, synced, dir, maybe, used, put, orphans>>,
           ReadInv(r)',
           e.pc = "read" => \A w \in Writers : put[w].pc # "idle" => put[w].inode # e.inode
    PROVE  StoreInv'
<1>1. /\ read'[r] = e /\ \A q \in Readers \ {r} : read'[q] = read[q]
      /\ read' = [q \in Readers |-> read'[q]]
  BY Shapes
<1>2. read' \in [Readers -> [pc : {"idle", "read"}, inode : used \cup {NoInode},
                             window : Nat \X Nat, got : Seq(Blocks)]]
  <2>1. ASSUME NEW q \in Readers
        PROVE  read'[q] \in [pc : {"idle", "read"}, inode : used \cup {NoInode},
                             window : Nat \X Nat, got : Seq(Blocks)]
    BY <1>1 DEF StoreInv, TypeOK
  <2> QED BY <1>1, <2>1
<1>3. TypeOK'
  BY <1>2 DEF StoreInv, TypeOK
<1>4. NamedInv'
  BY DEF StoreInv, NamedInv
<1>5. ASSUME NEW w \in Writers PROVE PutInv(w)'
  <2>1. PutInv(w)
    BY DEF StoreInv
  <2> QED BY <1>1, <2>1 DEF PutInv, ReadAt
<1>6. ASSUME NEW q \in Readers PROVE ReadInv(q)'
  BY <1>1 DEF StoreInv, ReadInv, ReadAt
<1> QED BY <1>3, <1>4, <1>5, <1>6 DEF StoreInv

\* A file that is opened is one with a key, so nobody writes it.
LEMMA OpenObjectSafe ==
    ASSUME StoreInv, NEW r \in Readers, NEW k \in Keys, NEW w \in Windows, OpenObject(r, k, w)
    PROVE  StoreInv'
<1> DEFINE e == [pc |-> "read", inode |-> dir[k], window |-> w, got |-> <<>>]
<1>1. /\ k \in Listed /\ read' = [read EXCEPT ![r] = e]
      /\ UNCHANGED <<data, synced, dir, maybe, used, put, orphans>>
  BY DEF OpenObject
<1>2. dir[k] \in used /\ dir[k] # NoInode /\ dir[k] \in maybe[k]
  BY <1>1 DEF Listed, Entries, Names, StoreInv, TypeOK
<1>3. w \in Nat \X Nat
  BY FileAssumption
<1>4. e \in [pc : {"idle", "read"}, inode : used \cup {NoInode}, window : Nat \X Nat, got : Seq(Blocks)]
  BY <1>2, <1>3
<1>5. ReadInv(r)'
  <2>1. read'[r] = e
    BY <1>1, Shapes
  <2>2. w[2] \in Nat
    BY <1>3
  <2> QED BY <1>2, <2>1, <2>2 DEF ReadInv
<1>6. \A v \in Writers : put[v].pc # "idle" => put[v].inode # dir[k]
  BY <1>2 DEF StoreInv, PutInv
<1>7. e.inode = dir[k]
  OBVIOUS
<1> HIDE DEF e
<1> QED BY <1>1, <1>4, <1>5, <1>6, <1>7, ReadersSafe

\* A block read is the next of the window.
LEMMA ReadBlockSafe ==
    ASSUME StoreInv, NEW r \in Readers, ReadBlock(r)
    PROVE  StoreInv'
<1> DEFINE i == read[r].inode
           w == read[r].window
           got == read[r].got
           block == data[i][w[1] + Len(got) + 1]
           e == [pc |-> "read", inode |-> i, window |-> w, got |-> Append(got, block)]
<1>1. /\ read[r].pc = "read" /\ Len(got) < w[2] /\ w[1] + Len(got) + 1 <= Len(data[i])
      /\ read' = [read EXCEPT ![r].got = Append(@, block)]
      /\ UNCHANGED <<data, synced, dir, maybe, used, put, orphans>>
  BY DEF ReadBlock, ReadAt, More, Place
<1>2. /\ i \in used \cup {NoInode} /\ w \in Nat \X Nat /\ got \in Seq(Blocks)
      /\ w[1] \in Nat /\ w[2] \in Nat
  BY Shapes
<1>3. /\ i # NoInode /\ (got = <<>> \/ w[1] + Len(got) <= Len(data[i]))
      /\ \A j \in 1 .. Len(got) : got[j] = data[i][w[1] + j]
  BY <1>1 DEF StoreInv, ReadInv, ReadAt
<1>4. i \in used /\ data[i] \in Seq(Blocks)
  BY <1>2, <1>3, Shapes
<1>5. block \in Blocks
  <2> DEFINE s == data[i]
             j == w[1] + Len(got) + 1
  <2>1. s \in Seq(Blocks) /\ j \in 1 .. Len(s)
    <3>1. s \in Seq(Blocks) /\ Len(s) \in Nat
      BY <1>4
    <3>2. w[1] \in Nat /\ Len(got) \in Nat
      BY <1>2
    <3>3. j <= Len(s)
      BY <1>1
    <3>4. \A m, n, l \in Nat : m + n + 1 <= l => m + n + 1 \in 1 .. l
      OBVIOUS
    <3> QED BY <3>1, <3>2, <3>3, <3>4
  <2> HIDE DEF s, j
  <2>2. s[j] \in Blocks
    BY <2>1
  <2> QED BY <2>2 DEF s, j
<1>6. read' = [read EXCEPT ![r] = e]
  <2> DEFINE p == read[r]
             more == Append(p.got, block)
  <2>1. p = [pc |-> p.pc, inode |-> p.inode, window |-> p.window, got |-> p.got]
    BY Shapes
  <2> HIDE DEF p, more
  <2>2. [p EXCEPT !.got = more] = [pc |-> p.pc, inode |-> p.inode, window |-> p.window, got |-> more]
    BY <2>1
  <2>3. [read[r] EXCEPT !.got = Append(got, block)] = e
    BY <1>1, <2>2 DEF p, more
  <2> QED BY <1>1, <2>3
<1> HIDE DEF block
<1>7. e \in [pc : {"idle", "read"}, inode : used \cup {NoInode}, window : Nat \X Nat, got : Seq(Blocks)]
  BY <1>2, <1>5
<1>8. ReadInv(r)'
  <2>1. read'[r] = e
    BY <1>6, Shapes
  <2>2. /\ Len(Append(got, block)) = Len(got) + 1
        /\ \A j \in 1 .. Len(got) : Append(got, block)[j] = got[j]
        /\ Append(got, block)[Len(got) + 1] = block
    BY <1>2, <1>5
  <2>3. \A j \in 1 .. Len(got) + 1 : Append(got, block)[j] = data[i][w[1] + j]
    <3>1. Len(got) \in Nat
      BY <1>2
    <3>2. \A j \in 1 .. Len(got) + 1 : j \in 1 .. Len(got) \/ j = Len(got) + 1
      BY <3>1
    <3>3. block = data[i][w[1] + (Len(got) + 1)]
      <4>1. \A m, n \in Nat : m + n + 1 = m + (n + 1)
        OBVIOUS
      <4>2. w[1] \in Nat
        BY <1>2
      <4>3. w[1] + Len(got) + 1 = w[1] + (Len(got) + 1)
        BY <3>1, <4>1, <4>2, Zenon
      <4> QED BY <4>3, Zenon DEF block
    <3> QED BY <1>3, <2>2, <3>2, <3>3
  <2>4. Len(got) + 1 <= w[2] /\ w[1] + (Len(got) + 1) <= Len(data[i])
    BY <1>1, <1>2, SMTT(30)
  <2>5. e.inode = i /\ e.window = w /\ e.got = Append(got, block)
    OBVIOUS
  <2> HIDE DEF e
  <2> QED BY <1>1, <1>3, <2>1, <2>2, <2>3, <2>4, <2>5 DEF ReadInv
<1>9. \A v \in Writers : put[v].pc # "idle" => put[v].inode # i
  BY <1>1 DEF StoreInv, PutInv, ReadAt
<1>10. e.inode = i
  OBVIOUS
<1> HIDE DEF e, i
<1> QED BY <1>1, <1>6, <1>7, <1>8, <1>9, <1>10, ReadersSafe

\* When the read ends nothing is open.
LEMMA ReadEndsSafe ==
    ASSUME StoreInv, NEW r \in Readers, FinishRead(r) \/ AbandonRead(r)
    PROVE  StoreInv'
<1>1. UNCHANGED <<data, synced, dir, maybe, used, put, orphans>>
  BY DEF FinishRead, AbandonRead
<1> DEFINE End(got) == [pc |-> "idle", inode |-> NoInode, window |-> <<0, 0>>, got |-> got]
<1>2. PICK got \in Seq(Blocks) : read' = [read EXCEPT ![r] = End(got)]
  <2>1. CASE FinishRead(r)
    <3>1. [ReadIdle EXCEPT !.got = read[r].got] = End(read[r].got) /\ read[r].got \in Seq(Blocks)
      <4>1. [ReadIdle EXCEPT !.got = read[r].got] = End(read[r].got)
        BY DEF ReadIdle
      <4>2. read[r].got \in Seq(Blocks)
        BY Shapes
      <4> QED BY <4>1, <4>2
    <3>2. read' = [read EXCEPT ![r] = End(read[r].got)]
      BY <2>1, <3>1 DEF FinishRead
    <3> HIDE DEF End
    <3> QED BY <3>1, <3>2
  <2>2. CASE AbandonRead(r)
    <3>1. read' = [read EXCEPT ![r] = End(<<>>)] /\ <<>> \in Seq(Blocks)
      BY <2>2 DEF AbandonRead, ReadIdle
    <3> HIDE DEF End
    <3> QED BY <3>1
  <2> QED BY <2>1, <2>2
<1> DEFINE e == End(got)
<1>3. /\ e.pc = "idle"
      /\ e \in [pc : {"idle", "read"}, inode : used \cup {NoInode},
                window : Nat \X Nat, got : Seq(Blocks)]
  OBVIOUS
<1>4. read' = [read EXCEPT ![r] = e]
  BY <1>2
<1> HIDE DEF e, End
<1>5. ReadInv(r)'
  <2>1. read'[r] = e
    BY <1>4, Shapes
  <2> QED BY <1>3, <2>1 DEF ReadInv, ReadAt
<1> QED BY <1>1, <1>3, <1>4, <1>5, ReadersSafe

-----------------------------------------------------------------------------
\* Files that are put survive a power loss where fsync works.
LEMMA PowerLossSafe ==
    ASSUME StoreInv, SyncSupported, PowerLoss
    PROVE  StoreInv'
<1>1. PICK old \in [Unsettled -> used \cup {NoInode}] :
          /\ \A n \in Unsettled : old[n] \in maybe[n]
          /\ dir' = [n \in Names |-> IF n \in Unsettled THEN old[n] ELSE dir[n]]
  BY DEF PowerLoss
<1>2. PICK cut : /\ \A i \in Unsynced : cut[i] \in 0 .. Len(data[i])
                 /\ data' = [i \in Inodes |-> IF i \in Unsynced THEN SubSeq(data[i], 1, cut[i])
                                              ELSE data[i]]
  BY DEF PowerLoss
<1>3. /\ maybe' = [n \in Names |-> {dir'[n]}] /\ synced' = used /\ used' = used
      /\ put' = [w \in Writers |-> PutIdle] /\ read' = [r \in Readers |-> ReadIdle]
      /\ orphans' = orphans \cup used
  BY DEF PowerLoss
<1>4. \A n \in Names : dir'[n] \in maybe[n]
  BY <1>1 DEF StoreInv, TypeOK
<1>5. /\ dir' \in [Names -> used \cup {NoInode}]
      /\ maybe' \in [Names -> SUBSET (used \cup {NoInode})]
      /\ \A n \in Names : dir'[n] \in maybe'[n] /\ maybe'[n] \subseteq maybe[n]
      /\ \A i \in Inodes : maybe'[i] \subseteq {i, NoInode}
  <2>1. \A n \in Names : maybe[n] \subseteq used \cup {NoInode}
    BY DEF StoreInv, TypeOK
  <2>2. dir' = [n \in Names |-> dir'[n]]
    BY <1>1
  <2>3. \A n \in Names : dir'[n] \in used \cup {NoInode} /\ maybe'[n] = {dir'[n]}
    BY <1>3, <1>4, <2>1
  <2>4. ASSUME NEW i \in Inodes PROVE maybe'[i] \subseteq {i, NoInode}
    <3>1. i \in Names
      BY DEF Names
    <3>2. maybe[i] \subseteq {i, NoInode}
      BY DEF StoreInv, TypeOK
    <3>3. dir'[i] \in maybe[i] /\ maybe'[i] = {dir'[i]}
      BY <1>4, <2>3, <3>1
    <3> QED BY <3>2, <3>3
  <2>5. dir' \in [Names -> used \cup {NoInode}]
    BY <2>2, <2>3
  <2> QED BY <1>3, <1>4, <2>3, <2>4, <2>5, SMTT(30)
<1>6. data' \in [Inodes -> Seq(Blocks)]
  <2>1. ASSUME NEW i \in Inodes PROVE data'[i] \in Seq(Blocks)
    <3>1. data[i] \in Seq(Blocks)
      BY DEF StoreInv, TypeOK
    <3>2. i \in Unsynced => SubSeq(data[i], 1, cut[i]) \in Seq(Blocks)
      BY <1>2, <3>1, PrefixType
    <3> QED BY <1>2, <3>1, <3>2
  <2> QED BY <1>2, <2>1
<1>7. \A i \in Inodes \ Unsynced : data'[i] = data[i]
  BY <1>2
<1>8. TypeOK'
  <2>1. put' \in [Writers -> [pc : {"idle", "copy", "close", "rename"}, key : Keys \cup {NoInode},
                             inode : used \cup {NoInode}, rest : Seq(Blocks)]]
    BY <1>3 DEF PutIdle
  <2>2. read' \in [Readers -> [pc : {"idle", "read"}, inode : used \cup {NoInode},
                              window : Nat \X Nat, got : Seq(Blocks)]]
    BY <1>3 DEF ReadIdle
  <2>3. synced' \subseteq used' /\ used' \subseteq Inodes /\ orphans' \subseteq used'
    BY <1>3 DEF StoreInv, TypeOK
  <2> QED BY <1>3, <1>5, <1>6, <2>1, <2>2, <2>3 DEF TypeOK
<1>9. NamedInv'
  <2>1. ASSUME NEW k \in Keys, NEW i \in maybe'[k] \ {NoInode}
        PROVE  data'[i] \in Objects /\ i \in synced'
    <3>1. i \in maybe[k] \ {NoInode}
      BY <1>5 DEF Names
    <3>2. data[i] \in Objects /\ i \in synced /\ i \in used
      BY <3>1 DEF StoreInv, NamedInv, TypeOK
    <3>3. i \in Inodes \ Unsynced
      BY <3>2, Shapes DEF Unsynced
    <3> QED BY <1>3, <1>7, <3>2, <3>3
  <2> QED BY <2>1 DEF NamedInv
<1>10. /\ \A w \in Writers : PutInv(w)'
       /\ \A r \in Readers : ReadInv(r)'
  BY <1>3 DEF PutInv, ReadInv, ReadAt, PutIdle, ReadIdle
<1>11. \A i \in Inodes \ used' : data'[i] = <<>>
  BY <1>3, <1>7 DEF StoreInv, Unsynced
<1> QED BY <1>8, <1>9, <1>10, <1>11 DEF StoreInv

\* Where nothing is written nothing changes.
LEMMA StoreStutters == StoreInv /\ UNCHANGED vars => StoreInv'
BY DEF vars, StoreInv, TypeOK, NamedInv, PutInv, ReadInv, ReadAt

\* fsync is needed for power losses only.
Lasting == SyncSupported \/ "power" \notin Faults

\* Every step of the store keeps the invariant.
LEMMA StoreStep ==
    ASSUME StoreInv, Lasting, [Next]_vars
    PROVE  StoreInv'
<1>1. ASSUME NEW w \in Writers, WriterStep(w) PROVE StoreInv'
  <2>1. ASSUME NEW k \in Keys, NEW object \in Objects, NEW i \in Inodes,
               CreateTemp(w, k, object, i)
        PROVE  StoreInv'
    BY <2>1, CreateTempSafe
  <2>2. CASE CopyBlock(w)
    BY <2>2, CopyBlockSafe
  <2>3. CASE SyncTemp(w) \/ CloseTemp(w)
    BY <2>3, SyncCloseSafe
  <2>4. CASE RenameTemp(w)
    BY <2>4, RenameTempSafe
  <2>5. CASE FailPut(w) \/ KillPut(w)
    BY <2>5, FailPutSafe
  <2> QED BY <1>1, <2>1, <2>2, <2>3, <2>4, <2>5 DEF WriterStep
<1>2. ASSUME NEW r \in Readers, ReaderStep(r) PROVE StoreInv'
  <2>1. ASSUME NEW k \in Keys, NEW w \in Windows, OpenObject(r, k, w) PROVE StoreInv'
    BY <2>1, OpenObjectSafe
  <2>2. CASE ReadBlock(r)
    BY <2>2, ReadBlockSafe
  <2>3. CASE FinishRead(r) \/ AbandonRead(r)
    BY <2>3, ReadEndsSafe
  <2> QED BY <1>2, <2>1, <2>2, <2>3 DEF ReaderStep
<1>3. ASSUME NEW k \in Keys, DeleteObject(k) PROVE StoreInv'
  BY <1>3, DeleteObjectSafe
<1>4. CASE PowerLoss
  <2>1. SyncSupported
    BY <1>4 DEF PowerLoss, Lasting
  <2> QED BY <1>4, <2>1, PowerLossSafe
<1>5. CASE UNCHANGED vars
  BY <1>5, StoreStutters
<1> QED BY <1>1, <1>2, <1>3, <1>4, <1>5 DEF Next

\* Whoever puts, reads and deletes at the same time, and whatever is killed or loses its
\* power, the invariant of the local store (local.go) holds, for any keys, processes and
\* objects; against power losses it needs an fsync that works.
THEOREM StoreInvariance == Lasting => (Spec => []StoreInv)
<1> SUFFICES ASSUME Lasting PROVE Spec => []StoreInv
  OBVIOUS
<1>1. Init => StoreInv
  BY InitStoreInv
<1>2. StoreInv /\ [Next]_vars => StoreInv'
  BY StoreStep
<1> QED BY <1>1, <1>2, PTL DEF Spec

\* What is listed is a whole object.
LEMMA NamedAreWhole == StoreInv => WholeObjects
<1> SUFFICES ASSUME StoreInv, NEW k \in Listed PROVE k \in Keys /\ data[dir[k]] \in Objects
  BY DEF WholeObjects
<1>1. k \in Keys
  BY DEF Listed, Entries, Names
<1>2. dir[k] \in maybe[k] \ {NoInode}
  BY DEF Listed, Entries, StoreInv, TypeOK
<1> QED BY <1>1, <1>2 DEF StoreInv, NamedInv

\* A reader never observes a partially written object (store.go:24): nothing that is
\* listed is cut short, with power losses too if fsync works.
THEOREM WholeAlways == Lasting => (Spec => []WholeObjects)
<1>1. StoreInv => WholeObjects
  BY NamedAreWhole
<1> QED BY <1>1, StoreInvariance, PTL

-----------------------------------------------------------------------------
\* What the store holds, and what its readers are to get.
Held == [k \in Listed |-> data[dir[k]]]
PartOf(e, files) == [open |-> e.pc = "read",
                     data |-> IF e.pc = "idle" THEN e.got ELSE Window(files[e.inode], e.window)]
Got == [r \in Readers |-> PartOf(read[r], data)]

LEMMA PartShut ==
    ASSUME NEW e, NEW files, e.pc = "idle"
    PROVE  PartOf(e, files) = [open |-> FALSE, data |-> e.got]
<1>1. (e.pc = "read") = FALSE
  OBVIOUS
<1>2. (IF e.pc = "idle" THEN e.got ELSE Window(files[e.inode], e.window)) = e.got
  OBVIOUS
<1> QED BY <1>1, <1>2, Zenon DEF PartOf

LEMMA PartOpen ==
    ASSUME NEW e, NEW files, e.pc = "read"
    PROVE  PartOf(e, files) = [open |-> TRUE, data |-> Window(files[e.inode], e.window)]
<1>1. (e.pc = "read") = TRUE
  OBVIOUS
<1>2. (IF e.pc = "idle" THEN e.got ELSE Window(files[e.inode], e.window))
         = Window(files[e.inode], e.window)
  OBVIOUS
<1> QED BY <1>1, <1>2, Zenon DEF PartOf

\* Nothing is listed, and nobody reads.
LEMMA InitRefines == Init => Store!Init
<1> SUFFICES ASSUME Init PROVE Store!Init
  OBVIOUS
<1>1. Held = <<>>
  BY DEF Init, Held, Listed, Entries
<1>2. \A r \in Readers : PartOf(read[r], data) = [open |-> FALSE, data |-> <<>>]
  <2>1. ASSUME NEW r \in Readers PROVE read[r].pc = "idle" /\ read[r].got = <<>>
    BY DEF Init, ReadIdle
  <2> QED BY <2>1, PartShut
<1>3. Got = [r \in Readers |-> [open |-> FALSE, data |-> <<>>]]
  BY <1>2, Zenon DEF Got
<1> QED BY <1>1, <1>3 DEF Store!Init, Held, Got, PartOf, ReadAt

\* A step on files that are not listed and on entries that are no keys is none of the store.
LEMMA HiddenStep ==
    ASSUME \A k \in Keys : dir'[k] = dir[k],
           Keys \cap Inodes = {},
           \A k \in Listed : data'[dir[k]] = data[dir[k]]
    PROVE  Listed' = Listed /\ Held' = Held
<1>1. Listed = {k \in Keys : dir[k] # NoInode} /\ Listed' = {k \in Keys : dir'[k] # NoInode}
  BY DEF Listed, Entries, Names
<1>2. Listed' = Listed
  BY <1>1
<1> QED BY <1>1, <1>2 DEF Held

\* A step that leaves the readers, and the files they have open, is none of theirs.
LEMMA HiddenFromReaders ==
    ASSUME read' = read,
           \A r \in Readers : ~ReadAt(r, "idle") => data'[read[r].inode] = data[read[r].inode]
    PROVE  Got' = Got
BY DEF Got, PartOf, ReadAt

\* Putting writes what nobody sees, until the rename shows all of it.
LEMMA WriterRefines ==
    ASSUME StoreInv, StoreInv', NEW w \in Writers, WriterStep(w)
    PROVE  [Store!Next]_<<Held, Got>>
<1>1. Keys \cap Inodes = {} /\ NoInode \notin Inodes /\ Keys \subseteq Names
  BY FileAssumption DEF Names
<1>2. ASSUME NEW f, Link(f), \A k \in Keys : k \notin DOMAIN f PROVE \A k \in Keys : dir'[k] = dir[k]
  BY <1>1, <1>2 DEF Link
<1>3. ASSUME \A k \in Keys : dir'[k] = dir[k], data' = data, read' = read
      PROVE  UNCHANGED <<Held, Got>>
  <2>1. Held' = Held
    BY <1>1, <1>3, HiddenStep
  <2>2. Got' = Got
    BY <1>3, HiddenFromReaders
  <2> QED BY <2>1, <2>2
<1>4. ASSUME NEW k \in Keys, NEW object \in Objects, NEW i \in Inodes, CreateTemp(w, k, object, i)
      PROVE  UNCHANGED <<Held, Got>>
  <2> DEFINE f == [n \in {i} |-> i]
  <2>1. Link(f) /\ DOMAIN f = {i} /\ data' = data /\ read' = read
    BY <1>4 DEF CreateTemp
  <2> HIDE DEF f
  <2> QED BY <1>1, <1>2, <1>3, <2>1
<1>5. CASE CopyBlock(w)
  <2> DEFINE i == put[w].inode
  <2>1. /\ put[w].pc = "copy" /\ dir' = dir /\ read' = read
        /\ data' = [data EXCEPT ![i] = Append(@, Head(put[w].rest))]
    BY <1>5 DEF CopyBlock, PutAt
  <2>2. PutInv(w) /\ \A j \in Inodes \ {i} : data'[j] = data[j]
    BY <2>1 DEF StoreInv, TypeOK
  <2>3. ASSUME NEW k \in Listed PROVE data'[dir[k]] = data[dir[k]]
    <3>1. k \in Keys /\ dir[k] \in Inodes /\ dir[k] \in maybe[k]
      BY DEF Listed, Entries, Names, StoreInv, TypeOK
    <3>2. dir[k] # i
      BY <2>1, <2>2, <3>1 DEF PutInv
    <3> QED BY <2>2, <3>1, <3>2
  <2>4. ASSUME NEW r \in Readers, ~ReadAt(r, "idle") PROVE data'[read[r].inode] = data[read[r].inode]
    <3>1. ReadAt(r, "read") /\ read[r].inode \in Inodes
      BY <2>4, Shapes DEF ReadAt, StoreInv, ReadInv
    <3>2. read[r].inode # i
      BY <2>1, <2>2, <3>1 DEF PutInv
    <3> QED BY <2>2, <3>1, <3>2
  <2>5. Held' = Held
    BY <1>1, <2>1, <2>3, HiddenStep
  <2>6. Got' = Got
    BY <2>1, <2>4, HiddenFromReaders
  <2> QED BY <2>5, <2>6
<1>6. CASE SyncTemp(w) \/ CloseTemp(w) \/ KillPut(w)
  <2>1. dir' = dir /\ data' = data /\ read' = read
    BY <1>6 DEF SyncTemp, CloseTemp, KillPut
  <2> QED BY <1>3, <2>1
<1>7. CASE FailPut(w)
  <2> DEFINE f == [n \in {put[w].inode} |-> NoInode]
  <2>1. /\ Link(f) /\ DOMAIN f = {put[w].inode} /\ data' = data /\ read' = read
        /\ put[w].inode \in Inodes
    BY <1>7, Shapes DEF FailPut, PutAt, StoreInv, PutInv
  <2> HIDE DEF f
  <2> QED BY <1>1, <1>2, <1>3, <2>1
<1>8. CASE RenameTemp(w)
  <2> DEFINE i == put[w].inode
             k == put[w].key
             f == [n \in {i, k} |-> IF n = k THEN i ELSE NoInode]
  <2>1. /\ put[w].pc = "rename" /\ Link(f) /\ data' = data /\ read' = read
    BY <1>8 DEF RenameTemp, PutAt
  <2>2. PutInv(w) /\ i \in Inodes /\ i # NoInode /\ k \in Keys
    BY <2>1, Shapes DEF StoreInv, PutInv
  <2>3. DOMAIN f = {i, k} /\ f[k] = i
    OBVIOUS
  <2> HIDE DEF f
  <2>4. dir'[k] = i /\ \A j \in Keys \ {k} : dir'[j] = dir[j]
    BY <1>1, <2>1, <2>2, <2>3 DEF Link
  <2>5. Listed = {j \in Keys : dir[j] # NoInode} /\ Listed' = {j \in Keys : dir'[j] # NoInode}
    BY <1>1 DEF Listed, Entries, Names
  <2>6. Listed' = Listed \cup {k}
    BY <2>2, <2>4, <2>5
  <2>7. data[i] \in Objects
    <3>1. data[i] \o <<>> \in Objects
      BY <2>1, <2>2 DEF PutInv
    <3>2. data[i] \in Seq(Blocks)
      BY <2>2, Shapes
    <3> QED BY <3>1, <3>2, NoBlock
  <2>8. Held' = [j \in DOMAIN Held \cup {k} |-> IF j = k THEN data[i] ELSE Held[j]]
    <3>1. DOMAIN Held = Listed /\ Held' = [j \in Listed' |-> data[dir'[j]]]
      BY <2>1 DEF Held
    <3>2. \A j \in Listed \cup {k} : data[dir'[j]] = IF j = k THEN data[i] ELSE Held[j]
      BY <2>4, <2>5 DEF Held
    <3> QED BY <2>6, <3>1, <3>2
  <2>9. Got' = Got
    BY <2>1, HiddenFromReaders
  <2>10. ASSUME NEW j, NEW object, j = k, object = data[i] PROVE Store!Put(j, object)
    BY <2>8, <2>9, <2>10 DEF Store!Put, Held, Got, PartOf, ReadAt
  <2> HIDE DEF i, k
  <2>11. \E j \in Keys, object \in Objects : Store!Put(j, object)
    BY <2>2, <2>7, <2>10
  <2> QED BY <2>11 DEF Store!Next
<1> QED BY <1>4, <1>5, <1>6, <1>7, <1>8 DEF WriterStep

\* A reader gets, from the file it opened, the window of the object it was.
LEMMA ReaderRefines ==
    ASSUME StoreInv, StoreInv', NEW r \in Readers, ReaderStep(r)
    PROVE  [Store!Next]_<<Held, Got>>
<1>1. /\ UNCHANGED <<data, dir>>
      /\ \A q \in Readers \ {r} : read'[q] = read[q]
  <2>1. UNCHANGED <<data, dir>>
    BY DEF ReaderStep, OpenObject, ReadBlock, FinishRead, AbandonRead
  <2>2. \A q \in Readers \ {r} : read'[q] = read[q]
    BY Shapes DEF ReaderStep, OpenObject, ReadBlock, FinishRead, AbandonRead
  <2> QED BY <2>1, <2>2
<1>2. Held' = Held
  BY <1>1 DEF Held, Listed, Entries
<1> DEFINE it(q) == PartOf(read[q], data)
<1>3. Got = [q \in Readers |-> it(q)] /\ Got' = [q \in Readers |-> it(q)']
  BY DEF Got
<1>4. \A q \in Readers \ {r} : it(q)' = it(q)
  BY <1>1
<1>5. ASSUME NEW e, it(r)' = e PROVE Got' = [Got EXCEPT ![r] = e]
  <2> HIDE DEF it
  <2> QED BY <1>3, <1>4, <1>5
<1>6. ASSUME NEW k \in Keys, NEW w \in Windows, OpenObject(r, k, w)
      PROVE  Store!Get(r, k, w)
  <2>1. /\ k \in Listed /\ ReadAt(r, "idle")
        /\ read'[r] = [pc |-> "read", inode |-> dir[k], window |-> w, got |-> <<>>]
    BY <1>6, Shapes DEF OpenObject
  <2>2. it(r)' = [open |-> TRUE, data |-> Window(data[dir[k]], w)]
    <3>1. read'[r].pc = "read" /\ read'[r].inode = dir[k] /\ read'[r].window = w
      BY <2>1
    <3>2. PartOf(read'[r], data)
             = [open |-> TRUE, data |-> Window(data[read'[r].inode], read'[r].window)]
      BY <3>1, PartOpen
    <3> QED BY <1>1, <3>1, <3>2
  <2>3. Got' = [Got EXCEPT ![r] = [open |-> TRUE, data |-> Window(data[dir[k]], w)]]
    BY <1>5, <2>2
  <2>4. Got[r] = [open |-> FALSE, data |-> read[r].got]
    BY <2>1, PartShut DEF Got, ReadAt
  <2>5. ~Got[r].open /\ k \in DOMAIN Held /\ Held[k] = data[dir[k]]
    BY <2>1, <2>4 DEF Held
  <2>6. Store!Window(Held[k], w) = Window(data[dir[k]], w)
    BY <2>5 DEF Store!Window, Window
  <2> QED BY <1>2, <2>3, <2>5, <2>6 DEF Store!Get, Held, Got, PartOf, ReadAt
<1>7. CASE ReadBlock(r)
  <2>1. /\ ReadAt(r, "read") /\ read'[r].pc = "read" /\ read'[r].inode = read[r].inode
        /\ read'[r].window = read[r].window
    BY <1>7, Shapes DEF ReadBlock, ReadAt
  <2>2. it(r)' = it(r)
    <3>1. /\ PartOf(read[r], data)
                = [open |-> TRUE, data |-> Window(data[read[r].inode], read[r].window)]
          /\ PartOf(read'[r], data)
                = [open |-> TRUE, data |-> Window(data[read'[r].inode], read'[r].window)]
      BY <2>1, PartOpen DEF ReadAt
    <3> QED BY <1>1, <2>1, <3>1
  <2>3. Got' = Got
    BY <1>3, <1>4, <2>2
  <2> QED BY <1>2, <2>3
<1>8. CASE FinishRead(r)
  <2>1. /\ ReadAt(r, "read") /\ ~More(r)
        /\ read'[r] = [ReadIdle EXCEPT !.got = read[r].got]
    BY <1>8, Shapes DEF FinishRead
  <2>2. read[r].got = Window(data[read[r].inode], read[r].window)
    <3> DEFINE i == read[r].inode
               s == data[i]
               w == read[r].window
               got == read[r].got
    <3>1. i \in used /\ i # NoInode
      BY <2>1, Shapes DEF StoreInv, ReadInv
    <3>2. s \in Seq(Blocks) /\ got \in Seq(Blocks) /\ w \in Nat \X Nat
      BY <3>1, Shapes
    <3>3. /\ Len(got) <= w[2] /\ (got = <<>> \/ w[1] + Len(got) <= Len(s))
          /\ \A j \in 1 .. Len(got) : got[j] = s[w[1] + j]
      BY <2>1 DEF StoreInv, ReadInv
    <3>4. ~(Len(got) < w[2] /\ w[1] + Len(got) + 1 <= Len(s))
      BY <2>1 DEF More, Place
    <3> HIDE DEF i, s, w, got
    <3>5. w[1] \in Nat /\ w[2] \in Nat /\ w = <<w[1], w[2]>>
      BY <3>2
    <3>6. got = Window(s, <<w[1], w[2]>>)
      BY <3>2, <3>3, <3>4, <3>5, WindowRead
    <3> QED BY <3>5, <3>6 DEF i, s, w, got
  <2>3. it(r)' = [open |-> FALSE, data |-> read[r].got]
    <3>1. read'[r].pc = "idle" /\ read'[r].got = read[r].got
      BY <2>1 DEF ReadIdle
    <3> QED BY <3>1, PartShut
  <2>4. Got[r] = [open |-> TRUE, data |-> read[r].got]
    <3>1. PartOf(read[r], data)
             = [open |-> TRUE, data |-> Window(data[read[r].inode], read[r].window)]
      BY <2>1, PartOpen DEF ReadAt
    <3> QED BY <2>2, <3>1 DEF Got
  <2>5. [Got EXCEPT ![r].open = FALSE] = [Got EXCEPT ![r] = [open |-> FALSE, data |-> read[r].got]]
    <3> DEFINE g == Got
               d == read[r].got
    <3>1. g[r] = [open |-> TRUE, data |-> d]
      BY <2>4
    <3> HIDE DEF g, d
    <3>2. [g EXCEPT ![r].open = FALSE] = [g EXCEPT ![r] = [open |-> FALSE, data |-> d]]
      <4>1. \A b, c : [[open |-> b, data |-> d] EXCEPT !.open = c] = [open |-> c, data |-> d]
        OBVIOUS
      <4>2. [g[r] EXCEPT !.open = FALSE] = [open |-> FALSE, data |-> d]
        BY <3>1, <4>1, Zenon
      <4> QED BY <4>2
    <3> QED BY <3>2, Zenon DEF g, d
  <2>6. Got' = [Got EXCEPT ![r].open = FALSE] /\ Got[r].open
    BY <1>5, <2>3, <2>4, <2>5
  <2>7. Store!Return(r)
    BY <1>2, <2>6 DEF Store!Return, Held, Got, PartOf, ReadAt
  <2> QED BY <2>7 DEF Store!Next
<1>9. CASE AbandonRead(r)
  <2>1. ReadAt(r, "read") /\ read'[r] = ReadIdle
    BY <1>9, Shapes DEF AbandonRead
  <2>2. it(r)' = [open |-> FALSE, data |-> <<>>]
    <3>1. read'[r].pc = "idle" /\ read'[r].got = <<>>
      BY <2>1 DEF ReadIdle
    <3>2. PartOf(read'[r], data') = [open |-> FALSE, data |-> read'[r].got]
      BY <3>1, PartShut
    <3> QED BY <3>1, <3>2
  <2>3. Got[r].open
    BY <2>1, PartOpen DEF Got, ReadAt
  <2>4. Got' = [Got EXCEPT ![r] = [open |-> FALSE, data |-> <<>>]] /\ Got[r].open
    BY <1>5, <2>2, <2>3
  <2>5. Store!Abandon(r)
    BY <1>2, <2>4 DEF Store!Abandon, Held, Got, PartOf, ReadAt
  <2> QED BY <2>5 DEF Store!Next
<1>10. ASSUME NEW k \in Keys, NEW w \in Windows, OpenObject(r, k, w) PROVE Store!Next
  BY <1>6, <1>10 DEF Store!Next
<1> HIDE DEF it
<1> QED BY <1>7, <1>8, <1>9, <1>10 DEF ReaderStep

\* An object that is deleted goes at once, and whole.
LEMMA DeleteRefines ==
    ASSUME StoreInv, NEW k \in Keys, DeleteObject(k)
    PROVE  [Store!Next]_<<Held, Got>>
<1> DEFINE f == [n \in {k} |-> NoInode]
<1>1. Link(f) /\ DOMAIN f = {k} /\ f[k] = NoInode /\ data' = data /\ read' = read
  BY DEF DeleteObject
<1> HIDE DEF f
<1>2. /\ dir'[k] = NoInode /\ \A j \in Keys \ {k} : dir'[j] = dir[j]
  BY <1>1 DEF Link, Names
<1>3. Listed = {j \in Keys : dir[j] # NoInode} /\ Listed' = {j \in Keys : dir'[j] # NoInode}
  BY FileAssumption DEF Listed, Entries, Names
<1>4. Listed' = Listed \ {k}
  BY <1>2, <1>3
<1>5. Held' = [j \in DOMAIN Held \ {k} |-> Held[j]]
  BY <1>1, <1>2, <1>3, <1>4 DEF Held
<1>6. Got' = Got
  BY <1>1, HiddenFromReaders
<1>7. Store!Delete(k)
  BY <1>5, <1>6 DEF Store!Delete, Held, Got, PartOf, ReadAt
<1> QED BY <1>7 DEF Store!Next

\* After a power loss there are whole objects, and nobody reads.
LEMMA PowerLossRefines ==
    ASSUME StoreInv', PowerLoss
    PROVE  [Store!Next]_<<Held, Got>>
<1>1. \A k \in Listed' : k \in Keys /\ data'[dir'[k]] \in Objects
  <2>1. WholeObjects'
    BY NamedAreWhole, PTL
  <2> QED BY <2>1 DEF WholeObjects
<1>2. Listed' \in SUBSET Keys /\ Held' \in [Listed' -> Objects]
  BY <1>1 DEF Held
<1>3. Got' = [r \in Readers |-> [open |-> FALSE, data |-> <<>>]]
  <2>1. \A r \in Readers : read'[r].pc = "idle" /\ read'[r].got = <<>>
    BY DEF PowerLoss, ReadIdle
  <2>2. \A r \in Readers : PartOf(read'[r], data') = [open |-> FALSE, data |-> <<>>]
    BY <2>1, PartShut
  <2> QED BY <2>2 DEF Got
<1>4. "power" \in Faults
  BY DEF PowerLoss
<1>5. Store!PowerLoss
  BY <1>2, <1>3, <1>4 DEF Store!PowerLoss, Held, Got, PartOf, ReadAt
<1> QED BY <1>5 DEF Store!Next

\* The local store implements store.Store (store.go:20): an object appears and disappears as a
\* whole, and a reader gets the window it asked for of the object that was at the key when it
\* opened it, whatever is put and deleted meanwhile and whichever process is killed.  With fsync
\* a power loss too leaves whole objects only.
THEOREM StoreImplements == Lasting => (Spec => StoreSpec)
<1> SUFFICES ASSUME Lasting PROVE Spec => StoreSpec
  OBVIOUS
<1>1. Init => Store!Init
  BY InitRefines
<1>2. StoreInv /\ StoreInv' /\ [Next]_vars => [Store!Next]_<<Held, Got>>
  <2> SUFFICES ASSUME StoreInv, StoreInv', [Next]_vars PROVE [Store!Next]_<<Held, Got>>
    OBVIOUS
  <2>1. CASE UNCHANGED vars
    BY <2>1 DEF vars, Held, Got, Listed, Entries
  <2> QED BY <2>1, WriterRefines, ReaderRefines, DeleteRefines, PowerLossRefines DEF Next
<1>3. Spec => []StoreInv
  BY StoreInvariance
<1> QED BY <1>1, <1>2, <1>3, PTL DEF StoreSpec, Store!Spec, Spec, Held, Got, PartOf, ReadAt
-----------------------------------------------------------------------------
\* Why nothing is left behind, with or without fsync: a Put that is not under way has no
\* file, the file of one that is has been created, and nothing is or may be after a power
\* loss under the temporary name of a file that was never created.
TempInv ==
    /\ put = [w \in Writers |-> put[w]]
    /\ \A w \in Writers :
         /\ DOMAIN put[w] = {"pc", "key", "inode", "rest"}
         /\ IF PutAt(w, "idle") THEN put[w].inode = NoInode
            ELSE put[w].inode \in used /\ put[w].key \in Keys
    /\ dir = [n \in Names |-> dir[n]] /\ maybe = [n \in Names |-> maybe[n]]
    /\ used \subseteq Inodes
    /\ \A n \in Names : dir[n] \in maybe[n]
    /\ \A i \in Inodes \ used : maybe[i] = {NoInode}
    /\ OnlyOrphansLeft

\* An empty store has no temporary files.
LEMMA InitTempInv == Init => TempInv
BY DEF Init, TempInv, OnlyOrphansLeft, Entries, PutIdle, PutAt, Names

\* What a change of entries is, entry by entry.
LEMMA LinkIs ==
    ASSUME TempInv, NEW f, DOMAIN f \subseteq Names, Link(f)
    PROVE  /\ dir' = [n \in Names |-> dir'[n]] /\ maybe' = [n \in Names |-> maybe'[n]]
           /\ \A n \in Names : dir'[n] \in maybe'[n]
           /\ \A n \in Names : dir'[n] = IF n \in DOMAIN f THEN f[n] ELSE dir[n]
           /\ \A n \in Names : maybe'[n] = IF n \in DOMAIN f THEN maybe[n] \cup {f[n]} ELSE maybe[n]
<1>1. /\ dir' = [n \in Names |-> IF n \in DOMAIN f THEN f[n] ELSE dir[n]]
      /\ maybe' = [n \in Names |-> IF n \in DOMAIN f THEN maybe[n] \cup {f[n]} ELSE maybe[n]]
  BY DEF Link
<1>2. \A n \in Names : dir[n] \in maybe[n]
  BY DEF TempInv
<1> QED BY <1>1, <1>2

\* The same of one entry.
LEMMA LinkOne ==
    ASSUME TempInv, NEW name \in Names, NEW i, Link([n \in {name} |-> i])
    PROVE  /\ dir' = [n \in Names |-> dir'[n]] /\ maybe' = [n \in Names |-> maybe'[n]]
           /\ \A n \in Names : dir'[n] \in maybe'[n]
           /\ \A n \in Names \ {name} : dir'[n] = dir[n] /\ maybe'[n] = maybe[n]
<1> DEFINE f == [n \in {name} |-> i]
<1>1. Link(f) /\ DOMAIN f = {name} /\ DOMAIN f \subseteq Names
  OBVIOUS
<1> HIDE DEF f
<1> QED BY <1>1, LinkIs

\* A step of a Put that creates no file leaves every temporary file but its own, and
\* that one unless it is removed or orphaned.
LEMMA PutStepTemp ==
    ASSUME TempInv, NEW w \in Writers, NEW e,
           put' = [put EXCEPT ![w] = e], DOMAIN e = {"pc", "key", "inode", "rest"},
           ~PutAt(w, "idle"),
           IF e.pc = "idle" THEN e.inode = NoInode ELSE e.inode = put[w].inode /\ e.key = put[w].key,
           used' = used, orphans \subseteq orphans',
           dir' = [n \in Names |-> dir'[n]], maybe' = [n \in Names |-> maybe'[n]],
           \A n \in Names : dir'[n] \in maybe'[n],
           \A i \in Inodes : i # put[w].inode => dir'[i] = dir[i] /\ maybe'[i] = maybe[i],
           \A i \in Inodes : i = put[w].inode => e.inode = i \/ i \in orphans' \/ dir'[i] = NoInode
    PROVE  TempInv'
<1>1. /\ put' = [v \in Writers |-> put'[v]] /\ put'[w] = e
      /\ \A v \in Writers \ {w} : put'[v] = put[v]
  BY DEF TempInv
<1>2. e.pc # "idle" => e.inode \in used /\ e.key \in Keys
  BY DEF TempInv
<1>3. \A i \in Inodes \ used : maybe'[i] = {NoInode}
  <2>1. \A i \in Inodes \ used : maybe[i] = {NoInode}
    BY DEF TempInv
  <2>2. ASSUME NEW i \in Inodes \ used PROVE i # put[w].inode
    BY FileAssumption DEF TempInv
  <2> QED BY <2>1, <2>2
<1>4. OnlyOrphansLeft'
  <2> SUFFICES ASSUME NEW i \in Inodes, dir'[i] # NoInode, i \notin orphans'
               PROVE  \E v \in Writers : put'[v].inode = i
    BY DEF OnlyOrphansLeft, Entries
  <2>1. CASE i = put[w].inode
    BY <1>1, <2>1
  <2>2. CASE i # put[w].inode
    <3>1. dir[i] # NoInode /\ i \notin orphans /\ i \in Names
      BY <2>2 DEF Names
    <3>2. PICK v \in Writers : put[v].inode = i
      BY <3>1 DEF TempInv, OnlyOrphansLeft, Entries
    <3> QED BY <1>1, <2>2, <3>2
  <2> QED BY <2>1, <2>2
<1>5. \A v \in Writers :
         /\ DOMAIN put'[v] = {"pc", "key", "inode", "rest"}
         /\ IF put'[v].pc = "idle" THEN put'[v].inode = NoInode
            ELSE put'[v].inode \in used /\ put'[v].key \in Keys
  <2>1. \A v \in Writers \ {w} :
         /\ DOMAIN put[v] = {"pc", "key", "inode", "rest"}
         /\ IF put[v].pc = "idle" THEN put[v].inode = NoInode
            ELSE put[v].inode \in used /\ put[v].key \in Keys
    BY DEF TempInv, PutAt
  <2> QED BY <1>1, <1>2, <2>1
<1>6. used \subseteq Inodes
  BY DEF TempInv
<1> QED BY <1>1, <1>3, <1>4, <1>5, <1>6 DEF TempInv, PutAt

\* Every step of a Put keeps the invariant.
LEMMA WriterTemp ==
    ASSUME TempInv, NEW w \in Writers, WriterStep(w)
    PROVE  TempInv'
<1>1. /\ put = [v \in Writers |-> put[v]] /\ DOMAIN put[w] = {"pc", "key", "inode", "rest"}
      /\ IF PutAt(w, "idle") THEN put[w].inode = NoInode
         ELSE put[w].inode \in used /\ put[w].key \in Keys
      /\ dir = [n \in Names |-> dir[n]] /\ maybe = [n \in Names |-> maybe[n]]
      /\ \A n \in Names : dir[n] \in maybe[n]
      /\ used \subseteq Inodes
  BY DEF TempInv
<1>2. ASSUME NEW k \in Keys, NEW object \in Objects, NEW i \in Inodes, CreateTemp(w, k, object, i)
      PROVE  TempInv'
  <2> DEFINE e == [pc |-> "copy", key |-> k, inode |-> i, rest |-> object]
  <2>1. /\ put' = [put EXCEPT ![w] = e] /\ used' = used \cup {i} /\ orphans' = orphans
        /\ put[w].inode = NoInode /\ i \notin used
    BY <1>1, <1>2 DEF CreateTemp
  <2>2. /\ dir' = [n \in Names |-> dir'[n]] /\ maybe' = [n \in Names |-> maybe'[n]]
        /\ \A n \in Names : dir'[n] \in maybe'[n]
        /\ \A n \in Names \ {i} : dir'[n] = dir[n] /\ maybe'[n] = maybe[n]
    <3>1. i \in Names /\ Link([n \in {i} |-> i])
      BY <1>2 DEF CreateTemp, Names
    <3> QED BY <3>1, LinkOne
  <2>3. /\ put' = [v \in Writers |-> put'[v]] /\ put'[w] = e
        /\ \A v \in Writers \ {w} : put'[v] = put[v]
    BY <1>1, <2>1
  <2>4. ASSUME NEW j \in Inodes, dir'[j] # NoInode, j \notin orphans
        PROVE  \E v \in Writers : put'[v].inode = j
    <3>1. CASE j = i
      BY <2>3, <3>1
    <3>2. CASE j # i
      <4>1. PICK v \in Writers : put[v].inode = j
        BY <2>2, <2>4, <3>2 DEF TempInv, OnlyOrphansLeft, Entries, Names
      <4>2. v # w
        BY <2>1, <4>1, FileAssumption
      <4> QED BY <2>3, <4>1, <4>2
    <3> QED BY <3>1, <3>2
  <2>5. OnlyOrphansLeft'
    BY <2>1, <2>4 DEF OnlyOrphansLeft, Entries
  <2>6. \A v \in Writers :
           /\ DOMAIN put'[v] = {"pc", "key", "inode", "rest"}
           /\ IF put'[v].pc = "idle" THEN put'[v].inode = NoInode
              ELSE put'[v].inode \in used' /\ put'[v].key \in Keys
    <3>1. \A v \in Writers \ {w} :
           /\ DOMAIN put[v] = {"pc", "key", "inode", "rest"}
           /\ IF put[v].pc = "idle" THEN put[v].inode = NoInode
              ELSE put[v].inode \in used /\ put[v].key \in Keys
      BY DEF TempInv, PutAt
    <3> QED BY <2>1, <2>3, <3>1
  <2>7. \A j \in Inodes \ used' : maybe'[j] = {NoInode}
    BY <2>1, <2>2 DEF TempInv, Names
  <2> HIDE DEF e
  <2> QED BY <1>1, <2>1, <2>2, <2>3, <2>5, <2>6, <2>7 DEF TempInv, PutAt
<1>3. CASE CopyBlock(w) \/ SyncTemp(w) \/ CloseTemp(w)
  <2>1. /\ UNCHANGED <<dir, maybe, used, orphans>> /\ put[w].pc # "idle"
        /\ \/ put' = [put EXCEPT ![w] = [put[w] EXCEPT !.rest = Tail(put[w].rest)]]
           \/ \E pc \in {"close", "rename"} : put' = [put EXCEPT ![w] = [put[w] EXCEPT !.pc = pc]]
    BY <1>1, <1>3 DEF CopyBlock, SyncTemp, CloseTemp, PutAt
  <2>2. PICK e : /\ put' = [put EXCEPT ![w] = e] /\ DOMAIN e = {"pc", "key", "inode", "rest"}
                 /\ e.pc # "idle" /\ e.inode = put[w].inode /\ e.key = put[w].key
    <3>1. CASE put' = [put EXCEPT ![w] = [put[w] EXCEPT !.rest = Tail(put[w].rest)]]
      <4> DEFINE e == [put[w] EXCEPT !.rest = Tail(put[w].rest)]
      <4>1. /\ DOMAIN e = {"pc", "key", "inode", "rest"} /\ e.pc # "idle"
            /\ e.inode = put[w].inode /\ e.key = put[w].key
        BY <1>1, <2>1
      <4>2. put' = [put EXCEPT ![w] = e]
        BY <3>1
      <4> HIDE DEF e
      <4> QED BY <4>1, <4>2
    <3>2. ASSUME NEW pc \in {"close", "rename"}, put' = [put EXCEPT ![w] = [put[w] EXCEPT !.pc = pc]]
          PROVE  \E e : /\ put' = [put EXCEPT ![w] = e] /\ DOMAIN e = {"pc", "key", "inode", "rest"}
                        /\ e.pc # "idle" /\ e.inode = put[w].inode /\ e.key = put[w].key
      <4> DEFINE e == [put[w] EXCEPT !.pc = pc]
      <4>1. /\ DOMAIN e = {"pc", "key", "inode", "rest"} /\ e.pc # "idle"
            /\ e.inode = put[w].inode /\ e.key = put[w].key
        BY <1>1, <3>2
      <4>2. put' = [put EXCEPT ![w] = e]
        BY <3>2
      <4> HIDE DEF e
      <4> QED BY <4>1, <4>2
    <3> QED BY <2>1, <3>1, <3>2
  <2>3. IF e.pc = "idle" THEN e.inode = NoInode ELSE e.inode = put[w].inode /\ e.key = put[w].key
    BY <2>2
  <2>4. ~PutAt(w, "idle") /\ used' = used /\ orphans \subseteq orphans'
    BY <2>1 DEF PutAt
  <2>5. dir' = [n \in Names |-> dir'[n]] /\ maybe' = [n \in Names |-> maybe'[n]]
    BY <1>1, <2>1
  <2>6. \A n \in Names : dir'[n] \in maybe'[n]
    BY <1>1, <2>1
  <2>7. \A i \in Inodes : i # put[w].inode => dir'[i] = dir[i] /\ maybe'[i] = maybe[i]
    BY <2>1
  <2>8. \A i \in Inodes : i = put[w].inode => e.inode = i \/ i \in orphans' \/ dir'[i] = NoInode
    BY <2>2
  <2> QED BY <2>2, <2>3, <2>4, <2>5, <2>6, <2>7, <2>8, PutStepTemp
<1>4. CASE RenameTemp(w) \/ FailPut(w)
  <2> DEFINE i == put[w].inode
  <2>1. i \in used /\ i \in Names /\ ~PutAt(w, "idle") /\ put[w].key \in Keys /\ i \notin Keys
    BY <1>1, <1>4, FileAssumption DEF RenameTemp, FailPut, PutAt, Names
  <2>2. PICK f : /\ Link(f) /\ DOMAIN f \subseteq Keys \cup {i} /\ i \in DOMAIN f /\ f[i] = NoInode
    <3>1. CASE RenameTemp(w)
      BY <2>1, <3>1 DEF RenameTemp
    <3>2. CASE FailPut(w)
      BY <2>1, <3>2 DEF FailPut
    <3> QED BY <1>4, <3>1, <3>2
  <2>3. put' = [put EXCEPT ![w] = PutIdle] /\ used' = used /\ orphans' = orphans
    BY <1>4 DEF RenameTemp, FailPut
  <2>4. DOMAIN f \subseteq Names
    BY <2>1, <2>2 DEF Names
  <2>5. /\ dir' = [n \in Names |-> dir'[n]] /\ maybe' = [n \in Names |-> maybe'[n]]
        /\ \A n \in Names : dir'[n] \in maybe'[n]
        /\ \A n \in Names : dir'[n] = IF n \in DOMAIN f THEN f[n] ELSE dir[n]
        /\ \A n \in Names : maybe'[n] = IF n \in DOMAIN f THEN maybe[n] \cup {f[n]} ELSE maybe[n]
    BY <2>2, <2>4, LinkIs
  <2>6. \A j \in Inodes : j # i => dir'[j] = dir[j] /\ maybe'[j] = maybe[j]
    BY <2>2, <2>5, FileAssumption DEF Names
  <2>7. dir'[i] = NoInode
    BY <2>1, <2>2, <2>5
  <2>8. DOMAIN PutIdle = {"pc", "key", "inode", "rest"} /\ PutIdle.pc = "idle" /\ PutIdle.inode = NoInode
    BY DEF PutIdle
  <2> QED BY <2>1, <2>3, <2>5, <2>6, <2>7, <2>8, PutStepTemp
<1>5. CASE KillPut(w)
  <2>1. /\ put' = [put EXCEPT ![w] = PutIdle] /\ used' = used /\ orphans' = orphans \cup {put[w].inode}
        /\ dir' = dir /\ maybe' = maybe /\ ~PutAt(w, "idle")
    BY <1>5 DEF KillPut
  <2>2. DOMAIN PutIdle = {"pc", "key", "inode", "rest"} /\ PutIdle.pc = "idle" /\ PutIdle.inode = NoInode
    BY DEF PutIdle
  <2> QED BY <1>1, <2>1, <2>2, PutStepTemp
<1> QED BY <1>2, <1>3, <1>4, <1>5 DEF WriterStep

\* Every step of the store does, a loss of power too: it leaves every file an orphan.
LEMMA TempStep ==
    ASSUME TempInv, [Next]_vars
    PROVE  TempInv'
<1>1. ASSUME NEW w \in Writers, WriterStep(w) PROVE TempInv'
  BY <1>1, WriterTemp
<1>2. ASSUME NEW r \in Readers, ReaderStep(r) PROVE TempInv'
  <2>1. UNCHANGED <<dir, maybe, used, put, orphans>>
    BY <1>2 DEF ReaderStep, OpenObject, ReadBlock, FinishRead, AbandonRead
  <2> QED BY <2>1 DEF TempInv, OnlyOrphansLeft, Entries, PutAt
<1>3. ASSUME NEW k \in Keys, DeleteObject(k) PROVE TempInv'
  <2>1. UNCHANGED <<used, put, orphans>> /\ Link([n \in {k} |-> NoInode])
    BY <1>3 DEF DeleteObject
  <2>2. /\ dir' = [n \in Names |-> dir'[n]] /\ maybe' = [n \in Names |-> maybe'[n]]
        /\ \A n \in Names : dir'[n] \in maybe'[n]
        /\ \A i \in Inodes : dir'[i] = dir[i] /\ maybe'[i] = maybe[i]
    <3>1. /\ dir' = [n \in Names |-> dir'[n]] /\ maybe' = [n \in Names |-> maybe'[n]]
          /\ \A n \in Names : dir'[n] \in maybe'[n]
          /\ \A n \in Names \ {k} : dir'[n] = dir[n] /\ maybe'[n] = maybe[n]
      BY <2>1, LinkOne DEF Names
    <3>2. \A i \in Inodes : i \in Names /\ i # k
      BY FileAssumption DEF Names
    <3> QED BY <3>1, <3>2
  <2> QED BY <2>1, <2>2 DEF TempInv, OnlyOrphansLeft, Entries, PutAt, Names
<1>4. CASE PowerLoss
  <2>1. PICK old \in [Unsettled -> used \cup {NoInode}] :
          /\ \A n \in Unsettled : old[n] \in maybe[n]
          /\ dir' = [n \in Names |-> IF n \in Unsettled THEN old[n] ELSE dir[n]]
    BY <1>4 DEF PowerLoss
  <2>2. /\ maybe' = [n \in Names |-> {dir'[n]}] /\ put' = [w \in Writers |-> PutIdle]
        /\ orphans' = orphans \cup used /\ used' = used
    BY <1>4 DEF PowerLoss
  <2>3. \A n \in Names : dir'[n] \in maybe[n]
    BY <2>1 DEF TempInv
  <2>4. \A i \in Inodes \ used : dir'[i] = NoInode
    BY <2>3 DEF TempInv, Names
  <2>5. dir' = [n \in Names |-> dir'[n]]
    BY <2>1
  <2> QED BY <2>2, <2>4, <2>5 DEF TempInv, OnlyOrphansLeft, Entries, PutAt, PutIdle, Names
<1>5. CASE UNCHANGED vars
  BY <1>5 DEF vars, TempInv, OnlyOrphansLeft, Entries, PutAt
<1> QED BY <1>1, <1>2, <1>3, <1>4, <1>5 DEF Next

\* A Put that returns an error has removed its temporary file (local.go): every temporary
\* file is one of a Put under way or of a process that died, whatever is killed or loses its
\* power, and whether fsync works or not.
THEOREM NothingLeftBehind == Spec => []OnlyOrphansLeft
<1>1. TempInv => OnlyOrphansLeft
  BY DEF TempInv
<1>2. TempInv /\ [Next]_vars => TempInv'
  BY TempStep
<1> QED BY <1>1, <1>2, InitTempInv, PTL DEF Spec
=============================================================================
