----------------------------- MODULE LocalStore -----------------------------
(***************************************************************************)
(* The local store (local.go): an object is a file, written block by block *)
(* under a temporary name and then renamed.  Processes may be killed, and  *)
(* the machine may lose power.                                             *)
(*                                                                         *)
(* A file is an inode with its blocks; a directory entry is a key or the   *)
(* temporary name of an inode, which is the inode itself.  After a power   *)
(* loss an entry denotes any inode it denoted since the last one, and a    *)
(* file that was not synced keeps any prefix: the code never syncs a       *)
(* directory, and POSIX promises no more.                                  *)
(***************************************************************************)
EXTENDS Naturals, Sequences, FiniteSets

CONSTANTS
    Keys,           \* the keys of objects
    Blocks,         \* the blocks that files are made of
    Objects,        \* what is put: sequences of blocks
    Inodes,         \* a bound: the files that can be created
    NoInode,        \* no file
    Writers,        \* the processes that put objects
    Readers,        \* the processes that get them
    Windows,        \* what is read: pairs of an offset and a size, in blocks
    SyncSupported,  \* whether the file system implements fsync
    Faults,         \* what may happen: "kill" a process, lose "power"
    After           \* pairs of keys: the second is put when the put of the first has returned

ASSUME ObjectsAssumption == Objects \subseteq Seq(Blocks)

ASSUME FileAssumption ==
    /\ Keys \cap Inodes = {} /\ NoInode \notin Inodes
    /\ Windows \subseteq Nat \X Nat

VARIABLES
    data,       \* inode |-> its blocks
    synced,     \* the inodes whose blocks are on the disk
    dir,        \* the entries: name |-> inode
    maybe,      \* name |-> the inodes it may denote after a power loss
    used,       \* the inodes created so far
    put,        \* what each Put has in hand
    read,       \* what each reader has in hand
    orphans     \* the temporary files of processes that died

vars == <<data, synced, dir, maybe, used, put, read, orphans>>

Names == Keys \cup Inodes

PutIdle == [pc |-> "idle", key |-> NoInode, inode |-> NoInode, rest |-> <<>>]
ReadIdle == [pc |-> "idle", inode |-> NoInode, window |-> <<0, 0>>, got |-> <<>>]

Init ==
    /\ data = [i \in Inodes |-> <<>>]
    /\ synced = {}
    /\ dir = [n \in Names |-> NoInode]
    /\ maybe = [n \in Names |-> {NoInode}]
    /\ used = {}
    /\ put = [w \in Writers |-> PutIdle]
    /\ read = [r \in Readers |-> ReadIdle]
    /\ orphans = {}

\* A mistake: a changed entry never reaches the disk.
LinkInMemory(f) ==
    /\ dir' = [n \in Names |-> IF n \in DOMAIN f THEN f[n] ELSE dir[n]]
    /\ UNCHANGED maybe

\* Entries n become what f says; until the directory is written back they may still be
\* what they were.
Link(f) ==
    /\ dir' = [n \in Names |-> IF n \in DOMAIN f THEN f[n] ELSE dir[n]]
    /\ maybe' = [n \in Names |-> IF n \in DOMAIN f THEN maybe[n] \cup {f[n]} ELSE maybe[n]]

Entries == {n \in Names : dir[n] # NoInode}

\* List: every entry that is not a temporary file.
Listed == Entries \ Inodes

-----------------------------------------------------------------------------
(* Put. *)

PutAt(w, pc) == put[w].pc = pc

\* A mistake: the file is created under the key at once.
CreateTempInPlace(w, k, object, i) ==
    /\ PutAt(w, "idle")
    /\ i \in Inodes \ used
    /\ \A pair \in After : pair[2] = k => pair[1] \in Listed
    /\ put' = [put EXCEPT ![w] = [pc |-> "copy", key |-> k, inode |-> i, rest |-> object]]
    /\ used' = used \cup {i}
    /\ Link([n \in {i, k} |-> i])
    /\ UNCHANGED <<data, synced, read, orphans>>

\* CreateTemp, in the directory of the key.
CreateTemp(w, k, object, i) ==
    /\ PutAt(w, "idle")
    /\ i \in Inodes \ used
    /\ \A pair \in After : pair[2] = k => pair[1] \in Listed
    /\ put' = [put EXCEPT ![w] = [pc |-> "copy", key |-> k, inode |-> i, rest |-> object]]
    /\ used' = used \cup {i}
    /\ Link([n \in {i} |-> i])
    /\ UNCHANGED <<data, synced, read, orphans>>

\* io.Copy writes the next block.
CopyBlock(w) ==
    /\ PutAt(w, "copy")
    /\ put[w].rest # <<>>
    /\ data' = [data EXCEPT ![put[w].inode] = Append(@, Head(put[w].rest))]
    /\ put' = [put EXCEPT ![w].rest = Tail(@)]
    /\ UNCHANGED <<synced, dir, maybe, used, read, orphans>>

\* A mistake: the file is renamed without being synced.
SyncTempNever(w) ==
    /\ PutAt(w, "copy")
    /\ put[w].rest = <<>>
    /\ put' = [put EXCEPT ![w].pc = "close"]
    /\ UNCHANGED <<data, synced, dir, maybe, used, read, orphans>>

\* tmp.Sync: where it is not supported, its error is passed over.
SyncTemp(w) ==
    /\ PutAt(w, "copy")
    /\ put[w].rest = <<>>
    /\ synced' = IF SyncSupported THEN synced \cup {put[w].inode} ELSE synced
    /\ put' = [put EXCEPT ![w].pc = "close"]
    /\ UNCHANGED <<data, dir, maybe, used, read, orphans>>

CloseTemp(w) ==
    /\ PutAt(w, "close")
    /\ put' = [put EXCEPT ![w].pc = "rename"]
    /\ UNCHANGED <<data, synced, dir, maybe, used, read, orphans>>

\* The rename; Put returns without an error.
RenameTemp(w) ==
    LET i == put[w].inode
        k == put[w].key
    IN
    /\ PutAt(w, "rename")
    /\ Link([n \in {i, k} |-> IF n = k THEN i ELSE NoInode])
    /\ put' = [put EXCEPT ![w] = PutIdle]
    /\ UNCHANGED <<data, synced, used, read, orphans>>

\* A mistake: the temporary file is left behind.
FailPutLeaving(w) ==
    /\ ~PutAt(w, "idle")
    /\ put' = [put EXCEPT ![w] = PutIdle]
    /\ UNCHANGED <<data, synced, dir, maybe, used, read, orphans>>

\* Copying, syncing, closing or renaming fails: the temporary file is removed.
FailPut(w) ==
    /\ ~PutAt(w, "idle")
    /\ Link([n \in {put[w].inode} |-> NoInode])
    /\ put' = [put EXCEPT ![w] = PutIdle]
    /\ UNCHANGED <<data, synced, used, read, orphans>>

\* The process dies: the temporary file stays.
KillPut(w) ==
    /\ "kill" \in Faults
    /\ ~PutAt(w, "idle")
    /\ orphans' = orphans \cup {put[w].inode}
    /\ put' = [put EXCEPT ![w] = PutIdle]
    /\ UNCHANGED <<data, synced, dir, maybe, used, read>>

DeleteObject(k) ==
    /\ k \in Listed
    /\ Link([n \in {k} |-> NoInode])
    /\ UNCHANGED <<data, synced, used, put, read, orphans>>

-----------------------------------------------------------------------------
(* Get and GetRange.  An open file is read to its end although its entry   *)
(* is removed or denotes another.                                          *)

ReadAt(r, pc) == read[r].pc = pc

\* Open, and Seek to the offset.
OpenObject(r, k, w) ==
    /\ ReadAt(r, "idle")
    /\ k \in Listed
    /\ read' = [read EXCEPT ![r] = [pc |-> "read", inode |-> dir[k], window |-> w, got |-> <<>>]]
    /\ UNCHANGED <<data, synced, dir, maybe, used, put, orphans>>

\* The place of the next block, and whether the window and the file reach to it.
Place(r) == read[r].window[1] + Len(read[r].got) + 1
More(r) == Len(read[r].got) < read[r].window[2] /\ Place(r) <= Len(data[read[r].inode])

ReadBlock(r) ==
    /\ ReadAt(r, "read")
    /\ More(r)
    /\ read' = [read EXCEPT ![r].got = Append(@, data[read[r].inode][Place(r)])]
    /\ UNCHANGED <<data, synced, dir, maybe, used, put, orphans>>

\* The reader meets the end, of the window or of the file.
FinishRead(r) ==
    /\ ReadAt(r, "read")
    /\ ~More(r)
    /\ read' = [read EXCEPT ![r] = [ReadIdle EXCEPT !.got = read[r].got]]
    /\ UNCHANGED <<data, synced, dir, maybe, used, put, orphans>>

AbandonRead(r) ==
    /\ ReadAt(r, "read")
    /\ read' = [read EXCEPT ![r] = ReadIdle]
    /\ UNCHANGED <<data, synced, dir, maybe, used, put, orphans>>

-----------------------------------------------------------------------------
(* Power loss. *)

Unsettled == {n \in Names : maybe[n] # {dir[n]}}
Unsynced == used \ synced

\* Every process is gone; entries are what may be on the disk, and so are the blocks.
PowerLoss ==
    /\ "power" \in Faults
    /\ \E old \in [Unsettled -> used \cup {NoInode}] :
          /\ \A n \in Unsettled : old[n] \in maybe[n]
          /\ dir' = [n \in Names |-> IF n \in Unsettled THEN old[n] ELSE dir[n]]
    /\ maybe' = [n \in Names |-> {dir'[n]}]
    /\ \E cut \in [Unsynced -> UNION {0 .. Len(data[i]) : i \in Unsynced}] :
          /\ \A i \in Unsynced : cut[i] \in 0 .. Len(data[i])
          /\ data' = [i \in Inodes |-> IF i \in Unsynced THEN SubSeq(data[i], 1, cut[i]) ELSE data[i]]
    /\ synced' = used
    /\ put' = [w \in Writers |-> PutIdle]
    /\ read' = [r \in Readers |-> ReadIdle]
    /\ orphans' = orphans \cup used
    /\ UNCHANGED used

-----------------------------------------------------------------------------
WriterStep(w) ==
    \/ \E k \in Keys, object \in Objects, i \in Inodes : CreateTemp(w, k, object, i)
    \/ CopyBlock(w) \/ SyncTemp(w) \/ CloseTemp(w) \/ RenameTemp(w) \/ FailPut(w) \/ KillPut(w)

ReaderStep(r) ==
    \/ \E k \in Keys, w \in Windows : OpenObject(r, k, w)
    \/ ReadBlock(r) \/ FinishRead(r) \/ AbandonRead(r)

Next ==
    \/ \E w \in Writers : WriterStep(w)
    \/ \E r \in Readers : ReaderStep(r)
    \/ \E k \in Keys : DeleteObject(k)
    \/ PowerLoss

Spec == Init /\ [][Next]_vars

-----------------------------------------------------------------------------
TypeOK ==
    /\ data \in [Inodes -> Seq(Blocks)]
    /\ synced \subseteq used /\ used \subseteq Inodes /\ orphans \subseteq used
    /\ dir \in [Names -> used \cup {NoInode}]
    /\ maybe \in [Names -> SUBSET (used \cup {NoInode})]
    /\ \A n \in Names : dir[n] \in maybe[n]
    /\ \A i \in Inodes : maybe[i] \subseteq {i, NoInode}
    /\ put \in [Writers -> [pc : {"idle", "copy", "close", "rename"}, key : Keys \cup {NoInode},
                            inode : used \cup {NoInode}, rest : Seq(Blocks)]]
    /\ read \in [Readers -> [pc : {"idle", "read"}, inode : used \cup {NoInode},
                             window : Nat \X Nat, got : Seq(Blocks)]]

\* Whatever is listed is a whole object (store.go:24): never a file still being
\* written, and none that a power loss cut.
WholeObjects == \A k \in Listed : k \in Keys /\ data[dir[k]] \in Objects

\* A temporary file is one of a Put under way or of a process that died: a Put that
\* returns an error has removed it.
OnlyOrphansLeft ==
    \A i \in Inodes \cap Entries : i \in orphans \/ \E w \in Writers : put[w].inode = i

\* The blocks a reader that has the object open is to get.
Window(object, w) ==
    SubSeq(object, w[1] + 1, IF w[1] + w[2] < Len(object) THEN w[1] + w[2] ELSE Len(object))

\* The store implements what its interface promises.
Store == INSTANCE AtomicStore WITH
    objects <- [k \in Listed |-> data[dir[k]]],
    get <- [r \in Readers |->
              [open |-> ReadAt(r, "read"),
               data |-> IF ReadAt(r, "idle") THEN read[r].got
                        ELSE Window(data[read[r].inode], read[r].window)]]
StoreSpec == Store!Spec

\* What how-it-works.md:276 says of a crash, that it never leaves a half-visible snapshot, and
\* which does not hold of a loss of power: a key that is put after another is never there
\* without it.
NeverHalfVisible == \A pair \in After : pair[2] \in Listed => pair[1] \in Listed

-----------------------------------------------------------------------------
(* Why it holds: an inductive invariant. *)

\* What may be under a key is written to its end, and synced where that is possible.
NamedInv ==
    \A k \in Keys : \A i \in maybe[k] \ {NoInode} :
        data[i] \in Objects /\ (SyncSupported => i \in synced)

\* A file being written is nobody else's, and lacks its rest.
PutInv(w) == LET p == put[w] IN
    p.pc # "idle" =>
        /\ p.key \in Keys /\ p.inode # NoInode
        /\ data[p.inode] \o p.rest \in Objects
        /\ p.pc # "copy" => p.rest = <<>> /\ (SyncSupported => p.inode \in synced)
        /\ \A k \in Keys : p.inode \notin maybe[k]
        /\ \A v \in Writers \ {w} : put[v].pc # "idle" => put[v].inode # p.inode
        /\ \A r \in Readers : ReadAt(r, "read") => read[r].inode # p.inode

\* What has been read is the window so far.
ReadInv(r) == LET e == read[r] IN
    ReadAt(r, "read") =>
        /\ e.inode # NoInode
        /\ Len(e.got) <= e.window[2]
        /\ e.got = <<>> \/ e.window[1] + Len(e.got) <= Len(data[e.inode])
        /\ \A j \in 1 .. Len(e.got) : e.got[j] = data[e.inode][e.window[1] + j]

StoreInv ==
    /\ TypeOK
    /\ \A i \in Inodes \ used : data[i] = <<>>
    /\ NamedInv
    /\ \A w \in Writers : PutInv(w)
    /\ \A r \in Readers : ReadInv(r)

=============================================================================
