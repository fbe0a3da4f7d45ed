# zeaback in TLA+

zeaback is a deduplicating backup tool. A repository is a set of objects in a
key/value store: packs of chunks, and a catalog of Parquet manifests that say
which snapshots exist, what their trees are and where each chunk is stored. No
server guards it. Every command (`backup`, `compact`, `forget`, `restore`,
`verify`) is a process of its own that reads and writes the store one object at
a time, with nothing to lock, and that may be killed between any two of these
operations. What makes the repository correct is the order of the operations, and
that is what these modules are about.

## The system and its parts

| part | state | operations | what it talks to |
|---|---|---|---|
| object store (`pkg/store`, `pkg/store/local`) | key -> bytes | put, get, get-range, list, delete, exists; `local` writes a temporary file and renames it | everything below |
| packs (`pkg/cas/packer.go`, `blob.go`) | the pack being filled, its locations, the packs flushed | `Add`, `Flush`, `Drain`, `ReadBlob` | store; called by backup and compaction |
| chunker (`pkg/cas/chunker.go`) | buffer and position in a reader | `Next` | called by backup |
| catalog (`pkg/catalog`) | per snapshot a record, nodes, chunk lists, chunk manifest, pack manifest; the consolidated `index.parquet` of the last two | write and load of each, `LoadLiveIndex`, `DeleteSnapshot`, `ReplaceChunkAndPackIndex`, `Resolve` | store |
| backup (`pkg/snapshot`) | parent's nodes, live index, tree so far, new chunks | `Create` | catalog, chunker, packer, the source file system |
| compaction (`pkg/compact`) | live set, chunk and pack index as read, relocated chunks | `Run` | catalog, packer, store |
| forget (`internal/cli/forget.go`) | the snapshot resolved | `DeleteSnapshot` | catalog |
| restore, verify (`pkg/restore`, `pkg/verify`) | chunk index as read, position in the tree | `Run` | catalog, packs, the destination |
| repository identity, configuration (`pkg/repo`, `internal/config`) | `repo.json`, the configuration file | `Init`, `Open`, `Load`, `Save` | store, the user's home |
| query lens (`pkg/catalog/query_*.go`), command line | none | SQL over the manifests, printing | DuckDB |

The parts interact only through the store. A backup reads the parent's manifests
and the whole chunk index once, at its start, and decides on what it read until
its end. A compaction reads the live set, then the index, then decides, then
writes, then deletes. A forget deletes record, nodes and chunk lists, in that
order. So the hard behaviours are

- two processes interleaved: each acts on what it read before the other wrote;
- a process killed, or an error, between two operations, with nothing undone;
- manifests of several ages merged, the last key winning;
- long histories: chunks carried from snapshot to snapshot unread, packs filled by
  relocation and emptied again;
- readers that act on an index which is replaced under them;
- source files that are written while they are read, and whose mtime has the
  granularity of a clock;
- files under the store that a killed process or a power loss leaves behind;
- a configuration file that every `init` reads, changes and writes whole.

What must hold of each part:

- *catalog and packs*: an entry of the chunk index is true (`IndexSound`); what is
  recorded is complete (`Restorable`, `TreesPresent`); the chunk list of a file is
  that of its content (`Intact`).
- *backup*: a step never takes away what a snapshot needs, and a snapshot is
  visible at once and whole (`ArchiveSpec`); a chunk is not stored twice
  (`OnlyNewChunks`).
- *compaction*: no live chunk is lost at any step (`Restorable`, `ArchiveSpec`), and
  it does its work: nothing under the threshold is left (`CompactionTight`).
- *forget*: takes out one snapshot and changes no other (`ArchiveSpec`).
- *restore*: what a restore that ends without an error has written is what was backed
  up (`RestoredRight`), trees and permissions included as far as they were read
  (`RestoredWhole`), and the absolute paths a user gives are found (`PathsFound`).
- *verify*: no damage is passed over, and none is reported that is not there
  (`SoundMeansRestorable`, `ProblemMeansDamage`).
- *the fast path*: a file that is carried over unread has not changed (`CarriedIsRight`).
- *chunker*: the cuts depend on the bytes alone and respect the bounds (`SameChunks`), an error is not
  an end (`EndIsEnd`), and it ends (`Ends`, checked as `ChunkerEnds`).
- *packer*: a location, once returned, is true for good (`ReadsBack`), and the indexes account
  for every byte (`Accounted`).
- *local store*: a put is there whole or not at all, to readers and after power loss
  (`StoreSpec`, `StoreInv`).
- *selection*: a time, a label or an identifier selects the snapshot it means
  (`ResolveRight`, `TimeTravelStable`).
- *configuration*: no name is lost, and each leads to its repository (`PromisesKept`,
  `EntriesOpen`), which keeps its identity (`IdentityKept`).
- *query lens*: at rest its views count what the program counts (`ViewsCount`).
- *everything that runs*: it ends (`CommandsEnd`), and garbage goes (`Reclaimed`).

`PROJECT.json` lists every component with its status, and every hazard at the line
where it bites.

## The modules

| module | models | state |
|---|---|---|
| `ObjectStore` | the repository's objects and `store.Store`'s operations on them; the merge of manifests; what a reader can read | `packs`, `nodes`, `nodeChunks`, `chunkMan`, `packMan`, `records`; `usedPacks`, `usedSnaps` stand for the uniqueness of random identifiers, `decayed` for the blobs whose bytes have changed |
| `Backup` | `snapshot.Create` | `backup`: per process, a record of what `Create` has in its variables and the next call |
| `Compact` | `compact.Run`, `ReplaceChunkAndPackIndex` | `compact` |
| `Forget` | `catalog.DeleteSnapshot` | `forget` |
| `Repository` | the composition: all processes over one store, and the properties | |
| `Archive` | the abstract specification: a map from snapshots to trees, with `Commit` and `Remove` | `archive` |
| `RepositoryInv` | the inductive invariant | |
| `Restore`, `Verify` | `restore.Run`, `verify.Run`, one read of the store or write at the destination per step | `restore`, `dest` (files) and `links` (symlinks); `verify` |
| `ReaderRepository` | the composition of `Repository` with the readers, and the decay of packs | |
| `AtomicStore` | the abstract store: what `store.Store` promises | `objects`, `reading` |
| `LocalStore` | the files behind it: directories, inodes, blocks, what is on the disk | one variable for each |
| `Packer` | `cas.Packer`, byte by byte, and `ReadBlob`'s window | the fields of `Packer` |
| `Chunker` | `cas.Chunker`, and a reference definition of its cuts | the fields of `Chunker`, the reader's position |
| `Source` | one source file and its clock under its users and a backup | `file`, `clock`, `backup`, `node` |
| `Tree` | trees on their way through the walk, the two tables of a snapshot, path selection and restore | `fs`, `snaps` |
| `Selection` | `sortSnapshots`, `Resolve`, identifiers and times | `records` |
| `Registry` | `repo.json`, `config.json` and the commands that use them | `meta`, `config`, `cmd` |
| `Progress` | `Repository` with fairness: what must happen in the end | |
| `Lens` | the views of `zeaback query` over the objects of `Repository`, and the inductive invariant about them | |
| `Pipeline` | `Source`, `Chunker` and `Packer`, the stages of a backup, each explored by itself | `stage`, and theirs |
| `Commands` | `Tree`, `Selection` and `Registry`, what commands make of paths, selectors and names, each explored by itself | `part`, and theirs |
| `MCRepository`, `MCReaders`, `MCProgress`, `MCLocalStore`, `MCPipeline`, `MCCommands` | constants for TLC | |
| `RepositoryTypes` | proofs about the operators of `ObjectStore`, and of type correctness | |
| `WriterSafety` | proofs that each step of a backup, of a compaction keeps the invariant | |
| `RepositorySafety` | the theorems: invariance, restorability, refinement, trees without a discipline, complete dedup, what a compaction leaves, and what the views count | |
| `ReaderSafety` | readers keep their types, and restores and verifications are right | |
| `LocalStoreProofs` | the local store: nothing is cut short or left behind, and it implements `AtomicStore` | |
| `PipelineSafety` | what is carried over unread is what the file holds; chunks are those of the reference; locations are final, and packs accounted for and bounded | |
| `TreeSafety` | snapshots hold the trees they were made of, files as they were read, restores give them back, and paths are found | |
| `CommandsSafety` | selectors resolve to what they mean; entries of the registry open, promises are kept, identities stay | |

The modules cut the system in layers that meet at what one promises and the next assumes.
`ObjectStore` takes puts, gets and deletes to be atomic, which is what `AtomicStore` says and
`LocalStore` is shown to implement. `Backup` leaves open what a walk finds, which `Tree` and
`Source` settle, and takes files as sequences of chunks, which `Chunker` shows to be
functions of their bytes. `Backup` and `Compact` take a pack to be the set of the chunks added
to it, which is what `Packer` shows of its bytes and locations. Which snapshot a command means is
left open in `Forget` and `Restore`, and settled in `Selection`.

**Steps.** One action is one operation on the store with the computation up to the
next, so that every point where another process can come between, or where the
process can die, is a state. The program counter names the next operation. A list
followed by gets is one step where what is listed is written once (the answer is
that of the list, or an error); `LoadChunkIndex` is two steps, because
`index.parquet` may be replaced between the list and the get. The reads of snapshot
records in `LoadSnapshots` and of the pack index are one step each.

**Data.** A chunk is its hash. A file's content is the sequence of its chunks, and its
content hash is that sequence, which is what SHA-256 over the hashes amounts to. A pack is the
set of chunks in it; an index entry names a pack. `BlobStored` says that the
pack is there and holds the chunk, `BlobReadable` also that its bytes still hash to it. Offsets and compression are left out. A snapshot
is a number, and the order of the numbers is the order of timestamps: a backup may
draw any unused one, so the clock of one host may lag behind another's.

**The source.** The walk finds any of the stored paths, each either unchanged since the
parent (`CarryFile`) or with any content (`OpenFile`); any file may be missing. A
file is cut chunk by chunk, each found in the live index or added to the packer, and
the packer may reach its target with any chunk.

**Failure.** `FailBackup`, `FailCompact` and `FailForget` end a run at any point: an error
returned by any call, a signal or a crash. All it leaves is in the store.

**Discipline.** zeaback has no locks. `Conflicts` says which kinds of commands the operator
keeps apart. `Conflicts = {}` is the program on its own. `Disciplined` is the weakest
exclusion found under which the repository is safe: one compaction at a time, no
compaction beside a backup, no forget beside a backup. Backups may run beside
each other, and forgets beside each other and beside a compaction. Each of the three parts
is needed: `race_backup_compact` takes one away, and the findings the other two.

**Readers.** A restore reads the nodes, the chunk lists and the two parts of the index in four
steps, then creates each file and writes it chunk by chunk, in any order of the files. The destination has
files and symlinks, and keeps those of earlier runs. `os.Create` truncates what it opens, and it follows a symlink
that stands at the path: `PlaceOf` is where the content goes. Only the restore of a symlink removes what is
there (`RestoreLink`). What the snapshot has at a path that is no file of it is left open there, a link to any
path or nothing, so that runs of different snapshots leave any mixture of files and links. `KeepOut` says which commands are kept from running
beside a reader, and `Fragile` which packs may decay. `Decay` puts a blob of such a pack among the `decayed`
and changes nothing else: that is how a medium loses bytes, with the pack where it was and every manifest
as it was. It happens only while no command runs, and only `ReaderRepository` has it; in
`Repository` nothing decays.

**The local store.** `CreateTemp`, `CopyBlock`, `SyncTemp`, `CloseTemp` and `RenameTemp` are the
system calls of a put. `maybe[k]` is what the entry of key k may be after a power loss: as
directories are never synced, any entry since the last loss. Blocks of a file
that was not synced may be lost from its end.

**The source.** A file's mtime is the clock at its last write. A backup stats, then decides, then
reads block by block; writes may come between any of these, a rename over the file too. History
variables (`quiet`, `past`, `at`) are for the properties.

**Trees.** The nodes of a snapshot are a function of the source and the place each comes from; where
their order matters, it is that of the sources. What a loop over them makes, in `LoadNodes`, in the
index of the parent and in a restore, is said of the result: the chunk at seq of a path is that of the last row that
puts one there, of two nodes of a path the later counts, a directory exists that a node is under. A place may get any
of `Entries` at any edit: the same file with other permissions, with another time, or with other contents of its
size and time, as when it is moved there from elsewhere. So a file that the fast path takes for unchanged may
have changed, and `RestoredWhole` says what comes back then: the file as it was read by the first of the backups
that since found one of its size and time at its path (`AsRead`). When a write can leave size and mtime as they are is
the matter of `Source`. A source is a sequence of names, absolute or not. The walk begins where `Abs` leads from
the directory of the command (`Roots`), and the snapshot records the source as it was given; `Matches`
passes over those that are not absolute.

**Selection.** `records` is the set of records, and the list that commands see is its elements in the order
of `sortSnapshots`. Each loop of `Resolve` is the last, or the first, place of that list with what the loop
looks for.

**The registry.** `os.WriteFile` is two steps, a truncation and a write from the beginning, so that two
saves beside each other may leave the end of a longer text behind a shorter one (`garbled`).

Operators commented "A mistake" are variants of a definition with a plausible bug,
and are used in no specification; with one of them in place a property fails.

## The runs

| run | what it asks | bounds | distinct states |
|---|---|---|---|
| `serial` | all of backup, compaction and forget, each run again and again and killed anywhere: the inductive invariant, types included, `IndexSound`, `Restorable`, `CompactionTight`, and that the repository implements `Archive` | 2 chunks, 1 file with content `a` or `ab`, 3 packs, 2 snapshots, one process of each kind, threshold 60% | 748 000 |
| `concurrent` | two backups at once, and compaction or forget when they are done, each killed anywhere: `Inv`, `Intact`, and the refinement | contents empty, `a` or `ab`, 2 packs, otherwise the same | 584 000 |
| `reuse` | three generations of snapshots, one command at a time, none broken off between its manifests: `OnlyNewChunks`, and the views of the lens, `ViewsCount`, with its inductive invariant `LensInv` | contents `a` or `ab`, 3 packs, 3 snapshots | 839 000 |
| `files` | restores of snapshots of several files and links into one destination again and again, beside backups and beside compactions that move the chunks away: `RestoreInv`, `RestoredRight` | 2 files with content `a`, present or gone, and links to either; 2 packs, 2 snapshots, one backup, compaction and restore of the whole tree, nothing kept out of the restore's way but that no forget runs; threshold 101%, at which every compaction moves every pack | 1 490 000 |
| `free` | no discipline: what holds all the same (`TreesPresent`), and that every command ends (`CommandsEnd`) | 1 chunk, 1 pack, 2 snapshots | 158 000 |
| `reclaim` | garbage is reclaimed under the discipline when compactions are run again and again (`Reclaimed`) | contents `a` or `ab`, 4 packs, 2 snapshots, two processes that run backups, one at a time | 64 000 |
| `verify_writers` | verifications beside backups and forgets, after compactions, with decaying packs: `ReaderTypeOK`, the inductive invariant `VerifyInv`, `SoundMeansRestorable`, `ProblemMeansDamage` | contents `a` or `b`, 2 packs, both fragile, 2 snapshots; one command at a time, and a verification beside it unless it is a compaction | 1 083 000 |
| `store` | the local store under killed processes and power losses: `StoreInv`, `OnlyOrphansLeft`, and that it implements `AtomicStore` | 2 keys, 2 writers, 1 reader, 2 inodes, objects of 2 blocks, windows that are whole, inner and beyond the end | 42 000 |
| `pipeline` | the three stages of a backup: `Source`, a file of one or two blocks written, appended to, cut and replaced under backups; `Chunker`, every file of up to 10 bytes out of two, every way to read it, an error anywhere; `Packer`, offsets, flushes, refused puts and drains | 3 ticks; sizes 2, 4, 6, 3-bit words, masks of 2 bits and 1; 5 blobs of sizes 1, 2 and 5 at a target of 5 with a header of 2, 2 packs, one refusal | 520 000 |
| `commands` | `Tree`, trees three deep, in one or two sources, nested across backups, absolute and relative, edited between backups; `Selection`, all sets of snapshots at four times in half seconds, with the label "deploy" or none, and every selector; `Registry`, two processes, killed anywhere | 4 places, 9 entries (a file, the same with other permissions, with another time, with other contents of its size and time, an empty one; directories that may be written or not, a link, a device), 3 lists of sources, one of them with a relative source, 4 edits, 2 snapshots; two random ends of an identifier; 3 commands, 2 directories, 2 names; one working directory, for the locations of repositories are absolute | 249 000 |
| `race_backup_compact` | what fails without a part of the discipline | as small as shows it | violated |
| `tree_names` | two sources with one base name | 2 places, 3 edits | violated |

*Sums.* `Pipeline` and `Commands` put modules together that share no state. A behaviour picks one
module at its start, and the others stay in their initial state, so that a run explores
the sum of the three and not their product. This is a way to run them, and says nothing of
how one uses another, which is the matter of the layers above.

*Why the bounds are enough.* Two chunks are what it takes for a pack to be
partly live (one of two, 50%, below the threshold of 60%: a candidate; one of one or
two of two: kept; none: dead). Three packs let a backup fill one, a compaction
relocate into another and a second backup or a retry of a killed compaction
fill the third. Two snapshots give a parent and a child that carries its files, one
forgotten and one kept. Every run of a process that ends starts again, so that
compactions after killed compactions are covered. A third snapshot, in `reuse`, is that of a
backup which reads an index that a compaction has written. (`reuse` breaks no command off between its
manifests, without which the views do not count right; that `OnlyNewChunks` holds of killed commands too is
`OnlyNewStored`, below, and of `Restorable` it is `serial`.) Identifiers are never reused, so
the histories are finite: runs stop when packs or snapshots are used up. The runs
not checked for deadlock are those that may really stop there.

In `files` a threshold of 101% makes each compaction relocate all that is live, so that the pack which a restore
looks for by the index it holds is gone as often as can be; with one content a
chunk too many or too few shows in the length of a file, and a file not written in its absence; that one file has the content of
another the run cannot tell, and the theorem does. Files that are
empty or of several chunks, and lists that differ, are the matter of `concurrent` (`Intact`) and of `commands`
(`RestoredWhole`). That no forget runs in it is a bound only: with one, kept apart from the restores, and with any
contents, it is the theorem `RestoresAreRight`.

*What they show beyond the code's tests.* In `serial` a compaction killed between the put
of the new index and any of its deletions leaves manifests of two ages; the merge by key
order reads `index.parquet` last, so its entries win, and the entries that only
an old manifest has still name packs that are there. A forget killed half way
leaves trees without a record, which no reader finds. Two backups at once store the same chunk
twice, which takes nothing from a snapshot; but the copy that the merged index does not name is never
reclaimed (Findings).

For the other modules: two inodes are a file that is named, and that a reader may still hold when its
name is gone, and one that is being written. Two packs of the packer are one that was refused and put
later, and the one after it. Files of 10 bytes hold two chunks with a
buffer refill between them, the first of the maximum size, and boundaries of both masks, at the
minimum, at the average and just before the maximum; two bytes are enough for a table that makes any
of these offsets a boundary or none. Three ticks are the tick of a write, that of the
Lstat and one after. Two snapshots of a tree are a parent and a child, which may be of different
sources, with a file turned into a directory or a link between them. Four times are two in one second,
and one on each side.

*Fairness.* Three specifications state it.
`Chunker` is a loop of its caller: it goes on (`WF` of its next step), and a reader that
returns nothing and no error does not do so for ever, which `io.Reader` asks of it.
`RunningSpec` (`free`) is weak fairness of the steps of each running command, among them the
return with an error when what it reads is gone: a command is one goroutine, waits for no other and
is scheduled by the operating system. Nothing is assumed of the start of commands, and commands may
still be killed or fail; that ends them too.
`SteadySpec` (`reclaim`) has no killed processes, and
strong fairness of the start of a compaction: the operator runs it
again and again, and a schedule that admits it from time to time lets it in. It is strong
because the discipline keeps it out while a backup runs. The loops it lets end are over
finitely many snapshots, manifests and packs, and the mutants show that each must shrink
its list. Without the assumption that no command is killed neither `Reclaimed` nor `ViewsCount` (in `reuse`, where a
command may fail, but not between its manifests) holds, as the findings say. `Reclaimed` also has backups one at a
time (`BackupsApart`): two beside each other, which the discipline admits, may store one chunk in a pack each,
and compaction never sees the one that the merged index does not name.

## Findings

Where the code does other than the repository says. `PROJECT.json` quotes the lines of each. Two are
kept as runs, `race_backup_compact` and `tree_names`. The others were found by TLC on the
modules as they are, each with the claim and the change of a run given here, and a reader can have
each of them again by that change.

| claim that does not hold | where | how it is seen |
|---|---|---|
| `Restorable` | a compaction beside a backup | run `race_backup_compact` |
| `RestoredWhole` | two sources with one base name share chunk lists, and both files of a path restore to one content | run `tree_names` |
| `Intact` | a forget of the parent beside a backup, which then carries files over with no chunks | `concurrent` with `Conflicts <- ForgetBesideBackup` |
| `IndexSound` | two compactions at once with a forget between their reads: the later index names packs that the other deleted | `race_backup_compact` with two compactors, `Conflicts <- CompactBesideCompact` and `IndexSound` (four minutes) |
| `RestoredRight` | a forget beside a restore, which writes empty files and reports success | `files` with `Forgetters = {f1}` |
| `SoundMeansIntact` | `verify` passes a snapshot that lost a chunk list, for it checks the lists it finds | `verify_writers` with `Conflicts <- ForgetBesideBackup` |
| `GarbageReclaimed` | packs of a killed command that no manifest names are never deleted, for compaction knows packs through the chunk index | `serial` |
| `PacksListed` | a backup killed between its chunk and its pack manifest leaves a pack without its row for good | `serial` |
| `NeverRewritten` | `index.parquet` is replaced by every compaction | `serial` |
| `ViewsCount` | the views of `zeaback query` count what a killed command left, which the program merges or ignores | `reuse` with `SPECIFICATION Spec` |
| `WholeObjects` | a file system without fsync may list a file that a power loss has cut short | `store` with `SyncSupported = FALSE` |
| `NeverHalfVisible` | no directory is synced, so that of two puts the second may survive a power loss without the first | `store` with `After <- FirstThenSecond` |
| `PointInTime` | a file written while it is read may be recorded as it never was | `pipeline` |
| `PathsFound` | nothing under the source `/` is found by its absolute path | `commands` with `RootPlaces` and `RootLists` |
| `PromisesKept` without `apart` | two commands beside each other lose an entry of the configuration, and one killed in its save loses all | `commands` |
| `InitOnce` | two inits beside each other both succeed, and one identity is lost | `commands` |
| `EntriesOpen` | a relative `--path` is kept as it is, and leads elsewhere from another directory | `commands` with `Locations = {"/main", "main"}` and `Cwds = {home, other}` |
| `Registered` | of two repositories with one base name the first loses its name, and one whose init ends before it has saved the configuration never has one | `commands` |
| `Reclaimed` for all that the discipline admits | two backups beside each other store one chunk in a pack each; compaction knows packs through the merged index, which names one of them, and the other stays for ever | `reclaim` with `Conflicts <- Discipline`, content `a` only, 3 packs and no forgets |
| `RestoredOverLinks` | a file is created through a symlink that an earlier restore left at its path; the content goes where the link leads, and the run reports success | `files` |
| `RestoredAsItWas` | a chmod of a file, or another file of its size and time in its place, is not noticed by the fast path, and the file is recorded as the parent has it | `commands` |
| `AllPathsFound` | sources are recorded as they were given, and absolute paths under a relative one find nothing | `commands` |

## The proofs

All are checked by TLAPS and hold for every value of the constants: any number of processes,
chunks, files, packs and snapshots, any threshold, any set of contents.

| theorem | says | under |
|---|---|---|
| `TypeCorrect` | `Spec => []TypeOK` | any schedule |
| `TreesAlwaysPresent` | `Spec => []TreesPresent` | any schedule |
| `Invariance` | `Spec => []Inv` | `Disciplined` |
| `IndexIsSound` | `Spec => []IndexSound` | `Disciplined` |
| `SnapshotsRestorable` | `Spec => []Restorable` | `Disciplined` |
| `SnapshotsIntact` | `Spec => []Intact` | `Disciplined` |
| `Refinement` | `Spec => ArchiveSpec` | `Disciplined` |
| `OnlyNewStored` | `Spec => OnlyNewChunks` | `LoneBackups`: no backup beside another or beside a compaction |
| `LeavesPacksTight` | `Spec => CompactionTight` | `Disciplined`, a finite set of chunks, a threshold of at most 100% |
| `ManifestsApart` | `UnbrokenSpec => []LensInv` | `Disciplined`, `LoneBackups` |
| `ViewsCountRight` | `UnbrokenSpec => []ViewsCount` | the same, and finite sets of chunks and packs |
| `ReadersTypeCorrect` | `ReaderSpec => []ReaderTypeOK` | any schedule, decay included |
| `ReaderInvariance` | `ReaderSpec => []Inv` | `Disciplined`, decay included, as in all that follow of readers |
| `RestoreInvariance` | `ReaderSpec => []RestoreInv` | `Disciplined`, forgets kept out of the readers' way |
| `RestoresAreRight` | `ReaderSpec => RestoredRight`, of destinations without an older link at the path of a file that is written | the same |
| `VerifyInvariance` | `ReaderSpec => []VerifyInv` | `Disciplined`, compactions kept out of the readers' way |
| `SoundIsRestorable` | `ReaderSpec => SoundMeansRestorable` | the same |
| `ProblemIsDamage` | `ReaderSpec => ProblemMeansDamage` | the same |
| `StoreInvariance` | `Spec => []StoreInv` (of `LocalStore`) | `Lasting`: fsync, or no power loss |
| `WholeAlways` | `Spec => []WholeObjects` | `Lasting` |
| `NothingLeftBehind` | `Spec => []OnlyOrphansLeft` | nothing |
| `StoreImplements` | `Spec => StoreSpec`, the refinement of `AtomicStore`, power losses included | `Lasting` |
| `SourceInvariance` | `Spec => []SourceInv` (of `Source`) | nothing |
| `CarriedAlways` | `Spec => []CarriedIsRight` | nothing |
| `QuietIsExact` | `Spec => QuietExact` | nothing |
| `ChunkerTypeCorrect` | `ChunkerSpec => []ChunkerTypeOK`, with the bound of the buffer | nothing |
| `EndIsReached` | `ChunkerSpec => []EndIsEnd` | nothing |
| `ChunksDetermined` | `ChunkerSpec => []Determined`: chunks are functions of the text, and none of it is lost | `Windowed`: the smallest chunk is no larger than the largest |
| `ChunksAreTheReference` | `ChunkerSpec => []SameChunks`: they are those between the boundaries of the reference | `Windowed` |
| `PackerTypeCorrect` | `PackerSpec => []PackerTypeOK` | nothing |
| `LocationsFinal` | `PackerSpec => []ReadsBack` | nothing |
| `EveryByteAccounted` | `PackerSpec => []Accounted` | nothing |
| `PacksBounded` | `PackerSpec => []Bounded` | nothing |
| `PipelineTypeCorrect` | `PipelineSpec => []PipelineTypeOK` | nothing |
| `TreeTypeCorrect` | `Spec => []TypeOK` (of `Tree`) | nothing |
| `TreesComeBack` | `Spec => []RestoredWhole`: files as the first backup that carried them read them | `NoNamesakes`: the sources of a backup differ in base name |
| `PathsAreFound` | `Spec => []PathsFound`, of sources given as absolute paths | `NoNamesakes`, `RootLeftOut`: `/` is no source |
| `SelectionTypeCorrect` | `SelectionSpec => []SelectionTypeOK` | nothing |
| `ResolvesRight` | `SelectionSpec => []ResolveRight` | nothing |
| `TimeTravelIsStable` | `SelectionSpec => TimeTravelStable` | nothing |
| `RegistryTypeCorrect` | `RegistrySpec => []RegistryTypeOK` | nothing |
| `IdentitiesKept` | `RegistrySpec => IdentityKept`, of inits begun when the identity is there | nothing |
| `EntriesAlwaysOpen` | `RegistrySpec => []EntriesOpen` | `Absolute`: a location is the same directory from everywhere |
| `PromisesAlwaysKept` | `RegistrySpec => []PromisesKept` | nothing |
| `CommandsTypeCorrect` | `CommandsSpec => []CommandsTypeOK` | nothing |

*Assumptions.* `ContentsAssumption` (contents are sequences of chunks), `KeysAssumption` (snapshot
identifiers are ordered, and `index.parquet` comes after them), `NoIdAssumption` (the
identifiers of nothing are not drawn), `ThresholdAssumption`, `ConflictsAssumption`; of the chunker,
the packer, trees, selection and the registry, `ChunkerAssumption` (words of the table are of the width, sizes are at
least one), `PackerAssumption` (no blob is empty, for a deflated one never is), `TreeAssumption` (places
are paths, and what is between two of them is one), `SelectionAssumption` and
`RegistryAssumption`. TLC evaluates them in the runs of their modules. Nothing is assumed to be
finite but what a backup cuts from one file, and in `LeavesPacksTight` and `ViewsCountRight`, which count, the
chunks (and packs).

*Hypotheses.* The findings show what happens without `Disciplined` (the first, third and fourth),
`Lasting` (`WholeObjects`), `Absolute` (`EntriesOpen`: `init --path` keeps a relative path as it is),
`NoNamesakes` (`RestoredWhole`, the run `tree_names`) and `RootLeftOut` (`PathsFound`). Nothing in the code
sees to any of them. `UnbrokenSpec` is `Repository` with no command broken off between its manifests; the
finding of `ViewsCount` is what happens when one is.
Two backups beside each other do store one chunk twice, so `OnlyNewStored` has `LoneBackups`: the
part of the discipline about backups and compactions, and that backups are run one at a time. A threshold above 100% asks for more than a live pack has. `Windowed` is
true of `DefaultChunkerOptions`, the only ones the commands use; `NewChunker` does not ask for it,
and without it a chunk would be all that happens to be in the buffer.

*The argument.* `Restorable` is not inductive: it says nothing of what a running process is
about to do with what it has read. `Inv` (`RepositoryInv`) adds

- `EntriesSound`: every entry of every manifest is true, not just the one a merge
  keeps. So the merge is true whichever key wins, and deleting any manifest
  uncovers only true entries.
- `SnapshotsComplete`: a recorded snapshot has both trees, they agree, and each of its chunks is in
  some manifest.
- per backup (`BackupRunInv`): a chunk it packed is in the buffer or in a stored pack; the tree it has
  made needs only chunks that are indexed, packed or still to be looked up; the manifests it
  has written are those of the tree. The record, written last, then makes a complete snapshot.
- per compaction (`CompactRunInv`): no recorded snapshot has been overlooked (`LiveInv`, which survives
  a forget between its reads); until it is replaced, the index read covers the whole index
  and is true; what is moved is in packs the old index does not name; the new index names all that is
  live and nothing out of use; and packs are deleted only when it is the one manifest left.
- `OpenPacks`: no pack being filled is in the store already, and no two backups fill one pack.
- `Exclusion`: the schedule keeps apart what it promised. Only this conjunct uses `Disciplined`,
  and the first, third and fourth of the findings show that none of its parts can be dropped.

`WriterSafety` proves that a step of a backup adds and never takes (`Grows`), which carries all that other
backups rely on. It takes a compaction step by step; the two steps that matter are
`PutChunkIndexSafe` and `DropPackSafe`. `RepositorySafety` puts the processes together, and derives the
properties and the refinement: under `Inv` what can be restored is exactly the nodes of the recorded
snapshots, which only `WriteSnapshotRecord` and `DeleteRecord` change.
`TreesAlwaysPresent` has an invariant of its own (`TreesInv`), with no exclusion: a run that writes has
an identifier that nobody else writes or forgets.

*The readers.* A restore only reads, and `Inv` holds beside
readers and where packs decay: it speaks of what was stored, and a decay takes nothing of
that away (`StaysUndamaged`, `InvStays`). `RestoreInv` says of each
run that its snapshot is still recorded (nothing is forgotten while it runs), that the chunk lists it has read
are those of that snapshot, and that what it has written of a file, followed by what is left to
write, is the content. The last is said as long as no link stands at the path of a selected file (`ClearOfLinks`): the
run makes links of its own only at paths that are no files of its snapshot, so that only an earlier run
can break it, and then what is written to a path is written to that path's own place. The index it holds may be out of date: then the pack is gone, and the run
ends with an error. It can never name a wrong chunk, for a pack, once put, is never another, and bytes that
have decayed do not hash to what the entry names.

*Verification.* A run goes by an index that backups have added to since, so that it may read other bytes than a restore
would now. `VerifyInv` says why this does not matter: of each chunk the two find the same blob or two intact ones
(`FoundAlike`). Another blob is there only because a backup stored the chunk again, since it
was not in the index it read; nothing decays while a backup runs, so neither that copy
nor any other made meanwhile has decayed (`BackupFresh`). The index of the run covers all
its snapshots, as it is read after them (`KnownInv`). `ProgressInv` is the loop: what
has been passed over, in a snapshot that is done or in the part done of the one at hand, is intact.
At the end that is every snapshot listed, and `SoundMeansRestorable` follows; a
chunk that is found missing or unreadable is so for a restore, and `ProblemMeansDamage` follows.
A forget may take a snapshot away under the run. All is said of those that still have their nodes, then: a
snapshot keeps its chunk lists as long as it has its nodes, since a forget deletes those first
(`NodesFirst`), and one without its nodes cannot be restored, which is what is reported of it. That
compactions are kept away is needed: with the contents `a` and `ab` and `KeepOut = {"forget"}` the run finds a pack
deleted under a verification, which takes it for damage.

*The local store.* `StoreInv`: whatever may be under a key, now or after a power loss, is an
object written to its end (and synced where that is possible), a temporary file is in no directory
under a key and in no reader's hands, and what a reader has is a prefix of its window of one
inode. The refinement maps the objects to what the entries name, and a put to the
rename; every other step of a writer stutters. A power loss is one of the abstract store, after
which each key has a whole object or none.

*Deduplication.* `OnlyNewChunks` speaks of the moment a backup writes its manifest, and what it knew of the
index is then old. `DedupInv` says that the index is all in what the run has read of it or has still to
read, and that nothing the run packed is indexed until its own manifest is there: only other
backups and compactions add to the index, and the discipline keeps them away.

*Compaction.* `CompactionTight` needs of every pack that it was looked at: a pack is kept if its live part is
over the threshold, moved if not, and dropped if it is dead, and what is moved fills
packs with live chunks only. The counting rests on `FiniteSetTheorems`.

*The source.* `SourceInv` carries the one fact that makes the fast path right: as long as the mtime is older
than the tick of the Lstat, nobody has written since; so equal mtimes mean equal contents. The
exception, a file written in the very tick of the Lstat, is in the statement, because the
code does not exclude it.

*The chunker.* `Cutpoint` looks at the buffer, and what is in the buffer depends on how the reader
returned the file. `CutpointLocal` shows that it looks no further than the buffer is certain to be filled, or is the whole
rest: two buffers that agree up to the largest chunk have the same cut. Under it is a fact about a
recursive function, that a fingerprint depends on the bytes up to its offset only (`SamePrints`), and that
the function is there at all (`PrintsThere`). Both are inductions; since the induction
theorems of the library cannot be instantiated here, they are made by the least
counterexample (`LeastIn`). `CutInv` then has, for each chunk returned, where it began, that the text from there on has its
cut at its end, and that what is in the buffer is the file from the last cut to where it was read.
The starts are bound in the invariant, as a sum of lengths would be one more recursive function.
`ChunksAreTheReference` then identifies these chunks with those of the reference, which knows nothing of a
buffer or a fingerprint. The fingerprint, shifted one bit per byte through a word of `Width` bits, agrees in its last
bits with the sum over a window of as many bytes (`Rolling`): an equation modulo a power of two, by
induction on the offset. So the first offset at which it is zero under a mask is the next boundary, and the starts
of `CutInv` are the boundaries, one after another.

*The views.* `ViewsCount` is about rest, and `LensInv` about what leads to it. Two files list a chunk only while
a compaction replaces all files by one, of which it has listed every other (`OldPacksListed`), so that at its
end no two do. A backup lists what it stored, and that was in no index it had read (`DedupInv`, above) nor, by the
discipline, in one written since; the packs it drew nobody has listed (`NewPacksUnlisted`). The counting is a
bijection between the rows and the keys of the merged index.

*Trees.* `TreeInv` has the shape: what is above an entry is a directory, in the file system and in what every
snapshot was made of. `ReadInv` adds that each node of each snapshot, once loaded, is that of an entry of `AsRead`
(`IsRead`): the entry found, or for a file the one that the first backup read of those that from then on all found a
file of this size and time at this path. Under `NoNamesakes` a stored path belongs to one source and one place, so the rows of a path
are those of one node, and the two tables give it back (`RoundTrip`). A node that the fast path takes over from the parent is then one of
the parent's `AsRead`; it has the size and time of what is found now, so the row of backups is unbroken and
that entry is one of the child's `AsRead` too (`AsReadStays`, `AddedRight`), whichever sources the parent was of. A
file that is read afresh begins a row of its own (`FirstRead`). A restore makes each path of one node, and as a
source with what is under it is a tree, it makes nothing else but what is above. For `PathsFound` the first source
that matches an absolute path is one that was given as an absolute path, and it is then the root that was walked.

*Selection.* That a sorted list exists, and has every record once, is an induction on the number of
records before one (`Ranks`, `SortedList`). A loop that breaks after the last snapshot up to a time stops at a
place with those up to the time on one side and the others on the other (`TimeRight`); the last of the
first ones is the latest of the set (`LastIsLatest`). `TimeTravelStable` follows from what is selected before and after a step.

*The packer.* `PackerInv` has of the pack in memory that its blobs lie end to end from the header to the end of
its bytes, and that all but the last of them, and those added since the store refused it, end
under the target; of each row that this is so of the pack as it is stored; and of
each location returned that it is among the blobs of its pack. A refused pack stays in memory under its
identifier, which is why a location returned before a refusal is still good after it.

*The registry.* Each property has an invariant that says more of a command under way. `ClearInv`: as long as an
init has seen a directory empty and nobody else has put there, it may put. `OpenInv`: what a command
holds of the registry, and what the file has, names only directories with a repository, which
never lose it. `PromiseInv`: as long as commands have been apart, the one under way holds what was promised with its own
change, and the file is what was promised, or is being written.

*Only model-checked.* `CommandsEnd`, `Reclaimed` and `ChunkerEnds`: liveness under fairness and `ENABLED` are out
of the prover's reach. Every other property of a run is the conclusion of a theorem. The induction theorems of
the library have an operator as a parameter, which none of the provers can instantiate, so that each
induction is one on a least counterexample, or on the set of the numbers for which the claim holds.
None of the modules declares a recursive operator.

## What is left out

- Of symlinks at the destination, those that lead out of it or to a directory, those above the path that is
  written, and those that lead to other links; of two sources of one base name, a file that is created
  through the link of the other. In `Tree` a whole snapshot is restored into an empty directory.
- ".." and "." in the paths of sources, which `filepath.Abs` and `path.Clean` take away; links above a source.
- Owners, which are recorded and never restored; the format of Parquet, Arrow, JSON and DEFLATE, which are
  libraries: a manifest or a pack is read as it was written.
- The order of siblings in a walk, which is left open; case-insensitive file systems, and the path
  separators of Windows.
- In `Repository`, power loss: a put is durable when it returns. This is true of a killed process;
  `LocalStore` says what a power loss does to it.
- Corruption of objects in the store, but for the decay of packs that `verify` looks for.
- SQL, flags, the parsing of times and printing.
- `Threshold` is a percentage; `Options.Threshold` is a float compared
  with a quotient. They differ by rounding only.
- `gear` of the chunker is a table of 256 words of 64 bits, made at the start; it is a constant here, with
  few words of few bits. The 64-bit sum overflows as the small one does.

## The plan

What was planned is done: every component is modelled as far as the table of components in `PROJECT.json` says, and every
safety property of a run is proved. What would be worth doing next is `Tree` and `Source` in one, with a walk that sees a tree
change under it, and the discipline itself: a lock or a generation number in the store that would make
`Disciplined` a theorem about the program and not a demand on its operator.
