-------------------------- MODULE ReaderRepository --------------------------
(***************************************************************************)
(* Restores and verifications beside the processes that write the          *)
(* repository, and packs whose bytes may decay.  Readers hold no lock      *)
(* either; KeepOut is the set of kinds of writers that the operator does   *)
(* not run beside a reader.                                                *)
(***************************************************************************)
EXTENDS RepositoryInv, Restore, Verify

CONSTANTS
    KeepOut,    \* the kinds of writers kept apart from readers
    Fragile     \* the packs whose bytes may decay

ASSUME KeepOutAssumption == KeepOut \subseteq {"backup", "compact", "forget"}

readerVars == <<restore, destination, verify>>
allVars == <<vars, readerVars>>

RunningRestores == {r \in Restorers : ~RestoreAt(r, "idle")}
RunningVerifies == {v \in Verifiers : ~VerifyAt(v, "idle")}
RunningReaders == RunningRestores \cup RunningVerifies

\* A reader may start: no writer that is kept out of its way is running.
AdmitReader ==
    /\ "backup" \in KeepOut => RunningBackups = {}
    /\ "compact" \in KeepOut => RunningCompactions = {}
    /\ "forget" \in KeepOut => RunningForgets = {}

\* While there are readers, no writer that is kept out of their way starts.
KeptOut ==
    RunningReaders # {} =>
        /\ "backup" \in KeepOut => RunningBackups' \subseteq RunningBackups
        /\ "compact" \in KeepOut => RunningCompactions' \subseteq RunningCompactions
        /\ "forget" \in KeepOut => RunningForgets' \subseteq RunningForgets

NextWriter == Next /\ KeptOut /\ UNCHANGED readerVars

NextRestore ==
    /\ \E r \in Restorers :
          \/ AdmitReader /\ \E s \in SnapIds : ResolveRestore(r, s)
          \/ RestoreStep(r)
    /\ UNCHANGED <<vars, verify>>

NextVerify ==
    /\ \E v \in Verifiers :
          \/ AdmitReader /\ \E deep \in BOOLEAN : VerifySnapshots(v, deep)
          \/ VerifyStep(v)
    /\ UNCHANGED <<vars, restore, destination>>

\* The bytes of a chunk in a pack decay.  A bound: only while no command runs.
Decay ==
    /\ RunningBackups = {} /\ RunningCompactions = {} /\ RunningForgets = {} /\ RunningReaders = {}
    /\ \E k \in Fragile \cap DOMAIN packs : \E c \in packs[k] : decayed' = decayed \cup {<<k, c>>}
    /\ UNCHANGED <<store, backup, compact, forget, readerVars>>

ReaderInit == Init /\ InitRestore /\ InitVerify
ReaderNext == NextWriter \/ NextRestore \/ NextVerify \/ Decay
ReaderSpec == ReaderInit /\ [][ReaderNext]_allVars

ReaderTypeOK == TypeOK /\ RestoreTypeOK /\ VerifyTypeOK /\ decayed \subseteq usedPacks \X Chunks

-----------------------------------------------------------------------------
(* Why a restore is right: an inductive invariant. *)

\* What is kept out of the readers' way is not running while they are.
ReadersAlone == RunningReaders # {} => AdmitReader

\* No symlink stands where the run writes one of its files.
ClearOfLinks(r) == restore[r].selected \cap DOMAIN links[r] = {}

\* Of one run: its snapshot is recorded, its tree is that of the snapshot, and unless it
\* writes through a link, the files it is done with are those of the tree, and the one it
\* is writing lacks its rest.
RestoreRunInv(r) == LET run == restore[r] IN
    /\ run.pc # "idle" => run.id \in records
    /\ run.pc # "write" => run.file = {}
    /\ run.rest \in Seq(Chunks)
    /\ run.pc = "nodeChunks" => DOMAIN run.tree = DOMAIN nodes[run.id]
    /\ run.pc \in {"list", "index", "select", "files", "write"} =>
         /\ DOMAIN run.tree = DOMAIN nodes[run.id]
         /\ \A p \in DOMAIN run.tree : run.tree[p].chunks = nodes[run.id][p]
    /\ run.pc \in {"files", "write"} =>
         /\ run.todo \cap DOMAIN run.tree \subseteq run.selected
         /\ run.selected \subseteq DOMAIN run.tree
         /\ ClearOfLinks(r) =>
              /\ run.file \cap run.todo = {}
              /\ \A p \in run.selected \ run.todo :
                   /\ p \in DOMAIN dest[r] /\ dest[r][p] \in Seq(Chunks)
                   /\ run.tree[p].chunks = IF p \in run.file THEN dest[r][p] \o run.rest ELSE dest[r][p]

\* Under a disciplined schedule that keeps forgets away from readers.
RestoreInv ==
    /\ ReadersAlone
    /\ restore = [r \in Restorers |-> restore[r]]
    /\ dest = [r \in Restorers |-> dest[r]] /\ links = [r \in Restorers |-> links[r]]
    /\ \A r \in Restorers : DOMAIN restore[r] = RestoreFields /\ RestoreRunInv(r)

-----------------------------------------------------------------------------
(* Why a verification is right: an inductive invariant, under a disciplined schedule that *)
(* keeps compactions away from readers.                                                   *)

\* A snapshot keeps its chunk lists, and the index its chunks, as long as it has its nodes,
\* also when it has lost its record to a forget; and no backup writes it again.
KeptWhole(s) ==
    /\ \A b \in Backups : backup[b].id # s
    /\ s \in DOMAIN nodes => s \in DOMAIN nodeChunks /\ nodeChunks[s] = nodes[s] /\ Refs(s) \subseteq Indexed

\* A forget deletes chunk lists when the nodes are gone.
NodesFirst == \A f \in Forgetters : ForgetAt(f, "nodeChunks") => forget[f].id \notin DOMAIN nodes

\* Every entry for chunk x, of any manifest, leads to bytes that have not changed.
EntriesFresh(x) ==
    \A k \in DOMAIN chunkMan : x \in DOMAIN chunkMan[k] => <<chunkMan[k][x], x>> \notin decayed

\* What a backup has packed has not decayed, nor has any copy of a chunk that was not
\* indexed when it looked: such a copy was made while the backup was running.
BackupFresh(b) == LET run == backup[b] IN
    /\ \A x \in Chunks : <<run.open, x>> \notin decayed
    /\ \A x \in DOMAIN run.new : <<run.new[x], x>> \notin decayed /\ EntriesFresh(x)
    /\ run.pc = "index" =>
         \A x \in Chunks : x \in run.live \/ (IndexListed /\ x \in DOMAIN chunkMan[Index]) \/ EntriesFresh(x)
    /\ run.pc = "walk" => \A x \in Chunks \ run.live : EntriesFresh(x)

\* The index a verification goes by once it has read all of it.
Known(v) == IF VerifyAt(v, "index") THEN WithIndexFile(verify[v].idx) ELSE verify[v].idx

\* Where it finds chunk x and where a restore would now: the same blob, or two intact ones.
FoundAlike(v, x) ==
    \/ Known(v)[x] = ChunkIndex[x]
    \/ <<Known(v)[x], x>> \notin decayed /\ <<ChunkIndex[x], x>> \notin decayed

\* The snapshots of the run that still have their nodes.
Left(v) == verify[v].snaps \cap DOMAIN nodes

\* The index of the run covers them, and finds their chunks as a restore does.
KnownInv(v) == LET run == verify[v] IN
    run.pc \notin {"idle", "list"} =>
        /\ run.pc = "index" => IndexListed
        /\ \A s \in Left(v) : Refs(s) \subseteq DOMAIN Known(v)
        /\ DOMAIN Known(v) \subseteq Indexed
        /\ \A x \in DOMAIN Known(v) : BlobStored(Known(v)[x], x) /\ FoundAlike(v, x)

\* What the run has gone over was intact, and still is.
Passed(v, x) == verify[v].deep => <<verify[v].idx[x], x>> \notin decayed

ProgressInv(v) == LET run == verify[v] IN
    /\ run.pc \in {"list", "index"} => run.unread = run.snaps /\ run.checked = {}
    /\ run.pc \in {"nodeChunks", "check"} => run.id \in run.snaps
    /\ run.pc \in {"nodeChunks", "check"} /\ run.id \in Left(v) => run.files = DOMAIN nodes[run.id]
    /\ run.pc = "check" /\ run.id \in Left(v) =>
         /\ run.todo \subseteq Refs(run.id)
         /\ \A x \in Refs(run.id) \ run.todo : Passed(v, x)
    /\ \A x \in run.checked : Passed(v, x)
    /\ \A s \in Left(v) \ run.unread :
          run.pc = "nodes" \/ s # run.id => \A x \in Refs(s) : Passed(v, x)

VerifyRunInv(v) ==
    /\ VerifyAt(v, "idle") => verify[v] = VerifyIdle
    /\ \A s \in verify[v].snaps : KeptWhole(s)
    /\ KnownInv(v)
    /\ ProgressInv(v)

VerifyInv ==
    /\ ReadersAlone /\ NodesFirst
    /\ \A b \in Backups : BackupFresh(b)
    /\ \A v \in Verifiers : VerifyRunInv(v)

-----------------------------------------------------------------------------
\* At the end of run r the destination holds every file it selected as the backup read it.
HoldsSelected(r) ==
    \A p \in restore[r].selected :
       /\ restore[r].id \in DOMAIN nodes /\ p \in DOMAIN nodes[restore[r].id]
       /\ p \in DOMAIN dest[r] /\ dest[r][p] = nodes[restore[r].id][p]

\* A restore that returns without an error has written every file it selected as the
\* backup read it, over whatever files earlier runs left at the destination
\* (restore.go:130), wherever compactions moved the chunks meanwhile, and whatever links
\* it made itself: unless an earlier run left a symlink at the path of one of them.
RestoredRight ==
    [][\A r \in Restorers : FinishRestore(r) /\ ClearOfLinks(r) => HoldsSelected(r)]_allVars

\* What restore.go:1 says, and which does not hold of a destination where an earlier run
\* left a symlink: os.Create (restore.go:130) follows it, and the content of one file goes
\* where another one's stands.  A restore without an error has restored what it selected.
RestoredOverLinks == [][\A r \in Restorers : FinishRestore(r) => HoldsSelected(r)]_allVars

\* Every file of snapshot s can be restored now.
AllRestorable(s) == s \in DOMAIN nodes /\ \A p \in DOMAIN nodes[s] : FileReadable(s, p)

\* A thorough verification that returns without an error tells the truth (verify.go:1):
\* every snapshot it listed and that is still recorded can be restored.
SoundMeansRestorable ==
    [][\A v \in Verifiers : ReportSound(v) /\ verify[v].deep =>
          \A s \in verify[v].snaps \cap records : AllRestorable(s)]_allVars

\* A verification reports a problem only when a snapshot it listed has one: one that
\* a backup is recording meanwhile is not taken for damage.
ProblemMeansDamage ==
    [][\A v \in Verifiers : ReportProblem(v) =>
          \E s \in verify[v].snaps : ~AllRestorable(s)]_allVars

\* What how-it-works.md:331 says of verification, a complete integrity proof, and which does not
\* hold of a snapshot that lost a chunk list to a forget beside its backup: a snapshot that
\* passes restores to the contents that were backed up.
SoundMeansIntact ==
    [][\A v \in Verifiers : ReportSound(v) /\ verify[v].deep =>
          \A s \in verify[v].snaps \cap records \cap DOMAIN nodes : \A p \in DOMAIN nodes[s] :
             RestoredFile(s, p) = nodes[s][p]]_allVars
=============================================================================
