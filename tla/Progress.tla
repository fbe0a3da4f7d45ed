------------------------------ MODULE Progress ------------------------------
(***************************************************************************)
(* What must happen in the end: commands end, and space is reclaimed.      *)
(***************************************************************************)
EXTENDS Repository

OfBackup(step) == step /\ UNCHANGED <<compact, forget, decayed>>
OfCompact(step) == step /\ UNCHANGED <<backup, forget, decayed>>
OfForget(step) == step /\ UNCHANGED <<backup, compact, decayed>>

\* The steps of each command that are neither a failure nor the death of its process.  When a
\* command can take none, because what it reads is not there, it ends with an error.
OrError(steps, error) == steps \/ (error /\ ~ENABLED steps)

BackupGoes(b) ==
    OfBackup(OrError(ReadCatalog(b) \/ WalkSource(b) \/ WriteSnapshot(b), FailBackup(b)))

CompactGoes(c) ==
    OfCompact(OrError(ReadRepository(c) \/ RelocateChunks(c) \/ ReplaceIndex(c) \/ DropPacks(c),
                      FailCompact(c)))

ForgetGoes(f) ==
    OfForget(OrError(DeleteRecord(f) \/ DeleteNodes(f) \/ DeleteNodeChunks(f), FailForget(f)))

\* A process that runs a command goes on with it: each command is one goroutine, which waits for
\* nothing but the operating system.  Nothing is assumed of the start of commands.
RunsGoOn ==
    /\ \A b \in Backups : WF_vars(BackupGoes(b))
    /\ \A c \in Compactors : WF_vars(CompactGoes(c))
    /\ \A f \in Forgetters : WF_vars(ForgetGoes(f))

RunningSpec == Spec /\ RunsGoOn

\* Every command ends, whatever the others do beside it and delete under it: no command waits for
\* another, and its loops over snapshots, manifests and packs come to an end.
CommandsEnd ==
    /\ \A b \in Backups : ~BackupAt(b, "idle") ~> BackupAt(b, "idle")
    /\ \A c \in Compactors : ~CompactAt(c, "idle") ~> CompactAt(c, "idle")
    /\ \A f \in Forgetters : ~ForgetAt(f, "idle") ~> ForgetAt(f, "idle")

-----------------------------------------------------------------------------
(* The repository when no process is killed and no command fails for want  *)
(* of anything but what it reads.                                          *)

SteadyNext ==
    \/ \E b \in Backups : OfBackup(StartBackup(b)) \/ BackupGoes(b)
    \/ \E c \in Compactors : OfCompact(StartCompact(c)) \/ CompactGoes(c)
    \/ \E f \in Forgetters : OfForget(StartForget(f)) \/ ForgetGoes(f)

\* Whoever runs compact runs it again and again, when the schedule admits it.
SteadySpec ==
    /\ Init /\ [][SteadyNext]_vars /\ RunsGoOn
    /\ \A c \in Compactors : SF_vars(OfCompact(StartCompact(c)))

\* A pack that holds nothing that a snapshot needs from it.
Useless(k) ==
    k \in DOMAIN packs /\ \A x \in packs[k] \cap LiveChunks : x \in DOMAIN ChunkIndex => ChunkIndex[x] # k

\* What forget.go:14 says: what only forgotten snapshots need is reclaimed by compact.  No pack
\* stays useless for ever, as long as no backup runs beside another and no command is killed: a
\* snapshot comes to need it, or it is deleted.  (Two backups at once may store the same chunk
\* in a pack each.  The index as read has one of them, so that compaction, which knows packs
\* through the index, compact.go:77, never deletes the other.)
Reclaimed == \A k \in PackIds : Useless(k) ~> ~Useless(k)
=============================================================================
