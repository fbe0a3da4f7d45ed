---------------------------- MODULE MCRepository ----------------------------
(* Finite instances of Repository for TLC. *)
EXTENDS RepositoryInv

CONSTANTS a, b, f, g

MCChunks == {a, b}
OneFile == {f}
TwoFiles == {f, g}

\* An empty file, a file of one chunk, and one that starts like it.
MCContents == {<<>>, <<a>>, <<a, b>>}
SmallContents == {<<a>>, <<a, b>>}
OneContent == {<<a>>}
OneChunkContents == {<<a>>, <<b>>}

TwoSnaps == {1, 2}
MCIndex == 9

NoConflicts == {}
\* Compaction alone among writers, and no forget while a backup runs.
Discipline == {{"compact"}, {"compact", "backup"}, {"backup", "forget"}}

\* One command at a time.
OneAtATime == {{k, l} : k, l \in {"backup", "compact", "forget"}}

\* The discipline without one of its parts.
CompactBesideBackup == Discipline \ {{"compact", "backup"}}
CompactBesideCompact == Discipline \ {{"compact"}}
ForgetBesideBackup == Discipline \ {{"backup", "forget"}}

PackSymmetry == Permutations(PackIds)
FileSymmetry == PackSymmetry \cup Permutations(Paths)
ProcessSymmetry == PackSymmetry \cup Permutations(Backups) \cup Permutations(Compactors)
=============================================================================
