----------------------------- MODULE MCProgress -----------------------------
(* Finite instances of Progress and Lens for TLC. *)
EXTENDS Progress, Lens, TLC

CONSTANTS a, b, f

MCChunks == {a, b}
OneFile == {f}
SmallContents == {<<a>>, <<a, b>>}
OneContent == {<<a>>}

TwoSnaps == {1, 2}
ThreeSnaps == {1, 2, 3}
MCIndex == 9

PackSymmetry == Permutations(PackIds)

NoConflicts == {}
\* Compaction alone among writers, and no forget while a backup runs.
Discipline == {{"compact"}, {"compact", "backup"}, {"backup", "forget"}}
\* And no backup beside another.
BackupsApart == Discipline \cup {{"backup"}}

\* One command at a time.
OneAtATime == {{k, l} : k, l \in {"backup", "compact", "forget"}}
=============================================================================
