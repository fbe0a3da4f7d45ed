------------------------------ MODULE MCReaders ------------------------------
(* Finite instances of ReaderRepository for TLC. *)
EXTENDS MCRepository, ReaderRepository

\* A prefix matches one file, or the whole tree.
EachOrAll == {Paths} \cup {{p} : p \in Paths}
WholeTree == {Paths}
=============================================================================
