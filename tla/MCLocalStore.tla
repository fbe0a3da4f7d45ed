---------------------------- MODULE MCLocalStore ----------------------------
(* Finite instances of LocalStore for TLC. *)
EXTENDS LocalStore

CONSTANTS x, y, k1, k2

TwoBlocks == {x, y}

TwoKeys == {k1, k2}
\* Two objects no prefix of which is an object.
TwoObjects == {<<x, x>>, <<y, x>>}
TwoInodes == 11 .. 12
NoFile == 0

\* The whole object, its second block, and a range that ends after the object does.
MCWindows == {<<0, 9>>, <<1, 1>>, <<1, 4>>}

InAnyOrder == {}
\* For NeverHalfVisible, as snapshot.go puts a record after its trees.
FirstThenSecond == {<<k1, k2>>}
=============================================================================
