----------------------------- MODULE MCPipeline -----------------------------
(* Finite instances of Pipeline for TLC. *)
EXTENDS Pipeline, TLC

CONSTANTS
    x, y,                       \* blocks, and bytes
    MaxLen,                     \* a bound: the length of files
    c1, c2, c3, k1, k2

MCBlocks == {x, y}
\* Files of one size and of another.
MCContents == {<<x>>, <<y>>, <<x, x>>, <<y, x>>, <<y, y>>}

\* Every file of up to MaxLen bytes.
MCInputs == UNION {[1 .. n -> {x, y}] : n \in 0 .. MaxLen}
\* Before the average size a boundary follows x then y, after it y.
MCGear == x :> 1 @@ y :> 6

\* A blob that is over the target by itself, one that fills a pack by twos, a small one.
MCSize == c1 :> 1 @@ c2 :> 2 @@ c3 :> 5
MCChunks == {c1, c2, c3}
=============================================================================
