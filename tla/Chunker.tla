------------------------------ MODULE Chunker ------------------------------
(***************************************************************************)
(* The chunker (chunker.go): Next is called until it returns no chunk,     *)
(* over a reader that returns as much as it likes at a time and may fail.  *)
(* Words have Width bits; the masks of the code are the low SBits and      *)
(* LBits of them.                                                          *)
(***************************************************************************)
EXTENDS Naturals, Sequences

CONSTANTS
    Inputs,     \* the files: sequences of bytes
    gear,       \* byte |-> its word in the table
    Width, SBits, LBits,
    MinSize, AvgSize, MaxSize

\* The powers of two that the masks and the width of a word are about.
power[n \in 0 .. Width] == IF n = 0 THEN 1 ELSE 2 * power[n - 1]

ASSUME ChunkerAssumption ==
    /\ Inputs \subseteq Seq(DOMAIN gear)
    /\ \A s \in Inputs : \A i \in 1 .. Len(s) : gear[s[i]] \in 0 .. power[Width] - 1
    /\ Width \in Nat /\ SBits \in 0 .. Width /\ LBits \in 0 .. Width
    /\ MinSize \in Nat \ {0} /\ AvgSize \in Nat \ {0} /\ MaxSize \in Nat \ {0}

VARIABLES
    input,      \* the file being read
    read,       \* how much of it the reader has returned
    buf, err,   \* the fields of Chunker; err is "none", "EOF" or another error
    chunks,     \* what Next has returned
    result      \* "none" while chunks come, then the error that Next returned

chunkerVars == <<input, read, buf, err, chunks, result>>

Lesser(a, b) == IF a < b THEN a ELSE b
Least(S) == CHOOSE i \in S : \A j \in S : i <= j

-----------------------------------------------------------------------------
(* cutpoint. *)

\* fp after the byte at offset i, from MinSize on.
Fingerprint(data) ==
    LET fp[i \in 0 .. Len(data) - 1] ==
          IF i < MinSize THEN 0
          ELSE ((IF i = MinSize THEN 0 ELSE 2 * fp[i - 1]) + gear[data[i + 1]]) % power[Width]
    IN  fp

\* A mistake: with no boundary, the cut is at the end of the buffer.
CutpointUnbounded(data) ==
    LET normal == Lesser(AvgSize, Len(data))
        fp == Fingerprint(data)
        Hit(i) == fp[i] % power[IF i < normal THEN SBits ELSE LBits] = 0
        hits == {i \in MinSize .. Lesser(Len(data), MaxSize) - 1 : Hit(i)}
    IN  IF Len(data) <= MinSize THEN Len(data) ELSE IF hits = {} THEN Len(data) ELSE Least(hits)

\* Where the next chunk ends: within MaxSize, at the first offset whose fingerprint has the
\* mask's bits clear, of which there are more before the average size than after it.
Cutpoint(data) ==
    LET n == Lesser(Len(data), MaxSize)
        normal == Lesser(AvgSize, n)
        fp == Fingerprint(data)
        Hit(i) == fp[i] % power[IF i < normal THEN SBits ELSE LBits] = 0
        hits == {i \in MinSize .. n - 1 : Hit(i)}
    IN  IF Len(data) <= MinSize THEN Len(data) ELSE IF hits = {} THEN n ELSE Least(hits)

-----------------------------------------------------------------------------
ChunkerInit ==
    /\ input \in Inputs
    /\ read = 0 /\ buf = <<>> /\ err = "none" /\ chunks = <<>> /\ result = "none"

\* A mistake: one read is taken to fill the buffer.
FillingOnce == buf = <<>> /\ err = "none"

\* A mistake: the buffer is filled after the end too.
FillingForever == Len(buf) < MaxSize

Filling == Len(buf) < MaxSize /\ err = "none"

\* A mistake: an error with no bytes is taken for the end.
ReadErrorAsEnd(n, e) ==
    /\ result = "none" /\ Filling
    /\ e = "EOF" => read + n = Len(input)
    /\ read' = read + n
    /\ buf' = buf \o SubSeq(input, read + 1, read + n)
    /\ err' = IF e # "none" /\ n = 0 THEN "EOF" ELSE e
    /\ UNCHANGED <<input, chunks, result>>

\* The reader returns n bytes, and e: "EOF" only at the end of the file.
Read(n, e) ==
    /\ result = "none" /\ Filling
    /\ e = "EOF" => read + n = Len(input)
    /\ read' = read + n
    /\ buf' = buf \o SubSeq(input, read + 1, read + n)
    /\ err' = e
    /\ UNCHANGED <<input, chunks, result>>

\* Next returns the chunk up to the cut.
Cut ==
    LET cut == Cutpoint(buf) IN
    /\ result = "none" /\ ~Filling
    /\ buf # <<>>
    /\ chunks' = Append(chunks, SubSeq(buf, 1, cut))
    /\ buf' = SubSeq(buf, cut + 1, Len(buf))
    /\ UNCHANGED <<input, read, err, result>>

\* A mistake: an error is returned at once, and what is in the buffer is lost.
EndDropping ==
    /\ result = "none" /\ ~Filling
    /\ err # "none"
    /\ result' = err
    /\ UNCHANGED <<input, read, buf, err, chunks>>

\* Next returns io.EOF or the error of the reader.
End ==
    /\ result = "none" /\ ~Filling
    /\ buf = <<>>
    /\ result' = err
    /\ UNCHANGED <<input, read, buf, err, chunks>>

Sizes == 0 .. Lesser(MaxSize, Len(input) - read)

ChunkerNext ==
    \/ \E n \in Sizes, e \in {"none", "EOF", "fault"} : Read(n, e)
    \/ Cut \/ End

\* The caller calls on, and the reader returns.  Reads of nothing without an error change
\* nothing: they do not go on for ever, as the contract of io.Reader discourages them.
ChunkerFairness == WF_chunkerVars(ChunkerNext)

ChunkerSpec == ChunkerInit /\ [][ChunkerNext]_chunkerVars /\ ChunkerFairness

-----------------------------------------------------------------------------
(* The reference: the boundaries of a file looked at as a whole.  A        *)
(* boundary depends on the few bytes before it, and on its distance from   *)
(* the boundary before.                                                    *)

\* The last bits of the weighted sum of the table over bytes from .. i, of which only the
\* last so many matter.
WindowSum(s, from, i, bits) ==
    LET sum[j \in 0 .. bits] ==
          IF j = 0 THEN 0
          ELSE sum[j - 1] + IF i - j + 1 > from THEN gear[s[i - j + 1]] * power[j - 1] ELSE 0
    IN  sum[bits]

IsBoundary(s, start, end) ==
    LET size == end - start IN
    \/ end = Len(s) /\ size <= MaxSize
    \/ size = MaxSize
    \/ /\ size \in MinSize .. MaxSize - 1 /\ end < Len(s)
       /\ LET bits == IF size < AvgSize THEN SBits ELSE LBits
          IN  WindowSum(s, start + MinSize, end + 1, bits) % power[bits] = 0

NextBoundary(s, start) ==
    IF start = Len(s) THEN start ELSE Least({end \in start + 1 .. Len(s) : IsBoundary(s, start, end)})

\* The boundaries from the beginning on, until all are that at the end.
Boundaries(s) ==
    LET boundary[n \in 0 .. Len(s)] == IF n = 0 THEN 0 ELSE NextBoundary(s, boundary[n - 1])
    IN  boundary

\* The chunks of s lie between them.
ChunksOf(s) ==
    LET boundary == Boundaries(s)
        count == Least({n \in 0 .. Len(s) : boundary[n] = Len(s)})
    IN  [n \in 1 .. count |-> SubSeq(s, boundary[n - 1] + 1, boundary[n])]

-----------------------------------------------------------------------------
ChunkerTypeOK ==
    /\ read \in 0 .. Len(input) /\ Len(buf) < 2 * MaxSize
    /\ err \in {"none", "EOF", "fault"} /\ result \in {"none", "EOF", "fault"}
    /\ result # "none" => result = err /\ buf = <<>>

\* What there is to chunk: the file, or what was read of it before the reader failed.
Text == IF err = "fault" THEN SubSeq(input, 1, read) ELSE input

\* The chunks of a file, and so what two backups of it share, do not depend on how the reader
\* returned it: they are those of the reference, and in the end all of them.
SameChunks ==
    LET all == ChunksOf(Text) IN
    IF result = "none" THEN Len(chunks) <= Len(all) /\ chunks = SubSeq(all, 1, Len(chunks))
    ELSE chunks = all

\* A file is not taken to be read to its end when it was not (chunker.go:81).
EndIsEnd == result = "EOF" => read = Len(input)

\* The loop of the caller comes to its end (snapshot.go:117).
Ends == <>(result # "none")
=============================================================================
