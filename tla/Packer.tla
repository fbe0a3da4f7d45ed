------------------------------- MODULE Packer -------------------------------
(***************************************************************************)
(* The packer (packer.go): blobs are appended to a pack in memory, which   *)
(* is put in the store when it is full, and where each blob went is        *)
(* returned at once.  A byte of a blob is the chunk it is of and its place *)
(* in the blob; sizes are those of compressed chunks.                      *)
(***************************************************************************)
EXTENDS Naturals, Sequences, SequencesExt

CONSTANTS
    Chunks,
    Size,       \* chunk |-> the size of its blob
    Header,     \* packHeader
    Target,     \* the size at which a pack is flushed
    PackIds,    \* a bound: the identifiers to draw from, none twice
    NoPack,     \* the empty identifier
    MostBlobs,  \* a bound: the blobs added
    MostRefused \* a bound: how often the store refuses one pack

ASSUME PackerAssumption ==
    /\ Size \in [Chunks -> Nat \ {0}]
    /\ Header \in Nat \ {0} /\ Target \in Nat /\ MostBlobs \in Nat /\ MostRefused \in Nat
    /\ NoPack \notin PackIds

VARIABLES
    packID, packBuf, locs, completed,   \* the fields of Packer (packBuf is buf)
    stored,     \* the packs in the store: identifier |-> its bytes
    given,      \* the locations that Add has returned, in order
    drained,    \* what Drain has returned: [pack, size, count, locs]
    drawn,      \* the identifiers drawn
    refused     \* per pack, how often putting it has failed

packerVars == <<packID, packBuf, locs, completed, stored, given, drained, drawn, refused>>

HeaderBytes == [i \in 1 .. Header |-> <<"header", i>>]
Blob(c) == [i \in 1 .. Size[c] |-> <<c, i>>]

PackerInit ==
    /\ packID = NoPack /\ packBuf = <<>> /\ locs = <<>> /\ completed = <<>>
    /\ stored = <<>> /\ given = <<>> /\ drained = <<>>
    /\ drawn = {} /\ refused = [k \in PackIds |-> 0]

\* A mistake: the locations of the pack before are kept.
CurrentStale(k) ==
    IF packID # NoPack THEN [id |-> packID, buf |-> packBuf, locs |-> locs]
                       ELSE [id |-> k, buf |-> HeaderBytes, locs |-> locs]

\* What Add finds: the pack under way, or the one that startPack begins as k.
Current(k) ==
    IF packID # NoPack THEN [id |-> packID, buf |-> packBuf, locs |-> locs]
                       ELSE [id |-> k, buf |-> HeaderBytes, locs |-> <<>>]
Draws(k) ==
    /\ IF packID # NoPack THEN k = packID ELSE k \in PackIds \ drawn
    /\ drawn' = drawn \cup {k}

\* A mistake: the offset is that of the end of the blob.
LocationAfter(p, c) == [chunk |-> c, pack |-> p.id, offset |-> Len(p.buf) + Size[c], size |-> Size[c]]

Location(p, c) == [chunk |-> c, pack |-> p.id, offset |-> Len(p.buf), size |-> Size[c]]

\* A mistake: the pack goes on under its identifier.
FlushedOpen(p) ==
    /\ stored' = [k \in DOMAIN stored \cup {p.id} |-> IF k = p.id THEN p.buf ELSE stored[k]]
    /\ completed' = Append(completed, [pack |-> p.id, size |-> Len(p.buf),
                                       count |-> Len(p.locs), locs |-> p.locs])
    /\ packID' = p.id /\ packBuf' = p.buf /\ locs' = p.locs
    /\ UNCHANGED refused

\* The store takes pack p, and it is set down as completed.
Flushed(p) ==
    /\ stored' = [k \in DOMAIN stored \cup {p.id} |-> IF k = p.id THEN p.buf ELSE stored[k]]
    /\ completed' = Append(completed, [pack |-> p.id, size |-> Len(p.buf),
                                       count |-> Len(p.locs), locs |-> p.locs])
    /\ packID' = NoPack /\ packBuf' = p.buf /\ locs' = p.locs
    /\ UNCHANGED refused

\* The store refuses it; it stays as it is.
Refused(p) ==
    /\ refused[p.id] < MostRefused
    /\ refused' = [refused EXCEPT ![p.id] = @ + 1]
    /\ packID' = p.id /\ packBuf' = p.buf /\ locs' = p.locs
    /\ UNCHANGED <<completed, stored>>

\* Pack p goes on.
Kept(p) ==
    /\ packID' = p.id /\ packBuf' = p.buf /\ locs' = p.locs
    /\ UNCHANGED <<completed, stored, refused>>

-----------------------------------------------------------------------------
With(p, c) == [p EXCEPT !.buf = @ \o Blob(c), !.locs = Append(@, Location(p, c))]

\* A mistake: the header is not counted, and a pack that has reached the target goes on.
IsFullLate(p) == Len(p.buf) - Header > Target

IsFull(p) == Len(p.buf) >= Target

\* The blobs added so far.
Added == FoldSeq(LAMBDA entry, n : n + entry.count, 0, completed \o drained)
           + IF packID = NoPack THEN 0 ELSE Len(locs)

\* Add returns a location.
Add(c, k) ==
    LET p == With(Current(k), c) IN
    /\ Added < MostBlobs
    /\ Draws(k)
    /\ IF IsFull(p) THEN Flushed(p) ELSE Kept(p)
    /\ given' = Append(given, Location(Current(k), c))
    /\ UNCHANGED drained

\* Add returns the error of the flush; the blob is in the buffer all the same.
AddRefused(c, k) ==
    LET p == With(Current(k), c) IN
    /\ Added < MostBlobs
    /\ Draws(k)
    /\ IsFull(p) /\ Refused(p)
    /\ UNCHANGED <<given, drained>>

\* Compressing fails, when the pack is begun already.
AddUncompressed(k) ==
    /\ packID = NoPack
    /\ Draws(k)
    /\ Kept(Current(k))
    /\ UNCHANGED <<given, drained>>

\* A mistake: a pack without blobs is put too.
IsEmptyNever == packID = NoPack

IsEmpty == packID = NoPack \/ Len(packBuf) <= Header

\* Flush, with nothing to put.
FlushNothing ==
    /\ IsEmpty
    /\ packID' = NoPack
    /\ UNCHANGED <<packBuf, locs, completed, stored, given, drained, drawn, refused>>

Flush ==
    /\ ~IsEmpty
    /\ Flushed(Current(NoPack))
    /\ UNCHANGED <<given, drained, drawn>>

FlushRefused ==
    /\ ~IsEmpty
    /\ Refused(Current(NoPack))
    /\ UNCHANGED <<given, drained, drawn>>

Drain ==
    /\ drained' = drained \o completed
    /\ completed' = <<>>
    /\ UNCHANGED <<packID, packBuf, locs, stored, given, drawn, refused>>

PackerNext ==
    \/ \E k \in PackIds : AddUncompressed(k) \/ \E c \in Chunks : Add(c, k) \/ AddRefused(c, k)
    \/ FlushNothing \/ Flush \/ FlushRefused \/ Drain

PackerSpec == PackerInit /\ [][PackerNext]_packerVars

-----------------------------------------------------------------------------
PackerTypeOK ==
    /\ packID \in PackIds \cup {NoPack}
    /\ DOMAIN stored \subseteq drawn /\ drawn \subseteq PackIds
    /\ packID # NoPack => packID \in drawn \ DOMAIN stored

\* ReadBlob of a location, from the bytes of its pack.
ReadBack(bytes, loc) ==
    LET end == loc.offset + loc.size IN
    SubSeq(bytes, loc.offset + 1, IF end < Len(bytes) THEN end ELSE Len(bytes))

\* A location that Add has returned is final (packer.go:52): the blob is there, in the pack
\* in the store or in the one still in memory, whatever has been refused and put since.
ReadsBack ==
    \A loc \in ToSet(given) :
        IF loc.pack = packID THEN ReadBack(packBuf, loc) = Blob(loc.chunk)
        ELSE loc.pack \in DOMAIN stored /\ ReadBack(stored[loc.pack], loc) = Blob(loc.chunk)

\* The end of the i-th of the blobs at locations ls, or of the header.
EndOf(ls, i) == IF i = 0 THEN Header ELSE ls[i].offset + ls[i].size

\* The bytes of a pack are its header and the blobs at locations ls, end to end.
LaidOut(bytes, ls) ==
    /\ Len(bytes) = EndOf(ls, Len(ls)) /\ SubSeq(bytes, 1, Header) = HeaderBytes
    /\ \A i \in 1 .. Len(ls) :
        /\ ls[i].offset = EndOf(ls, i - 1) /\ ls[i].size = Size[ls[i].chunk]
        /\ ReadBack(bytes, ls[i]) = Blob(ls[i].chunk)

\* What is drained tells each pack once, with its size, and with the locations of all its
\* blobs, end to end: the rows of the chunk and pack indexes account for every byte.
Accounted ==
    LET rows == drained \o completed IN
    /\ \A i, j \in DOMAIN rows : rows[i].pack = rows[j].pack => i = j
    /\ {rows[i].pack : i \in DOMAIN rows} = DOMAIN stored
    /\ \A i \in DOMAIN rows : LET row == rows[i] IN
          /\ row.size = Len(stored[row.pack]) /\ row.count = Len(row.locs)
          /\ LaidOut(stored[row.pack], row.locs)
          /\ \A loc \in ToSet(given) : loc.pack = row.pack => loc \in ToSet(row.locs)

\* A pack is never put without a blob, nor much over the target: but for its last blob,
\* and those added since the store first refused it, it is under it.
Bounded ==
    LET rows == drained \o completed IN
    \A i \in DOMAIN rows : LET row == rows[i] IN
        /\ row.size > Header
        /\ \A n \in 1 .. Len(row.locs) - refused[row.pack] - 1 : EndOf(row.locs, n) < Target
=============================================================================
