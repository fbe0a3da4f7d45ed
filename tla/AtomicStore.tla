----------------------------- MODULE AtomicStore -----------------------------
(***************************************************************************)
(* What store.Store promises (store.go:20): objects appear and disappear   *)
(* whole, and a reader gets the bytes of the object that was at the key    *)
(* when it opened it, whatever is put or deleted meanwhile.                *)
(***************************************************************************)
EXTENDS Naturals, Sequences

CONSTANTS Keys, Objects, Readers, Windows, Faults

VARIABLES
    objects,    \* key |-> the object at it
    get         \* per reader: whether it has an object open, and what it reads or has read

\* The part of an object from offset w[1] on and of at most w[2] blocks.
Window(object, w) ==
    SubSeq(object, w[1] + 1, IF w[1] + w[2] < Len(object) THEN w[1] + w[2] ELSE Len(object))

Init ==
    /\ objects = <<>>
    /\ get = [r \in Readers |-> [open |-> FALSE, data |-> <<>>]]

Put(k, object) ==
    /\ objects' = [j \in DOMAIN objects \cup {k} |-> IF j = k THEN object ELSE objects[j]]
    /\ UNCHANGED get

Delete(k) ==
    /\ objects' = [j \in DOMAIN objects \ {k} |-> objects[j]]
    /\ UNCHANGED get

Get(r, k, w) ==
    /\ ~get[r].open
    /\ k \in DOMAIN objects
    /\ get' = [get EXCEPT ![r] = [open |-> TRUE, data |-> Window(objects[k], w)]]
    /\ UNCHANGED objects

Return(r) ==
    /\ get[r].open
    /\ get' = [get EXCEPT ![r].open = FALSE]
    /\ UNCHANGED objects

Abandon(r) ==
    /\ get[r].open
    /\ get' = [get EXCEPT ![r] = [open |-> FALSE, data |-> <<>>]]
    /\ UNCHANGED objects

\* Where the machine may lose power: which objects are there then is left open, for directories
\* may come back as they were, but never is a part of one; and every reader is gone.
PowerLoss ==
    /\ "power" \in Faults
    /\ \E ks \in SUBSET Keys : objects' \in [ks -> Objects]
    /\ get' = [r \in Readers |-> [open |-> FALSE, data |-> <<>>]]

Next ==
    \/ PowerLoss
    \/ \E k \in Keys : Delete(k) \/ \E object \in Objects : Put(k, object)
    \/ \E r \in Readers : Return(r) \/ Abandon(r) \/ \E k \in Keys, w \in Windows : Get(r, k, w)

Spec == Init /\ [][Next]_<<objects, get>>
=============================================================================
