------------------------------- MODULE Forget -------------------------------
(***************************************************************************)
(* zeaback forget: catalog.DeleteSnapshot run by the processes in          *)
(* Forgetters.  The record goes first, so that the snapshot can no longer  *)
(* be discovered, then its trees.                                          *)
(***************************************************************************)
EXTENDS ObjectStore

CONSTANT Forgetters \* the processes that run zeaback forget, each any number of times

VARIABLE forget     \* the next call and the snapshot resolved from the argument

ForgetIdle == [pc |-> "idle", id |-> NoSnap]

ForgetPCs == {"idle", "record", "nodes", "nodeChunks"}

InitForget == forget = [f \in Forgetters |-> ForgetIdle]

ForgetAt(f, pc) == forget[f].pc = pc

\* A mistake: the trees are deleted before the record is.
ResolveForgetTreesFirst(f, s) ==
    /\ ForgetAt(f, "idle")
    /\ s \in records
    /\ forget' = [forget EXCEPT ![f] = [pc |-> "nodes", id |-> s]]
    /\ UNCHANGED store

\* LoadSnapshots and Resolve find the snapshot named.
ResolveForget(f, s) ==
    /\ ForgetAt(f, "idle")
    /\ s \in records
    /\ forget' = [forget EXCEPT ![f] = [pc |-> "record", id |-> s]]
    /\ UNCHANGED store

DeleteRecord(f) ==
    /\ ForgetAt(f, "record")
    /\ records' = records \ {forget[f].id}
    /\ forget' = [forget EXCEPT ![f].pc = "nodes"]
    /\ UNCHANGED <<packs, nodes, nodeChunks, chunkMan, packMan, usedPacks, usedSnaps>>

DeleteNodes(f) ==
    /\ ForgetAt(f, "nodes")
    /\ nodes' = Delete(nodes, forget[f].id)
    /\ forget' = [forget EXCEPT ![f].pc = "nodeChunks"]
    /\ UNCHANGED <<packs, nodeChunks, chunkMan, packMan, records, usedPacks, usedSnaps>>

DeleteNodeChunks(f) ==
    /\ ForgetAt(f, "nodeChunks")
    /\ nodeChunks' = Delete(nodeChunks, forget[f].id)
    /\ forget' = [forget EXCEPT ![f] = ForgetIdle]
    /\ UNCHANGED <<packs, nodes, chunkMan, packMan, records, usedPacks, usedSnaps>>

\* An error or the death of the process between two deletions.
FailForget(f) ==
    /\ ~ForgetAt(f, "idle")
    /\ forget' = [forget EXCEPT ![f] = ForgetIdle]
    /\ UNCHANGED store

ForgetStep(f) == DeleteRecord(f) \/ DeleteNodes(f) \/ DeleteNodeChunks(f) \/ FailForget(f)

ForgetTypeOK ==
    forget \in [Forgetters -> [pc : ForgetPCs, id : usedSnaps \cup {NoSnap}]]
=============================================================================
