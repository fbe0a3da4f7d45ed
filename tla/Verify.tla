------------------------------- MODULE Verify -------------------------------
(***************************************************************************)
(* zeaback verify: verify.Run by the processes in Verifiers.  The list of  *)
(* snapshots is read before the index.                                     *)
(***************************************************************************)
EXTENDS ObjectStore

CONSTANT Verifiers  \* the processes that run zeaback verify, each any number of times

VARIABLE verify     \* what each run holds in memory

\* pc        the next call;
\* deep      Options.ReadBlobs;
\* snaps     the snapshots listed, unread those whose nodes are not loaded yet;
\* idx       the chunk index as read;
\* id        the snapshot being checked, files the paths of its nodes;
\* todo      the chunks of it not yet checked;
\* checked   the chunks whose blobs have been read.
VerifyIdle ==
    [pc |-> "idle", deep |-> FALSE, snaps |-> {}, unread |-> {}, idx |-> <<>>, id |-> NoSnap,
     files |-> {}, todo |-> {}, checked |-> {}]

VerifyPCs == {"idle", "list", "index", "nodes", "nodeChunks", "check"}

VerifyFields == {"pc", "deep", "snaps", "unread", "idx", "id", "files", "todo", "checked"}

VerifyAt(v, pc) == verify[v].pc = pc

InitVerify == verify = [v \in Verifiers |-> VerifyIdle]

-----------------------------------------------------------------------------
\* LoadSnapshots.
VerifySnapshots(v, deep) ==
    /\ VerifyAt(v, "idle")
    /\ verify' = [verify EXCEPT ![v].pc = "list", ![v].deep = deep,
                                ![v].snaps = records, ![v].unread = records]

\* A mistake: the manifests named after snapshots are taken for the whole index.
VerifyListIndexPartly(v) ==
    /\ VerifyAt(v, "list")
    /\ verify' = [verify EXCEPT ![v].pc = "nodes", ![v].idx = MergeManifests(ListedManifests)]

\* LoadChunkIndex.
VerifyListIndex(v) ==
    /\ VerifyAt(v, "list")
    /\ verify' = [verify EXCEPT ![v].pc = IF IndexListed THEN "index" ELSE "nodes",
                                ![v].idx = MergeManifests(ListedManifests)]

VerifyReadIndex(v) ==
    /\ VerifyAt(v, "index")
    /\ IndexListed
    /\ verify' = [verify EXCEPT ![v].pc = "nodes", ![v].idx = WithIndexFile(@)]

\* The two reads of LoadNodes, for the snapshots from the oldest to the latest.
VerifyNodes(v) ==
    LET s == Min(verify[v].unread) IN
    /\ VerifyAt(v, "nodes")
    /\ verify[v].unread # {}
    /\ s \in DOMAIN nodes
    /\ verify' = [verify EXCEPT ![v].pc = "nodeChunks", ![v].unread = @ \ {s},
                                ![v].id = s, ![v].files = DOMAIN nodes[s]]

VerifyNodeChunks(v) ==
    LET lists == LoadedNodeChunks(verify[v].id) IN
    /\ VerifyAt(v, "nodeChunks")
    /\ verify' = [verify EXCEPT ![v].pc = "check",
                                ![v].todo = UNION {ToSet(ChunkList(lists, p)) : p \in verify[v].files}]

\* What Run finds wrong with chunk x: it is not in the index, or its blob is to be
\* read, has not been, and cannot be.
IsMissing(v, x) == x \notin DOMAIN verify[v].idx
IsUnreadable(v, x) ==
    /\ ~IsMissing(v, x) /\ verify[v].deep
    /\ x \notin verify[v].checked /\ ~BlobReadable(verify[v].idx[x], x)

\* A mistake: a blob is taken as checked when its chunk is in the index.
CheckChunkIndexOnly(v, x) ==
    /\ VerifyAt(v, "check")
    /\ x \in verify[v].todo
    /\ ~IsMissing(v, x)
    /\ verify' = [verify EXCEPT ![v].todo = @ \ {x},
                                ![v].checked = IF verify[v].deep THEN @ \cup {x} ELSE @]

CheckChunk(v, x) ==
    /\ VerifyAt(v, "check")
    /\ x \in verify[v].todo
    /\ ~IsMissing(v, x) /\ ~IsUnreadable(v, x)
    /\ verify' = [verify EXCEPT ![v].todo = @ \ {x},
                                ![v].checked = IF verify[v].deep THEN @ \cup {x} ELSE @]

\* A mistake: snapshots recorded since the index was read are taken in.
SnapshotCheckedRelisting(v) ==
    /\ VerifyAt(v, "check")
    /\ verify[v].todo = {}
    /\ verify' = [verify EXCEPT ![v].pc = "nodes",
                                ![v].unread = @ \cup (records \ verify[v].snaps)]

SnapshotChecked(v) ==
    /\ VerifyAt(v, "check")
    /\ verify[v].todo = {}
    /\ verify' = [verify EXCEPT ![v].pc = "nodes"]

\* Run returns the first problem found: a chunk, or a snapshot without its nodes.
ReportProblem(v) ==
    /\ \/ VerifyAt(v, "check") /\ \E x \in verify[v].todo : IsMissing(v, x) \/ IsUnreadable(v, x)
       \/ /\ VerifyAt(v, "nodes")
          /\ verify[v].unread # {} /\ Min(verify[v].unread) \notin DOMAIN nodes
    /\ verify' = [verify EXCEPT ![v] = VerifyIdle]

\* Run returns without an error.
ReportSound(v) ==
    /\ VerifyAt(v, "nodes")
    /\ verify[v].unread = {}
    /\ verify' = [verify EXCEPT ![v] = VerifyIdle]

\* A call to the store fails, or the process dies.
FailVerify(v) ==
    /\ ~VerifyAt(v, "idle")
    /\ verify' = [verify EXCEPT ![v] = VerifyIdle]

\* Every step of a run but the first.
VerifyStep(v) ==
    \/ VerifyListIndex(v) \/ VerifyReadIndex(v) \/ VerifyNodes(v) \/ VerifyNodeChunks(v)
    \/ \E x \in Chunks : CheckChunk(v, x)
    \/ SnapshotChecked(v) \/ ReportProblem(v) \/ ReportSound(v) \/ FailVerify(v)

VerifyTypeOK ==
    /\ DOMAIN verify = Verifiers
    /\ \A v \in Verifiers : LET r == verify[v] IN
        /\ DOMAIN r = VerifyFields
        /\ r.pc \in VerifyPCs /\ r.deep \in BOOLEAN
        /\ r.unread \subseteq r.snaps /\ r.snaps \subseteq usedSnaps
        /\ IsPartial(r.idx, Chunks, usedPacks)
        /\ r.id \in usedSnaps \cup {NoSnap} /\ r.files \subseteq Paths
        /\ r.todo \subseteq Chunks /\ r.checked \subseteq Chunks
=============================================================================
