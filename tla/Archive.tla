------------------------------- MODULE Archive -------------------------------
(***************************************************************************)
(* What a repository promises: an archive of file trees.  A backup adds    *)
(* one tree under a new identifier, a forget takes one out, and no step    *)
(* of anything else, compaction and crashes included, changes what any     *)
(* tree restores to.                                                       *)
(***************************************************************************)
CONSTANTS SnapIds, Paths, Contents

VARIABLE archive    \* snapshot |-> tree, a map from paths to contents

Trees == UNION {[D -> Contents] : D \in SUBSET Paths}

Init == archive = [s \in {} |-> {}]

Commit(s, tree) ==
    /\ s \notin DOMAIN archive
    /\ archive' = [t \in DOMAIN archive \cup {s} |-> IF t = s THEN tree ELSE archive[t]]

Remove(s) ==
    /\ s \in DOMAIN archive
    /\ archive' = [t \in DOMAIN archive \ {s} |-> archive[t]]

Next == \E s \in SnapIds : Remove(s) \/ \E tree \in Trees : Commit(s, tree)

Spec == Init /\ [][Next]_archive
=============================================================================
