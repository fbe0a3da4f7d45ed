------------------------------- MODULE Source -------------------------------
(***************************************************************************)
(* A source file under backups while its users write it.  A backup takes   *)
(* the size and mtime of the file before it reads it, block by block, and  *)
(* carries over what the parent has if both are the parent's               *)
(* (snapshot.go:98).  The mtime of a file is the clock when it was last    *)
(* written, and many writes may come within one tick.                      *)
(***************************************************************************)
EXTENDS Naturals, Sequences

CONSTANTS
    Blocks,     \* the blocks of files
    Contents,   \* what a file may hold: sequences of blocks
    MaxClock,   \* a bound: the ticks of the clock
    NoNode      \* no node

ASSUME SourceAssumption == Contents \subseteq Seq(Blocks) /\ MaxClock \in Nat

VARIABLES
    clock,
    file,       \* [content, mtime]
    backup,     \* the backup under way
    node        \* the node of the file in the latest snapshot

vars == <<clock, file, backup, node>>

\* pc        the next call;
\* size, mtime, at   what Lstat returned, and when (at is of the proof, no code reads it);
\* held      the blocks of the open file if it has been replaced, else nothing;
\* got       the blocks read so far;
\* quiet, past   of the properties: whether nobody wrote since the Lstat, and what the
\*           file held since that begins with what has been read.
BackupIdle == [pc |-> "idle", size |-> 0, mtime |-> 0, at |-> 0, held |-> {}, got |-> <<>>,
               quiet |-> TRUE, past |-> {}]

BackupAt(pc) == backup.pc = pc

Init ==
    /\ clock = 1
    /\ file \in [content : Contents, mtime : {1}]
    /\ backup = BackupIdle
    /\ node = NoNode

-----------------------------------------------------------------------------
(* The users. *)

Tick ==
    /\ clock < MaxClock
    /\ clock' = clock + 1
    /\ UNCHANGED <<file, backup, node>>

Begins(content, got) == Len(got) <= Len(content) /\ SubSeq(content, 1, Len(got)) = got

Noted(content) ==
    IF BackupAt("idle") THEN backup
    ELSE [backup EXCEPT !.quiet = FALSE,
                        !.past = IF Begins(content, backup.got) THEN @ \cup {content} ELSE @]

\* One write system call: a block is changed, appended, or the last one cut off.
Write(content) ==
    /\ content \in Contents
    /\ \/ \E i \in 1 .. Len(file.content) : \E b \in Blocks : content = [file.content EXCEPT ![i] = b]
       \/ \E b \in Blocks : content = Append(file.content, b)
       \/ file.content # <<>> /\ content = SubSeq(file.content, 1, Len(file.content) - 1)
    /\ file' = [content |-> content, mtime |-> clock]
    /\ backup' = Noted(content)
    /\ UNCHANGED <<clock, node>>

\* A file just written is renamed over this one: who has it open keeps the blocks it had.
Replace(content) ==
    /\ file' = [content |-> content, mtime |-> clock]
    /\ backup' = [Noted(content) EXCEPT !.held =
                    IF BackupAt("read") /\ @ = {} THEN {file.content} ELSE @]
    /\ UNCHANGED <<clock, node>>

-----------------------------------------------------------------------------
(* The backup. *)

\* Lstat, by the walk.
Lstat ==
    /\ BackupAt("idle")
    /\ backup' = [BackupIdle EXCEPT !.pc = "decide", !.size = Len(file.content),
                     !.mtime = file.mtime, !.at = clock, !.past = {file.content}]
    /\ UNCHANGED <<clock, file, node>>

\* A mistake: the size alone is compared.
IsUnchangedInSize == node # NoNode /\ node.size = backup.size

\* The file is as the parent has it, by its size and mtime.
IsUnchanged == node # NoNode /\ node.size = backup.size /\ node.mtime = backup.mtime

\* The fast path: the parent's node is the new snapshot's.
Carry ==
    /\ BackupAt("decide")
    /\ IsUnchanged
    /\ backup' = BackupIdle
    /\ UNCHANGED <<clock, file, node>>

Open ==
    /\ BackupAt("decide")
    /\ ~IsUnchanged
    /\ backup' = [backup EXCEPT !.pc = "read"]
    /\ UNCHANGED <<clock, file, node>>

\* The blocks of the open file.
Opened == IF backup.held = {} THEN file.content ELSE CHOOSE content \in backup.held : TRUE

ReadBlock ==
    LET next == Len(backup.got) + 1
        got == Append(backup.got, Opened[next])
    IN
    /\ BackupAt("read")
    /\ next <= Len(Opened)
    /\ backup' = [backup EXCEPT !.got = got, !.past = {content \in @ : Begins(content, got)}]
    /\ UNCHANGED <<clock, file, node>>

\* A mistake: the size and mtime are taken when the file is read.
RecordStatted ==
    /\ BackupAt("read")
    /\ Len(backup.got) >= Len(Opened)
    /\ node' = [size |-> Len(file.content), mtime |-> file.mtime, at |-> clock, content |-> backup.got]
    /\ backup' = BackupIdle
    /\ UNCHANGED <<clock, file>>

\* The end of the file: the node is recorded, with what Lstat returned.
Record ==
    /\ BackupAt("read")
    /\ Len(backup.got) >= Len(Opened)
    /\ node' = [size |-> backup.size, mtime |-> backup.mtime, at |-> backup.at, content |-> backup.got]
    /\ backup' = BackupIdle
    /\ UNCHANGED <<clock, file>>

\* The backup fails or is killed, and there is no new snapshot.
Fail ==
    /\ ~BackupAt("idle")
    /\ backup' = BackupIdle
    /\ UNCHANGED <<clock, file, node>>

Next ==
    \/ Tick
    \/ \E content \in Contents : Write(content) \/ Replace(content)
    \/ Lstat \/ Carry \/ Open \/ ReadBlock \/ Record \/ Fail

Spec == Init /\ [][Next]_vars

-----------------------------------------------------------------------------
(* Of a backup under way: while no write has come since its Lstat, it has  *)
(* read a part of the file as it is; and a write since the Lstat shows in  *)
(* the mtime, unless the file had been written in the tick of the Lstat.   *)
BackupInv ==
    BackupAt("idle") \/
        /\ backup.at <= clock /\ backup.mtime <= backup.at
        /\ file.mtime < backup.at => backup.quiet
        /\ backup.quiet =>
             /\ backup.mtime = file.mtime /\ backup.size = Len(file.content) /\ backup.held = {}
             /\ Len(backup.got) <= Len(file.content)
             /\ \A i \in 1 .. Len(backup.got) : backup.got[i] = file.content[i]

NodeInv ==
    node # NoNode =>
        /\ node.at <= clock /\ node.mtime <= node.at
        /\ file.mtime < node.at => node.content = file.content

SourceInv ==
    /\ clock \in Nat /\ file \in [content : Seq(Blocks), mtime : 0 .. clock]
    /\ backup \in [pc : {"idle", "decide", "read"}, size : Nat, mtime : Nat, at : Nat,
                   held : SUBSET Seq(Blocks), got : Seq(Blocks), quiet : BOOLEAN,
                   past : SUBSET Seq(Blocks)]
    /\ node # NoNode => /\ node.content \in Seq(Blocks)
                        /\ {node.size, node.mtime, node.at} \subseteq Nat
    /\ BackupInv /\ NodeInv

\* What the next backup would carry over unread is what the file holds (snapshot.go:100), also
\* when it was written while it was backed up: the backup after rereads it.  But for files
\* written in the very tick of the Lstat, whose next write may leave the mtime as it is.
CarriedIsRight ==
    node # NoNode /\ node.mtime < node.at /\ node.mtime = file.mtime /\ node.size = Len(file.content)
        => node.content = file.content

\* A backup of a file that nobody writes meanwhile records what it holds, whether it reads
\* the file or carries over a node that was itself of a settled file.
QuietExact ==
    [][/\ Record /\ backup.quiet => node'.content = file.content
       /\ Carry /\ backup.quiet /\ node.mtime < node.at => node'.content = file.content]_vars

\* What README.md:6 says, that snapshots are of a point in time, and which does not hold of a
\* file that is written while it is read: what is recorded is what it held at some time since
\* the Lstat.
PointInTime == [][Record => backup.got \in backup.past]_vars
=============================================================================
