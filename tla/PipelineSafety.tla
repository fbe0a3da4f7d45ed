--------------------------- MODULE PipelineSafety ---------------------------
(***************************************************************************)
(* The stages of a backup that no other command touches, for files,        *)
(* sizes and histories of any kind: a source file under backups (what its  *)
(* size and mtime let a backup carry over is what it holds), the chunker   *)
(* (the chunks of a file are those of its content), and the packer (a      *)
(* chunk is where its location says, in a pack that stays in its bounds).  *)
(***************************************************************************)
EXTENDS Pipeline, WellFoundedInduction, TLAPS

-----------------------------------------------------------------------------
(* Sequences, and least members.                                           *)

\* Two sequences of one length and the same members are the same.
LEMMA SameBlocks ==
    ASSUME NEW S, NEW s \in Seq(S), NEW t \in Seq(S), Len(s) = Len(t),
           \A j \in 1 .. Len(s) : s[j] = t[j]
    PROVE  s = t
OBVIOUS

\* Two sequences one after the other.
LEMMA Concatenated ==
    ASSUME NEW S, NEW s \in Seq(S), NEW t \in Seq(S)
    PROVE  /\ s \o t \in Seq(S) /\ Len(s \o t) = Len(s) + Len(t)
           /\ \A i \in 1 .. Len(s) : (s \o t)[i] = s[i]
           /\ \A i \in 1 .. Len(t) : (s \o t)[Len(s) + i] = t[i]
OBVIOUS

\* Every set of naturals has a least member.
LEMMA LeastIn ==
    ASSUME NEW S \in SUBSET Nat, S # {}
    PROVE  Least(S) \in S /\ \A i \in S : Least(S) <= i
<1> DEFINE Less == OpToRel(<, Nat)
<1>1. \A i, j \in Nat : i < j => <<i, j>> \in Less
  BY DEF OpToRel
<1>2. IsWellFoundedOn(Less, Nat)
  BY NatLessThanWellFounded
<1> HIDE DEF Less
<1>3. PICK i \in S : \A j \in S : ~(<<j, i>> \in Less)
  BY <1>2, WFMin
<1>4. \A j \in S : i <= j
  <2> SUFFICES ASSUME NEW j \in S PROVE i <= j
    OBVIOUS
  <2>1. ~(j < i)
    BY <1>1, <1>3
  <2> QED BY <2>1
<1> QED BY <1>4 DEF Least

-----------------------------------------------------------------------------
(* The source file.                                                        *)

\* What a backup has in hand.
Backups == [pc : {"idle", "decide", "read"}, size : Nat, mtime : Nat, at : Nat,
            held : SUBSET Seq(Blocks), got : Seq(Blocks), quiet : BOOLEAN, past : SUBSET Seq(Blocks)]

LEMMA IdleType == BackupIdle \in Backups /\ BackupIdle.pc = "idle"
BY DEF BackupIdle, Backups

\* It begins so.
LEMMA InitSource == Init => SourceInv
<1> SUFFICES ASSUME Init PROVE SourceInv
  OBVIOUS
<1>1. /\ clock = 1 /\ backup = BackupIdle /\ node = NoNode
      /\ file \in [content : Seq(Blocks), mtime : 0 .. clock]
  BY SourceAssumption DEF Init
<1> QED BY <1>1, IdleType DEF SourceInv, BackupInv, NodeInv, BackupAt, Backups

\* A tick makes nothing newer.
LEMMA TickSafe == SourceInv /\ Tick => SourceInv'
<1> SUFFICES ASSUME SourceInv, Tick PROVE SourceInv'
  OBVIOUS
<1>1. clock' = clock + 1 /\ clock \in Nat /\ UNCHANGED <<file, backup, node>>
  BY DEF Tick, SourceInv
<1>2. file' \in [content : Seq(Blocks), mtime : 0 .. clock']
  BY <1>1 DEF SourceInv
<1>3. backup \in Backups /\ (node # NoNode => {node.size, node.mtime, node.at} \subseteq Nat)
  BY DEF SourceInv, Backups
<1>4. BackupInv'
  BY <1>1, <1>3 DEF SourceInv, BackupInv, BackupAt, Backups
<1>5. NodeInv'
  BY <1>1, <1>3 DEF SourceInv, NodeInv
<1> QED BY <1>1, <1>2, <1>4, <1>5 DEF SourceInv

\* What a backup has in hand after a write.
LEMMA NotedType ==
    ASSUME SourceInv, NEW content \in Seq(Blocks)
    PROVE  /\ Noted(content) \in Backups
           /\ Noted(content).pc = backup.pc /\ Noted(content).at = backup.at
           /\ Noted(content).mtime = backup.mtime
           /\ backup.pc # "idle" => Noted(content).quiet = FALSE
<1>1. backup \in Backups
  BY DEF SourceInv, Backups
<1>2. CASE BackupAt("idle")
  BY <1>1, <1>2 DEF Noted, BackupAt
<1>3. CASE ~BackupAt("idle")
  <2> DEFINE past == IF Begins(content, backup.got) THEN backup.past \cup {content} ELSE backup.past
  <2>1. past \in SUBSET Seq(Blocks)
    BY <1>1 DEF Backups
  <2>2. Noted(content) = [backup EXCEPT !.quiet = FALSE, !.past = past]
    BY <1>3 DEF Noted
  <2> HIDE DEF past
  <2> QED BY <1>1, <1>3, <2>1, <2>2 DEF Backups, BackupAt
<1> QED BY <1>2, <1>3

\* A write shows: the file is now as new as the clock.
LEMMA WriteSafe ==
    ASSUME SourceInv, NEW content \in Contents, Write(content) \/ Replace(content)
    PROVE  SourceInv'
<1>1. /\ file' = [content |-> content, mtime |-> clock] /\ UNCHANGED <<clock, node>>
      /\ content \in Seq(Blocks) /\ clock \in Nat
  BY SourceAssumption DEF Write, Replace, SourceInv
<1>2. /\ backup' \in Backups /\ backup'.pc = backup.pc /\ backup'.at = backup.at
      /\ backup'.mtime = backup.mtime
      /\ backup.pc # "idle" => backup'.quiet = FALSE
  <2>1. CASE Write(content)
    <3>1. backup' = Noted(content)
      BY <2>1 DEF Write
    <3> QED BY <1>1, <3>1, NotedType
  <2>2. CASE Replace(content)
    <3> DEFINE b == Noted(content)
               held == IF BackupAt("read") /\ b.held = {} THEN {file.content} ELSE b.held
    <3>1. backup' = [b EXCEPT !.held = held]
      BY <2>2 DEF Replace
    <3>2. /\ b \in Backups /\ b.pc = backup.pc /\ b.at = backup.at /\ b.mtime = backup.mtime
          /\ backup.pc # "idle" => b.quiet = FALSE
      BY <1>1, NotedType
    <3>3. held \in SUBSET Seq(Blocks)
      BY <3>2 DEF SourceInv, Backups
    <3> HIDE DEF b, held
    <3> QED BY <3>1, <3>2, <3>3 DEF Backups
  <2> QED BY <2>1, <2>2
<1>3. file' \in [content : Seq(Blocks), mtime : 0 .. clock'] /\ file'.mtime = clock
  BY <1>1
<1>4. BackupInv'
  <2>1. backup.pc # "idle" => backup.at <= clock /\ backup.mtime <= backup.at /\ backup.at \in Nat
    BY DEF SourceInv, BackupInv, BackupAt
  <2> QED BY <1>1, <1>2, <1>3, <2>1 DEF BackupInv, BackupAt
<1>5. NodeInv'
  BY <1>1, <1>3 DEF SourceInv, NodeInv
<1> QED BY <1>1, <1>2, <1>3, <1>4, <1>5 DEF SourceInv, Backups

\* The Lstat sees the file as it is.
LEMMA LstatSafe == SourceInv /\ Lstat => SourceInv'
<1> SUFFICES ASSUME SourceInv, Lstat PROVE SourceInv'
  OBVIOUS
<1>1. UNCHANGED <<clock, file, node>>
  BY DEF Lstat
<1>2. /\ clock \in Nat /\ file.content \in Seq(Blocks) /\ file.mtime \in 0 .. clock
      /\ Len(file.content) \in Nat
  BY DEF SourceInv
<1>3. backup' = [pc |-> "decide", size |-> Len(file.content), mtime |-> file.mtime, at |-> clock,
                 held |-> {}, got |-> <<>>, quiet |-> TRUE, past |-> {file.content}]
  BY DEF Lstat, BackupIdle
<1>4. /\ backup' \in Backups /\ backup'.at = clock /\ backup'.mtime = file.mtime
      /\ backup'.size = Len(file.content) /\ backup'.held = {} /\ backup'.got = <<>>
      /\ backup'.quiet
  BY <1>2, <1>3 DEF Backups
<1>5. BackupInv'
  BY <1>1, <1>2, <1>4 DEF BackupInv
<1>6. NodeInv'
  BY <1>1 DEF SourceInv, NodeInv
<1> QED BY <1>1, <1>4, <1>5, <1>6 DEF SourceInv, Backups

\* The backup goes on to the file.
LEMMA OpenSafe == SourceInv /\ Open => SourceInv'
<1> SUFFICES ASSUME SourceInv, Open PROVE SourceInv'
  OBVIOUS
<1>1. /\ UNCHANGED <<clock, file, node>> /\ backup.pc = "decide"
      /\ backup' = [backup EXCEPT !.pc = "read"] /\ backup \in Backups
  BY DEF Open, BackupAt, SourceInv, Backups
<1>2. /\ backup' \in Backups /\ backup'.at = backup.at /\ backup'.mtime = backup.mtime
      /\ backup'.size = backup.size /\ backup'.held = backup.held /\ backup'.got = backup.got
      /\ backup'.quiet = backup.quiet
  BY <1>1 DEF Backups
<1>3. BackupInv'
  BY <1>1, <1>2 DEF SourceInv, BackupInv, BackupAt
<1>4. NodeInv'
  BY <1>1 DEF SourceInv, NodeInv
<1> QED BY <1>1, <1>2, <1>3, <1>4 DEF SourceInv, Backups

\* The next block of a file nobody wrote is the file's.
LEMMA ReadSafe == SourceInv /\ ReadBlock => SourceInv'
<1> SUFFICES ASSUME SourceInv, ReadBlock PROVE SourceInv'
  OBVIOUS
<1> DEFINE next == Len(backup.got) + 1
           got == Append(backup.got, Opened[next])
           past == {content \in backup.past : Begins(content, got)}
<1>1. /\ UNCHANGED <<clock, file, node>> /\ backup.pc = "read" /\ next <= Len(Opened)
      /\ backup' = [backup EXCEPT !.got = got, !.past = past]
      /\ backup \in Backups /\ file.content \in Seq(Blocks)
  BY DEF ReadBlock, BackupAt, SourceInv, Backups
<1>2. Opened \in Seq(Blocks)
  <2>1. backup.held \in SUBSET Seq(Blocks)
    BY <1>1 DEF Backups
  <2> QED BY <1>1, <2>1 DEF Opened
<1>3. /\ backup.got \in Seq(Blocks) /\ next \in 1 .. Len(Opened) /\ next = Len(backup.got) + 1
  BY <1>1, <1>2 DEF Backups
<1>4. /\ got \in Seq(Blocks) /\ Len(got) = next /\ got[next] = Opened[next]
      /\ \A i \in 1 .. Len(backup.got) : got[i] = backup.got[i]
  <2> DEFINE before == backup.got
             block == Opened[next]
  <2>1. before \in Seq(Blocks) /\ block \in Blocks
    BY <1>2, <1>3
  <2> HIDE DEF before, block
  <2>2. /\ Append(before, block) \in Seq(Blocks) /\ Len(Append(before, block)) = Len(before) + 1
        /\ Append(before, block)[Len(before) + 1] = block
        /\ \A i \in 1 .. Len(before) : Append(before, block)[i] = before[i]
    BY <2>1
  <2> QED BY <2>2 DEF before, block
<1>5. past \in SUBSET Seq(Blocks)
  BY <1>1 DEF Backups
<1> HIDE DEF got, past
<1>6. /\ backup' \in Backups /\ backup'.pc = "read" /\ backup'.at = backup.at
      /\ backup'.mtime = backup.mtime /\ backup'.size = backup.size /\ backup'.held = backup.held
      /\ backup'.got = got /\ backup'.quiet = backup.quiet
  BY <1>1, <1>4, <1>5 DEF Backups
<1>7. backup.quiet => /\ next <= Len(file.content)
                      /\ \A i \in 1 .. next : got[i] = file.content[i]
  <2> SUFFICES ASSUME backup.quiet
               PROVE  /\ next <= Len(file.content)
                      /\ \A i \in 1 .. next : got[i] = file.content[i]
    OBVIOUS
  <2>1. /\ backup.held = {} /\ Opened = file.content
        /\ \A i \in 1 .. Len(backup.got) : backup.got[i] = file.content[i]
    BY <1>1 DEF SourceInv, BackupInv, BackupAt, Opened
  <2>2. \A i \in 1 .. next : i \in 1 .. Len(backup.got) \/ i = next
    BY <1>3
  <2> QED BY <1>3, <1>4, <2>1, <2>2
<1>8. BackupInv'
  BY <1>1, <1>4, <1>6, <1>7 DEF SourceInv, BackupInv, BackupAt
<1>9. NodeInv'
  BY <1>1 DEF SourceInv, NodeInv
<1> QED BY <1>1, <1>6, <1>8, <1>9 DEF SourceInv, Backups

\* A file read to its end in peace is read as it is.
LEMMA QuietRead ==
    ASSUME SourceInv, Record, backup.quiet
    PROVE  backup.got = file.content
<1>1. backup.pc = "read" /\ Len(backup.got) >= Len(Opened)
  BY DEF Record, BackupAt
<1>2. /\ backup.held = {} /\ Len(backup.got) <= Len(file.content)
      /\ \A i \in 1 .. Len(backup.got) : backup.got[i] = file.content[i]
  BY <1>1 DEF SourceInv, BackupInv, BackupAt
<1>3. backup.got \in Seq(Blocks) /\ file.content \in Seq(Blocks) /\ Opened = file.content
  BY <1>2 DEF SourceInv, Opened
<1>4. Len(backup.got) = Len(file.content)
  BY <1>1, <1>2, <1>3
<1> QED BY <1>2, <1>3, <1>4, SameBlocks

\* What is recorded is the file, if it has not been written since the tick before the Lstat.
LEMMA RecordSafe == SourceInv /\ Record => SourceInv'
<1> SUFFICES ASSUME SourceInv, Record PROVE SourceInv'
  OBVIOUS
<1>1. /\ UNCHANGED <<clock, file>> /\ backup' = BackupIdle /\ backup.pc = "read"
      /\ node' = [size |-> backup.size, mtime |-> backup.mtime, at |-> backup.at,
                  content |-> backup.got]
      /\ backup \in Backups
  BY DEF Record, BackupAt, SourceInv, Backups
<1>2. /\ node'.size = backup.size /\ node'.mtime = backup.mtime /\ node'.at = backup.at
      /\ node'.content = backup.got
  BY <1>1
<1>3. /\ backup.at <= clock /\ backup.mtime <= backup.at
      /\ file.mtime < backup.at => backup.quiet
  BY <1>1 DEF SourceInv, BackupInv, BackupAt
<1>4. NodeInv'
  BY <1>1, <1>2, <1>3, QuietRead DEF NodeInv
<1>5. BackupInv'
  BY <1>1, IdleType DEF BackupInv, BackupAt
<1>6. /\ node'.content \in Seq(Blocks) /\ {node'.size, node'.mtime, node'.at} \subseteq Nat
  BY <1>1, <1>2 DEF Backups
<1> QED BY <1>1, <1>4, <1>5, <1>6, IdleType DEF SourceInv, Backups

\* A backup that ends without recording the file leaves it all.
LEMMA EndSafe == SourceInv /\ (Carry \/ Fail) => SourceInv'
<1> SUFFICES ASSUME SourceInv, Carry \/ Fail PROVE SourceInv'
  OBVIOUS
<1>1. UNCHANGED <<clock, file, node>> /\ backup' = BackupIdle
  BY DEF Carry, Fail
<1>2. BackupInv'
  BY <1>1, IdleType DEF BackupInv, BackupAt
<1>3. NodeInv'
  BY <1>1 DEF SourceInv, NodeInv
<1> QED BY <1>1, <1>2, <1>3, IdleType DEF SourceInv, Backups

LEMMA SourceStutters == SourceInv /\ UNCHANGED vars => SourceInv'
BY DEF vars, SourceInv, BackupInv, NodeInv, BackupAt

\* However writes, ticks and the steps of a backup are mixed, what the mtime of a file tells
\* of it holds: for files of any contents, and any clock.
THEOREM SourceInvariance == Spec => []SourceInv
<1>1. Init => SourceInv
  BY InitSource
<1>2. SourceInv /\ [Next]_vars => SourceInv'
  BY TickSafe, WriteSafe, LstatSafe, OpenSafe, ReadSafe, RecordSafe, EndSafe, SourceStutters DEF Next
<1> QED BY <1>1, <1>2, PTL DEF Spec

\* What a backup would carry over unread is what the file holds (snapshot.go:100), also when
\* the backup before raced with the writers of the file.
THEOREM CarriedAlways == Spec => []CarriedIsRight
<1>1. SourceInv => CarriedIsRight
  <2> SUFFICES ASSUME SourceInv, node # NoNode, node.mtime < node.at, node.mtime = file.mtime
               PROVE  node.content = file.content
    BY DEF CarriedIsRight
  <2> QED BY DEF SourceInv, NodeInv
<1> QED BY <1>1, SourceInvariance, PTL

\* A backup of a file that nobody writes meanwhile records what it holds (snapshot.go:98).
THEOREM QuietIsExact == Spec => QuietExact
<1>1. ASSUME SourceInv, Record, backup.quiet PROVE node'.content = file.content
  <2>1. node' = [size |-> backup.size, mtime |-> backup.mtime, at |-> backup.at,
                 content |-> backup.got]
    BY <1>1 DEF Record
  <2> QED BY <1>1, <2>1, QuietRead
<1>2. ASSUME SourceInv, Carry, backup.quiet, node.mtime < node.at PROVE node'.content = file.content
  <2>1. node # NoNode /\ node.mtime = backup.mtime /\ node' = node /\ backup.pc = "decide"
    BY <1>2 DEF Carry, IsUnchanged, BackupAt
  <2>2. backup.mtime = file.mtime
    BY <1>2, <2>1 DEF SourceInv, BackupInv, BackupAt
  <2> QED BY <1>2, <2>1, <2>2 DEF SourceInv, NodeInv
<1>3. SourceInv /\ [Next]_vars =>
        [/\ Record /\ backup.quiet => node'.content = file.content
         /\ Carry /\ backup.quiet /\ node.mtime < node.at => node'.content = file.content]_vars
  BY <1>1, <1>2
<1> QED BY <1>3, SourceInvariance, PTL DEF Spec, QuietExact

-----------------------------------------------------------------------------
(* The chunker.                                                            *)

\* The cut is in the buffer, and is not at its beginning.
LEMMA CutpointRange ==
    ASSUME NEW data \in Seq(DOMAIN gear), data # <<>>
    PROVE  Cutpoint(data) \in 1 .. Len(data)
<1> DEFINE n == Lesser(Len(data), MaxSize)
           normal == Lesser(AvgSize, n)
           fp == Fingerprint(data)
           Hit(i) == fp[i] % power[IF i < normal THEN SBits ELSE LBits] = 0
           hits == {i \in MinSize .. n - 1 : Hit(i)}
<1>1. /\ Len(data) \in Nat \ {0} /\ MaxSize \in Nat \ {0} /\ MinSize \in Nat \ {0}
  BY ChunkerAssumption
<1>2. n \in 1 .. Len(data)
  BY <1>1 DEF Lesser
<1>3. Cutpoint(data) = IF Len(data) <= MinSize THEN Len(data)
                       ELSE IF hits = {} THEN n ELSE Least(hits)
  BY DEF Cutpoint
<1> HIDE DEF n, Hit
<1>4. hits \in SUBSET Nat /\ \A i \in hits : i \in 1 .. Len(data)
  BY <1>1, <1>2
<1> HIDE DEF hits
<1>5. CASE hits = {}
  BY <1>1, <1>2, <1>3, <1>5
<1>6. CASE hits # {}
  <2>1. Least(hits) \in hits
    BY <1>4, <1>6, LeastIn
  <2>2. Least(hits) \in 1 .. Len(data)
    BY <1>4, <2>1
  <2> QED BY <1>1, <1>3, <1>6, <2>2
<1> QED BY <1>5, <1>6

ChunkerInv ==
    /\ ChunkerTypeOK
    /\ input \in Inputs /\ buf \in Seq(DOMAIN gear)
    /\ err = "EOF" => read = Len(input)

LEMMA InputType ==
    ASSUME ChunkerInv
    PROVE  input \in Seq(DOMAIN gear) /\ Len(input) \in Nat /\ read \in 0 .. Len(input)
           /\ MaxSize \in Nat \ {0} /\ Len(buf) \in Nat /\ Len(buf) < 2 * MaxSize
BY ChunkerAssumption DEF ChunkerInv, ChunkerTypeOK

LEMMA InitChunker == ChunkerInit => ChunkerInv
<1> SUFFICES ASSUME ChunkerInit PROVE ChunkerInv
  OBVIOUS
<1>1. input \in Seq(DOMAIN gear) /\ MaxSize \in Nat \ {0}
  BY ChunkerAssumption DEF ChunkerInit
<1>2. Len(input) \in Nat /\ buf = <<>> /\ Len(buf) = 0 /\ buf \in Seq(DOMAIN gear)
  BY <1>1 DEF ChunkerInit
<1> QED BY <1>1, <1>2 DEF ChunkerInit, ChunkerInv, ChunkerTypeOK

LEMMA ReadSafely ==
    ASSUME ChunkerInv, NEW n \in Sizes, NEW e \in {"none", "EOF", "fault"}, Read(n, e)
    PROVE  ChunkerInv'
<1>1. /\ input \in Seq(DOMAIN gear) /\ Len(input) \in Nat /\ read \in 0 .. Len(input)
      /\ MaxSize \in Nat \ {0} /\ Len(buf) \in Nat
  BY InputType
<1>2. n \in Nat /\ n <= MaxSize /\ read + n <= Len(input)
  BY <1>1 DEF Sizes, Lesser
<1>3. /\ result = "none" /\ Len(buf) < MaxSize /\ read' = read + n /\ err' = e
      /\ buf' = buf \o SubSeq(input, read + 1, read + n)
      /\ e = "EOF" => read + n = Len(input)
      /\ UNCHANGED <<input, chunks, result>>
  BY DEF Read, Filling
<1> DEFINE more == SubSeq(input, read + 1, read + n)
<1>4. more \in Seq(DOMAIN gear) /\ Len(more) = n
  BY <1>1, <1>2
<1> HIDE DEF more
<1>5. buf' \in Seq(DOMAIN gear) /\ Len(buf') = Len(buf) + n
  BY <1>3, <1>4 DEF ChunkerInv, more
<1> QED BY <1>1, <1>2, <1>3, <1>5 DEF ChunkerInv, ChunkerTypeOK

LEMMA CutSafely ==
    ASSUME ChunkerInv, Cut
    PROVE  ChunkerInv'
<1> DEFINE cut == Cutpoint(buf)
<1>1. /\ buf # <<>> /\ result = "none" /\ buf' = SubSeq(buf, cut + 1, Len(buf))
      /\ UNCHANGED <<input, read, err, result>>
  BY DEF Cut
<1>2. buf \in Seq(DOMAIN gear) /\ MaxSize \in Nat \ {0} /\ Len(buf) \in Nat /\ Len(buf) < 2 * MaxSize
  BY InputType DEF ChunkerInv
<1>3. cut \in 1 .. Len(buf)
  BY <1>1, <1>2, CutpointRange
<1> HIDE DEF cut
<1>4. buf' \in Seq(DOMAIN gear) /\ Len(buf') = Len(buf) - cut
  BY <1>1, <1>2, <1>3
<1> QED BY <1>1, <1>2, <1>3, <1>4 DEF ChunkerInv, ChunkerTypeOK

LEMMA ChunkerStep == ChunkerInv /\ [ChunkerNext]_chunkerVars => ChunkerInv'
<1>1. ChunkerInv /\ End => ChunkerInv'
  BY DEF End, ChunkerInv, ChunkerTypeOK
<1>2. ChunkerInv /\ UNCHANGED chunkerVars => ChunkerInv'
  BY DEF chunkerVars, ChunkerInv, ChunkerTypeOK
<1> QED BY <1>1, <1>2, ReadSafely, CutSafely DEF ChunkerNext

LEMMA ChunkerInvariance == ChunkerSpec => []ChunkerInv
BY InitChunker, ChunkerStep, PTL DEF ChunkerSpec

\* The buffer stays within twice the largest chunk, for files, masks and sizes of any kind.
THEOREM ChunkerTypeCorrect == ChunkerSpec => []ChunkerTypeOK
<1>1. ChunkerInv => ChunkerTypeOK
  BY DEF ChunkerInv
<1> QED BY <1>1, ChunkerInvariance, PTL

\* A file is not taken to be read to its end when it was not (chunker.go:81), whatever the reader
\* returns with its last bytes.
THEOREM EndIsReached == ChunkerSpec => []EndIsEnd
<1>1. ChunkerInv => EndIsEnd
  BY DEF ChunkerInv, ChunkerTypeOK, EndIsEnd
<1> QED BY <1>1, ChunkerInvariance, PTL

-----------------------------------------------------------------------------
(* The fingerprints: the recursive function is there, and what it is at an *)
(* offset depends on the bytes up to it only.                              *)

Shifted(data, i, before) ==
    IF i < MinSize THEN 0
    ELSE ((IF i = MinSize THEN 0 ELSE 2 * before) + gear[data[i + 1]]) % power[Width]

\* A function that is the fingerprint at the offsets below n.
Prints(data, n, fp) ==
    /\ DOMAIN fp = 0 .. n - 1
    /\ fp = [i \in 0 .. n - 1 |-> Shifted(data, i, fp[i - 1])]

LEMMA PrintsThere ==
    ASSUME NEW data, NEW n \in Nat
    PROVE  \E fp : Prints(data, n, fp)
<1> DEFINE There(m) == \E fp : Prints(data, m, fp)
           Missing == {m \in Nat : ~There(m)}
<1>1. There(0)
  <2> DEFINE fp == [i \in 0 .. 0 - 1 |-> 0]
  <2>1. fp = [i \in 0 .. 0 - 1 |-> Shifted(data, i, fp[i - 1])]
    OBVIOUS
  <2> QED BY <2>1 DEF Prints
<1>2. ASSUME NEW m \in Nat, There(m) PROVE There(m + 1)
  <2>1. PICK fp : Prints(data, m, fp)
    BY <1>2
  <2> DEFINE gp == [i \in 0 .. m |-> Shifted(data, i, fp[i - 1])]
  <2>2. \A i \in 0 .. m - 1 : gp[i] = fp[i]
    BY <2>1 DEF Prints
  <2>3. ASSUME NEW i \in 0 .. m PROVE gp[i] = Shifted(data, i, gp[i - 1])
    <3>1. CASE i = 0
      BY <3>1, ChunkerAssumption DEF Shifted
    <3>2. CASE i # 0
      <4>1. i - 1 \in 0 .. m - 1
        BY <3>2
      <4>2. gp[i - 1] = fp[i - 1]
        BY <2>2, <4>1
      <4>3. gp[i] = Shifted(data, i, fp[i - 1])
        OBVIOUS
      <4> HIDE DEF gp
      <4> QED BY <4>2, <4>3
    <3> QED BY <3>1, <3>2
  <2>4. DOMAIN gp = 0 .. m /\ m + 1 - 1 = m
    OBVIOUS
  <2>5. gp = [i \in 0 .. m |-> gp[i]]
    OBVIOUS
  <2> HIDE DEF gp
  <2>6. gp = [i \in 0 .. m |-> Shifted(data, i, gp[i - 1])]
    BY <2>3, <2>5
  <2> QED BY <2>4, <2>6 DEF Prints
<1> HIDE DEF There
<1>3. ASSUME Missing # {} PROVE FALSE
  <2>1. Least(Missing) \in Missing /\ \A m \in Missing : Least(Missing) <= m
    BY <1>3, LeastIn
  <2>2. Least(Missing) # 0 /\ Least(Missing) \in Nat
    BY <1>1, <2>1
  <2>3. Least(Missing) - 1 \in Nat /\ Least(Missing) - 1 \notin Missing
    BY <2>1, <2>2
  <2>4. There(Least(Missing) - 1 + 1)
    BY <1>2, <2>3
  <2> QED BY <2>1, <2>2, <2>4
<1> QED BY <1>3 DEF There

LEMMA FingerprintIs ==
    ASSUME NEW data, Len(data) \in Nat
    PROVE  Prints(data, Len(data), Fingerprint(data))
<1> DEFINE Is(fp) == fp = [i \in 0 .. Len(data) - 1 |-> Shifted(data, i, fp[i - 1])]
<1>1. Fingerprint(data) = CHOOSE fp : Is(fp)
  BY DEF Fingerprint, Shifted
<1>2. \E fp : Is(fp)
  <2>1. PICK fp : Prints(data, Len(data), fp)
    BY PrintsThere
  <2>2. Is(fp)
    BY <2>1 DEF Prints
  <2> HIDE DEF Is
  <2> QED BY <2>2
<1>3. Is(Fingerprint(data))
  <2> HIDE DEF Is
  <2> QED BY <1>1, <1>2
<1>4. DOMAIN Fingerprint(data) = 0 .. Len(data) - 1
  BY <1>3
<1> QED BY <1>3, <1>4 DEF Prints

IsPrefixOf(t, s) == Len(t) <= Len(s) /\ \A j \in 1 .. Len(t) : t[j] = s[j]

LEMMA SamePrints ==
    ASSUME NEW S, NEW s \in Seq(S), NEW t \in Seq(S), IsPrefixOf(t, s)
    PROVE  \A i \in 0 .. Len(t) - 1 : Fingerprint(t)[i] = Fingerprint(s)[i]
<1> DEFINE fp == Fingerprint(t)
           gp == Fingerprint(s)
           Differ == {i \in Nat : i < Len(t) /\ fp[i] # gp[i]}
<1>1. Len(t) \in Nat /\ Len(s) \in Nat /\ Len(t) <= Len(s)
  BY DEF IsPrefixOf
<1>2. /\ fp = [i \in 0 .. Len(t) - 1 |-> Shifted(t, i, fp[i - 1])]
      /\ gp = [i \in 0 .. Len(s) - 1 |-> Shifted(s, i, gp[i - 1])]
  BY <1>1, FingerprintIs DEF Prints
<1> HIDE DEF fp, gp
<1>3. /\ \A i \in 0 .. Len(t) - 1 : fp[i] = Shifted(t, i, fp[i - 1])
      /\ \A i \in 0 .. Len(s) - 1 : gp[i] = Shifted(s, i, gp[i - 1])
  BY <1>2
<1>4. ASSUME Differ # {} PROVE FALSE
  <2> DEFINE i == Least(Differ)
  <2>1. i \in Differ /\ \A j \in Differ : i <= j
    BY <1>4, LeastIn
  <2> HIDE DEF i
  <2>2. i \in 0 .. Len(t) - 1 /\ i \in 0 .. Len(s) - 1 /\ fp[i] # gp[i]
    BY <1>1, <2>1
  <2>3. t[i + 1] = s[i + 1]
    BY <1>1, <2>2 DEF IsPrefixOf
  <2>4. CASE i = 0
    BY <1>3, <2>2, <2>4, ChunkerAssumption DEF Shifted
  <2>5. CASE i # 0
    <3>1. i - 1 \in Nat /\ i - 1 < Len(t) /\ i - 1 \notin Differ
      BY <1>1, <2>1, <2>2, <2>5
    <3>2. fp[i - 1] = gp[i - 1]
      BY <3>1
    <3>3. Shifted(t, i, fp[i - 1]) = Shifted(s, i, gp[i - 1])
      BY <2>3, <3>2 DEF Shifted
    <3> QED BY <1>3, <2>2, <3>3
  <2> QED BY <2>4, <2>5
<1> QED BY <1>1, <1>4 DEF fp, gp

\* The smallest chunk is no larger than the largest, as in DefaultChunkerOptions (chunker.go:19).
\* NewChunker does not ask for it; without it all that is in the buffer would be one chunk.
Windowed == MinSize <= MaxSize

\* A buffer that is filled, or holds all there is, has its cut where the whole text has it.
LEMMA CutpointLocal ==
    ASSUME Windowed, NEW s \in Seq(DOMAIN gear), NEW t \in Seq(DOMAIN gear), IsPrefixOf(t, s),
           MaxSize <= Len(t)
    PROVE  Cutpoint(t) = Cutpoint(s)
<1>1. /\ Len(t) \in Nat /\ Len(s) \in Nat /\ Len(t) <= Len(s) /\ MaxSize \in Nat \ {0}
      /\ MinSize \in Nat \ {0} /\ MinSize <= MaxSize /\ MaxSize <= Len(t)
  BY ChunkerAssumption DEF IsPrefixOf, Windowed
<1>2. Lesser(Len(t), MaxSize) = MaxSize /\ Lesser(Len(s), MaxSize) = MaxSize
  BY <1>1 DEF Lesser
<1> DEFINE normal == Lesser(AvgSize, MaxSize)
           Hit(fp, i) == fp[i] % power[IF i < normal THEN SBits ELSE LBits] = 0
           Hits(fp) == {i \in MinSize .. MaxSize - 1 : Hit(fp, i)}
           CutOf(data, hits) == IF Len(data) <= MinSize THEN Len(data)
                                ELSE IF hits = {} THEN MaxSize ELSE Least(hits)
<1>3. /\ Cutpoint(t) = CutOf(t, Hits(Fingerprint(t)))
      /\ Cutpoint(s) = CutOf(s, Hits(Fingerprint(s)))
  BY <1>2 DEF Cutpoint
<1>4. \A i \in MinSize .. MaxSize - 1 : Fingerprint(t)[i] = Fingerprint(s)[i]
  <2>1. \A i \in MinSize .. MaxSize - 1 : i \in 0 .. Len(t) - 1
    BY <1>1
  <2> QED BY <2>1, SamePrints
<1>5. Hits(Fingerprint(t)) = Hits(Fingerprint(s))
  <2> HIDE DEF normal
  <2> QED BY <1>4
<1> HIDE DEF Hits
<1>6. CASE Len(t) > MinSize
  BY <1>1, <1>3, <1>5, <1>6
<1>7. CASE Len(t) <= MinSize
  <2>1. MinSize = MaxSize /\ Len(t) = MaxSize
    BY <1>1, <1>7
  <2>2. Hits(Fingerprint(s)) = {}
    BY <1>1, <2>1 DEF Hits
  <2>3. Cutpoint(t) = MaxSize
    BY <1>3, <1>7, <2>1
  <2>4. Cutpoint(s) = MaxSize
    <3>1. CASE Len(s) <= MinSize
      BY <1>1, <1>3, <2>1, <3>1
    <3>2. CASE ~(Len(s) <= MinSize)
      BY <1>3, <2>2, <3>2
    <3> QED BY <3>1, <3>2
  <2> QED BY <2>3, <2>4
<1> QED BY <1>1, <1>6, <1>7

\* So is the chunk.
LEMMA ChunkLocal ==
    ASSUME Windowed, NEW s \in Seq(DOMAIN gear), NEW t \in Seq(DOMAIN gear), IsPrefixOf(t, s),
           MaxSize <= Len(t) \/ Len(t) = Len(s), t # <<>>
    PROVE  /\ Cutpoint(t) = Cutpoint(s) /\ Cutpoint(t) \in 1 .. Len(t)
           /\ SubSeq(t, 1, Cutpoint(t)) = SubSeq(s, 1, Cutpoint(s))
<1>1. Len(t) \in Nat /\ Len(s) \in Nat /\ Len(t) <= Len(s) /\ \A j \in 1 .. Len(t) : t[j] = s[j]
  BY DEF IsPrefixOf
<1>2. Cutpoint(t) = Cutpoint(s)
  <2>1. CASE Len(t) = Len(s)
    <3>1. t = s
      BY <1>1, <2>1
    <3> QED BY <3>1
  <2> QED BY <2>1, CutpointLocal
<1>3. Cutpoint(t) \in 1 .. Len(t)
  BY CutpointRange
<1> DEFINE cut == Cutpoint(t)
           u == SubSeq(t, 1, cut)
           v == SubSeq(s, 1, cut)
<1>4. cut \in 1 .. Len(t)
  BY <1>3
<1> HIDE DEF cut
<1>5. u \in Seq(DOMAIN gear) /\ Len(u) = cut /\ \A j \in 1 .. cut : u[j] = t[j]
  BY <1>1, <1>4
<1>6. v \in Seq(DOMAIN gear) /\ Len(v) = cut /\ \A j \in 1 .. cut : v[j] = s[j]
  BY <1>1, <1>4
<1>7. \A j \in 1 .. cut : u[j] = v[j]
  BY <1>1, <1>4, <1>5, <1>6
<1> HIDE DEF u, v
<1>8. u = v
  BY <1>5, <1>6, <1>7
<1> QED BY <1>2, <1>3, <1>8 DEF u, v, cut

-----------------------------------------------------------------------------
(* The chunks are those of the text.                                       *)

Rest(text, at) == SubSeq(text, at + 1, Len(text))

\* Chunk i begins at starts[i], and ends where the text from there on has its cut.
CutFrom(starts) ==
    /\ starts[1] = 0 /\ starts[Len(chunks) + 1] = read - Len(buf)
    /\ \A i \in 1 .. Len(chunks) : LET rest == Rest(Text, starts[i]) IN
        /\ chunks[i] = SubSeq(rest, 1, Cutpoint(rest))
        /\ starts[i + 1] = starts[i] + Cutpoint(rest)

\* How the reader returned the text shows nowhere in the chunks, and no byte is lost between them.
Determined == \E starts \in [1 .. Len(chunks) + 1 -> Nat] : CutFrom(starts)

\* A chunk is only cut from a full window while there may be more to read.
CutInv ==
    /\ chunks \in Seq(Seq(DOMAIN gear))
    /\ Len(buf) <= read /\ buf = SubSeq(input, read - Len(buf) + 1, read)
    /\ \E starts \in [1 .. Len(chunks) + 1 -> Nat] :
        /\ CutFrom(starts)
        /\ \A i \in 1 .. Len(chunks) : /\ starts[i] < read
                                       /\ err = "none" => starts[i] + MaxSize <= read

LEMMA RestIs ==
    ASSUME NEW S, NEW text \in Seq(S), NEW at \in 0 .. Len(text)
    PROVE  /\ Rest(text, at) \in Seq(S) /\ Len(Rest(text, at)) = Len(text) - at
           /\ \A j \in 1 .. Len(text) - at : Rest(text, at)[j] = text[at + j]
<1> DEFINE rest == SubSeq(text, at + 1, Len(text))
<1>1. rest \in Seq(S) /\ Len(rest) = Len(text) - at
  OBVIOUS
<1>2. \A j \in 1 .. Len(text) - at : rest[j] = text[at + j]
  OBVIOUS
<1> QED BY <1>1, <1>2 DEF Rest

LEMMA TextIs ==
    ChunkerInv => /\ Text \in Seq(DOMAIN gear) /\ Len(Text) \in read .. Len(input)
                  /\ err # "none" => Len(Text) = read
                  /\ err # "fault" => Text = input
                  /\ IsPrefixOf(Text, input)
<1> SUFFICES ASSUME ChunkerInv
             PROVE  /\ Text \in Seq(DOMAIN gear) /\ Len(Text) \in read .. Len(input)
                    /\ err # "none" => Len(Text) = read
                    /\ err # "fault" => Text = input
                    /\ IsPrefixOf(Text, input)
  OBVIOUS
<1>1. input \in Seq(DOMAIN gear) /\ Len(input) \in Nat /\ read \in 0 .. Len(input)
  BY InputType
<1>2. /\ SubSeq(input, 1, read) \in Seq(DOMAIN gear) /\ Len(SubSeq(input, 1, read)) = read
      /\ \A j \in 1 .. read : SubSeq(input, 1, read)[j] = input[j]
  BY <1>1
<1>3. err \in {"none", "EOF", "fault"} /\ (err = "EOF" => read = Len(input))
  BY DEF ChunkerInv, ChunkerTypeOK
<1>4. CASE err = "fault"
  <2>1. Text = SubSeq(input, 1, read)
    BY <1>4 DEF Text
  <2> QED BY <1>1, <1>2, <1>4, <2>1 DEF IsPrefixOf
<1>5. CASE err # "fault"
  <2>1. Text = input
    BY <1>5 DEF Text
  <2> QED BY <1>1, <1>3, <1>5, <2>1 DEF IsPrefixOf
<1> QED BY <1>4, <1>5

LEMMA TextIsLater ==
    ChunkerInv' => /\ Text' \in Seq(DOMAIN gear) /\ Len(Text') \in read' .. Len(input')
                   /\ IsPrefixOf(Text', input')
<1>1. (ChunkerInv => /\ Text \in Seq(DOMAIN gear) /\ Len(Text) \in read .. Len(input)
                     /\ IsPrefixOf(Text, input))'
  BY TextIs, PTL
<1> QED BY <1>1

LEMMA CutInit == ChunkerInit => CutInv
<1> SUFFICES ASSUME ChunkerInit PROVE CutInv
  OBVIOUS
<1>1. /\ chunks = <<>> /\ buf = <<>> /\ read = 0 /\ Len(chunks) = 0 /\ Len(buf) = 0
      /\ input \in Seq(DOMAIN gear)
  BY ChunkerAssumption DEF ChunkerInit
<1>2. buf = SubSeq(input, read - Len(buf) + 1, read) /\ chunks \in Seq(Seq(DOMAIN gear))
  <2>1. SubSeq(input, 1, 0) = <<>> /\ 0 - 0 + 1 = 1
    BY <1>1
  <2> QED BY <1>1, <2>1
<1> DEFINE starts == [i \in 1 .. 1 |-> 0]
<1>3. starts \in [1 .. Len(chunks) + 1 -> Nat] /\ starts[1] = 0
  BY <1>1
<1> HIDE DEF starts
<1>4. starts[1] = 0 /\ starts[Len(chunks) + 1] = read - Len(buf)
  BY <1>1, <1>3
<1>5. CutFrom(starts)
  BY <1>1, <1>4 DEF CutFrom
<1> QED BY <1>1, <1>2, <1>3, <1>5 DEF CutInv

LEMMA CutRead ==
    ASSUME Windowed, ChunkerInv, CutInv, NEW n \in Sizes, NEW e \in {"none", "EOF", "fault"},
           Read(n, e)
    PROVE  CutInv'
<1>1. /\ input \in Seq(DOMAIN gear) /\ Len(input) \in Nat /\ read \in 0 .. Len(input)
      /\ MaxSize \in Nat \ {0} /\ Len(buf) \in Nat /\ buf \in Seq(DOMAIN gear)
  BY InputType DEF ChunkerInv
<1>2. n \in Nat /\ read + n <= Len(input)
  BY <1>1 DEF Sizes, Lesser
<1>3. err = "none" /\ read' = read + n /\ err' = e /\ UNCHANGED <<input, chunks, result>>
  BY DEF Read, Filling
<1>21. buf' = buf \o SubSeq(input, read + 1, read + n)
  BY DEF Read
<1>4. ChunkerInv'
  BY ReadSafely
<1>5. Len(buf') = Len(buf) + n /\ buf' \in Seq(DOMAIN gear)
  <2> DEFINE more == SubSeq(input, read + 1, read + n)
  <2>1. more \in Seq(DOMAIN gear) /\ Len(more) = n
    BY <1>1, <1>2
  <2> HIDE DEF more
  <2>2. Len(buf \o more) = Len(buf) + n /\ buf \o more \in Seq(DOMAIN gear)
    BY <1>1, <2>1, Concatenated
  <2> QED BY <1>21, <2>2 DEF more
<1>6. Len(buf) <= read /\ buf = SubSeq(input, read - Len(buf) + 1, read)
  BY DEF CutInv
<1>11. read' - Len(buf') = read - Len(buf) /\ Len(buf') <= read'
  BY <1>1, <1>2, <1>3, <1>5, <1>6
<1>7. buf' = SubSeq(input, read' - Len(buf') + 1, read')
  <2> DEFINE at == read - Len(buf)
             more == SubSeq(input, read + 1, read + n)
             u == SubSeq(input, at + 1, read + n)
  <2>1. at \in 0 .. read
    BY <1>1, <1>6
  <2>2. more \in Seq(DOMAIN gear) /\ Len(more) = n /\ \A j \in 1 .. n : more[j] = input[read + j]
    BY <1>1, <1>2
  <2>3. /\ u \in Seq(DOMAIN gear) /\ Len(u) = read + n - at
        /\ \A j \in 1 .. read + n - at : u[j] = input[at + j]
    <3> HIDE DEF at
    <3> QED BY <1>1, <1>2, <2>1
  <2>4. \A j \in 1 .. Len(buf) : buf[j] = input[at + j]
    <3>1. buf = SubSeq(input, at + 1, read) /\ Len(buf) = read - at
      BY <1>1, <1>6
    <3> HIDE DEF at
    <3> QED BY <1>1, <2>1, <3>1
  <2> HIDE DEF more, u
  <2>5. /\ \A j \in 1 .. Len(buf) : (buf \o more)[j] = buf[j]
        /\ \A j \in 1 .. n : (buf \o more)[Len(buf) + j] = more[j]
        /\ buf \o more \in Seq(DOMAIN gear) /\ Len(buf \o more) = Len(buf) + n
    <3>1. buf \in Seq(DOMAIN gear) /\ more \in Seq(DOMAIN gear)
      BY <1>1, <2>2
    <3>2. /\ \A j \in 1 .. Len(buf) : (buf \o more)[j] = buf[j]
          /\ \A j \in 1 .. Len(more) : (buf \o more)[Len(buf) + j] = more[j]
          /\ buf \o more \in Seq(DOMAIN gear) /\ Len(buf \o more) = Len(buf) + Len(more)
      BY <3>1, Concatenated
    <3>3. Len(more) = n
      BY <2>2
    <3> QED BY <3>2, <3>3
  <2>6. \A j \in 1 .. Len(buf) + n : j \in 1 .. Len(buf) \/ (j - Len(buf) \in 1 .. n /\ j = Len(buf) + (j - Len(buf)))
    BY <1>1, <1>2
  <2>7. Len(u) = Len(buf) + n
    BY <1>1, <1>2, <1>6, <2>3
  <2>8. \A j \in 1 .. Len(buf) : (buf \o more)[j] = u[j]
    <3>1. \A j \in 1 .. Len(buf) : j \in 1 .. read + n - at
      BY <1>1, <1>2, <1>6
    <3> QED BY <2>3, <2>4, <2>5, <3>1
  <2>9. \A j \in 1 .. n : (buf \o more)[Len(buf) + j] = u[Len(buf) + j]
    <3>1. \A j \in 1 .. n : Len(buf) + j \in 1 .. read + n - at /\ at + (Len(buf) + j) = read + j
      BY <1>1, <1>2, <1>6
    <3> QED BY <2>2, <2>3, <2>5, <3>1
  <2>10. \A j \in 1 .. Len(buf) + n : (buf \o more)[j] = u[j]
    BY <2>6, <2>8, <2>9
  <2>11. buf \o more = u
    BY <2>3, <2>5, <2>7, <2>10
  <2>12. read' - Len(buf') + 1 = at + 1 /\ read' = read + n
    BY <1>3, <1>11
  <2> QED BY <1>21, <2>11, <2>12 DEF more, u
<1>8. PICK starts \in [1 .. Len(chunks) + 1 -> Nat] :
        /\ CutFrom(starts)
        /\ \A i \in 1 .. Len(chunks) : starts[i] < read /\ starts[i] + MaxSize <= read
  BY <1>3 DEF CutInv
<1>9. chunks \in Seq(Seq(DOMAIN gear)) /\ Len(chunks) \in Nat
  BY DEF CutInv
<1>10. ASSUME NEW i \in 1 .. Len(chunks)
       PROVE  LET rest == Rest(Text', starts[i]) IN
              /\ chunks[i] = SubSeq(rest, 1, Cutpoint(rest))
              /\ starts[i + 1] = starts[i] + Cutpoint(rest)
  <2> DEFINE at == starts[i]
             s == Rest(Text, at)
             t == Rest(Text', at)
  <2>1. at \in Nat /\ at < read /\ at + MaxSize <= read
    <3>1. i \in 1 .. Len(chunks) + 1
      BY <1>9
    <3>2. at \in Nat
      BY <1>8, <3>1
    <3> QED BY <1>8, <3>2
  <2>2. /\ Text = input /\ Text' \in Seq(DOMAIN gear) /\ Len(Text') \in read' .. Len(input)
        /\ IsPrefixOf(Text', input)
    <3>1. Text = input
      BY <1>3, TextIs
    <3> QED BY <1>3, <1>4, <3>1, TextIsLater
  <2>3. at \in 0 .. Len(Text) /\ at \in 0 .. Len(Text')
    BY <1>1, <1>2, <1>3, <2>1, <2>2
  <2>4. /\ s \in Seq(DOMAIN gear) /\ Len(s) = Len(input) - at
        /\ \A j \in 1 .. Len(input) - at : s[j] = input[at + j]
    <3>1. Text \in Seq(DOMAIN gear) /\ at \in 0 .. Len(Text) /\ Text = input
      BY <1>1, <2>2, <2>3
    <3> HIDE DEF at
    <3>2. Rest(Text, at) \in Seq(DOMAIN gear) /\ Len(Rest(Text, at)) = Len(Text) - at
          /\ \A j \in 1 .. Len(Text) - at : Rest(Text, at)[j] = Text[at + j]
      BY <3>1, RestIs
    <3> QED BY <3>1, <3>2
  <2>5. /\ t \in Seq(DOMAIN gear) /\ Len(t) = Len(Text') - at
        /\ \A j \in 1 .. Len(Text') - at : t[j] = Text'[at + j]
    <3>1. Text' \in Seq(DOMAIN gear) /\ at \in 0 .. Len(Text')
      BY <2>2, <2>3
    <3> HIDE DEF at
    <3> QED BY <3>1, RestIs
  <2> HIDE DEF s, t, at
  <2>6. MaxSize <= Len(t) /\ Len(t) <= Len(s) /\ t # <<>>
    BY <1>1, <1>2, <1>3, <2>1, <2>2, <2>4, <2>5
  <2>7. IsPrefixOf(t, s)
    <3> SUFFICES ASSUME NEW j \in 1 .. Len(t) PROVE t[j] = s[j]
      BY <2>6 DEF IsPrefixOf
    <3>1. j \in 1 .. Len(Text') - at /\ j \in 1 .. Len(input) - at /\ at + j \in 1 .. Len(Text')
      BY <1>1, <1>3, <2>1, <2>2, <2>4, <2>5, <2>6
    <3>2. Text'[at + j] = input[at + j]
      BY <2>2, <3>1 DEF IsPrefixOf
    <3> QED BY <2>4, <2>5, <3>1, <3>2
  <2>8. Cutpoint(t) = Cutpoint(s) /\ SubSeq(t, 1, Cutpoint(t)) = SubSeq(s, 1, Cutpoint(s))
    BY <2>4, <2>5, <2>6, <2>7, ChunkLocal
  <2>9. chunks[i] = SubSeq(s, 1, Cutpoint(s)) /\ starts[i + 1] = at + Cutpoint(s)
    BY <1>8 DEF CutFrom, s, at
  <2> QED BY <2>8, <2>9 DEF t, at
<1>12. CutFrom(starts)'
  <2>1. starts[1] = 0 /\ starts[Len(chunks) + 1] = read - Len(buf)
    BY <1>8 DEF CutFrom
  <2> QED BY <1>3, <1>10, <1>11, <2>1 DEF CutFrom
<1>13. \A i \in 1 .. Len(chunks) : starts[i] < read' /\ starts[i] + MaxSize <= read'
  <2> SUFFICES ASSUME NEW i \in 1 .. Len(chunks)
               PROVE  starts[i] < read' /\ starts[i] + MaxSize <= read'
    OBVIOUS
  <2>1. i \in 1 .. Len(chunks) + 1
    BY <1>9
  <2>2. starts[i] \in Nat /\ starts[i] < read /\ starts[i] + MaxSize <= read
    BY <1>8, <2>1
  <2> QED BY <1>1, <1>2, <1>3, <2>2
<1> QED BY <1>3, <1>7, <1>8, <1>9, <1>11, <1>12, <1>13 DEF CutInv

LEMMA CutCut ==
    ASSUME Windowed, ChunkerInv, CutInv, Cut
    PROVE  CutInv'
<1> DEFINE cut == Cutpoint(buf)
           at == read - Len(buf)
           m == Len(chunks)
           chunk == SubSeq(buf, 1, cut)
<1>1. /\ input \in Seq(DOMAIN gear) /\ Len(input) \in Nat /\ read \in 0 .. Len(input)
      /\ MaxSize \in Nat \ {0} /\ Len(buf) \in Nat /\ buf \in Seq(DOMAIN gear)
  BY InputType DEF ChunkerInv
<1>2. /\ chunks' = Append(chunks, chunk) /\ buf' = SubSeq(buf, cut + 1, Len(buf)) /\ buf # <<>>
      /\ UNCHANGED <<input, read, err, result>>
  BY DEF Cut
<1>3. Len(buf) >= MaxSize \/ err # "none"
  BY <1>1 DEF Cut, Filling
<1>4. /\ Len(buf) <= read /\ buf = SubSeq(input, at + 1, read) /\ at \in Nat
      /\ chunks \in Seq(Seq(DOMAIN gear)) /\ m \in Nat
  BY <1>1 DEF CutInv
<1>5. /\ Text \in Seq(DOMAIN gear) /\ Len(Text) \in read .. Len(input)
      /\ err # "none" => Len(Text) = read
      /\ IsPrefixOf(Text, input) /\ Text' = Text
  BY <1>2, TextIs DEF Text
<1>6. PICK starts \in [1 .. m + 1 -> Nat] :
        /\ CutFrom(starts)
        /\ \A i \in 1 .. m : starts[i] < read /\ (err = "none" => starts[i] + MaxSize <= read)
  BY DEF CutInv
<1>7. cut \in 1 .. Len(buf)
  BY <1>1, <1>2, CutpointRange
<1>8. starts[1] = 0 /\ starts[m + 1] = at
  BY <1>6 DEF CutFrom
<1>9. \A j \in 1 .. Len(buf) : buf[j] = input[at + j]
  <2>1. Len(buf) = read - at /\ at \in 0 .. read
    BY <1>1, <1>4
  <2> HIDE DEF at
  <2> QED BY <1>1, <1>4, <2>1
<1>10. cut = Cutpoint(Rest(Text, at)) /\ chunk = SubSeq(Rest(Text, at), 1, Cutpoint(Rest(Text, at)))
  <2> DEFINE s == Rest(Text, at)
  <2>1. at \in 0 .. Len(Text) /\ Len(buf) = read - at
    <3>1. /\ at = read - Len(buf) /\ at \in Nat /\ read \in Nat /\ Len(buf) \in Nat
          /\ Len(Text) \in Nat /\ read <= Len(Text)
      BY <1>1, <1>4, <1>5
    <3> HIDE DEF at
    <3> QED BY <3>1
  <2>2. /\ s \in Seq(DOMAIN gear) /\ Len(s) = Len(Text) - at
        /\ \A j \in 1 .. Len(Text) - at : s[j] = Text[at + j]
    <3> HIDE DEF at
    <3> QED BY <1>5, <2>1, RestIs
  <2> HIDE DEF s
  <2>3. Len(buf) <= Len(s) /\ (MaxSize <= Len(buf) \/ Len(buf) = Len(s))
    <3>1. Len(s) = Len(Text) - read + Len(buf) /\ Len(Text) \in Nat /\ Len(Text) >= read
      BY <1>1, <1>5, <2>2
    <3>2. err # "none" => Len(Text) = read
      BY <1>5
    <3>3. read \in Nat /\ Len(buf) \in Nat
      BY <1>1
    <3>4. CASE Len(buf) >= MaxSize
      BY <1>1, <3>1, <3>3, <3>4
    <3>5. CASE err # "none"
      BY <3>1, <3>2, <3>3, <3>5
    <3> QED BY <1>3, <3>4, <3>5
  <2>4. IsPrefixOf(buf, s)
    <3> SUFFICES ASSUME NEW j \in 1 .. Len(buf) PROVE buf[j] = s[j]
      BY <2>3 DEF IsPrefixOf
    <3>1. j \in 1 .. Len(Text) - at /\ at + j \in 1 .. Len(Text)
      BY <1>1, <1>5, <2>1
    <3>2. Text[at + j] = input[at + j]
      BY <1>5, <3>1 DEF IsPrefixOf
    <3> QED BY <1>9, <2>2, <3>1, <3>2
  <2>5. Cutpoint(buf) = Cutpoint(s) /\ SubSeq(buf, 1, Cutpoint(buf)) = SubSeq(s, 1, Cutpoint(s))
    BY <1>1, <1>2, <2>2, <2>3, <2>4, ChunkLocal
  <2> QED BY <2>5 DEF s
<1> HIDE DEF cut
<1>11. buf' \in Seq(DOMAIN gear) /\ Len(buf') = Len(buf) - cut
       /\ \A j \in 1 .. Len(buf) - cut : buf'[j] = buf[cut + j]
  BY <1>1, <1>2, <1>7
<1>12. chunk \in Seq(DOMAIN gear)
  BY <1>1, <1>7
<1> HIDE DEF chunk
<1>13. /\ chunks' \in Seq(Seq(DOMAIN gear)) /\ Len(chunks') = m + 1 /\ chunks'[m + 1] = chunk
       /\ \A i \in 1 .. m : chunks'[i] = chunks[i]
  BY <1>2, <1>4, <1>12
<1>14. Len(buf') <= read /\ read - Len(buf') = at + cut
  BY <1>1, <1>4, <1>7, <1>11
<1>15. buf' = SubSeq(input, read' - Len(buf') + 1, read')
  <2> DEFINE u == SubSeq(input, at + cut + 1, read)
             k == at + cut
  <2>1. k \in 0 .. read /\ read - k = Len(buf) - cut
    BY <1>1, <1>4, <1>7
  <2>2. /\ u \in Seq(DOMAIN gear) /\ Len(u) = read - k /\ \A j \in 1 .. read - k : u[j] = input[k + j]
    <3> HIDE DEF k
    <3>1. SubSeq(input, k + 1, read) \in Seq(DOMAIN gear) /\ Len(SubSeq(input, k + 1, read)) = read - k
          /\ \A j \in 1 .. read - k : SubSeq(input, k + 1, read)[j] = input[k + j]
      BY <1>1, <2>1
    <3> QED BY <3>1 DEF k
  <2> HIDE DEF u
  <2>3. \A j \in 1 .. Len(buf) - cut : buf'[j] = u[j]
    <3> SUFFICES ASSUME NEW j \in 1 .. Len(buf) - cut PROVE buf'[j] = u[j]
      OBVIOUS
    <3>1. cut + j \in 1 .. Len(buf) /\ at + (cut + j) = k + j
      BY <1>1, <1>4, <1>7
    <3>2. buf'[j] = input[k + j]
      BY <1>9, <1>11, <3>1
    <3> QED BY <2>1, <2>2, <3>2
  <2>4. buf' = u
    BY <1>11, <2>1, <2>2, <2>3
  <2>5. read' - Len(buf') + 1 = at + cut + 1 /\ read' = read
    BY <1>2, <1>14
  <2> QED BY <2>4, <2>5 DEF u
<1>16. PICK later \in [1 .. m + 2 -> Nat] :
         later[m + 2] = at + cut /\ \A i \in 1 .. m + 1 : later[i] = starts[i]
  <2> DEFINE new == [i \in 1 .. m + 2 |-> IF i = m + 2 THEN at + cut ELSE starts[i]]
  <2>1. at + cut \in Nat
    BY <1>4, <1>7
  <2>2. \A i \in 1 .. m + 2 : i # m + 2 => i \in 1 .. m + 1
    BY <1>4
  <2>3. \A i \in 1 .. m + 2 : (IF i = m + 2 THEN at + cut ELSE starts[i]) \in Nat
    BY <1>6, <2>1, <2>2
  <2>4. m + 2 \in 1 .. m + 2 /\ \A i \in 1 .. m + 1 : i \in 1 .. m + 2 /\ i # m + 2
    BY <1>4
  <2> HIDE DEF at, m
  <2>5. /\ new \in [1 .. m + 2 -> Nat] /\ new[m + 2] = at + cut
        /\ \A i \in 1 .. m + 1 : new[i] = starts[i]
    BY <2>3, <2>4
  <2> QED BY <2>5
<1>17. later[1] = 0 /\ later[m + 1 + 1] = read - Len(buf')
  BY <1>4, <1>8, <1>14, <1>16
<1>18. m + 1 \in 1 .. m + 1 /\ \A i \in 1 .. m + 1 : i \in 1 .. m \/ i = m + 1
  BY <1>4
<1>19. ASSUME NEW i \in 1 .. m + 1
       PROVE  LET rest == Rest(Text, later[i]) IN
              /\ chunks'[i] = SubSeq(rest, 1, Cutpoint(rest))
              /\ later[i + 1] = later[i] + Cutpoint(rest)
  <2>1. CASE i \in 1 .. m
    <3>1. i \in 1 .. m + 1 /\ i + 1 \in 1 .. m + 1
      BY <1>4, <2>1
    <3>2. later[i] = starts[i] /\ later[i + 1] = starts[i + 1]
      <4> HIDE DEF at, m
      <4> QED BY <1>16, <3>1
    <3>3. chunks'[i] = chunks[i]
      BY <1>13, <2>1
    <3>4. LET rest == Rest(Text, starts[i]) IN
          /\ chunks[i] = SubSeq(rest, 1, Cutpoint(rest))
          /\ starts[i + 1] = starts[i] + Cutpoint(rest)
      BY <1>6, <2>1 DEF CutFrom
    <3> QED BY <3>2, <3>3, <3>4
  <2>2. CASE i = m + 1
    <3>1. later[i] = at /\ later[i + 1] = at + cut /\ chunks'[i] = chunk
      <4>1. i + 1 = m + 2
        BY <1>4, <2>2
      <4> HIDE DEF at, m
      <4>2. later[i] = at
        BY <1>8, <1>16, <1>18, <2>2
      <4>3. later[i + 1] = at + cut
        BY <1>16, <4>1
      <4>4. chunks'[i] = chunk
        BY <1>13, <2>2
      <4> QED BY <4>2, <4>3, <4>4
    <3> QED BY <1>10, <3>1
  <2> QED BY <1>18, <2>1, <2>2
<1>20. CutFrom(later)'
  <2>1. read' = read /\ Text' = Text /\ Len(chunks') = m + 1
    BY <1>2, <1>5, <1>13
  <2>2. later[1] = 0 /\ later[Len(chunks') + 1] = read' - Len(buf')
    <3> HIDE DEF m
    <3> QED BY <1>17, <2>1
  <2> HIDE DEF m
  <2> QED BY <1>19, <2>1, <2>2 DEF CutFrom
<1>21. \A i \in 1 .. m + 1 : later[i] < read /\ (err = "none" => later[i] + MaxSize <= read)
  <2>1. at < read /\ (err = "none" => at + MaxSize <= read)
    BY <1>1, <1>3, <1>4, <1>7
  <2>2. later[m + 1] = at
    <3> HIDE DEF at, m
    <3> QED BY <1>8, <1>16, <1>18
  <2>3. \A i \in 1 .. m : later[i] = starts[i]
    BY <1>4, <1>16
  <2> HIDE DEF at
  <2> QED BY <1>6, <1>18, <2>1, <2>2, <2>3
<1> HIDE DEF at, m
<1>22. later \in [1 .. Len(chunks') + 1 -> Nat]
  <2>1. Len(chunks') + 1 = m + 2
    BY <1>4, <1>13
  <2> QED BY <1>16, <2>1
<1> QED BY <1>2, <1>13, <1>14, <1>15, <1>20, <1>21, <1>22 DEF CutInv

LEMMA CutStep ==
    ASSUME Windowed, ChunkerInv, CutInv, [ChunkerNext]_chunkerVars
    PROVE  CutInv'
<1>1. CASE End
  BY <1>1 DEF End, CutInv, CutFrom, Text
<1>2. CASE UNCHANGED chunkerVars
  BY <1>2 DEF chunkerVars, CutInv, CutFrom, Text
<1> QED BY <1>1, <1>2, CutRead, CutCut DEF ChunkerNext

\* The chunks of a file do not depend on how the reader returned it (snapshot.go:117), and no byte
\* of it is lost between them: each begins where the one before ends, and ends where the text from
\* there on has its cut.  When the reader fails they are so of what was read.
THEOREM ChunksDetermined ==
    ASSUME Windowed
    PROVE  ChunkerSpec => []Determined
<1>1. CutInv => Determined
  BY DEF CutInv, Determined
<1>2. ChunkerInv /\ CutInv /\ [ChunkerNext]_chunkerVars => CutInv'
  BY CutStep
<1> QED BY <1>1, <1>2, CutInit, ChunkerInvariance, PTL DEF ChunkerSpec

-----------------------------------------------------------------------------
(* The chunks are those of the reference.                                  *)

\* Induction over the naturals, for a set of them.
LEMMA AllNaturals ==
    ASSUME NEW S, 0 \in S, \A n \in Nat : n \in S => n + 1 \in S
    PROVE  \A n \in Nat : n \in S
<1> DEFINE Missing == Nat \ S
<1>1. ASSUME Missing # {} PROVE FALSE
  <2>1. Least(Missing) \in Missing /\ \A m \in Missing : Least(Missing) <= m
    BY <1>1, LeastIn
  <2>2. Least(Missing) \in Nat \ {0}
    BY <2>1
  <2>3. Least(Missing) - 1 \in Nat /\ Least(Missing) - 1 \notin Missing
    BY <2>1, <2>2
  <2>4. (Least(Missing) - 1) + 1 \in S
    BY <2>3
  <2> QED BY <2>1, <2>2, <2>4
<1> QED BY <1>1

\* A function that is first at 0, and at each natural what next makes of its value at the one before.
Unfolds(f, first, next, n) == f[0] = first /\ \A i \in 1 .. n : f[i] = next[i][f[i - 1]]

LEMMA Recursive ==
    ASSUME NEW T, NEW first \in T, NEW next, \A i \in Nat : \A x \in T : next[i][x] \in T,
           NEW n \in Nat
    PROVE  \E f \in [0 .. n -> T] : Unfolds(f, first, next, n)
<1> DEFINE Is(f, m) == f = [i \in 0 .. m |-> IF i = 0 THEN first ELSE next[i][f[i - 1]]]
           S == {m \in Nat : \E f \in [0 .. m -> T] : Is(f, m)}
<1>1. 0 \in S
  <2> DEFINE f == [i \in 0 .. 0 |-> first]
  <2>1. f \in [0 .. 0 -> T]
    OBVIOUS
  <2>2. Is(f, 0)
    OBVIOUS
  <2> HIDE DEF Is, f
  <2> QED BY <2>1, <2>2
<1>2. ASSUME NEW m \in Nat, m \in S PROVE m + 1 \in S
  <2>1. PICK f \in [0 .. m -> T] : Is(f, m)
    BY <1>2
  <2> DEFINE g == [i \in 0 .. m + 1 |-> IF i = 0 THEN first ELSE next[i][f[i - 1]]]
  <2>2. \A i \in 0 .. m : g[i] = f[i]
    BY <2>1
  <2>3. ASSUME NEW i \in 0 .. m + 1
        PROVE  /\ g[i] = IF i = 0 THEN first ELSE next[i][g[i - 1]]
               /\ g[i] \in T
    <3>1. CASE i = 0
      BY <3>1
    <3>2. CASE i # 0
      <4>1. i - 1 \in 0 .. m /\ i \in Nat
        BY <3>2
      <4>2. g[i - 1] = f[i - 1] /\ f[i - 1] \in T
        BY <2>2, <4>1
      <4>3. g[i] = next[i][f[i - 1]]
        BY <3>2
      <4> HIDE DEF g
      <4>5. g[i] = next[i][g[i - 1]]
        BY <4>2, <4>3
      <4>6. g[i] \in T
        BY <4>1, <4>2, <4>3
      <4> QED BY <3>2, <4>5, <4>6
    <3> QED BY <3>1, <3>2
  <2>4. g = [i \in 0 .. m + 1 |-> g[i]]
    OBVIOUS
  <2> HIDE DEF g
  <2>5. g \in [0 .. m + 1 -> T] /\ Is(g, m + 1)
    BY <2>3, <2>4
  <2> HIDE DEF Is
  <2> QED BY <2>5
<1> HIDE DEF S
<1>3. n \in S
  BY <1>1, <1>2, AllNaturals
<1>4. PICK f \in [0 .. n -> T] : Is(f, n)
  BY <1>3 DEF S
<1>5. Unfolds(f, first, next, n)
  BY <1>4 DEF Unfolds
<1> QED BY <1>5

-----------------------------------------------------------------------------
(* Powers of two, and remainders. *)

LEMMA PowerIs ==
    /\ power[0] = 1
    /\ \A n \in 0 .. Width - 1 : power[n + 1] = 2 * power[n]
    /\ \A n \in 0 .. Width : power[n] \in Nat \ {0}
<1> DEFINE Is(f) == f = [n \in 0 .. Width |-> IF n = 0 THEN 1 ELSE 2 * f[n - 1]]
           T == Nat \ {0}
           next == [i \in Nat |-> [x \in T |-> 2 * x]]
<1>1. Width \in Nat
  BY ChunkerAssumption
<1>2. \A i \in Nat : \A x \in T : next[i][x] \in T
  OBVIOUS
<1>3. \A i \in Nat : \A x \in T : next[i][x] = 2 * x
  OBVIOUS
<1> HIDE DEF next
<1>4. PICK f \in [0 .. Width -> T] : Unfolds(f, 1, next, Width)
  <2>1. 1 \in T
    OBVIOUS
  <2> HIDE DEF T
  <2> QED BY <1>1, <1>2, <2>1, Recursive
<1>5. \A i \in 0 .. Width : f[i] = IF i = 0 THEN 1 ELSE 2 * f[i - 1]
  <2> SUFFICES ASSUME NEW i \in 0 .. Width PROVE f[i] = IF i = 0 THEN 1 ELSE 2 * f[i - 1]
    OBVIOUS
  <2>1. CASE i = 0
    BY <1>4, <2>1 DEF Unfolds
  <2>2. CASE i # 0
    <3>1. f[i] = next[i][f[i - 1]]
      BY <1>4, <2>2 DEF Unfolds
    <3>2. i - 1 \in 0 .. Width /\ i \in Nat
      BY <1>1, <2>2
    <3>3. f[i - 1] \in Nat \ {0}
      BY <3>2
    <3> QED BY <1>3, <2>2, <3>1, <3>2, <3>3
  <2> QED BY <2>1, <2>2
<1>6. f = [i \in 0 .. Width |-> f[i]]
  OBVIOUS
<1>7. Is(f)
  BY <1>5, <1>6
<1>8. power = CHOOSE g : Is(g)
  BY DEF power
<1> HIDE DEF Is
<1>9. Is(power)
  BY <1>7, <1>8
<1>10. power = [n \in 0 .. Width |-> IF n = 0 THEN 1 ELSE 2 * power[n - 1]]
  BY <1>9 DEF Is
<1>11. power[0] = 1
  BY <1>1, <1>10
<1>12. \A n \in 0 .. Width - 1 : power[n + 1] = 2 * power[n]
  <2> SUFFICES ASSUME NEW n \in 0 .. Width - 1 PROVE power[n + 1] = 2 * power[n]
    OBVIOUS
  <2>1. n + 1 \in 0 .. Width /\ n + 1 # 0 /\ (n + 1) - 1 = n
    BY <1>1
  <2>2. power[n + 1] = 2 * power[(n + 1) - 1]
    BY <1>10, <2>1
  <2> QED BY <2>1, <2>2
<1> DEFINE S == {n \in Nat : n <= Width => power[n] \in Nat \ {0}}
<1>13. 0 \in S
  BY <1>11
<1>14. \A n \in Nat : n \in S => n + 1 \in S
  BY <1>1, <1>12
<1>15. \A n \in Nat : n \in S
  <2> HIDE DEF S
  <2> QED BY <1>13, <1>14, AllNaturals
<1> QED BY <1>1, <1>11, <1>12, <1>15

\* Each is a factor of the greatest.
LEMMA PowerDivides ==
    ASSUME NEW n \in 0 .. Width
    PROVE  \E m \in Nat : power[Width] = power[n] * m
<1> DEFINE S == {d \in Nat : d <= Width => \E m \in Nat : power[Width] = power[Width - d] * m}
<1>1. Width \in Nat
  BY ChunkerAssumption
<1>2. 0 \in S
  <2>1. power[Width] \in Nat
    BY <1>1, PowerIs
  <2>2. power[Width] = power[Width - 0] * 1
    BY <1>1, <2>1
  <2> QED BY <2>2
<1>3. ASSUME NEW d \in Nat, d \in S, d + 1 <= Width
      PROVE  \E m \in Nat : power[Width] = power[Width - (d + 1)] * m
  <2>1. PICK m \in Nat : power[Width] = power[Width - d] * m
    BY <1>1, <1>3
  <2> DEFINE k == Width - (d + 1)
  <2>2. k \in 0 .. Width - 1 /\ k + 1 = Width - d
    BY <1>1, <1>3
  <2> HIDE DEF k
  <2>3. power[Width - d] = 2 * power[k] /\ power[k] \in Nat
    BY <1>1, <2>2, PowerIs
  <2>4. power[Width] = power[k] * (2 * m) /\ 2 * m \in Nat
    BY <2>1, <2>3
  <2> QED BY <2>4 DEF k
<1>4. \A d \in Nat : d \in S => d + 1 \in S
  BY <1>3
<1>5. \A d \in Nat : d \in S
  <2> HIDE DEF S
  <2> QED BY <1>2, <1>4, AllNaturals
<1>6. Width - n \in S /\ Width - n \in Nat /\ Width - n <= Width /\ Width - (Width - n) = n
  BY <1>1, <1>5
<1> QED BY <1>6

LEMMA Remainder ==
    ASSUME NEW a \in Int, NEW w \in Nat \ {0}
    PROVE  \E q \in Int : a = w * q + (a % w) /\ a % w \in 0 .. w - 1
<1>1. a \div w \in Int /\ a = w * (a \div w) + (a % w) /\ a % w \in 0 .. w - 1
  OBVIOUS
<1> QED BY <1>1

\* Of numbers that differ by a multiple the remainders are the same.
LEMMA SameRemainder ==
    ASSUME NEW a \in Int, NEW b \in Int, NEW w \in Nat \ {0}, \E z \in Int : a = b + w * z
    PROVE  a % w = b % w
<1>0. PICK z \in Int : a = b + w * z
  OBVIOUS
<1>1. PICK p \in Int : a = w * p + (a % w) /\ a % w \in 0 .. w - 1
  BY Remainder
<1>2. PICK q \in Int : b = w * q + (b % w) /\ b % w \in 0 .. w - 1
  BY Remainder
<1> DEFINE d == q + z - p
<1>3. (a % w) - (b % w) = w * d /\ d \in Int
  <2>1. w * d = w * q + w * z - w * p
    OBVIOUS
  <2>2. w * p \in Int /\ w * q \in Int /\ w * z \in Int /\ d \in Int
    OBVIOUS
  <2> DEFINE wp == w * p
             wq == w * q
             wz == w * z
             ra == a % w
             rb == b % w
  <2>3. /\ a = wp + ra /\ b = wq + rb /\ a = b + wz
        /\ wp \in Int /\ wq \in Int /\ wz \in Int /\ ra \in Int /\ rb \in Int
    BY <1>0, <1>1, <1>2, <2>2
  <2> HIDE DEF d, wp, wq, wz, ra, rb
  <2>4. ra - rb = wq + wz - wp
    BY <2>3
  <2>5. w * d = wq + wz - wp
    BY <2>1 DEF wp, wq, wz
  <2>6. ra - rb = w * d
    BY <2>4, <2>5
  <2>7. (a % w) - (b % w) = w * d
    BY <2>6 DEF ra, rb
  <2> QED BY <2>2, <2>7
<1> HIDE DEF d
<1>4. w * d < w /\ -w < w * d
  BY <1>1, <1>2, <1>3
<1>5. ~(d >= 1)
  BY <1>3, <1>4
<1>6. ~(d <= -1)
  BY <1>3, <1>4
<1>7. d = 0
  BY <1>3, <1>5, <1>6
<1>8. w * d = 0
  BY <1>7
<1> QED BY <1>1, <1>2, <1>3, <1>8

-----------------------------------------------------------------------------
(* The last bits of a fingerprint are those of a weighted sum of the last  *)
(* few words.                                                              *)

\* A text of bytes that are in the table.
Geared(s) == s \in Seq(DOMAIN gear) /\ \A i \in 1 .. Len(s) : gear[s[i]] \in Nat

Weighed(s, from, i, j) == IF i - j + 1 > from THEN gear[s[i - j + 1]] * power[j - 1] ELSE 0

LEMMA WeighedType ==
    ASSUME NEW s, Geared(s), NEW from \in Nat, NEW i \in 0 .. Len(s), NEW j \in 1 .. Width
    PROVE  Weighed(s, from, i, j) \in Nat
<1>1. Len(s) \in Nat /\ Width \in Nat /\ i \in Nat
  BY ChunkerAssumption DEF Geared
<1>2. power[j - 1] \in Nat
  BY <1>1, PowerIs
<1>3. CASE i - j + 1 > from
  <2>1. i - j + 1 \in 1 .. Len(s)
    BY <1>1, <1>3
  <2>2. gear[s[i - j + 1]] \in Nat
    BY <2>1 DEF Geared
  <2> QED BY <1>2, <1>3, <2>2 DEF Weighed
<1> QED BY <1>3 DEF Weighed

LEMMA WindowSumIs ==
    ASSUME NEW s, Geared(s), NEW from \in Nat, NEW i \in 0 .. Len(s), NEW bits \in 0 .. Width
    PROVE  \E sum \in [0 .. bits -> Nat] :
              /\ WindowSum(s, from, i, bits) = sum[bits] /\ sum[0] = 0
              /\ \A j \in 1 .. bits : sum[j] = sum[j - 1] + Weighed(s, from, i, j)
<1> DEFINE W(j) == Weighed(s, from, i, j)
           Is(f) == f = [j \in 0 .. bits |-> IF j = 0 THEN 0 ELSE f[j - 1] + W(j)]
           next == [j \in Nat |-> [x \in Nat |-> IF j \in 1 .. bits THEN x + W(j) ELSE 0]]
<1>1. bits \in Nat /\ bits <= Width /\ Width \in Nat
  BY ChunkerAssumption
<1>2. \A j \in 1 .. bits : W(j) \in Nat
  BY <1>1, WeighedType
<1> HIDE DEF W
<1>3. \A j \in Nat : \A x \in Nat : next[j][x] \in Nat
  BY <1>2
<1>4. \A j \in 1 .. bits : \A x \in Nat : next[j][x] = x + W(j)
  OBVIOUS
<1> HIDE DEF next
<1>5. PICK f \in [0 .. bits -> Nat] : Unfolds(f, 0, next, bits)
  BY <1>1, <1>3, Recursive
<1>6. \A j \in 1 .. bits : f[j] = f[j - 1] + W(j)
  <2> SUFFICES ASSUME NEW j \in 1 .. bits PROVE f[j] = f[j - 1] + W(j)
    OBVIOUS
  <2>1. j - 1 \in 0 .. bits /\ f[j - 1] \in Nat
    BY <1>1
  <2>2. f[j] = next[j][f[j - 1]]
    BY <1>5 DEF Unfolds
  <2> QED BY <1>4, <2>1, <2>2
<1>7. f[0] = 0
  BY <1>5 DEF Unfolds
<1>8. Is(f)
  <2>1. \A j \in 0 .. bits : f[j] = IF j = 0 THEN 0 ELSE f[j - 1] + W(j)
    BY <1>1, <1>6, <1>7
  <2>2. f = [j \in 0 .. bits |-> f[j]]
    OBVIOUS
  <2> QED BY <2>1, <2>2
<1>9. \A g : Is(g) => \A j \in 0 .. bits : g[j] = f[j]
  <2> SUFFICES ASSUME NEW g, Is(g) PROVE \A j \in 0 .. bits : g[j] = f[j]
    OBVIOUS
  <2>1. \A j \in 0 .. bits : g[j] = IF j = 0 THEN 0 ELSE g[j - 1] + W(j)
    <3> HIDE DEF W
    <3> QED OBVIOUS
  <2> DEFINE S == {j \in Nat : j <= bits => g[j] = f[j]}
  <2>2. 0 \in S
    BY <1>1, <1>7, <2>1
  <2>3. ASSUME NEW j \in Nat, j \in S PROVE j + 1 \in S
    <3> SUFFICES ASSUME j + 1 <= bits PROVE g[j + 1] = f[j + 1]
      BY <2>3
    <3>1. j + 1 \in 1 .. bits /\ j + 1 \in 0 .. bits /\ j + 1 # 0 /\ (j + 1) - 1 = j
      BY <1>1, <2>3
    <3>2. g[j + 1] = g[j] + W(j + 1)
      BY <2>1, <3>1
    <3>3. f[j + 1] = f[j] + W(j + 1)
      BY <1>6, <3>1
    <3>4. g[j] = f[j]
      BY <1>1, <2>3, <3>1
    <3> QED BY <3>2, <3>3, <3>4
  <2> HIDE DEF S
  <2>4. \A j \in Nat : j \in S
    BY <2>2, <2>3, AllNaturals
  <2>5. \A j \in Nat : j <= bits => g[j] = f[j]
    BY <2>4 DEF S
  <2>6. \A j \in 0 .. bits : j \in Nat /\ j <= bits
    BY <1>1
  <2> HIDE DEF Is
  <2> QED BY <2>5, <2>6
<1>10. WindowSum(s, from, i, bits) = (CHOOSE g : Is(g))[bits]
  BY DEF WindowSum, W, Weighed
<1>11. WindowSum(s, from, i, bits) = f[bits]
  <2> HIDE DEF Is
  <2> DEFINE chosen == CHOOSE g : Is(g)
  <2>1. Is(chosen)
    BY <1>8, Zenon
  <2> HIDE DEF chosen
  <2>2. bits \in 0 .. bits
    BY <1>1
  <2>3. chosen[bits] = f[bits]
    BY <1>9, <2>1, <2>2
  <2> QED BY <1>10, <2>3 DEF chosen
<1> QED BY <1>6, <1>7, <1>11 DEF W

LEMMA FingerprintType ==
    ASSUME NEW data, Geared(data)
    PROVE  \A i \in 0 .. Len(data) - 1 :
              /\ Fingerprint(data)[i] \in Nat
              /\ i < MinSize => Fingerprint(data)[i] = 0
              /\ i >= MinSize =>
                   Fingerprint(data)[i] =
                     ((IF i = MinSize THEN 0 ELSE 2 * Fingerprint(data)[i - 1]) + gear[data[i + 1]])
                       % power[Width]
<1> DEFINE fp == Fingerprint(data)
           S == {i \in Nat : i < Len(data) => fp[i] \in Nat}
<1>1. Len(data) \in Nat /\ MinSize \in Nat \ {0} /\ power[Width] \in Nat \ {0}
  BY PowerIs, ChunkerAssumption DEF Geared
<1>2. \A i \in 0 .. Len(data) - 1 : fp[i] = Shifted(data, i, fp[i - 1])
  <2>1. fp = [i \in 0 .. Len(data) - 1 |-> Shifted(data, i, fp[i - 1])]
    BY <1>1, FingerprintIs DEF Prints
  <2> HIDE DEF fp
  <2> QED BY <2>1
<1> HIDE DEF fp
<1>3. \A i \in 0 .. Len(data) - 1 : gear[data[i + 1]] \in Nat
  BY <1>1 DEF Geared
<1>4. 0 \in S
  BY <1>1, <1>2 DEF Shifted
<1>5. ASSUME NEW i \in Nat, i \in S PROVE i + 1 \in S
  <2> SUFFICES ASSUME i + 1 < Len(data) PROVE fp[i + 1] \in Nat
    OBVIOUS
  <2>1. i + 1 \in 0 .. Len(data) - 1 /\ (i + 1) - 1 = i /\ fp[i] \in Nat
    BY <1>1, <1>5
  <2>2. fp[i + 1] = Shifted(data, i + 1, fp[i])
    BY <1>2, <2>1
  <2>3. gear[data[(i + 1) + 1]] \in Nat
    BY <1>3, <2>1
  <2> DEFINE word == (IF i + 1 = MinSize THEN 0 ELSE 2 * fp[i]) + gear[data[(i + 1) + 1]]
  <2>4. word \in Nat
    BY <2>1, <2>3, SMTT(30)
  <2>5. fp[i + 1] = IF i + 1 < MinSize THEN 0 ELSE word % power[Width]
    BY <2>2 DEF Shifted
  <2> HIDE DEF word
  <2>6. word % power[Width] \in Nat
    BY <1>1, <2>4
  <2> QED BY <2>5, <2>6
<1> HIDE DEF S
<1>6. \A i \in Nat : i \in S
  BY <1>4, <1>5, AllNaturals
<1>7. \A i \in 0 .. Len(data) - 1 : fp[i] \in Nat
  BY <1>1, <1>6 DEF S
<1> QED BY <1>1, <1>2, <1>7 DEF fp, Shifted

LEMMA Rolling ==
    ASSUME NEW s, Geared(s), NEW start \in 0 .. Len(s),
           NEW o \in MinSize .. Len(s) - start - 1, NEW bits \in 0 .. Width
    PROVE  Fingerprint(Rest(s, start))[o] % power[bits]
             = WindowSum(s, start + MinSize, start + o + 1, bits) % power[bits]
<1> DEFINE data == Rest(s, start)
           fp == Fingerprint(data)
           F(k) == IF k >= MinSize THEN fp[k] ELSE 0
           from == start + MinSize
           W(j) == Weighed(s, from, start + o + 1, j)
<1>1. /\ Len(s) \in Nat /\ start \in Nat /\ o \in Nat /\ MinSize \in Nat \ {0} /\ Width \in Nat
      /\ bits \in Nat /\ bits <= Width /\ MinSize <= o /\ o < Len(s) - start
      /\ power[Width] \in Nat \ {0}
  BY PowerIs, ChunkerAssumption DEF Geared
<1>2. /\ data \in Seq(DOMAIN gear) /\ Len(data) = Len(s) - start
      /\ \A j \in 1 .. Len(s) - start : data[j] = s[start + j]
  <2>1. s \in Seq(DOMAIN gear)
    BY DEF Geared
  <2> QED BY <2>1, RestIs, SMTT(30)
<1> HIDE DEF data
<1>3. Geared(data)
  <2>1. ASSUME NEW j \in 1 .. Len(data) PROVE gear[data[j]] \in Nat
    <3>1. data[j] = s[start + j] /\ start + j \in 1 .. Len(s)
      BY <1>1, <1>2
    <3> QED BY <3>1 DEF Geared
  <2> QED BY <1>2, <2>1 DEF Geared
<1>4. \A k \in 0 .. Len(data) - 1 :
        /\ fp[k] \in Nat
        /\ k >= MinSize => fp[k] = ((IF k = MinSize THEN 0 ELSE 2 * fp[k - 1]) + gear[data[k + 1]])
                                      % power[Width]
  BY <1>3, FingerprintType
<1> HIDE DEF fp
<1>5. \A k \in Int : k <= o => F(k) \in Nat
  BY <1>1, <1>2, <1>4
<1>6. ASSUME NEW k \in MinSize .. o
      PROVE  /\ gear[data[k + 1]] \in Nat
             /\ \E r \in Int : F(k) = 2 * F(k - 1) + gear[data[k + 1]] - power[Width] * r
  <2> DEFINE word == gear[data[k + 1]]
             sum == (IF k = MinSize THEN 0 ELSE 2 * fp[k - 1]) + word
  <2>1. k \in 0 .. Len(data) - 1 /\ k >= MinSize /\ k \in Nat /\ k + 1 \in 1 .. Len(data)
    BY <1>1, <1>2
  <2>2. word \in Nat
    BY <1>3, <2>1 DEF Geared
  <2>3. F(k) = sum % power[Width]
    BY <1>4, <2>1
  <2> HIDE DEF word
  <2>4. sum = 2 * F(k - 1) + word
    BY <1>1, <2>1, <2>2
  <2>5. F(k - 1) \in Nat
    BY <1>1, <1>5, <2>1
  <2>6. sum \in Int
    BY <2>2, <2>4, <2>5
  <2> HIDE DEF sum
  <2>7. PICK r \in Int : sum = power[Width] * r + (sum % power[Width])
    BY <1>1, <2>6, Remainder
  <2> DEFINE product == power[Width] * r
  <2>8. product \in Int /\ F(k) \in Nat
    BY <1>1, <1>5, <2>1
  <2>9. sum = product + F(k)
    BY <2>3, <2>7
  <2> HIDE DEF product, F
  <2>10. F(k) = 2 * F(k - 1) + word - product
    BY <2>2, <2>4, <2>5, <2>8, <2>9, SMTT(30)
  <2> QED BY <2>2, <2>10 DEF product, word
<1>7. PICK sum \in [0 .. bits -> Nat] :
        /\ WindowSum(s, from, start + o + 1, bits) = sum[bits] /\ sum[0] = 0
        /\ \A j \in 1 .. bits : sum[j] = sum[j - 1] + W(j)
  <2>1. from \in Nat /\ start + o + 1 \in 0 .. Len(s)
    BY <1>1
  <2> HIDE DEF from
  <2> QED BY <2>1, WindowSumIs
<1> HIDE DEF F
<1> DEFINE Left(j) == \E q \in Int : F(o) = sum[j] + power[j] * F(o - j) + power[Width] * q
           S == {j \in Nat : j <= bits => Left(j)}
<1>8. 0 \in S
  <2>1. F(o) = sum[0] + power[0] * F(o - 0) + power[Width] * 0
    BY <1>1, <1>5, <1>7, PowerIs, SMTT(30)
  <2> QED BY <2>1
<1>9. ASSUME NEW j \in Nat, j + 1 <= bits, Left(j) PROVE Left(j + 1)
  <2> DEFINE k == o - j
  <2>1. PICK q \in Int : F(o) = sum[j] + power[j] * F(k) + power[Width] * q
    BY <1>9
  <2>2. /\ k \in Int /\ k <= o /\ k - 1 <= o /\ o - (j + 1) = k - 1
        /\ j \in 0 .. bits /\ j + 1 \in 1 .. bits /\ (j + 1) - 1 = j
    BY <1>1, <1>9
  <2>3. sum[j] \in Nat /\ F(k) \in Nat /\ F(k - 1) \in Nat
    BY <1>5, <2>2
  <2>4. power[j] \in Nat /\ power[j + 1] = 2 * power[j]
    BY <1>1, <2>2, PowerIs
  <2>5. sum[j + 1] = sum[j] + W(j + 1)
    BY <1>7, <2>2
  <2>6. W(j + 1) = IF k >= MinSize THEN gear[s[start + (k + 1)]] * power[j] ELSE 0
    <3>1. (start + o + 1) - (j + 1) + 1 = start + (k + 1)
      BY <1>1, <2>2
    <3>2. start + (k + 1) > from <=> k >= MinSize
      BY <1>1, <2>2
    <3> HIDE DEF k, from
    <3> QED BY <2>2, <3>1, <3>2 DEF Weighed
  <2>7. CASE k >= MinSize
    <3> DEFINE word == gear[data[k + 1]]
    <3>1. k \in MinSize .. o /\ data[k + 1] = s[start + (k + 1)]
      <4>1. k \in MinSize .. o /\ k + 1 \in 1 .. Len(s) - start
        BY <1>1, <2>2, <2>7
      <4> HIDE DEF k
      <4> QED BY <1>2, <4>1
    <3>2. PICK r \in Int : F(k) = 2 * F(k - 1) + word - power[Width] * r
      BY <1>6, <3>1
    <3>3. word \in Nat
      BY <1>6, <3>1
    <3>4. sum[j + 1] = sum[j] + word * power[j]
      BY <2>5, <2>6, <2>7, <3>1
    <3> DEFINE u == sum[j]
               p == power[j]
               before == F(k - 1)
               w == power[Width]
    <3> HIDE DEF word, k
    <3>5. u \in Int /\ p \in Int /\ before \in Int /\ word \in Int /\ w \in Int
      <4>1. sum[j] \in Int /\ F(k - 1) \in Int
        BY <2>3
      <4>2. power[j] \in Int
        BY <2>4
      <4>3. power[Width] \in Int
        BY <1>1
      <4>4. word \in Int
        BY <3>3
      <4> QED BY <4>1, <4>2, <4>3, <4>4
    <3> HIDE DEF u, p, before, w
    <3>6. u + p * (2 * before + word - w * r) + w * q
            = (u + word * p) + (2 * p) * before + w * (q - p * r)
      <4>1. p * (2 * before + word - w * r) = p * (2 * before) + p * word - p * (w * r)
        BY <3>5
      <4>2. w * (q - p * r) = w * q - w * (p * r)
        BY <3>5
      <4>3. /\ p * (2 * before) = (2 * p) * before /\ p * word = word * p
            /\ p * (w * r) = w * (p * r)
        BY <3>5
      <4> QED BY <3>5, <4>1, <4>2, <4>3
    <3>7. /\ F(o) = u + p * (2 * before + word - w * r) + w * q
          /\ sum[j + 1] = u + word * p /\ power[j + 1] = 2 * p
      BY <2>1, <2>4, <3>2, <3>4 DEF u, p, before, w
    <3>8. F(o) = sum[j + 1] + power[j + 1] * before + w * (q - p * r)
      BY <3>6, <3>7
    <3>9. q - p * r \in Int
      BY <3>5
    <3> QED BY <2>2, <3>8, <3>9 DEF before, w
  <2>8. CASE ~(k >= MinSize)
    <3>1. F(k) = 0 /\ F(k - 1) = 0
      BY <1>1, <2>2, <2>8 DEF F
    <3>2. sum[j + 1] = sum[j]
      BY <2>3, <2>5, <2>6, <2>8, SMTT(30)
    <3>3. power[j] * F(k) = 0 /\ power[j + 1] * F(k - 1) = 0
      BY <2>4, <3>1
    <3> HIDE DEF k
    <3>4. F(o) = sum[j + 1] + power[j + 1] * F(k - 1) + power[Width] * q
      BY <2>1, <3>2, <3>3
    <3> QED BY <2>2, <3>4
  <2> QED BY <2>7, <2>8
<1> HIDE DEF Left
<1>10. \A j \in Nat : j \in S => j + 1 \in S
  BY <1>1, <1>9
<1>11. Left(bits)
  <2> HIDE DEF S
  <2>1. bits \in S
    BY <1>1, <1>8, <1>10, AllNaturals
  <2> QED BY <1>1, <2>1 DEF S
<1>12. PICK q \in Int : F(o) = sum[bits] + power[bits] * F(o - bits) + power[Width] * q
  BY <1>11 DEF Left
<1>13. PICK m \in Nat : power[Width] = power[bits] * m
  BY PowerDivides
<1> DEFINE z == F(o - bits) + m * q
           u == sum[bits]
           v == F(o - bits)
           w == power[bits]
           all == F(o)
<1>14. /\ u \in Int /\ v \in Int /\ all \in Int /\ w \in Nat \ {0} /\ z \in Int
       /\ all = u + w * v + (w * m) * q /\ z = v + m * q
  <2>1. /\ u \in Nat /\ v \in Nat /\ all \in Nat /\ w \in Nat \ {0}
    BY <1>1, <1>5, PowerIs
  <2>2. m * q \in Int
    OBVIOUS
  <2>3. all = u + w * v + (w * m) * q
    BY <1>12, <1>13
  <2>4. z = v + m * q
    OBVIOUS
  <2> HIDE DEF z, u, v, w, all
  <2> QED BY <2>1, <2>2, <2>3, <2>4
<1> HIDE DEF z, u, v, w, all
<1>15. all = u + w * z
  <2>1. (w * m) * q = w * (m * q)
    BY <1>14
  <2>2. w * z = w * v + w * (m * q)
    BY <1>14
  <2> DEFINE x == w * (m * q)
             y == w * v
  <2>3. x \in Int /\ y \in Int /\ all = u + y + x /\ w * z = y + x
    BY <1>14, <2>1, <2>2
  <2> HIDE DEF x, y
  <2> QED BY <1>14, <2>3
<1>16. all % w = u % w
  <2>1. \E x \in Int : all = u + w * x
    BY <1>14, <1>15
  <2> QED BY <1>14, <2>1, SameRemainder, Zenon
<1>17. F(o) = fp[o]
  BY <1>1 DEF F
<1> QED BY <1>7, <1>16, <1>17 DEF fp, data, u, w, all

-----------------------------------------------------------------------------
(* What the chunker cuts is what the reference cuts.                       *)

\* A hit of the fingerprint is a boundary, and within the window there is no other.
LEMMA HitIsBoundary ==
    ASSUME NEW s, Geared(s), NEW start \in 0 .. Len(s),
           NEW n, n = Lesser(Len(s) - start, MaxSize), NEW i \in 1 .. n - 1
    PROVE  IsBoundary(s, start, start + i) <=>
             /\ i >= MinSize
             /\ Fingerprint(Rest(s, start))[i]
                  % power[IF i < Lesser(AvgSize, n) THEN SBits ELSE LBits] = 0
<1> DEFINE bits == IF i < AvgSize THEN SBits ELSE LBits
<1>1. /\ Len(s) \in Nat /\ start \in Nat /\ start <= Len(s) /\ MinSize \in Nat \ {0}
      /\ MaxSize \in Nat \ {0} /\ AvgSize \in Nat \ {0} /\ bits \in 0 .. Width
  BY ChunkerAssumption DEF Geared
<1>2. /\ n \in Nat /\ n <= Len(s) - start /\ n <= MaxSize /\ i \in Nat /\ i < n /\ i > 0
  BY <1>1 DEF Lesser
<1>3. (IF i < Lesser(AvgSize, n) THEN SBits ELSE LBits) = bits
  BY <1>1, <1>2 DEF Lesser
<1>4. (start + i) - start = i /\ start + i + 1 = (start + i) + 1 /\ start + i < Len(s)
  BY <1>1, <1>2
<1>5. IsBoundary(s, start, start + i) <=>
        /\ i >= MinSize
        /\ WindowSum(s, start + MinSize, start + i + 1, bits) % power[bits] = 0
  <2> DEFINE sum == WindowSum(s, start + MinSize, start + i + 1, bits)
             size == (start + i) - start
  <2>1. IsBoundary(s, start, start + i) <=>
          \/ start + i = Len(s) /\ size <= MaxSize
          \/ size = MaxSize
          \/ /\ size \in MinSize .. MaxSize - 1 /\ start + i < Len(s)
             /\ sum % power[bits] = 0
    BY <1>4 DEF IsBoundary
  <2> HIDE DEF sum, size
  <2>2. size = i
    BY <1>4 DEF size
  <2>3. i \in MinSize .. MaxSize - 1 <=> i >= MinSize
    BY <1>1, <1>2
  <2>4. i # MaxSize /\ start + i # Len(s) /\ start + i < Len(s)
    BY <1>1, <1>2
  <2> QED BY <2>1, <2>2, <2>3, <2>4 DEF sum
<1> HIDE DEF bits
<1>6. i >= MinSize => Fingerprint(Rest(s, start))[i] % power[bits]
                        = WindowSum(s, start + MinSize, start + i + 1, bits) % power[bits]
  <2>1. ASSUME i >= MinSize PROVE i \in MinSize .. Len(s) - start - 1
    BY <1>1, <1>2, <2>1
  <2> QED BY <1>1, <2>1, Rolling
<1> QED BY <1>3, <1>5, <1>6

\* Next cuts where a reader of the whole file sees the next boundary.
LEMMA CutpointIsBoundary ==
    ASSUME Windowed, NEW s, Geared(s), NEW start \in 0 .. Len(s) - 1
    PROVE  NextBoundary(s, start) = start + Cutpoint(Rest(s, start))
<1> DEFINE data == Rest(s, start)
           n == Lesser(Len(data), MaxSize)
           normal == Lesser(AvgSize, n)
           fp == Fingerprint(data)
           Hit(i) == fp[i] % power[IF i < normal THEN SBits ELSE LBits] = 0
           hits == {i \in MinSize .. n - 1 : Hit(i)}
           B == {end \in start + 1 .. Len(s) : IsBoundary(s, start, end)}
           cut == Cutpoint(data)
<1>1. /\ Len(s) \in Nat /\ start \in Nat /\ start < Len(s) /\ MinSize \in Nat \ {0}
      /\ MaxSize \in Nat \ {0} /\ MinSize <= MaxSize /\ AvgSize \in Nat \ {0}
  BY ChunkerAssumption DEF Geared, Windowed
<1>2. Len(data) = Len(s) - start
  BY <1>1, RestIs DEF Geared
<1>3. n = Lesser(Len(s) - start, MaxSize) /\ n \in Nat \ {0} /\ n <= Len(s) - start /\ n <= MaxSize
      /\ (n = Len(s) - start \/ n = MaxSize)
  BY <1>1, <1>2 DEF Lesser
<1>4. cut = IF Len(s) - start <= MinSize THEN Len(s) - start
            ELSE IF hits = {} THEN n ELSE Least(hits)
  BY <1>2 DEF Cutpoint
<1>5. NextBoundary(s, start) = Least(B)
  BY <1>1 DEF NextBoundary
<1> HIDE DEF n, cut
<1>6. \A i \in 1 .. n - 1 : IsBoundary(s, start, start + i) <=> i >= MinSize /\ Hit(i)
  BY <1>1, <1>3, HitIsBoundary
<1> HIDE DEF Hit
<1>7. IsBoundary(s, start, start + n)
  <2>1. (start + n) - start = n
    BY <1>1, <1>3
  <2>2. (start + n = Len(s) /\ n <= MaxSize) \/ n = MaxSize
    BY <1>1, <1>3
  <2> QED BY <2>1, <2>2 DEF IsBoundary
<1>8. /\ cut \in 1 .. n
      /\ cut = n \/ cut \in hits
      /\ \A i \in hits : cut <= i
  <2>0. hits \in SUBSET Nat /\ \A i \in hits : i >= MinSize /\ i < n /\ i > 0
    BY <1>1, <1>3
  <2> HIDE DEF hits
  <2>1. CASE Len(s) - start <= MinSize
    <3>1. cut = n
      BY <1>1, <1>3, <1>4, <2>1
    <3>2. hits = {}
      BY <1>1, <1>3, <2>0, <2>1
    <3> QED BY <1>3, <3>1, <3>2
  <2>2. CASE ~(Len(s) - start <= MinSize) /\ hits = {}
    BY <1>3, <1>4, <2>2
  <2>3. CASE ~(Len(s) - start <= MinSize) /\ hits # {}
    <3>1. Least(hits) \in hits /\ \A i \in hits : Least(hits) <= i
      BY <2>0, <2>3, LeastIn
    <3>2. cut = Least(hits)
      BY <1>4, <2>3
    <3>3. cut \in Nat /\ cut > 0 /\ cut < n
      BY <2>0, <3>1, <3>2
    <3> QED BY <1>3, <3>1, <3>2, <3>3
  <2> QED BY <2>1, <2>2, <2>3
<1>9. start + cut \in B
  <2>1. start + cut \in start + 1 .. Len(s)
    BY <1>1, <1>3, <1>8
  <2>2. IsBoundary(s, start, start + cut)
    <3>1. CASE cut = n
      BY <1>7, <3>1
    <3>2. CASE cut # n
      <4>1. cut \in 1 .. n - 1 /\ cut \in hits
        BY <1>3, <1>8, <3>2
      <4>2. cut >= MinSize /\ Hit(cut)
        BY <1>1, <1>3, <4>1
      <4> QED BY <1>6, <4>1, <4>2
    <3> QED BY <3>1, <3>2
  <2> QED BY <2>1, <2>2
<1>10. ASSUME NEW end \in B PROVE start + cut <= end
  <2> DEFINE i == end - start
  <2>1. i \in Nat \ {0} /\ end = start + i /\ end \in Nat /\ IsBoundary(s, start, end)
    BY <1>1
  <2> HIDE DEF i
  <2>2. CASE i >= n
    BY <1>1, <1>3, <1>8, <2>1, <2>2
  <2>3. CASE i < n
    <3>1. i \in 1 .. n - 1
      BY <1>3, <2>1, <2>3
    <3>2. i \in hits
      BY <1>1, <1>3, <1>6, <2>1, <3>1
    <3> QED BY <1>1, <1>3, <1>8, <2>1, <3>1, <3>2
  <2> QED BY <1>3, <2>1, <2>2, <2>3
<1>11. Least(B) = start + cut
  <2>1. B \in SUBSET Nat /\ B # {} /\ start + cut \in Nat
    BY <1>1, <1>3, <1>8, <1>9
  <2>2. \A end \in B : start + cut <= end
    BY <1>10
  <2> HIDE DEF B
  <2>3. Least(B) \in B /\ \A end \in B : Least(B) <= end
    BY <2>1, LeastIn
  <2>4. Least(B) \in Nat /\ Least(B) <= start + cut /\ start + cut <= Least(B)
    BY <1>9, <2>1, <2>2, <2>3
  <2> QED BY <2>1, <2>4
<1> QED BY <1>5, <1>11 DEF cut

LEMMA NextRange ==
    ASSUME Windowed, NEW s, Geared(s), NEW start \in 0 .. Len(s)
    PROVE  /\ NextBoundary(s, start) \in start .. Len(s)
           /\ start < Len(s) => NextBoundary(s, start) > start
           /\ start = Len(s) => NextBoundary(s, start) = start
<1>1. Len(s) \in Nat /\ start \in Nat /\ start <= Len(s)
  BY DEF Geared
<1>2. CASE start = Len(s)
  BY <1>1, <1>2 DEF NextBoundary
<1>3. CASE start # Len(s)
  <2> DEFINE rest == Rest(s, start)
             cut == Cutpoint(rest)
  <2>1. start \in 0 .. Len(s) - 1
    BY <1>1, <1>3
  <2>2. rest \in Seq(DOMAIN gear) /\ Len(rest) = Len(s) - start /\ rest # <<>>
    <3>1. rest \in Seq(DOMAIN gear) /\ Len(rest) = Len(s) - start
      BY RestIs DEF Geared
    <3> HIDE DEF rest
    <3> QED BY <1>1, <2>1, <3>1
  <2>3. cut \in 1 .. Len(s) - start
    <3> HIDE DEF rest
    <3> QED BY <2>2, CutpointRange
  <2>4. NextBoundary(s, start) = start + cut
    BY <2>1, CutpointIsBoundary
  <2> HIDE DEF cut
  <2> QED BY <1>1, <2>1, <2>3, <2>4
<1> QED BY <1>2, <1>3

LEMMA BoundariesAre ==
    ASSUME Windowed, NEW s, Geared(s)
    PROVE  /\ \A n \in 0 .. Len(s) : Boundaries(s)[n] \in n .. Len(s)
           /\ Boundaries(s)[0] = 0
           /\ \A n \in 1 .. Len(s) : Boundaries(s)[n] = NextBoundary(s, Boundaries(s)[n - 1])
<1> DEFINE Is(f) == f = [n \in 0 .. Len(s) |-> IF n = 0 THEN 0 ELSE NextBoundary(s, f[n - 1])]
           T == 0 .. Len(s)
           next == [n \in Nat |-> [x \in T |-> NextBoundary(s, x)]]
           b == Boundaries(s)
<1>1. Len(s) \in Nat
  BY DEF Geared
<1>2. \A x \in T : NextBoundary(s, x) \in T
  BY <1>1, NextRange
<1>3. /\ \A n \in Nat : \A x \in T : next[n][x] = NextBoundary(s, x)
      /\ \A n \in Nat : \A x \in T : next[n][x] \in T
  BY <1>2
<1> HIDE DEF next
<1>4. PICK f \in [0 .. Len(s) -> T] : Unfolds(f, 0, next, Len(s))
  <2>1. 0 \in T
    BY <1>1
  <2> HIDE DEF T
  <2> QED BY <1>1, <1>3, <2>1, Recursive
<1>5. Is(f)
  <2>1. ASSUME NEW n \in 0 .. Len(s)
        PROVE  f[n] = IF n = 0 THEN 0 ELSE NextBoundary(s, f[n - 1])
    <3>1. CASE n = 0
      BY <1>4, <3>1 DEF Unfolds
    <3>2. CASE n # 0
      <4>1. n - 1 \in 0 .. Len(s) /\ n \in 1 .. Len(s) /\ n \in Nat
        BY <1>1, <3>2
      <4>2. f[n] = next[n][f[n - 1]]
        BY <1>4, <4>1 DEF Unfolds
      <4> HIDE DEF T
      <4>3. f[n - 1] \in T
        BY <4>1
      <4> QED BY <1>3, <3>2, <4>1, <4>2, <4>3
    <3> QED BY <3>1, <3>2
  <2>2. f = [n \in 0 .. Len(s) |-> f[n]]
    OBVIOUS
  <2> QED BY <2>1, <2>2
<1>6. b = CHOOSE g : Is(g)
  BY DEF Boundaries
<1>7. Is(b)
  <2> HIDE DEF Is, b
  <2> QED BY <1>5, <1>6
<1> HIDE DEF b, T
<1>8. \A n \in 0 .. Len(s) : b[n] = IF n = 0 THEN 0 ELSE NextBoundary(s, b[n - 1])
  BY <1>7
<1>9. b[0] = 0
  BY <1>1, <1>8
<1>10. \A n \in 1 .. Len(s) : b[n] = NextBoundary(s, b[n - 1])
  BY <1>1, <1>8
<1> DEFINE S == {n \in Nat : n <= Len(s) => b[n] \in n .. Len(s)}
<1>11. 0 \in S
  BY <1>1, <1>9
<1>12. ASSUME NEW n \in Nat, n \in S, n + 1 <= Len(s) PROVE b[n + 1] \in n + 1 .. Len(s)
  <2>1. n + 1 \in 1 .. Len(s) /\ (n + 1) - 1 = n /\ b[n] \in n .. Len(s) /\ b[n] \in 0 .. Len(s)
    BY <1>1, <1>12
  <2>2. b[n + 1] = NextBoundary(s, b[n])
    BY <1>10, <2>1
  <2>3. /\ NextBoundary(s, b[n]) \in b[n] .. Len(s)
        /\ b[n] < Len(s) => NextBoundary(s, b[n]) > b[n]
    BY <2>1, NextRange
  <2> QED BY <1>1, <1>12, <2>1, <2>2, <2>3
<1>13. \A n \in Nat : n \in S => n + 1 \in S
  BY <1>12
<1>14. \A n \in 0 .. Len(s) : b[n] \in n .. Len(s)
  <2> HIDE DEF S
  <2>1. \A n \in Nat : n \in S
    BY <1>11, <1>13, AllNaturals
  <2>2. \A n \in 0 .. Len(s) : n \in Nat /\ n <= Len(s) /\ n \in S
    BY <1>1, <2>1
  <2> QED BY <2>2 DEF S
<1> QED BY <1>9, <1>10, <1>14 DEF b

LEMMA PieceIs ==
    ASSUME NEW S, NEW s \in Seq(S), NEW a \in 0 .. Len(s), NEW c \in 0 .. Len(s) - a
    PROVE  LET v == SubSeq(s, a + 1, a + c)
           IN  v \in Seq(S) /\ Len(v) = c /\ \A j \in 1 .. c : v[j] = s[a + j]
<1> DEFINE v == SubSeq(s, a + 1, a + c)
<1>1. v \in Seq(S)
  OBVIOUS
<1>2. Len(v) = c
  OBVIOUS
<1>3. ASSUME NEW j \in 1 .. c PROVE v[j] = s[a + j]
  OBVIOUS
<1> HIDE DEF v
<1> QED BY <1>1, <1>2, <1>3 DEF v

LEMMA PieceOfRest ==
    ASSUME NEW S, NEW s \in Seq(S), NEW a \in 0 .. Len(s), NEW c \in 0 .. Len(s) - a
    PROVE  SubSeq(Rest(s, a), 1, c) = SubSeq(s, a + 1, a + c)
<1> DEFINE rest == Rest(s, a)
           u == SubSeq(rest, 1, c)
           v == SubSeq(s, a + 1, a + c)
<1>1. Len(s) \in Nat /\ a \in Nat /\ c \in Nat /\ a + c <= Len(s)
  OBVIOUS
<1>2. rest \in Seq(S) /\ Len(rest) = Len(s) - a /\ \A j \in 1 .. Len(s) - a : rest[j] = s[a + j]
  BY RestIs
<1> HIDE DEF rest
<1>3. u \in Seq(S) /\ Len(u) = c /\ \A j \in 1 .. c : u[j] = rest[j]
  <2>1. 0 \in 0 .. Len(rest) /\ c \in 0 .. Len(rest) - 0 /\ 0 + 1 = 1 /\ 0 + c = c
    BY <1>1, <1>2
  <2> HIDE DEF u
  <2>2. u = SubSeq(rest, 0 + 1, 0 + c)
    BY <2>1 DEF u
  <2>3. u \in Seq(S) /\ Len(u) = c /\ \A j \in 1 .. c : u[j] = rest[0 + j]
    BY <1>2, <2>1, <2>2, PieceIs
  <2> QED BY <1>1, <2>3
<1>4. v \in Seq(S) /\ Len(v) = c /\ \A j \in 1 .. c : v[j] = s[a + j]
  BY PieceIs
<1> HIDE DEF u, v
<1>5. ASSUME NEW j \in 1 .. c PROVE u[j] = v[j]
  <2>1. j \in 1 .. Len(s) - a
    BY <1>1
  <2>2. rest[j] = s[a + j]
    BY <1>2, <2>1
  <2>3. u[j] = rest[j] /\ v[j] = s[a + j]
    BY <1>3, <1>4
  <2> QED BY <2>2, <2>3
<1>6. u = v
  BY <1>3, <1>4, <1>5, SameBlocks
<1> QED BY <1>6 DEF u, v, rest

\* The text is of bytes of the table.
LEMMA TextGeared == ChunkerInv => Geared(Text)
<1> SUFFICES ASSUME ChunkerInv PROVE Geared(Text)
  OBVIOUS
<1>1. Text \in Seq(DOMAIN gear) /\ IsPrefixOf(Text, input)
  BY TextIs
<1>2. input \in Inputs /\ input \in Seq(DOMAIN gear)
  BY ChunkerAssumption DEF ChunkerInv
<1>3. \A j \in 1 .. Len(input) : gear[input[j]] \in 0 .. power[Width] - 1
  BY <1>2, ChunkerAssumption
<1>4. \A j \in 1 .. Len(Text) : j \in 1 .. Len(input) /\ Text[j] = input[j]
  BY <1>1, <1>2 DEF IsPrefixOf
<1>5. \A j \in 1 .. Len(Text) : gear[Text[j]] \in Nat
  BY <1>3, <1>4
<1> QED BY <1>1, <1>5 DEF Geared

\* The chunks so far end at the first boundaries, and the last one of a file is the last boundary.
LEMMA StartsAreBoundaries ==
    ASSUME Windowed, ChunkerInv, CutInv
    PROVE  /\ Len(chunks) \in 0 .. Len(Text)
           /\ \A i \in 1 .. Len(chunks) :
                 /\ Boundaries(Text)[i - 1] < Len(Text)
                 /\ chunks[i] = SubSeq(Text, Boundaries(Text)[i - 1] + 1, Boundaries(Text)[i])
           /\ result # "none" => Boundaries(Text)[Len(chunks)] = Len(Text)
<1> DEFINE t == Text
           m == Len(chunks)
           b == Boundaries(t)
           last == Len(t)
<1>1. /\ t \in Seq(DOMAIN gear) /\ last \in Nat /\ last >= read /\ read \in Nat
      /\ err # "none" => last = read
  BY TextIs, InputType
<1>2. Geared(t)
  BY TextGeared
<1>3. m \in Nat
  BY DEF CutInv
<1>4. PICK starts \in [1 .. m + 1 -> Nat] :
        /\ CutFrom(starts)
        /\ \A i \in 1 .. m : starts[i] < read
  BY DEF CutInv
<1>5. /\ starts[1] = 0 /\ starts[m + 1] = read - Len(buf)
      /\ \A i \in 1 .. m : /\ chunks[i] = SubSeq(Rest(t, starts[i]), 1, Cutpoint(Rest(t, starts[i])))
                            /\ starts[i + 1] = starts[i] + Cutpoint(Rest(t, starts[i]))
  BY <1>4 DEF CutFrom
<1> HIDE DEF t, m
<1>6. /\ \A n \in 0 .. last : b[n] \in n .. last
      /\ b[0] = 0
      /\ \A n \in 1 .. last : b[n] = NextBoundary(t, b[n - 1])
  BY <1>2, BoundariesAre
<1> HIDE DEF b
<1>7. ASSUME NEW i \in 1 .. m
      PROVE  /\ starts[i] \in 0 .. last - 1
             /\ Cutpoint(Rest(t, starts[i])) \in 1 .. last - starts[i]
             /\ starts[i + 1] = NextBoundary(t, starts[i])
  <2> DEFINE a == starts[i]
             rest == Rest(t, a)
             cut == Cutpoint(rest)
  <2>1. a \in Nat /\ a < read
    BY <1>3, <1>4
  <2>2. a \in 0 .. last - 1 /\ a \in 0 .. last
    BY <1>1, <2>1
  <2>3. starts[i + 1] = a + cut
    BY <1>5
  <2> HIDE DEF a
  <2>4. rest \in Seq(DOMAIN gear) /\ Len(rest) = last - a
    BY <1>1, <2>2, RestIs
  <2>5. NextBoundary(t, a) = a + cut
    BY <1>2, <2>2, CutpointIsBoundary
  <2>6. cut \in 1 .. last - a
    <3> HIDE DEF rest
    <3>1. rest # <<>>
      BY <1>1, <2>2, <2>4
    <3>2. cut \in 1 .. Len(rest)
      BY <2>4, <3>1, CutpointRange
    <3> QED BY <2>4, <3>2
  <2> QED BY <2>2, <2>3, <2>5, <2>6 DEF a
<1> DEFINE S == {i \in Nat : i <= m => i <= last /\ b[i] = starts[i + 1]}
<1>8. 0 \in S
  BY <1>1, <1>5, <1>6
<1>9. ASSUME NEW i \in Nat, i + 1 <= m, i <= last, b[i] = starts[i + 1]
      PROVE  i + 1 <= last /\ b[i + 1] = starts[(i + 1) + 1]
  <2>1. i + 1 \in 1 .. m /\ i \in 0 .. last
    BY <1>1, <1>3, <1>9
  <2>2. /\ starts[i + 1] \in 0 .. last - 1
        /\ starts[(i + 1) + 1] = NextBoundary(t, starts[i + 1])
    BY <1>7, <2>1
  <2>3. b[i] \in i .. last
    BY <1>6, <2>1
  <2>4. i + 1 <= last
    BY <1>1, <1>9, <2>2, <2>3
  <2>5. i + 1 \in 1 .. last /\ (i + 1) - 1 = i
    BY <1>1, <2>4
  <2>6. b[i + 1] = NextBoundary(t, b[i])
    BY <1>6, <2>5
  <2> QED BY <1>9, <2>2, <2>4, <2>6
<1>10. \A i \in Nat : i \in S => i + 1 \in S
  BY <1>3, <1>9
<1>11. \A i \in 0 .. m : i <= last /\ b[i] = starts[i + 1]
  <2> HIDE DEF S
  <2>1. \A i \in Nat : i \in S
    BY <1>8, <1>10, AllNaturals
  <2>2. \A i \in 0 .. m : i \in Nat /\ i <= m /\ i \in S
    BY <1>3, <2>1
  <2> QED BY <2>2 DEF S
<1>12. ASSUME NEW i \in 1 .. m
       PROVE  b[i - 1] < last /\ chunks[i] = SubSeq(t, b[i - 1] + 1, b[i])
  <2> DEFINE a == starts[i]
             cut == Cutpoint(Rest(t, a))
  <2>1. i - 1 \in 0 .. m /\ i \in 0 .. m /\ (i - 1) + 1 = i
    BY <1>3
  <2>2. b[i - 1] = a /\ b[i] = starts[i + 1]
    BY <1>11, <2>1
  <2>3. a \in 0 .. last - 1 /\ a \in 0 .. last /\ cut \in 0 .. last - a
    BY <1>1, <1>7
  <2>4. chunks[i] = SubSeq(Rest(t, a), 1, cut) /\ starts[i + 1] = a + cut
    BY <1>5
  <2> HIDE DEF a, cut
  <2>5. SubSeq(Rest(t, a), 1, cut) = SubSeq(t, a + 1, a + cut)
    BY <1>1, <2>3, PieceOfRest
  <2> QED BY <1>1, <2>2, <2>3, <2>4, <2>5
<1>13. m \in 0 .. last
  BY <1>3, <1>11
<1>14. result # "none" => b[m] = last
  <2> SUFFICES ASSUME result # "none" PROVE b[m] = last
    OBVIOUS
  <2>1. buf = <<>> /\ err # "none"
    BY DEF ChunkerInv, ChunkerTypeOK
  <2>2. Len(buf) = 0 /\ last = read
    BY <1>1, <2>1
  <2>3. starts[m + 1] = last
    BY <1>1, <1>5, <2>2
  <2> QED BY <1>3, <1>11, <2>3
<1> QED BY <1>12, <1>13, <1>14 DEF t, m, b

\* However the reader returns a file, its chunks are those that lie between the boundaries of the
\* file looked at as a whole, where a boundary depends on the bytes before it and the distance from
\* the last one only (chunker.go:92): for files, tables, masks and sizes of any kind.
THEOREM ChunksAreTheReference ==
    ASSUME Windowed
    PROVE  ChunkerSpec => []SameChunks
<1>1. ASSUME ChunkerInv, CutInv PROVE SameChunks
  <2> DEFINE t == Text
             m == Len(chunks)
             b == Boundaries(t)
             last == Len(t)
             Closed == {n \in 0 .. last : b[n] = last}
             count == Least(Closed)
             all == ChunksOf(t)
             Piece(n) == SubSeq(t, b[n - 1] + 1, b[n])
  <2>1. /\ t \in Seq(DOMAIN gear) /\ last \in Nat /\ Geared(t)
        /\ chunks \in Seq(Seq(DOMAIN gear))
    BY <1>1, TextIs, TextGeared DEF CutInv
  <2>2. /\ m \in 0 .. last
        /\ \A i \in 1 .. m : b[i - 1] < last /\ chunks[i] = Piece(i)
        /\ result # "none" => b[m] = last
    BY <1>1, StartsAreBoundaries
  <2>3. \A n \in 0 .. last : b[n] \in n .. last
    BY <2>1, BoundariesAre
  <2>4. all = [n \in 1 .. count |-> Piece(n)]
    BY DEF ChunksOf
  <2> HIDE DEF t, b, all
  <2>5. Closed \in SUBSET Nat /\ last \in Closed
    BY <2>1, <2>3
  <2>6. count \in Closed /\ \A n \in Closed : count <= n
    <3> HIDE DEF Closed
    <3> QED BY <2>5, LeastIn
  <2>7. count \in 0 .. last /\ b[count] = last
    BY <2>6
  <2> HIDE DEF count
  <2>8. m <= count
    <3> SUFFICES ASSUME count < m PROVE FALSE
      BY <2>1, <2>2, <2>7
    <3>1. count + 1 \in 1 .. m /\ (count + 1) - 1 = count
      BY <2>1, <2>2, <2>7
    <3>2. b[count] < last
      BY <2>2, <3>1
    <3> QED BY <2>1, <2>7, <3>2
  <2>9. \A n \in 1 .. count : Piece(n) \in Seq(DOMAIN gear)
    <3> SUFFICES ASSUME NEW n \in 1 .. count PROVE Piece(n) \in Seq(DOMAIN gear)
      OBVIOUS
    <3>1. n - 1 \in 0 .. last /\ n \in 0 .. last
      BY <2>1, <2>7
    <3>2. b[n - 1] \in 0 .. last /\ b[n] \in 0 .. last
      BY <2>1, <2>3, <3>1
    <3> QED BY <2>1, <3>2
  <2> HIDE DEF Piece
  <2>10. all \in Seq(Seq(DOMAIN gear)) /\ Len(all) = count /\ \A n \in 1 .. count : all[n] = Piece(n)
    BY <2>4, <2>7, <2>9
  <2> DEFINE some == SubSeq(all, 1, m)
  <2>11. /\ some \in Seq(Seq(DOMAIN gear)) /\ Len(some) = m
         /\ \A i \in 1 .. m : some[i] = all[i]
    BY <2>2, <2>7, <2>8, <2>10
  <2> HIDE DEF some
  <2>12. \A i \in 1 .. m : chunks[i] = all[i]
    BY <2>2, <2>7, <2>8, <2>10
  <2>13. chunks = some
    BY <2>1, <2>2, <2>11, <2>12, SameBlocks
  <2>14. CASE result = "none"
    BY <2>8, <2>10, <2>13, <2>14 DEF SameChunks, some, all, t
  <2>15. CASE result # "none"
    <3>1. m \in Closed
      BY <2>2, <2>15
    <3>2. count = m
      BY <2>1, <2>2, <2>6, <2>7, <2>8, <3>1
    <3>3. chunks = all
      BY <2>1, <2>10, <2>12, <3>2, SameBlocks
    <3> QED BY <2>15, <3>3 DEF SameChunks, all, t
  <2> QED BY <2>14, <2>15
<1>2. ChunkerInit => CutInv
  BY CutInit
<1>3. ChunkerInv /\ CutInv /\ [ChunkerNext]_chunkerVars => CutInv'
  BY CutStep
<1> QED BY <1>1, <1>2, <1>3, ChunkerInvariance, PTL DEF ChunkerSpec

-----------------------------------------------------------------------------
(* The packer.                                                             *)

Bytes == ({"header"} \X (1 .. Header)) \cup (Chunks \X Nat)
Places == [chunk : Chunks, pack : PackIds, offset : Nat, size : Nat]
Packs == [id : PackIds, buf : Seq(Bytes), locs : Seq(Places)]
Rows == [pack : PackIds, size : Nat, count : Nat, locs : Seq(Places)]

\* A pack in memory: its blobs end to end, none beyond the end of the buffer.
Sound(p) ==
    /\ p \in Packs /\ LaidOut(p.buf, p.locs)
    /\ Len(p.buf) >= Header /\ (p.locs # <<>> => Len(p.buf) > Header)
    /\ \A i \in 1 .. Len(p.locs) : p.locs[i].pack = p.id /\ EndOf(p.locs, i) <= Len(p.buf)

\* The first n of its blobs end under the target.
Under(p, n) == \A i \in 1 .. n : EndOf(p.locs, i) < Target

InMemory == [id |-> packID, buf |-> packBuf, locs |-> locs]

AllRows == drained \o completed

\* What a row says of its pack.
Tells(row) ==
    /\ row.size = Len(stored[row.pack]) /\ row.count = Len(row.locs) /\ row.size > Header
    /\ LaidOut(stored[row.pack], row.locs)
    /\ Under(row, Len(row.locs) - refused[row.pack] - 1)
    /\ \A loc \in ToSet(given) : loc.pack = row.pack => loc \in ToSet(row.locs)

RowsInv ==
    /\ \A i, j \in DOMAIN AllRows : AllRows[i].pack = AllRows[j].pack => i = j
    /\ {AllRows[i].pack : i \in DOMAIN AllRows} = DOMAIN stored
    /\ \A i \in DOMAIN AllRows : Tells(AllRows[i])

PackerInv ==
    /\ PackerTypeOK
    /\ packBuf \in Seq(Bytes) /\ locs \in Seq(Places) /\ given \in Seq(Places)
    /\ completed \in Seq(Rows) /\ drained \in Seq(Rows) /\ refused \in [PackIds -> Nat]
    /\ packID # NoPack => Sound(InMemory) /\ Under(InMemory, Len(locs) - refused[packID])
    /\ \A loc \in ToSet(given) : IF loc.pack = packID THEN loc \in ToSet(locs)
                                                      ELSE loc.pack \in DOMAIN stored
    /\ RowsInv

LEMMA BlobType ==
    ASSUME NEW c \in Chunks
    PROVE  Blob(c) \in Seq(Bytes) /\ Len(Blob(c)) = Size[c] /\ Size[c] \in Nat \ {0}
<1>1. Size[c] \in Nat \ {0}
  BY PackerAssumption
<1>2. \A i \in 1 .. Size[c] : <<c, i>> \in Bytes
  BY <1>1 DEF Bytes
<1> QED BY <1>1, <1>2 DEF Blob

LEMMA HeaderType == HeaderBytes \in Seq(Bytes) /\ Len(HeaderBytes) = Header /\ Header \in Nat \ {0}
<1>1. Header \in Nat \ {0}
  BY PackerAssumption
<1>2. \A i \in 1 .. Header : <<"header", i>> \in Bytes
  BY <1>1 DEF Bytes
<1> QED BY <1>1, <1>2 DEF HeaderBytes

\* Bytes appended leave those before them where they are, and come after them.
LEMMA Appended ==
    ASSUME NEW S, NEW s \in Seq(S), NEW t \in Seq(S)
    PROVE  /\ s \o t \in Seq(S) /\ Len(s \o t) = Len(s) + Len(t)
           /\ SubSeq(s \o t, Len(s) + 1, Len(s) + Len(t)) = t
           /\ \A i \in 1 .. Len(s) + 1, j \in 0 .. Len(s) : SubSeq(s \o t, i, j) = SubSeq(s, i, j)
<1>1. /\ s \o t \in Seq(S) /\ Len(s \o t) = Len(s) + Len(t)
      /\ \A i \in 1 .. Len(s) : (s \o t)[i] = s[i]
      /\ \A i \in 1 .. Len(t) : (s \o t)[Len(s) + i] = t[i]
  BY Concatenated
<1> DEFINE u == s \o t
<1> HIDE DEF u
<1>2. SubSeq(u, Len(s) + 1, Len(s) + Len(t)) = t
  <2> DEFINE v == SubSeq(u, Len(s) + 1, Len(s) + Len(t))
  <2>1. v \in Seq(S) /\ Len(v) = Len(t) /\ \A i \in 1 .. Len(t) : v[i] = u[Len(s) + i]
    BY <1>1 DEF u
  <2>2. \A i \in 1 .. Len(t) : v[i] = t[i]
    BY <1>1, <2>1 DEF u
  <2> HIDE DEF v
  <2>3. v = t
    BY <2>1, <2>2
  <2> QED BY <2>3 DEF v
<1>3. ASSUME NEW i \in 1 .. Len(s) + 1, NEW j \in 0 .. Len(s) PROVE SubSeq(u, i, j) = SubSeq(s, i, j)
  <2> DEFINE v == SubSeq(u, i, j)
             w == SubSeq(s, i, j)
             n == IF i <= j THEN j - i + 1 ELSE 0
  <2>1. v \in Seq(S) /\ Len(v) = n /\ \A m \in 1 .. n : v[m] = u[i + m - 1]
    BY <1>1 DEF u
  <2>2. w \in Seq(S) /\ Len(w) = n /\ \A m \in 1 .. n : w[m] = s[i + m - 1]
    OBVIOUS
  <2>3. \A m \in 1 .. n : i + m - 1 \in 1 .. Len(s)
    OBVIOUS
  <2>4. \A m \in 1 .. n : v[m] = w[m]
    BY <1>1, <2>1, <2>2, <2>3 DEF u
  <2>5. n \in Nat
    OBVIOUS
  <2> HIDE DEF v, w, n
  <2>6. v = w
    BY <2>1, <2>2, <2>4, <2>5
  <2> QED BY <2>6 DEF v, w
<1> QED BY <1>1, <1>2, <1>3 DEF u

\* What is read of a location within the bytes.
LEMMA ReadWithin ==
    ASSUME NEW bytes, NEW loc, Len(bytes) \in Nat, loc.offset \in Nat, loc.size \in Nat,
           loc.offset + loc.size <= Len(bytes)
    PROVE  ReadBack(bytes, loc) = SubSeq(bytes, loc.offset + 1, loc.offset + loc.size)
<1> DEFINE end == loc.offset + loc.size
           last == IF end < Len(bytes) THEN end ELSE Len(bytes)
<1>1. last = end
  OBVIOUS
<1>2. ReadBack(bytes, loc) = SubSeq(bytes, loc.offset + 1, last)
  BY DEF ReadBack
<1> HIDE DEF last
<1> QED BY <1>1, <1>2

\* A blob is added at the end of a pack.
LEMMA WithSound ==
    ASSUME NEW p, Sound(p), NEW c \in Chunks
    PROVE  LET q == With(p, c) IN
           /\ Sound(q) /\ q.id = p.id /\ q.locs = Append(p.locs, Location(p, c))
           /\ Len(q.locs) = Len(p.locs) + 1 /\ Len(q.buf) > Header
           /\ \A i \in 1 .. Len(p.locs) : EndOf(q.locs, i) = EndOf(p.locs, i)
<1> DEFINE loc == Location(p, c)
           q == With(p, c)
           n == Len(p.locs)
<1>1. /\ p \in Packs /\ p.id \in PackIds /\ p.buf \in Seq(Bytes) /\ p.locs \in Seq(Places)
      /\ n \in Nat /\ Len(p.buf) \in Nat
  BY DEF Sound, Packs
<1>2. Blob(c) \in Seq(Bytes) /\ Len(Blob(c)) = Size[c] /\ Size[c] \in Nat \ {0} /\ Header \in Nat \ {0}
  BY BlobType, HeaderType
<1>3. /\ loc \in Places /\ loc.chunk = c /\ loc.pack = p.id /\ loc.offset = Len(p.buf)
      /\ loc.size = Size[c]
  BY <1>1, <1>2 DEF Location, Places
<1>4. q.id = p.id /\ q.buf = p.buf \o Blob(c) /\ q.locs = Append(p.locs, loc)
  BY <1>1 DEF With, Packs
<1> DEFINE bytes == p.buf \o Blob(c)
           ls == Append(p.locs, loc)
<1>0. q = [p EXCEPT !.buf = bytes, !.locs = ls]
  BY DEF With
<1> HIDE DEF loc, q
<1>5. q \in Packs
  <2>1. bytes \in Seq(Bytes) /\ ls \in Seq(Places)
    BY <1>1, <1>2, <1>3
  <2> HIDE DEF bytes, ls
  <2> QED BY <1>0, <1>1, <2>1 DEF Packs
<1>6. Len(q.buf) \in Nat /\ Len(q.buf) = Len(p.buf) + Size[c]
  <2> DEFINE b == Blob(c)
             a == p.buf
  <2>1. a \in Seq(Bytes) /\ b \in Seq(Bytes) /\ Len(b) = Size[c]
    BY <1>1, <1>2
  <2>2. q.buf = a \o b
    BY <1>4
  <2> HIDE DEF a, b
  <2>3. Len(a \o b) \in Nat /\ Len(a \o b) = Len(a) + Len(b)
    BY <2>1
  <2> QED BY <2>1, <2>2, <2>3 DEF a, b
<1>21. SubSeq(q.buf, Len(p.buf) + 1, Len(p.buf) + Size[c]) = Blob(c)
  <2> DEFINE b == Blob(c)
             a == p.buf
  <2>1. a \in Seq(Bytes) /\ b \in Seq(Bytes) /\ Len(b) = Size[c]
    BY <1>1, <1>2
  <2> HIDE DEF a, b
  <2>2. SubSeq(a \o b, Len(a) + 1, Len(a) + Len(b)) = b
    BY <2>1, Appended
  <2>3. q.buf = a \o b
    BY <1>4 DEF a, b
  <2> QED BY <2>1, <2>2, <2>3 DEF a, b
<1>22. ASSUME NEW i \in 1 .. Len(p.buf) + 1, NEW j \in 0 .. Len(p.buf)
       PROVE  SubSeq(q.buf, i, j) = SubSeq(p.buf, i, j)
  <2> DEFINE b == Blob(c)
             a == p.buf
  <2>1. a \in Seq(Bytes) /\ b \in Seq(Bytes) /\ i \in 1 .. Len(a) + 1 /\ j \in 0 .. Len(a)
    BY <1>1, <1>2
  <2> HIDE DEF a, b
  <2>2. SubSeq(a \o b, i, j) = SubSeq(a, i, j)
    BY <2>1, Appended
  <2>3. q.buf = a \o b
    BY <1>4 DEF a, b
  <2> QED BY <2>2, <2>3 DEF a, b
<1>7. /\ Len(q.locs) = n + 1 /\ q.locs[n + 1] = loc /\ \A i \in 1 .. n : q.locs[i] = p.locs[i]
  BY <1>1, <1>3, <1>4
<1>8. \A i \in 1 .. n : p.locs[i] \in Places
  BY <1>1
<1>9. /\ LaidOut(p.buf, p.locs) /\ Len(p.buf) >= Header
      /\ \A i \in 1 .. n : p.locs[i].pack = p.id /\ EndOf(p.locs, i) <= Len(p.buf)
  BY DEF Sound
<1>10. \A i \in 0 .. n : EndOf(q.locs, i) = EndOf(p.locs, i)
  BY <1>1, <1>7 DEF EndOf
<1>11. EndOf(q.locs, n + 1) = Len(q.buf) /\ EndOf(p.locs, n) = Len(p.buf)
  <2>1. EndOf(q.locs, n + 1) = loc.offset + loc.size
    BY <1>1, <1>7 DEF EndOf
  <2>2. EndOf(p.locs, n) = Len(p.buf)
    BY <1>9 DEF LaidOut
  <2> QED BY <1>3, <1>6, <2>1, <2>2
<1>12. SubSeq(q.buf, 1, Header) = HeaderBytes
  <2>1. 1 \in 1 .. Len(p.buf) + 1 /\ Header \in 0 .. Len(p.buf)
    BY <1>1, <1>2, <1>9
  <2>2. SubSeq(q.buf, 1, Header) = SubSeq(p.buf, 1, Header)
    BY <1>22, <2>1
  <2>3. SubSeq(p.buf, 1, Header) = HeaderBytes
    BY <1>9 DEF LaidOut
  <2> QED BY <2>2, <2>3
<1>13. ASSUME NEW i \in 1 .. n
       PROVE  /\ q.locs[i].offset = EndOf(q.locs, i - 1) /\ q.locs[i].size = Size[q.locs[i].chunk]
              /\ ReadBack(q.buf, q.locs[i]) = Blob(q.locs[i].chunk)
  <2> DEFINE l == p.locs[i]
             end == l.offset + l.size
  <2>1. l \in Places /\ q.locs[i] = l /\ l.offset \in Nat /\ l.size \in Nat
    BY <1>7, <1>8 DEF Places
  <2>2. /\ l.offset = EndOf(p.locs, i - 1) /\ l.size = Size[l.chunk]
        /\ ReadBack(p.buf, l) = Blob(l.chunk)
    BY <1>9 DEF LaidOut
  <2>3. end <= Len(p.buf) /\ end = EndOf(p.locs, i)
    BY <1>1, <1>9 DEF EndOf
  <2>4. l.offset = EndOf(q.locs, i - 1)
    BY <1>1, <1>10, <2>2
  <2>5. ReadBack(p.buf, l) = SubSeq(p.buf, l.offset + 1, end)
    BY <1>1, <2>1, <2>3, ReadWithin
  <2>6. ReadBack(q.buf, l) = SubSeq(q.buf, l.offset + 1, end)
    <3>1. Len(q.buf) \in Nat /\ end <= Len(q.buf)
      <4>1. Len(p.buf) \in Nat /\ Size[c] \in Nat /\ Len(q.buf) = Len(p.buf) + Size[c]
        BY <1>1, <1>2, <1>6
      <4>2. end \in Nat
        BY <2>1
      <4> HIDE DEF end
      <4> QED BY <2>3, <4>1, <4>2
    <3> QED BY <2>1, <3>1, ReadWithin
  <2>7. SubSeq(q.buf, l.offset + 1, end) = SubSeq(p.buf, l.offset + 1, end)
    <3>1. l.offset + 1 \in 1 .. Len(p.buf) + 1 /\ end \in 0 .. Len(p.buf)
      <4>1. Len(p.buf) \in Nat /\ l.offset \in Nat /\ l.size \in Nat /\ l.offset + l.size <= Len(p.buf)
        BY <1>1, <2>1, <2>3
      <4> HIDE DEF l
      <4> QED BY <4>1
    <3> HIDE DEF end
    <3> QED BY <1>22, <3>1
  <2> QED BY <2>1, <2>2, <2>4, <2>5, <2>6, <2>7
<1>14. /\ loc.offset = EndOf(q.locs, n) /\ ReadBack(q.buf, loc) = Blob(c)
  <2>1. loc.offset = EndOf(q.locs, n)
    BY <1>1, <1>3, <1>10, <1>11
  <2>2. Len(q.buf) \in Nat /\ loc.offset + loc.size = Len(q.buf)
    BY <1>1, <1>2, <1>3, <1>6
  <2>3. ReadBack(q.buf, loc) = SubSeq(q.buf, loc.offset + 1, loc.offset + loc.size)
    <3>1. loc.offset \in Nat /\ loc.size \in Nat /\ loc.offset + loc.size <= Len(q.buf)
      BY <1>1, <1>2, <1>3, <2>2
    <3> QED BY <2>2, <3>1, ReadWithin
  <2>4. loc.offset + 1 = Len(p.buf) + 1 /\ loc.offset + loc.size = Len(p.buf) + Size[c]
    BY <1>3
  <2> QED BY <1>21, <2>1, <2>3, <2>4
<1>15. LaidOut(q.buf, q.locs)
  <2>1. \A i \in 1 .. n + 1 : i \in 1 .. n \/ i = n + 1
    BY <1>1
  <2>2. n + 1 - 1 = n
    BY <1>1
  <2> QED BY <1>3, <1>7, <1>11, <1>12, <1>13, <1>14, <2>1, <2>2 DEF LaidOut
<1>16. \A i \in 1 .. n + 1 : q.locs[i].pack = q.id /\ EndOf(q.locs, i) <= Len(q.buf)
  <2>1. \A i \in 1 .. n : q.locs[i].pack = q.id /\ EndOf(q.locs, i) <= Len(q.buf)
    <3>1. \A i \in 1 .. n : EndOf(p.locs, i) \in Nat
      BY <1>2, <1>8 DEF EndOf, Places
    <3> QED BY <1>1, <1>2, <1>4, <1>6, <1>7, <1>9, <1>10, <3>1
  <2>2. q.locs[n + 1].pack = q.id /\ EndOf(q.locs, n + 1) <= Len(q.buf)
    BY <1>1, <1>2, <1>3, <1>4, <1>6, <1>7, <1>11
  <2>3. \A i \in 1 .. n + 1 : i \in 1 .. n \/ i = n + 1
    BY <1>1
  <2> QED BY <2>1, <2>2, <2>3
<1>17. Len(q.buf) > Header
  BY <1>1, <1>2, <1>6, <1>9
<1>18. Sound(q)
  BY <1>1, <1>2, <1>5, <1>6, <1>7, <1>15, <1>16, <1>17 DEF Sound
<1> QED BY <1>1, <1>4, <1>7, <1>10, <1>17, <1>18 DEF q, loc

\* Pack p is in hand: it is sound and not in the store, and its blobs are under the target but for
\* the last, and those since it was first refused.
InHand(p) ==
    /\ Sound(p) /\ p.id \notin DOMAIN stored
    /\ Under(p, Len(p.locs) - refused[p.id] - 1)

\* What the caller has been told is in p or in the store.
GivenIn(p) ==
    /\ given' \in Seq(Places) /\ drained' = drained
    /\ p.id \in drawn' /\ drawn' \subseteq PackIds /\ drawn \subseteq drawn'
    /\ \A loc \in ToSet(given') : IF loc.pack = p.id THEN loc \in ToSet(p.locs)
                                  ELSE loc.pack \in DOMAIN stored /\ loc \in ToSet(given)

\* The rows, one by one.
LEMMA RowsType ==
    ASSUME PackerInv
    PROVE  /\ AllRows \in Seq(Rows) /\ Len(AllRows) \in Nat /\ DOMAIN AllRows = 1 .. Len(AllRows)
           /\ \A i \in DOMAIN AllRows : AllRows[i] \in Rows /\ AllRows[i].pack \in DOMAIN stored
           /\ DOMAIN stored \subseteq PackIds
<1>1. drained \in Seq(Rows) /\ completed \in Seq(Rows)
  BY DEF PackerInv
<1>2. AllRows \in Seq(Rows)
  BY <1>1 DEF AllRows
<1>3. \A i \in DOMAIN AllRows : AllRows[i].pack \in DOMAIN stored
  BY DEF PackerInv, RowsInv
<1>4. DOMAIN stored \subseteq PackIds
  BY DEF PackerInv, PackerTypeOK
<1> QED BY <1>2, <1>3, <1>4

\* A pack that is not in the store changes no row.
LEMMA RowsKept ==
    ASSUME PackerInv, NEW p, p.id \notin DOMAIN stored, GivenIn(p), UNCHANGED <<completed, stored>>,
           \A k \in DOMAIN stored : refused'[k] = refused[k]
    PROVE  RowsInv'
<1>1. AllRows' = AllRows
  BY DEF GivenIn, AllRows
<1>2. ASSUME NEW i \in DOMAIN AllRows PROVE Tells(AllRows[i])'
  <2> DEFINE row == AllRows[i]
  <2>1. row \in Rows /\ row.pack \in DOMAIN stored /\ row.pack # p.id /\ Tells(row)
    BY <1>2, RowsType DEF PackerInv, RowsInv
  <2>2. refused'[row.pack] = refused[row.pack] /\ row' = row
    BY <1>1, <2>1
  <2>3. \A loc \in ToSet(given') : loc.pack = row.pack => loc \in ToSet(row.locs)
    BY <2>1 DEF GivenIn, Tells
  <2> HIDE DEF row
  <2>4. Tells(row)'
    BY <2>1, <2>2, <2>3 DEF Tells
  <2> QED BY <2>4 DEF row
<1>3. \A i \in DOMAIN AllRows' : Tells(AllRows[i])'
  BY <1>1, <1>2
<1> QED BY <1>1, <1>3 DEF RowsInv, PackerInv

\* The pack goes on.
LEMMA KeptSafe ==
    ASSUME PackerInv, NEW p, InHand(p), GivenIn(p), Kept(p), ~IsFull(p) \/ p.locs = <<>>
    PROVE  PackerInv'
<1>1. /\ p \in Packs /\ p.id \in PackIds /\ p.buf \in Seq(Bytes) /\ p.locs \in Seq(Places)
      /\ Len(p.locs) \in Nat
  BY DEF InHand, Sound, Packs
<1>2. /\ packID' = p.id /\ packBuf' = p.buf /\ locs' = p.locs
      /\ UNCHANGED <<completed, stored, refused>>
  BY DEF Kept
<1>3. InMemory' = p
  BY <1>1, <1>2 DEF InMemory, Packs
<1>4. Under(p, Len(p.locs) - refused[p.id])
  <2>1. refused[p.id] \in Nat /\ Target \in Nat
    BY <1>1, PackerAssumption DEF PackerInv
  <2>2. \A i \in 1 .. Len(p.locs) - refused[p.id] : i \in 1 .. Len(p.locs)
    <3>1. Len(p.locs) \in Nat /\ refused[p.id] \in Nat
      BY <1>1, <2>1
    <3> QED BY <3>1
  <2>3. \A i \in 1 .. Len(p.locs) : EndOf(p.locs, i) <= Len(p.buf) /\ EndOf(p.locs, i) \in Nat
    <3>1. \A i \in 1 .. Len(p.locs) : p.locs[i] \in Places
      BY <1>1
    <3>2. \A i \in 1 .. Len(p.locs) : p.locs[i].offset \in Nat /\ p.locs[i].size \in Nat
      BY <3>1 DEF Places
    <3>3. \A i \in 1 .. Len(p.locs) : EndOf(p.locs, i) \in Nat
      <4> SUFFICES ASSUME NEW i \in 1 .. Len(p.locs) PROVE EndOf(p.locs, i) \in Nat
        OBVIOUS
      <4>1. EndOf(p.locs, i) = p.locs[i].offset + p.locs[i].size
        BY <1>1 DEF EndOf
      <4> QED BY <3>2, <4>1
    <3>4. \A i \in 1 .. Len(p.locs) : EndOf(p.locs, i) <= Len(p.buf)
      BY DEF InHand, Sound
    <3> QED BY <3>3, <3>4
  <2>4. CASE ~IsFull(p)
    <3>1. Len(p.buf) < Target /\ Len(p.buf) \in Nat
      BY <1>1, <2>1, <2>4 DEF IsFull
    <3> QED BY <2>1, <2>2, <2>3, <3>1 DEF Under
  <2>5. CASE p.locs = <<>>
    <3>1. Len(p.locs) = 0
      BY <2>5
    <3> QED BY <2>1, <2>2, <3>1 DEF Under
  <2> QED BY <2>4, <2>5
<1>5. RowsInv'
  BY <1>2, RowsKept DEF InHand
<1>6. PackerTypeOK'
  BY <1>1, <1>2 DEF PackerInv, PackerTypeOK, InHand, GivenIn
<1>7. \A loc \in ToSet(given') : IF loc.pack = packID' THEN loc \in ToSet(locs')
                                                       ELSE loc.pack \in DOMAIN stored'
  BY <1>2 DEF GivenIn
<1>8. Sound(InMemory)' /\ Under(InMemory, Len(locs) - refused[packID])'
  BY <1>2, <1>3, <1>4 DEF InHand, Sound, Under
<1> QED BY <1>1, <1>2, <1>5, <1>6, <1>7, <1>8 DEF PackerInv, GivenIn

\* The store refuses the pack, and it goes on.
LEMMA RefusedSafe ==
    ASSUME PackerInv, NEW p, InHand(p), GivenIn(p), Refused(p)
    PROVE  PackerInv'
<1>1. /\ p \in Packs /\ p.id \in PackIds /\ p.buf \in Seq(Bytes) /\ p.locs \in Seq(Places)
      /\ Len(p.locs) \in Nat
  BY DEF InHand, Sound, Packs
<1>2. /\ packID' = p.id /\ packBuf' = p.buf /\ locs' = p.locs
      /\ UNCHANGED <<completed, stored>> /\ refused' = [refused EXCEPT ![p.id] = refused[p.id] + 1]
      /\ refused \in [PackIds -> Nat]
  BY DEF Refused, PackerInv
<1>3. InMemory' = p
  BY <1>1, <1>2 DEF InMemory, Packs
<1>4. /\ refused' \in [PackIds -> Nat] /\ refused'[p.id] = refused[p.id] + 1
      /\ refused[p.id] \in Nat /\ \A k \in PackIds \ {p.id} : refused'[k] = refused[k]
  BY <1>1, <1>2
<1>5. Len(p.locs) - refused'[p.id] = Len(p.locs) - refused[p.id] - 1
  <2>1. Len(p.locs) \in Nat /\ refused[p.id] \in Nat /\ refused'[p.id] = refused[p.id] + 1
    BY <1>1, <1>4
  <2> QED BY <2>1
<1>6. RowsInv'
  BY <1>2, <1>4, RowsType, RowsKept DEF InHand
<1>7. PackerTypeOK'
  BY <1>1, <1>2 DEF PackerInv, PackerTypeOK, InHand, GivenIn
<1>8. \A loc \in ToSet(given') : IF loc.pack = packID' THEN loc \in ToSet(locs')
                                                       ELSE loc.pack \in DOMAIN stored'
  BY <1>2 DEF GivenIn
<1>9. Sound(InMemory)' /\ Under(InMemory, Len(locs) - refused[packID])'
  BY <1>2, <1>3, <1>5 DEF InHand, Sound, Under
<1> QED BY <1>1, <1>2, <1>4, <1>6, <1>7, <1>8, <1>9 DEF PackerInv, GivenIn

\* The store takes the pack.
LEMMA FlushedSafe ==
    ASSUME PackerInv, NEW p, InHand(p), GivenIn(p), Len(p.buf) > Header, Flushed(p)
    PROVE  PackerInv'
<1> DEFINE r == [pack |-> p.id, size |-> Len(p.buf), count |-> Len(p.locs), locs |-> p.locs]
           n == Len(AllRows)
<1>1. /\ p \in Packs /\ p.id \in PackIds /\ p.buf \in Seq(Bytes) /\ p.locs \in Seq(Places)
      /\ Len(p.locs) \in Nat /\ Len(p.buf) \in Nat
  BY DEF InHand, Sound, Packs
<1>2. /\ stored' = [k \in DOMAIN stored \cup {p.id} |-> IF k = p.id THEN p.buf ELSE stored[k]]
      /\ completed' = Append(completed, r) /\ UNCHANGED <<refused, drained>>
      /\ packID' = NoPack /\ packBuf' = p.buf /\ locs' = p.locs
  BY DEF Flushed, GivenIn
<1>3. /\ r \in Rows /\ r.pack = p.id /\ r.size = Len(p.buf) /\ r.count = Len(p.locs)
      /\ r.locs = p.locs
  BY <1>1 DEF Rows
<1> HIDE DEF r
<1>4. completed \in Seq(Rows) /\ drained \in Seq(Rows)
  BY DEF PackerInv
<1>5. /\ AllRows' \in Seq(Rows) /\ DOMAIN AllRows' = 1 .. n + 1 /\ n \in Nat
      /\ \A i \in 1 .. n : AllRows'[i] = AllRows[i]
      /\ AllRows'[n + 1] = r
  <2>1. drained \o Append(completed, r) = Append(drained \o completed, r)
    BY <1>3, <1>4
  <2>2. AllRows' = Append(AllRows, r)
    BY <1>2, <2>1 DEF AllRows
  <2> QED BY <1>3, <2>2, RowsType
<1>6. DOMAIN AllRows = 1 .. n /\ \A i \in 1 .. n : AllRows[i].pack \in DOMAIN stored \ {p.id}
  BY RowsType DEF InHand
<1>7. /\ DOMAIN stored' = DOMAIN stored \cup {p.id} /\ stored'[p.id] = p.buf
      /\ \A k \in DOMAIN stored \ {p.id} : stored'[k] = stored[k]
  BY <1>2
<1>8. \A i \in 1 .. n + 1 : i \in 1 .. n \/ i = n + 1
  BY <1>5
<1>9. \A i, j \in DOMAIN AllRows' : AllRows'[i].pack = AllRows'[j].pack => i = j
  <2>1. \A i, j \in 1 .. n : AllRows[i].pack = AllRows[j].pack => i = j
    BY <1>6 DEF PackerInv, RowsInv
  <2> QED BY <1>3, <1>5, <1>6, <1>8, <2>1
<1>10. {AllRows'[i].pack : i \in DOMAIN AllRows'} = DOMAIN stored'
  <2>1. {AllRows[i].pack : i \in 1 .. n} = DOMAIN stored
    BY <1>6 DEF PackerInv, RowsInv
  <2>2. n + 1 \in DOMAIN AllRows' /\ AllRows'[n + 1].pack = p.id
    BY <1>3, <1>5
  <2>3. \A i \in 1 .. n : i \in DOMAIN AllRows' /\ AllRows'[i].pack = AllRows[i].pack
    BY <1>5
  <2> QED BY <1>5, <1>7, <1>8, <2>1, <2>2, <2>3
<1>11. ASSUME NEW i \in 1 .. n PROVE Tells(AllRows[i])'
  <2> DEFINE row == AllRows[i]
  <2>1. row \in Rows /\ row.pack \in DOMAIN stored \ {p.id} /\ Tells(row) /\ row' = row
    BY <1>5, <1>6, RowsType DEF PackerInv, RowsInv
  <2>2. \A loc \in ToSet(given') : loc.pack = row.pack => loc \in ToSet(row.locs)
    BY <2>1 DEF GivenIn, Tells
  <2>3. stored'[row.pack] = stored[row.pack] /\ refused' = refused
    BY <1>2, <1>7, <2>1
  <2> HIDE DEF row
  <2>4. Tells(row)'
    BY <2>1, <2>2, <2>3 DEF Tells
  <2> QED BY <2>4 DEF row
<1>12. ASSUME NEW i, i = n + 1 PROVE Tells(AllRows[i])'
  <2> DEFINE row == AllRows[i]
  <2>1. row' = r
    BY <1>5, <1>12
  <2>2. \A loc \in ToSet(given') : loc.pack = r.pack => loc \in ToSet(r.locs)
    BY <1>3 DEF GivenIn
  <2>3. LaidOut(stored'[r.pack], r.locs) /\ r.size = Len(stored'[r.pack])
    BY <1>3, <1>7 DEF InHand, Sound
  <2>4. Under(r, Len(r.locs) - refused'[r.pack] - 1)
    BY <1>2, <1>3 DEF InHand, Under
  <2> QED BY <1>3, <2>1, <2>2, <2>3, <2>4 DEF Tells, Under
<1>13. RowsInv'
  <2>1. \A i \in DOMAIN AllRows' : Tells(AllRows[i])'
    BY <1>5, <1>8, <1>11, <1>12
  <2> QED BY <1>9, <1>10, <2>1 DEF RowsInv
<1>14. PackerTypeOK'
  BY <1>1, <1>2, <1>7 DEF PackerInv, PackerTypeOK, InHand, GivenIn
<1>15. \A loc \in ToSet(given') : loc.pack \in DOMAIN stored' /\ loc.pack # NoPack
  <2>1. \A loc \in ToSet(given') : loc.pack \in PackIds
    <3>1. \A i \in DOMAIN given' : given'[i] \in Places
      BY DEF GivenIn
    <3> QED BY <3>1 DEF ToSet, Places
  <2> QED BY <1>7, <2>1, PackerAssumption DEF GivenIn
<1>16. completed' \in Seq(Rows)
  BY <1>2, <1>3, <1>4
<1> QED BY <1>1, <1>2, <1>4, <1>13, <1>14, <1>15, <1>16 DEF PackerInv, GivenIn

\* The pack that Add finds.
LEMMA CurrentInHand ==
    ASSUME PackerInv, NEW k \in PackIds, Draws(k)
    PROVE  LET p == Current(k) IN
           /\ Sound(p) /\ p.id = k /\ k \notin DOMAIN stored /\ k \in drawn'
           /\ drawn \subseteq drawn' /\ drawn' \subseteq PackIds
           /\ Under(p, Len(p.locs) - refused[k])
           /\ packID = NoPack => p.locs = <<>>
           /\ \A loc \in ToSet(given) : IF loc.pack = k THEN loc \in ToSet(p.locs)
                                                        ELSE loc.pack \in DOMAIN stored
<1>1. /\ DOMAIN stored \subseteq drawn /\ drawn \subseteq PackIds /\ k \in drawn'
      /\ drawn' = drawn \cup {k}
      /\ packID # NoPack => packID \in drawn \ DOMAIN stored
  BY DEF PackerInv, PackerTypeOK, Draws
<1>2. \A loc \in ToSet(given) : loc.pack \in PackIds
  <2>1. \A i \in DOMAIN given : given[i] \in Places
    BY DEF PackerInv
  <2> QED BY <2>1 DEF ToSet, Places
<1>3. CASE packID # NoPack
  <2>1. k = packID /\ Current(k) = InMemory
    BY <1>3 DEF Draws, Current, InMemory
  <2>2. InMemory.id = packID /\ InMemory.locs = locs
    BY DEF InMemory
  <2> QED BY <1>1, <1>3, <2>1, <2>2 DEF PackerInv
<1>4. CASE packID = NoPack
  <2> DEFINE p == Current(k)
  <2>1. p = [id |-> k, buf |-> HeaderBytes, locs |-> <<>>] /\ k \notin drawn
    BY <1>4 DEF Draws, Current
  <2>2. p.id = k /\ p.buf = HeaderBytes /\ p.locs = <<>> /\ Len(p.locs) = 0
    BY <2>1
  <2>3. p \in Packs
    <3>1. <<>> \in Seq(Places)
      OBVIOUS
    <3> QED BY <2>1, <3>1, HeaderType DEF Packs
  <2> HIDE DEF p
  <2>4. LaidOut(p.buf, p.locs)
    <3>1. SubSeq(HeaderBytes, 1, Header) = HeaderBytes
      BY HeaderType
    <3> QED BY <2>2, <3>1, HeaderType DEF LaidOut, EndOf
  <2>5. Sound(p)
    BY <2>2, <2>3, <2>4, HeaderType DEF Sound
  <2>6. Under(p, Len(p.locs) - refused[k])
    <3>1. refused[k] \in Nat
      BY DEF PackerInv
    <3> QED BY <2>2, <3>1 DEF Under
  <2>7. k \notin DOMAIN stored
    BY <1>1, <2>1
  <2>8. \A loc \in ToSet(given) : loc.pack # k /\ loc.pack \in DOMAIN stored
    BY <1>1, <1>2, <1>4, <2>1, PackerAssumption DEF PackerInv
  <2> QED BY <1>1, <2>2, <2>5, <2>6, <2>7, <2>8 DEF p
<1> QED BY <1>3, <1>4

\* A pack to which a blob has been added.
LEMMA AddedInHand ==
    ASSUME PackerInv, NEW k \in PackIds, Draws(k), NEW c \in Chunks, UNCHANGED drained,
           given' = given \/ given' = Append(given, Location(Current(k), c))
    PROVE  LET q == With(Current(k), c) IN InHand(q) /\ GivenIn(q) /\ Len(q.buf) > Header
<1> DEFINE p == Current(k)
           q == With(p, c)
           loc == Location(p, c)
<1>1. /\ Sound(p) /\ p.id = k /\ k \notin DOMAIN stored /\ k \in drawn'
      /\ drawn \subseteq drawn' /\ drawn' \subseteq PackIds
      /\ Under(p, Len(p.locs) - refused[k])
      /\ \A l \in ToSet(given) : IF l.pack = k THEN l \in ToSet(p.locs) ELSE l.pack \in DOMAIN stored
  BY CurrentInHand
<1> HIDE DEF p
<1>2. /\ Sound(q) /\ q.id = k /\ q.locs = Append(p.locs, loc) /\ Len(q.locs) = Len(p.locs) + 1
      /\ Len(q.buf) > Header
      /\ \A i \in 1 .. Len(p.locs) : EndOf(q.locs, i) = EndOf(p.locs, i)
  BY <1>1, WithSound
<1>3. p.locs \in Seq(Places) /\ Len(p.locs) \in Nat /\ q.locs \in Seq(Places)
  BY <1>1, <1>2 DEF Sound, Packs
<1>4. loc \in Places /\ loc.pack = k
  <2>1. q.locs[Len(p.locs) + 1] = loc
    BY <1>2, <1>3
  <2>2. Len(p.locs) + 1 \in 1 .. Len(q.locs)
    BY <1>2, <1>3
  <2>3. loc \in Places
    BY <1>3, <2>1, <2>2
  <2>4. loc.pack = k
    BY <1>1 DEF loc, Location
  <2> QED BY <2>3, <2>4
<1> HIDE DEF q, loc
<1>5. loc \in ToSet(q.locs) /\ ToSet(p.locs) \subseteq ToSet(q.locs)
  <2>1. /\ DOMAIN q.locs = 1 .. Len(p.locs) + 1 /\ q.locs[Len(p.locs) + 1] = loc
        /\ \A i \in 1 .. Len(p.locs) : q.locs[i] = p.locs[i]
    BY <1>2, <1>3, <1>4
  <2>2. DOMAIN p.locs = 1 .. Len(p.locs)
    BY <1>3
  <2> QED BY <1>3, <2>1, <2>2 DEF ToSet
<1>6. Under(q, Len(q.locs) - refused[k] - 1)
  <2>1. refused[k] \in Nat
    BY DEF PackerInv
  <2>2. Len(q.locs) - refused[k] - 1 = Len(p.locs) - refused[k]
    BY <1>2, <1>3, <2>1
  <2>3. \A i \in 1 .. Len(p.locs) - refused[k] : i \in 1 .. Len(p.locs)
    BY <1>3, <2>1
  <2> QED BY <1>1, <1>2, <2>2, <2>3 DEF Under
<1>7. InHand(q)
  BY <1>1, <1>2, <1>6 DEF InHand
<1>8. given' \in Seq(Places) /\ \A l \in ToSet(given') : l \in ToSet(given) \/ l = loc
  <2>1. given \in Seq(Places)
    BY DEF PackerInv
  <2>2. CASE given' = given
    BY <2>1, <2>2
  <2>3. CASE given' = Append(given, loc)
    <3>1. /\ given' \in Seq(Places) /\ DOMAIN given' = 1 .. Len(given) + 1
          /\ given'[Len(given) + 1] = loc /\ DOMAIN given = 1 .. Len(given)
          /\ \A i \in 1 .. Len(given) : given'[i] = given[i]
      BY <1>4, <2>1, <2>3
    <3>2. \A i \in 1 .. Len(given) + 1 : i \in 1 .. Len(given) \/ i = Len(given) + 1
      BY <2>1
    <3> QED BY <3>1, <3>2 DEF ToSet
  <2> QED BY <2>2, <2>3 DEF loc, p
<1>9. GivenIn(q)
  BY <1>1, <1>2, <1>4, <1>5, <1>8 DEF GivenIn
<1> QED BY <1>2, <1>7, <1>9 DEF q, p

\* The pack in memory, when nothing is added to it.
LEMMA MemoryInHand ==
    ASSUME PackerInv, packID # NoPack, UNCHANGED <<given, drained, drawn>>
    PROVE  Current(NoPack) = InMemory /\ InHand(InMemory) /\ GivenIn(InMemory)
<1>1. Current(NoPack) = InMemory /\ InMemory.id = packID /\ InMemory.locs = locs
  BY DEF Current, InMemory
<1>2. Sound(InMemory) /\ Under(InMemory, Len(locs) - refused[packID])
  BY DEF PackerInv
<1>3. /\ packID \in PackIds /\ packID \in drawn \ DOMAIN stored /\ drawn \subseteq PackIds
      /\ refused[packID] \in Nat /\ Len(locs) \in Nat /\ given \in Seq(Places)
  BY DEF PackerInv, PackerTypeOK
<1>4. \A i \in 1 .. Len(locs) - refused[packID] - 1 : i \in 1 .. Len(locs) - refused[packID]
  BY <1>3
<1>5. Under(InMemory, Len(locs) - refused[packID] - 1)
  BY <1>2, <1>4 DEF Under
<1>6. InHand(InMemory)
  BY <1>1, <1>2, <1>3, <1>5 DEF InHand
<1>7. GivenIn(InMemory)
  BY <1>1, <1>3 DEF GivenIn, PackerInv
<1> QED BY <1>1, <1>6, <1>7

\* Rows stay true of what stays as it is.
LEMMA RowsSame ==
    ASSUME PackerInv, UNCHANGED <<stored, given, refused>>, AllRows' = AllRows
    PROVE  RowsInv'
<1>1. ASSUME NEW i \in DOMAIN AllRows PROVE Tells(AllRows[i])'
  <2> DEFINE row == AllRows[i]
  <2>1. Tells(row) /\ row' = row
    BY DEF PackerInv, RowsInv
  <2> HIDE DEF row
  <2>2. Tells(row)'
    BY <2>1 DEF Tells
  <2> QED BY <2>2 DEF row
<1>2. \A i \in DOMAIN AllRows' : Tells(AllRows[i])'
  BY <1>1
<1> QED BY <1>2 DEF PackerInv, RowsInv

\* The pack in memory stays as it is.
LEMMA MemorySame ==
    ASSUME PackerInv, UNCHANGED <<packID, packBuf, locs, stored, given, drawn, refused>>,
           AllRows' = AllRows, completed' \in Seq(Rows), drained' \in Seq(Rows)
    PROVE  PackerInv'
<1>1. RowsInv'
  BY RowsSame
<1>2. InMemory' = InMemory
  BY DEF InMemory
<1>3. packID' # NoPack => Sound(InMemory)' /\ Under(InMemory, Len(locs) - refused[packID])'
  BY <1>2 DEF PackerInv, Sound, Under
<1>4. PackerTypeOK'
  BY DEF PackerInv, PackerTypeOK
<1> QED BY <1>1, <1>3, <1>4 DEF PackerInv

LEMMA PackerStep == PackerInv /\ [PackerNext]_packerVars => PackerInv'
<1> SUFFICES ASSUME PackerInv, [PackerNext]_packerVars PROVE PackerInv'
  OBVIOUS
<1>1. ASSUME NEW k \in PackIds, NEW c \in Chunks, Add(c, k) PROVE PackerInv'
  <2> DEFINE q == With(Current(k), c)
  <2>1. InHand(q) /\ GivenIn(q) /\ Len(q.buf) > Header
    BY <1>1, AddedInHand DEF Add
  <2>2. IF IsFull(q) THEN Flushed(q) ELSE Kept(q)
    BY <1>1 DEF Add
  <2> HIDE DEF q
  <2> QED BY <2>1, <2>2, FlushedSafe, KeptSafe
<1>2. ASSUME NEW k \in PackIds, NEW c \in Chunks, AddRefused(c, k) PROVE PackerInv'
  <2> DEFINE q == With(Current(k), c)
  <2>1. InHand(q) /\ GivenIn(q)
    BY <1>2, AddedInHand DEF AddRefused
  <2>2. Refused(q)
    BY <1>2 DEF AddRefused
  <2> HIDE DEF q
  <2> QED BY <2>1, <2>2, RefusedSafe
<1>3. ASSUME NEW k \in PackIds, AddUncompressed(k) PROVE PackerInv'
  <2> DEFINE p == Current(k)
  <2>1. Draws(k) /\ Kept(p) /\ UNCHANGED <<given, drained>> /\ packID = NoPack
    BY <1>3 DEF AddUncompressed
  <2>2. /\ Sound(p) /\ p.id = k /\ k \notin DOMAIN stored /\ k \in drawn'
        /\ drawn \subseteq drawn' /\ drawn' \subseteq PackIds
        /\ p.locs = <<>>
        /\ \A loc \in ToSet(given) : IF loc.pack = k THEN loc \in ToSet(p.locs)
                                                     ELSE loc.pack \in DOMAIN stored
    BY <2>1, CurrentInHand
  <2> HIDE DEF p
  <2>3. GivenIn(p)
    BY <2>1, <2>2 DEF GivenIn, PackerInv
  <2>4. InHand(p)
    <3>1. refused[k] \in Nat /\ Len(p.locs) = 0
      BY <2>2 DEF PackerInv
    <3>2. Under(p, Len(p.locs) - refused[k] - 1)
      BY <3>1 DEF Under
    <3> QED BY <2>2, <3>2 DEF InHand
  <2> QED BY <2>1, <2>2, <2>3, <2>4, KeptSafe
<1>4. CASE FlushNothing
  <2>1. packID' = NoPack /\ UNCHANGED <<packBuf, locs, completed, stored, given, drained, drawn, refused>>
    BY <1>4 DEF FlushNothing
  <2>2. \A loc \in ToSet(given) : loc.pack \in DOMAIN stored /\ loc.pack # NoPack
    <3>1. \A loc \in ToSet(given) : loc.pack \in PackIds
      <4>1. \A i \in DOMAIN given : given[i] \in Places
        BY DEF PackerInv
      <4> QED BY <4>1 DEF ToSet, Places
    <3>2. ASSUME NEW loc \in ToSet(given), loc.pack = packID PROVE FALSE
      <4>1. packID # NoPack /\ loc \in ToSet(locs)
        BY <3>1, <3>2, PackerAssumption DEF PackerInv
      <4>2. Len(packBuf) <= Header
        BY <1>4, <4>1 DEF FlushNothing, IsEmpty
      <4>3. Sound(InMemory) /\ InMemory.locs = locs /\ InMemory.buf = packBuf
        BY <4>1 DEF PackerInv, InMemory
      <4>4. locs # <<>> /\ Len(packBuf) \in Nat /\ Header \in Nat
        BY <4>1, HeaderType DEF ToSet, PackerInv
      <4> QED BY <4>2, <4>3, <4>4 DEF Sound
    <3> QED BY <3>1, <3>2, PackerAssumption DEF PackerInv
  <2>3. RowsInv'
    BY <2>1, RowsSame DEF AllRows
  <2> QED BY <2>1, <2>2, <2>3 DEF PackerInv, PackerTypeOK
<1>5. CASE Flush \/ FlushRefused
  <2>1. packID # NoPack /\ Len(packBuf) > Header /\ UNCHANGED <<given, drained, drawn>>
    <3>1. Len(packBuf) \in Nat /\ Header \in Nat
      BY HeaderType DEF PackerInv
    <3> QED BY <1>5, <3>1 DEF Flush, FlushRefused, IsEmpty
  <2>2. Current(NoPack) = InMemory /\ InHand(InMemory) /\ GivenIn(InMemory)
    BY <2>1, MemoryInHand
  <2>3. Len(InMemory.buf) > Header
    BY <2>1 DEF InMemory
  <2>4. Flushed(InMemory) \/ Refused(InMemory)
    BY <1>5, <2>2 DEF Flush, FlushRefused
  <2> HIDE DEF InMemory
  <2> QED BY <2>2, <2>3, <2>4, FlushedSafe, RefusedSafe
<1>6. CASE Drain
  <2>1. /\ drained' = drained \o completed /\ completed' = <<>>
        /\ UNCHANGED <<packID, packBuf, locs, stored, given, drawn, refused>>
    BY <1>6 DEF Drain
  <2>2. drained' \in Seq(Rows) /\ completed' \in Seq(Rows)
    BY <2>1 DEF PackerInv
  <2>3. AllRows' = AllRows
    BY <2>1, <2>2 DEF AllRows
  <2> QED BY <2>1, <2>2, <2>3, MemorySame
<1>7. CASE UNCHANGED packerVars
  <2>1. AllRows' = AllRows /\ UNCHANGED <<completed, drained>>
    BY <1>7 DEF AllRows, packerVars
  <2>2. completed' \in Seq(Rows) /\ drained' \in Seq(Rows)
    BY <2>1 DEF PackerInv
  <2> QED BY <1>7, <2>1, <2>2, MemorySame DEF packerVars
<1> QED BY <1>1, <1>2, <1>3, <1>4, <1>5, <1>6, <1>7 DEF PackerNext

LEMMA InitPacker == PackerInit => PackerInv
<1> SUFFICES ASSUME PackerInit PROVE PackerInv
  OBVIOUS
<1>1. /\ packBuf = <<>> /\ locs = <<>> /\ given = <<>> /\ completed = <<>> /\ drained = <<>>
      /\ packID = NoPack /\ drawn = {} /\ DOMAIN stored = {} /\ refused = [k \in PackIds |-> 0]
  BY DEF PackerInit
<1>2. AllRows = <<>> /\ ToSet(given) = {}
  <2>1. <<>> \o <<>> = <<>>
    OBVIOUS
  <2> QED BY <1>1, <2>1 DEF AllRows, ToSet
<1>3. RowsInv
  <2>1. DOMAIN AllRows = {}
    BY <1>2
  <2>2. {AllRows[i].pack : i \in DOMAIN AllRows} = {}
    BY <2>1
  <2> QED BY <1>1, <2>1, <2>2 DEF RowsInv
<1>4. <<>> \in Seq(Bytes) /\ <<>> \in Seq(Places) /\ <<>> \in Seq(Rows)
  OBVIOUS
<1>5. PackerTypeOK
  BY <1>1 DEF PackerTypeOK
<1> QED BY <1>1, <1>2, <1>3, <1>4, <1>5 DEF PackerInv

LEMMA PackerInvariance == PackerSpec => []PackerInv
BY InitPacker, PackerStep, PTL DEF PackerSpec

\* No identifier is put twice, and the pack under way is not in the store.
THEOREM PackerTypeCorrect == PackerSpec => []PackerTypeOK
<1>1. PackerInv => PackerTypeOK
  BY DEF PackerInv
<1> QED BY <1>1, PackerInvariance, PTL

\* A location that Add has returned is final (packer.go:52), for chunks of any sizes and any
\* target: the blob is there, in the store or in memory, whatever has been refused and put since.
THEOREM LocationsFinal == PackerSpec => []ReadsBack
<1>1. PackerInv => ReadsBack
  <2> SUFFICES ASSUME PackerInv, NEW loc \in ToSet(given)
               PROVE  IF loc.pack = packID THEN ReadBack(packBuf, loc) = Blob(loc.chunk)
                      ELSE loc.pack \in DOMAIN stored /\ ReadBack(stored[loc.pack], loc) = Blob(loc.chunk)
    BY DEF ReadsBack
  <2>1. loc.pack \in PackIds
    <3>1. \A i \in DOMAIN given : given[i] \in Places
      BY DEF PackerInv
    <3> QED BY <3>1 DEF ToSet, Places
  <2>2. ASSUME NEW bytes, NEW ls \in Seq(Places), LaidOut(bytes, ls), loc \in ToSet(ls)
        PROVE  ReadBack(bytes, loc) = Blob(loc.chunk)
    <3>1. PICK i \in 1 .. Len(ls) : ls[i] = loc
      BY <2>2 DEF ToSet
    <3> QED BY <2>2, <3>1 DEF LaidOut
  <2>3. CASE loc.pack = packID
    <3>1. packID # NoPack /\ loc \in ToSet(locs) /\ locs \in Seq(Places)
      BY <2>1, <2>3, PackerAssumption DEF PackerInv
    <3>2. LaidOut(packBuf, locs)
      BY <3>1 DEF PackerInv, Sound, InMemory
    <3> QED BY <2>2, <2>3, <3>1, <3>2
  <2>4. CASE loc.pack # packID
    <3>1. loc.pack \in DOMAIN stored
      BY <2>4 DEF PackerInv
    <3>2. PICK i \in DOMAIN AllRows : AllRows[i].pack = loc.pack
      BY <3>1 DEF PackerInv, RowsInv
    <3>3. /\ Tells(AllRows[i]) /\ AllRows[i] \in Rows
      BY RowsType DEF PackerInv, RowsInv
    <3>4. LaidOut(stored[loc.pack], AllRows[i].locs) /\ loc \in ToSet(AllRows[i].locs)
      BY <3>2, <3>3 DEF Tells
    <3> QED BY <2>2, <2>4, <3>1, <3>3, <3>4 DEF Rows
  <2> QED BY <2>3, <2>4
<1> QED BY <1>1, PackerInvariance, PTL

\* What is drained accounts for every byte of every pack, once.
THEOREM EveryByteAccounted == PackerSpec => []Accounted
<1>1. PackerInv => Accounted
  <2> SUFFICES ASSUME PackerInv PROVE Accounted
    OBVIOUS
  <2>1. \A i \in DOMAIN AllRows :
          /\ AllRows[i].size = Len(stored[AllRows[i].pack])
          /\ AllRows[i].count = Len(AllRows[i].locs)
          /\ LaidOut(stored[AllRows[i].pack], AllRows[i].locs)
          /\ \A loc \in ToSet(given) : loc.pack = AllRows[i].pack => loc \in ToSet(AllRows[i].locs)
    BY DEF PackerInv, RowsInv, Tells
  <2> QED BY <2>1 DEF PackerInv, RowsInv, Accounted, AllRows
<1> QED BY <1>1, PackerInvariance, PTL

\* A pack that is put has blobs, and is under the target but for its last blob and those added
\* since the store first refused it.
THEOREM PacksBounded == PackerSpec => []Bounded
<1>1. PackerInv => Bounded
  <2> SUFFICES ASSUME PackerInv PROVE Bounded
    OBVIOUS
  <2>1. \A i \in DOMAIN AllRows :
          /\ AllRows[i].size > Header
          /\ \A n \in 1 .. Len(AllRows[i].locs) - refused[AllRows[i].pack] - 1 :
               EndOf(AllRows[i].locs, n) < Target
    BY DEF PackerInv, RowsInv, Tells, Under
  <2> QED BY <2>1 DEF Bounded, AllRows
<1> QED BY <1>1, PackerInvariance, PTL

-----------------------------------------------------------------------------
(* The stages together.                                                    *)

PipelineInv == SourceInv /\ ChunkerInv /\ PackerInv

\* What a stage is doing touches no other.
LEMMA OthersStay ==
    /\ SourceInv /\ UNCHANGED vars => SourceInv'
    /\ ChunkerInv /\ UNCHANGED chunkerVars => ChunkerInv'
    /\ PackerInv /\ UNCHANGED packerVars => PackerInv'
BY SourceStutters, ChunkerStep, PackerStep

\* Every stage is as it is by itself while the others work, for files, sizes and masks of any kind.
THEOREM PipelineTypeCorrect == PipelineSpec => []PipelineTypeOK
<1>1. PipelineInit => PipelineInv
  BY InitSource, InitChunker, InitPacker DEF PipelineInit, PipelineInv
<1>2. PipelineInv /\ [NextSource \/ NextChunker \/ NextPacker]_pipelineVars => PipelineInv'
  <2> SUFFICES ASSUME PipelineInv, [NextSource \/ NextChunker \/ NextPacker]_pipelineVars
               PROVE  PipelineInv'
    OBVIOUS
  <2>1. CASE NextSource
    <3>1. Next /\ UNCHANGED chunkerVars /\ UNCHANGED packerVars
      BY <2>1 DEF NextSource
    <3>2. SourceInv'
      BY <3>1, TickSafe, WriteSafe, LstatSafe, OpenSafe, ReadSafe, RecordSafe, EndSafe
      DEF Next, PipelineInv
    <3> QED BY <3>1, <3>2, OthersStay DEF PipelineInv
  <2>2. CASE NextChunker
    <3>1. ChunkerNext /\ UNCHANGED vars /\ UNCHANGED packerVars
      BY <2>2 DEF NextChunker
    <3> QED BY <3>1, ChunkerStep, OthersStay DEF PipelineInv
  <2>3. CASE NextPacker
    <3>1. PackerNext /\ UNCHANGED vars /\ UNCHANGED chunkerVars
      BY <2>3 DEF NextPacker
    <3> QED BY <3>1, PackerStep, OthersStay DEF PipelineInv
  <2>4. CASE UNCHANGED pipelineVars
    <3>1. UNCHANGED vars /\ UNCHANGED chunkerVars /\ UNCHANGED packerVars
      BY <2>4 DEF pipelineVars
    <3> QED BY <3>1, OthersStay DEF PipelineInv
  <2> QED BY <2>1, <2>2, <2>3, <2>4
<1>3. PipelineInv => PipelineTypeOK
  BY DEF PipelineInv, PipelineTypeOK, ChunkerInv, PackerInv
<1> QED BY <1>1, <1>2, <1>3, PTL DEF PipelineSpec
=============================================================================
