------------------------------ MODULE Selection ------------------------------
(***************************************************************************)
(* Which snapshot a command means: catalog.Resolve on the snapshots that   *)
(* LoadSnapshots returns, for zeaback restore, ls and forget.  Time is     *)
(* counted in parts of a second; identifiers begin with the second.        *)
(***************************************************************************)
EXTENDS Naturals, Sequences, FiniteSets, SequencesExt

CONSTANTS
    MaxTime,        \* a bound: the times are 1 .. MaxTime
    Parts,          \* the parts a second has
    Randoms,        \* what the random ends of identifiers may be
    Events,         \* event labels
    NoEvent,        \* no label
    None            \* no snapshot: Resolve returns an error

ASSUME SelectionAssumption ==
    /\ {MaxTime, Parts} \subseteq Nat \ {0} /\ Randoms \subseteq Nat
    /\ NoEvent \notin Events

VARIABLE records    \* the snapshot records

Snapshot == [id : Nat \X Nat, time : 1 .. MaxTime, event : Events \cup {NoEvent}]

SelectionInit == records = {}

\* A mistake: an identifier is of the second alone.
RecordBySecond(time, random, event) ==
    records' = records \cup {[id |-> <<time \div Parts, 0>>, time |-> time, event |-> event]}

\* newSnapshotID, the time being that of the snapshot.  The clocks of hosts may differ, so that
\* snapshots come in any order of time; the random ends keep their identifiers apart.
Record(time, random, event) ==
    LET id == <<time \div Parts, random>> IN
    /\ \A s \in records : s.id # id
    /\ records' = records \cup {[id |-> id, time |-> time, event |-> event]}

\* A mistake: the order of the listing, by identifier, is kept.
Listed(s, t) == s.id[1] < t.id[1] \/ (s.id[1] = t.id[1] /\ s.id[2] < t.id[2])

\* Less of sortSnapshots.
Before(s, t) ==
    \/ s.time < t.time
    \/ s.time = t.time /\ (s.id[1] < t.id[1] \/ (s.id[1] = t.id[1] /\ s.id[2] < t.id[2]))

\* LoadSnapshots: the snapshots, each after those before it.
Nth(i) == CHOOSE s \in records : Cardinality({t \in records : Before(t, s)}) = i - 1

Sorted == [i \in 1 .. Cardinality(records) |-> Nth(i)]

\* What a selector may say: an identifier or the beginning of one, <<>> for "" or "latest";
\* a time; a label, also beside a time, and then perhaps the time of --before.  0 is no time.
Selector(id, at, event, before) == [id |-> id, at |-> at, event |-> event, before |-> before]

IdParts == UNION {{<<sec>>, <<sec, random>>} : sec \in 0 .. MaxTime \div Parts, random \in Randoms}

Selectors ==
    {Selector(id, 0, NoEvent, 0) : id \in IdParts \cup {<<>>}}
    \cup {Selector(<<>>, at, NoEvent, 0) : at \in 1 .. MaxTime}
    \cup {Selector(<<>>, at, event, before) : at \in {0, 1}, event \in Events, before \in 0 .. MaxTime}

\* The snapshot at the last of places, or at the first.
LastAt(list, places) ==
    IF places = {} THEN None ELSE list[CHOOSE i \in places : \A j \in places : j <= i]
FirstAt(list, places) ==
    IF places = {} THEN None ELSE list[CHOOSE i \in places : \A j \in places : i <= j]

\* The loop over all snapshots that keeps the last match.
ByEvent(list, sel) ==
    LastAt(list, {i \in DOMAIN list : list[i].event = sel.event /\ (sel.before # 0 => list[i].time <= sel.before)})

\* A mistake: a snapshot of the very time ends the loop.
StrictlyByTime(list, sel) ==
    LastAt(list, {i \in DOMAIN list : \A j \in 1 .. i : list[j].time < sel.at})

\* The loop that ends at the first snapshot after the time.
ByTime(list, sel) == LastAt(list, {i \in DOMAIN list : \A j \in 1 .. i : list[j].time <= sel.at})

\* The exact identifier, else the only one that begins so.
ById(list, sel) ==
    LET exact == {i \in DOMAIN list : list[i].id = sel.id}
        matches == {i \in DOMAIN list : IsPrefix(sel.id, list[i].id)}
    IN IF exact = {} /\ Cardinality(matches) # 1 THEN None
       ELSE FirstAt(list, IF exact # {} THEN exact ELSE matches)

Resolve(list, sel) ==
    CASE list = <<>> -> None
      [] list # <<>> /\ sel.event # NoEvent -> ByEvent(list, sel)
      [] list # <<>> /\ sel.event = NoEvent /\ sel.at # 0 -> ByTime(list, sel)
      [] list # <<>> /\ sel.event = NoEvent /\ sel.at = 0 ->
           IF sel.id = <<>> THEN Last(list) ELSE ById(list, sel)

\* zeaback forget of one argument, which may be empty.
Forget(id) ==
    LET s == Resolve(Sorted, Selector(id, 0, NoEvent, 0)) IN
    /\ s # None
    /\ records' = records \ {s}

SelectionNext ==
    \/ \E time \in 1 .. MaxTime, random \in Randoms, event \in Events \cup {NoEvent} :
         Record(time, random, event)
    \/ \E id \in IdParts \cup {<<>>} : Forget(id)

SelectionSpec == SelectionInit /\ [][SelectionNext]_records

-----------------------------------------------------------------------------
SelectionTypeOK ==
    /\ records \subseteq Snapshot /\ IsFiniteSet(records)
    /\ \A s, t \in records : s.id = t.id => s = t

\* The latest of a set, by time and then by identifier.
IsLatest(s, set) == s \in set /\ \A t \in set \ {s} : Before(t, s)

Meant(sel) ==
    IF sel.event # NoEvent
    THEN {s \in records : s.event = sel.event /\ (sel.before = 0 \/ s.time <= sel.before)}
    ELSE {s \in records : sel.at = 0 \/ s.time <= sel.at}

\* select.go:19: a time or a label selects the latest snapshot up to that time or with that label,
\* in whatever order the snapshots were recorded; an identifier selects the snapshot that has it,
\* or the only one that begins with it, and never one of several.
ResolveRight == \A sel \in Selectors :
    LET s == Resolve(Sorted, sel) IN
    IF sel.id = <<>> THEN IF Meant(sel) = {} THEN s = None ELSE IsLatest(s, Meant(sel))
    ELSE LET begun == {t \in records : IsPrefix(sel.id, t.id)} IN
         IF \E t \in begun : t.id = sel.id \/ begun = {t} THEN s \in begun /\ (s.id = sel.id \/ begun = {s})
         ELSE s = None

\* What a point in time means does not change behind the user's back: only forgetting the snapshot
\* or recording a later one that is not after that time makes --at return another (select.go:53).
StableStep == \A at \in 1 .. MaxTime :
    LET sel == Selector(<<>>, at, NoEvent, 0)
        s == Resolve(Sorted, sel)
        t == Resolve(Sorted, sel)'
    IN t # s => s \in records \ records' \/ (t \in records' \ records /\ t.time <= at)

TimeTravelStable == [][StableStep]_records
=============================================================================
