--------------------------- MODULE CommandsSafety ---------------------------
(***************************************************************************)
(* Which snapshot a command means, for any snapshots and selectors; and    *)
(* the identities of repositories and the user's registry of them, for any *)
(* number of processes, names and directories: what init and set-default   *)
(* keep of each other's work, also when they run beside each other and are *)
(* killed.  With the trees of TreeSafety, the types of all commands.       *)
(***************************************************************************)
EXTENDS Commands, TreeSafety, FiniteSetTheorems

-----------------------------------------------------------------------------
(* Snapshots. *)

\* The snapshots have a time and an identifier.
LEMMA SnapshotFields ==
    ASSUME SelectionTypeOK, NEW s \in records
    PROVE  s.time \in Nat /\ s.id[1] \in Nat /\ s.id[2] \in Nat /\ s.id = <<s.id[1], s.id[2]>>
<1>1. s \in Snapshot
  BY DEF SelectionTypeOK
<1>2. MaxTime \in Nat
  BY SelectionAssumption
<1> QED BY <1>1, <1>2 DEF Snapshot

\* The order of snapshots is a strict one, in which any two are.
LEMMA BeforeOrders ==
    ASSUME SelectionTypeOK
    PROVE  /\ \A s \in records : ~Before(s, s)
           /\ \A s, t \in records : s = t \/ Before(s, t) \/ Before(t, s)
           /\ \A s, t \in records : ~(Before(s, t) /\ Before(t, s))
           /\ \A s, t, u \in records : Before(s, t) /\ Before(t, u) => Before(s, u)
<1>1. \A s \in records : s.time \in Nat /\ s.id[1] \in Nat /\ s.id[2] \in Nat /\ s.id = <<s.id[1], s.id[2]>>
  BY SnapshotFields
<1>2. \A s, t \in records : s.id = t.id => s = t
  BY DEF SelectionTypeOK
<1>3. \A s \in records : ~Before(s, s)
  BY <1>1 DEF Before
<1>4. ASSUME NEW s \in records, NEW t \in records PROVE s = t \/ Before(s, t) \/ Before(t, s)
  <2>1. s.id[1] = t.id[1] /\ s.id[2] = t.id[2] => s = t
    BY <1>1, <1>2
  <2> QED BY <1>1, <2>1 DEF Before
<1>5. ASSUME NEW s \in records, NEW t \in records PROVE ~(Before(s, t) /\ Before(t, s))
  BY <1>1 DEF Before
<1>6. ASSUME NEW s \in records, NEW t \in records, NEW u \in records, Before(s, t), Before(t, u)
      PROVE  Before(s, u)
  BY <1>1, <1>6 DEF Before
<1> QED BY <1>3, <1>4, <1>5, <1>6

-----------------------------------------------------------------------------
(* The sorted list. *)

Earlier(s) == {t \in records : Before(t, s)}

\* A snapshot has fewer before it than one after it, and than there are.
LEMMA Ranks ==
    ASSUME SelectionTypeOK
    PROVE  /\ Cardinality(records) \in Nat
           /\ \A s \in records : /\ Cardinality(Earlier(s)) \in Nat
                                 /\ Cardinality(Earlier(s)) < Cardinality(records)
           /\ \A s, t \in records : Before(s, t) => Cardinality(Earlier(s)) < Cardinality(Earlier(t))
<1>1. IsFiniteSet(records)
  BY DEF SelectionTypeOK
<1>2. \A s \in records : Earlier(s) \in SUBSET records /\ s \notin Earlier(s)
  BY BeforeOrders DEF Earlier
<1>3. ASSUME NEW S \in SUBSET records, NEW T \in SUBSET S, NEW x \in S, x \notin T
      PROVE  Cardinality(T) \in Nat /\ Cardinality(S) \in Nat /\ Cardinality(T) < Cardinality(S)
  <2>1. IsFiniteSet(S)
    BY <1>1, FS_Subset
  <2>2. IsFiniteSet(T) /\ Cardinality(T) <= Cardinality(S) /\ (Cardinality(S) = Cardinality(T) => S = T)
    BY <2>1, FS_Subset
  <2>3. Cardinality(T) \in Nat /\ Cardinality(S) \in Nat
    BY <2>1, <2>2, FS_CardinalityType
  <2> QED BY <1>3, <2>2, <2>3
<1>4. Cardinality(records) \in Nat
  BY <1>1, FS_CardinalityType
<1>5. ASSUME NEW s \in records
      PROVE  Cardinality(Earlier(s)) \in Nat /\ Cardinality(Earlier(s)) < Cardinality(records)
  BY <1>2, <1>3
<1>6. ASSUME NEW s \in records, NEW t \in records, Before(s, t)
      PROVE  Cardinality(Earlier(s)) < Cardinality(Earlier(t))
  <2>1. Earlier(s) \in SUBSET Earlier(t) /\ s \in Earlier(t)
    BY <1>6, BeforeOrders DEF Earlier
  <2> QED BY <1>2, <1>3, <2>1
<1> QED BY <1>4, <1>5, <1>6

\* The list has every snapshot once, each after those before it.
LEMMA SortedList ==
    ASSUME SelectionTypeOK
    PROVE  /\ Cardinality(records) \in Nat
           /\ DOMAIN Sorted = 1 .. Cardinality(records)
           /\ Sorted \in Seq(records) /\ Len(Sorted) = Cardinality(records)
           /\ \A i \in DOMAIN Sorted : Sorted[i] \in records
           /\ \A s \in records : \E i \in DOMAIN Sorted : Sorted[i] = s
           /\ \A i, j \in DOMAIN Sorted : i < j <=> Before(Sorted[i], Sorted[j])
<1> DEFINE n == Cardinality(records)
           rank == [s \in records |-> Cardinality(Earlier(s))]
<1>1. n \in Nat /\ IsFiniteSet(records)
  BY Ranks DEF SelectionTypeOK
<1>2. rank \in [records -> 0 .. n - 1]
  BY <1>1, Ranks
<1>3. \A s, t \in records : Before(s, t) => rank[s] < rank[t]
  BY Ranks
<1>4. \A s, t \in records : rank[s] = rank[t] => s = t
  BY <1>2, <1>3, BeforeOrders
<1>5. IsFiniteSet(0 .. n - 1) /\ Cardinality(0 .. n - 1) = n
  BY <1>1, FS_Interval, SMTT(30)
<1>6. rank \in Injection(records, 0 .. n - 1)
  BY <1>2, <1>4 DEF Injection, IsInjective
<1>7. rank \in Surjection(records, 0 .. n - 1)
  BY <1>1, <1>5, <1>6, FS_Injection
<1>8. \A i \in 0 .. n - 1 : \E s \in records : rank[s] = i
  BY <1>7 DEF Surjection
<1>9. /\ DOMAIN Sorted = 1 .. n
      /\ \A i \in 1 .. n : Sorted[i] = Nth(i)
  BY DEF Sorted
<1>10. ASSUME NEW i \in 1 .. n PROVE Sorted[i] \in records /\ rank[Sorted[i]] = i - 1
  <2>1. i - 1 \in 0 .. n - 1
    BY <1>1
  <2>2. \E s \in records : Cardinality(Earlier(s)) = i - 1
    BY <1>8, <2>1
  <2>3. Sorted[i] = Nth(i)
    BY <1>9
  <2>4. Sorted[i] \in records /\ Cardinality(Earlier(Sorted[i])) = i - 1
    BY <2>2, <2>3 DEF Nth, Earlier
  <2> QED BY <2>4
<1> HIDE DEF n, rank
<1>11. DOMAIN Sorted = 1 .. n
  BY <1>9
<1>12. ASSUME NEW s \in records PROVE \E i \in DOMAIN Sorted : Sorted[i] = s
  <2>1. rank[s] + 1 \in 1 .. n
    BY <1>1, <1>2
  <2>2. rank[Sorted[rank[s] + 1]] = rank[s]
    BY <1>2, <1>10, <2>1
  <2>3. Sorted[rank[s] + 1] = s
    BY <1>4, <1>10, <2>1, <2>2
  <2> QED BY <1>11, <2>1, <2>3
<1>13. ASSUME NEW i \in DOMAIN Sorted, NEW j \in DOMAIN Sorted PROVE i < j <=> Before(Sorted[i], Sorted[j])
  <2>1. /\ Sorted[i] \in records /\ rank[Sorted[i]] = i - 1
        /\ Sorted[j] \in records /\ rank[Sorted[j]] = j - 1
    BY <1>10, <1>11
  <2>2. i \in Nat /\ j \in Nat
    BY <1>1, <1>11
  <2>3. Sorted[i] = Sorted[j] \/ Before(Sorted[i], Sorted[j]) \/ Before(Sorted[j], Sorted[i])
    BY <2>1, BeforeOrders
  <2>4. Before(Sorted[i], Sorted[j]) => i - 1 < j - 1
    BY <1>3, <2>1
  <2>5. Before(Sorted[j], Sorted[i]) => j - 1 < i - 1
    BY <1>3, <2>1
  <2>6. Sorted[i] = Sorted[j] => i - 1 = j - 1
    BY <2>1
  <2> QED BY <2>2, <2>3, <2>4, <2>5, <2>6
<1>14. Sorted \in Seq(records) /\ Len(Sorted) = n
  <2>1. Sorted = [i \in DOMAIN Sorted |-> Sorted[i]]
    BY DEF Sorted
  <2>2. Sorted \in [1 .. n -> records]
    BY <1>10, <1>11, <2>1
  <2> QED BY <1>1, <2>2
<1> QED BY <1>1, <1>10, <1>11, <1>12, <1>13, <1>14 DEF n

-----------------------------------------------------------------------------
(* Places in the list. *)

\* Of some places there is a first and a last.
LEMMA PositionsAre ==
    ASSUME NEW n \in Nat, NEW places \in SUBSET (1 .. n), places # {}
    PROVE  /\ \E i \in places : \A j \in places : i <= j
           /\ \E i \in places : \A j \in places : j <= i
<1> DEFINE Less == OpToRel(<, Nat)
<1>1. \A i, j \in Nat : i < j => <<i, j>> \in Less
  BY DEF OpToRel
<1>2. IsWellFoundedOn(Less, Nat)
  BY NatLessThanWellFounded
<1> HIDE DEF Less
<1>3. ASSUME NEW S \in SUBSET Nat, S # {} PROVE \E i \in S : \A j \in S : i <= j
  <2>1. PICK i \in S : \A j \in S : ~(<<j, i>> \in Less)
    BY <1>2, <1>3, WFMin
  <2>2. \A j \in S : i <= j
    <3> SUFFICES ASSUME NEW j \in S PROVE i <= j
      OBVIOUS
    <3>1. ~(j < i)
      BY <1>1, <2>1
    <3> QED BY <3>1
  <2> QED BY <2>2
<1>4. \E i \in places : \A j \in places : i <= j
  BY <1>3
<1> DEFINE back == {n - i : i \in places}
<1>5. PICK i \in places : \A j \in places : n - i <= n - j
  <2>1. back \in SUBSET Nat /\ back # {}
    <3>1. \A i \in places : n - i \in Nat
      OBVIOUS
    <3> QED BY <3>1
  <2>2. PICK k \in back : \A j \in back : k <= j
    BY <1>3, <2>1
  <2>3. PICK i \in places : k = n - i
    OBVIOUS
  <2> QED BY <2>2, <2>3
<1>6. \A j \in places : j <= i
  BY <1>5
<1> QED BY <1>4, <1>6

\* The last of some places, and the first.
LEMMA LastAndFirst ==
    ASSUME SelectionTypeOK, NEW places \in SUBSET DOMAIN Sorted, places # {}
    PROVE  /\ \E i \in places : LastAt(Sorted, places) = Sorted[i] /\ \A j \in places : j <= i
           /\ \E i \in places : FirstAt(Sorted, places) = Sorted[i]
<1>1. places \in SUBSET (1 .. Cardinality(records)) /\ Cardinality(records) \in Nat
  BY SortedList
<1> DEFINE last == CHOOSE i \in places : \A j \in places : j <= i
           first == CHOOSE i \in places : \A j \in places : i <= j
<1>2. last \in places /\ \A j \in places : j <= last
  BY <1>1, PositionsAre
<1>3. first \in places
  BY <1>1, PositionsAre
<1>4. LastAt(Sorted, places) = Sorted[last] /\ FirstAt(Sorted, places) = Sorted[first]
  BY DEF LastAt, FirstAt
<1> HIDE DEF last, first
<1> QED BY <1>2, <1>3, <1>4

\* The snapshot at the last place of some is the latest of them.
LEMMA LastIsLatest ==
    ASSUME SelectionTypeOK, NEW set \in SUBSET records, NEW places,
           places = {i \in DOMAIN Sorted : Sorted[i] \in set}
    PROVE  IF set = {} THEN LastAt(Sorted, places) = None
           ELSE IsLatest(LastAt(Sorted, places), set)
<1>1. places \in SUBSET DOMAIN Sorted
  OBVIOUS
<1>2. places = {} <=> set = {}
  BY SortedList
<1>3. CASE set = {}
  BY <1>2, <1>3 DEF LastAt
<1>4. CASE set # {}
  <2>1. PICK i \in places : LastAt(Sorted, places) = Sorted[i] /\ \A j \in places : j <= i
    BY <1>1, <1>2, <1>4, LastAndFirst
  <2>2. ASSUME NEW t \in set \ {Sorted[i]} PROVE Before(t, Sorted[i])
    <3>1. PICK j \in DOMAIN Sorted : Sorted[j] = t
      BY SortedList
    <3>2. j <= i /\ j # i
      BY <2>1, <2>2, <3>1
    <3>3. i \in 1 .. Cardinality(records) /\ j \in 1 .. Cardinality(records) /\ Cardinality(records) \in Nat
      BY <1>1, SortedList
    <3>4. j < i
      BY <3>2, <3>3
    <3> QED BY <1>1, <3>1, <3>4, SortedList
  <2> QED BY <1>4, <2>1, <2>2 DEF IsLatest
<1> QED BY <1>3, <1>4

\* The list is empty when there are no snapshots.
LEMMA EmptyList ==
    ASSUME SelectionTypeOK
    PROVE  /\ Sorted = <<>> <=> records = {}
           /\ records = {} \/ IsLatest(Last(Sorted), records)
<1>1. Sorted = <<>> <=> records = {}
  <2>1. Sorted = <<>> <=> Cardinality(records) = 0
    BY SortedList
  <2> QED BY <2>1, FS_EmptySet DEF SelectionTypeOK
<1>2. ASSUME records # {} PROVE IsLatest(Last(Sorted), records)
  <2> DEFINE n == Cardinality(records)
  <2>1. n \in Nat /\ n # 0
    BY <1>1, <1>2, SortedList
  <2>2. Last(Sorted) = Sorted[n] /\ n \in DOMAIN Sorted /\ DOMAIN Sorted = 1 .. n
    BY <2>1, SortedList DEF Last
  <2> HIDE DEF n
  <2>3. ASSUME NEW t \in records \ {Sorted[n]} PROVE Before(t, Sorted[n])
    <3>1. PICK j \in DOMAIN Sorted : Sorted[j] = t
      BY SortedList
    <3>2. j < n
      BY <2>1, <2>2, <2>3, <3>1
    <3> QED BY <2>2, <3>1, <3>2, SortedList
  <2> QED BY <2>2, <2>3, SortedList DEF IsLatest
<1> QED BY <1>1, <1>2

-----------------------------------------------------------------------------
(* Resolve. *)

\* An event selects the latest snapshot that has it.
LEMMA EventRight ==
    ASSUME SelectionTypeOK, NEW sel, sel.event # NoEvent
    PROVE  IF Meant(sel) = {} THEN ByEvent(Sorted, sel) = None
           ELSE IsLatest(ByEvent(Sorted, sel), Meant(sel))
<1> DEFINE places == {i \in DOMAIN Sorted : Sorted[i].event = sel.event
                                              /\ (sel.before # 0 => Sorted[i].time <= sel.before)}
<1>1. Meant(sel) \in SUBSET records
  BY DEF Meant
<1>2. places = {i \in DOMAIN Sorted : Sorted[i] \in Meant(sel)}
  <2>1. \A i \in DOMAIN Sorted : Sorted[i] \in records
    BY SortedList
  <2> QED BY <2>1 DEF Meant
<1>3. ByEvent(Sorted, sel) = LastAt(Sorted, places)
  BY DEF ByEvent
<1> HIDE DEF places
<1> QED BY <1>1, <1>2, <1>3, LastIsLatest

\* A time selects the latest snapshot up to it: from the first later one on, all are later.
LEMMA TimeRight ==
    ASSUME SelectionTypeOK, NEW sel, sel.event = NoEvent, sel.at \in Nat \ {0}
    PROVE  IF Meant(sel) = {} THEN ByTime(Sorted, sel) = None
           ELSE IsLatest(ByTime(Sorted, sel), Meant(sel))
<1> DEFINE places == {i \in DOMAIN Sorted : \A j \in 1 .. i : Sorted[j].time <= sel.at}
<1>1. Meant(sel) \in SUBSET records
  BY DEF Meant
<1>2. ASSUME NEW i \in DOMAIN Sorted
      PROVE  (\A j \in 1 .. i : Sorted[j].time <= sel.at) <=> Sorted[i] \in Meant(sel)
  <2>1. i \in 1 .. Cardinality(records) /\ Cardinality(records) \in Nat /\ DOMAIN Sorted = 1 .. Cardinality(records)
    BY SortedList
  <2>2. Sorted[i] \in records
    BY SortedList
  <2>3. ASSUME NEW j \in 1 .. i, Sorted[i].time <= sel.at PROVE Sorted[j].time <= sel.at
    <3>1. j \in DOMAIN Sorted /\ Sorted[j] \in records
      BY <2>1, SortedList
    <3>2. Sorted[j].time \in Nat /\ Sorted[i].time \in Nat
      BY <2>2, <3>1, SnapshotFields
    <3>3. CASE j = i
      BY <2>3, <3>3
    <3>4. CASE j < i
      <4>1. Before(Sorted[j], Sorted[i])
        BY <3>1, <3>4, SortedList
      <4>2. Sorted[j].time <= Sorted[i].time
        BY <3>2, <4>1 DEF Before
      <4> QED BY <2>3, <3>2, <4>2
    <3> QED BY <2>1, <3>3, <3>4
  <2>4. i \in 1 .. i
    BY <2>1
  <2> QED BY <2>2, <2>3, <2>4 DEF Meant
<1>3. places = {i \in DOMAIN Sorted : Sorted[i] \in Meant(sel)}
  BY <1>2
<1>4. ByTime(Sorted, sel) = LastAt(Sorted, places)
  BY DEF ByTime
<1> HIDE DEF places
<1> QED BY <1>1, <1>3, <1>4, LastIsLatest

\* An identifier selects the snapshot that has it, or the only one that begins so.
LEMMA IdRight ==
    ASSUME SelectionTypeOK, NEW sel, sel.id \in Seq(Nat)
    PROVE  LET s == ById(Sorted, sel)
               begun == {t \in records : IsPrefix(sel.id, t.id)}
           IN  IF \E t \in begun : t.id = sel.id \/ begun = {t} THEN s \in begun /\ (s.id = sel.id \/ begun = {s})
               ELSE s = None
<1> DEFINE s == ById(Sorted, sel)
           begun == {t \in records : IsPrefix(sel.id, t.id)}
           exact == {i \in DOMAIN Sorted : Sorted[i].id = sel.id}
           matches == {i \in DOMAIN Sorted : IsPrefix(sel.id, Sorted[i].id)}
           Right == IF \E t \in begun : t.id = sel.id \/ begun = {t}
                    THEN s \in begun /\ (s.id = sel.id \/ begun = {s})
                    ELSE s = None
<1>1. s = IF exact = {} /\ Cardinality(matches) # 1 THEN None
          ELSE FirstAt(Sorted, IF exact # {} THEN exact ELSE matches)
  BY DEF ById
<1>2. IsPrefix(sel.id, sel.id)
  BY DEF IsPrefix
<1>3. \A i \in DOMAIN Sorted : Sorted[i] \in records /\ (i \in matches <=> Sorted[i] \in begun)
  BY SortedList
<1>4. exact \in SUBSET matches /\ matches \in SUBSET DOMAIN Sorted
  BY <1>2
<1>5. \A i, j \in DOMAIN Sorted : Sorted[i] = Sorted[j] => i = j
  <2> SUFFICES ASSUME NEW i \in DOMAIN Sorted, NEW j \in DOMAIN Sorted, Sorted[i] = Sorted[j]
               PROVE  i = j
    OBVIOUS
  <2>1. i \in Nat /\ j \in Nat
    BY SortedList
  <2>2. ~(i < j) /\ ~(j < i)
    BY <1>3, SortedList, BeforeOrders
  <2> QED BY <2>1, <2>2
<1>6. IsFiniteSet(matches)
  <2>1. IsFiniteSet(1 .. Cardinality(records))
    BY SortedList, FS_Interval
  <2> QED BY <1>4, <2>1, SortedList, FS_Subset
<1>7. \A t \in begun : t.id = sel.id => exact # {}
  BY SortedList
<1>8. Cardinality(matches) = 1 <=> \E i \in matches : matches = {i}
  BY <1>6, FS_Singleton
<1>9. \A t \in records : \E i \in DOMAIN Sorted : Sorted[i] = t
  BY SortedList
<1>10. \A i \in exact : Sorted[i].id = sel.id
  OBVIOUS
<1> HIDE DEF s, exact, matches
<1>11. ASSUME exact # {} PROVE Right
  <2>1. PICK i \in exact : s = Sorted[i]
    BY <1>1, <1>4, <1>11, LastAndFirst
  <2> QED BY <1>3, <1>4, <1>10, <2>1
<1>12. ASSUME exact = {} /\ Cardinality(matches) = 1 PROVE Right
  <2>1. PICK i \in matches : matches = {i}
    BY <1>8, <1>12
  <2>2. s = Sorted[i]
    BY <1>1, <1>4, <1>12, <2>1, LastAndFirst
  <2>3. begun = {Sorted[i]}
    BY <1>3, <1>4, <1>9, <2>1
  <2> QED BY <2>2, <2>3
<1>13. ASSUME exact = {} /\ Cardinality(matches) # 1 PROVE Right
  <2>1. ASSUME NEW t \in begun, begun = {t} PROVE FALSE
    <3>1. PICK i \in DOMAIN Sorted : Sorted[i] = t
      BY SortedList
    <3>2. matches = {i}
      BY <1>3, <1>4, <1>5, <2>1, <3>1
    <3> QED BY <1>8, <1>13, <3>2
  <2> QED BY <1>1, <1>7, <1>13, <2>1
<1>14. Right
  BY <1>11, <1>12, <1>13
<1> QED BY <1>14 DEF s

\* What selectors are.
LEMMA SelectorFields ==
    ASSUME NEW sel \in Selectors
    PROVE  /\ sel.id \in Seq(Nat) /\ sel.at \in Nat
           /\ sel.id # <<>> => sel.event = NoEvent /\ sel.at = 0
<1>1. MaxTime \in Nat /\ Parts \in Nat \ {0} /\ Randoms \subseteq Nat /\ MaxTime \div Parts \in Nat
  BY SelectionAssumption
<1>2. ASSUME NEW id \in IdParts PROVE id \in Seq(Nat)
  <2>1. PICK sec \in 0 .. MaxTime \div Parts, random \in Randoms : id \in {<<sec>>, <<sec, random>>}
    BY DEF IdParts
  <2>2. sec \in Nat /\ random \in Nat
    BY <1>1
  <2>3. <<sec>> \in Seq(Nat) /\ <<sec, random>> \in Seq(Nat)
    BY <2>2
  <2> QED BY <2>1, <2>3
<1>3. <<>> \in Seq(Nat)
  OBVIOUS
<1>4. CASE \E id \in IdParts \cup {<<>>} : sel = Selector(id, 0, NoEvent, 0)
  <2>1. PICK id \in IdParts \cup {<<>>} : sel = Selector(id, 0, NoEvent, 0)
    BY <1>4
  <2>2. id \in Seq(Nat)
    BY <1>2, <1>3
  <2>3. sel.id = id /\ sel.at = 0 /\ sel.event = NoEvent
    BY <2>1 DEF Selector
  <2> QED BY <2>2, <2>3
<1>5. CASE \E at \in 1 .. MaxTime : sel = Selector(<<>>, at, NoEvent, 0)
  BY <1>1, <1>3, <1>5 DEF Selector
<1>6. CASE \E at \in {0, 1}, event \in Events, before \in 0 .. MaxTime : sel = Selector(<<>>, at, event, before)
  BY <1>1, <1>3, <1>6 DEF Selector
<1>7. \/ sel \in {Selector(id, 0, NoEvent, 0) : id \in IdParts \cup {<<>>}}
      \/ sel \in {Selector(<<>>, at, NoEvent, 0) : at \in 1 .. MaxTime}
      \/ sel \in {Selector(<<>>, at, event, before) : at \in {0, 1}, event \in Events, before \in 0 .. MaxTime}
  BY DEF Selectors
<1> QED BY <1>4, <1>5, <1>6, <1>7

\* Whatever snapshots there are, every selector selects what it means.
LEMMA SelectsRight == SelectionTypeOK => ResolveRight
<1> SUFFICES ASSUME SelectionTypeOK, NEW sel \in Selectors
             PROVE  LET s == Resolve(Sorted, sel) IN
                    IF sel.id = <<>> THEN IF Meant(sel) = {} THEN s = None ELSE IsLatest(s, Meant(sel))
                    ELSE LET begun == {t \in records : IsPrefix(sel.id, t.id)} IN
                         IF \E t \in begun : t.id = sel.id \/ begun = {t}
                         THEN s \in begun /\ (s.id = sel.id \/ begun = {s})
                         ELSE s = None
  BY DEF ResolveRight
<1>1. sel.id \in Seq(Nat) /\ sel.at \in Nat /\ (sel.id # <<>> => sel.event = NoEvent /\ sel.at = 0)
  BY SelectorFields
<1>2. CASE records = {}
  <2>1. Resolve(Sorted, sel) = None /\ Meant(sel) = {}
    BY <1>2, EmptyList DEF Resolve, Meant
  <2> QED BY <1>2, <2>1
<1>3. CASE records # {} /\ sel.event # NoEvent
  <2>1. Resolve(Sorted, sel) = ByEvent(Sorted, sel)
    BY <1>3, EmptyList DEF Resolve
  <2> QED BY <1>1, <1>3, <2>1, EventRight
<1>4. CASE records # {} /\ sel.event = NoEvent /\ sel.at # 0
  <2>1. Resolve(Sorted, sel) = ByTime(Sorted, sel)
    BY <1>4, EmptyList DEF Resolve
  <2> QED BY <1>1, <1>4, <2>1, TimeRight
<1>5. CASE records # {} /\ sel.event = NoEvent /\ sel.at = 0 /\ sel.id = <<>>
  <2>1. Resolve(Sorted, sel) = Last(Sorted)
    BY <1>5, EmptyList DEF Resolve
  <2>2. Meant(sel) = records
    BY <1>5 DEF Meant
  <2> QED BY <1>5, <2>1, <2>2, EmptyList
<1>6. CASE records # {} /\ sel.event = NoEvent /\ sel.at = 0 /\ sel.id # <<>>
  <2>1. Resolve(Sorted, sel) = ById(Sorted, sel)
    BY <1>6, EmptyList DEF Resolve
  <2> QED BY <1>1, <1>6, <2>1, IdRight
<1> QED BY <1>2, <1>3, <1>4, <1>5, <1>6

-----------------------------------------------------------------------------
(* The theorems. *)

LEMMA SelectionSteps ==
    ASSUME SelectionTypeOK, [SelectionNext]_records
    PROVE  SelectionTypeOK'
<1>1. ASSUME NEW time \in 1 .. MaxTime, NEW random \in Randoms, NEW event \in Events \cup {NoEvent},
             Record(time, random, event)
      PROVE  SelectionTypeOK'
  <2> DEFINE new == [id |-> <<time \div Parts, random>>, time |-> time, event |-> event]
  <2>1. time \div Parts \in Nat /\ random \in Nat
    <3>1. time \in Nat /\ Parts \in Nat \ {0} /\ random \in Nat
      BY SelectionAssumption
    <3> QED BY <3>1
  <2>2. new \in Snapshot
    BY <2>1 DEF Snapshot
  <2>3. new.id = <<time \div Parts, random>>
    OBVIOUS
  <2>4. records' = records \cup {new} /\ \A s \in records : s.id # new.id
    BY <1>1 DEF Record
  <2>5. IsFiniteSet(records')
    BY <2>4, FS_AddElement DEF SelectionTypeOK
  <2> HIDE DEF new
  <2> QED BY <2>2, <2>4, <2>5 DEF SelectionTypeOK
<1>2. ASSUME NEW id \in IdParts \cup {<<>>}, Forget(id) PROVE SelectionTypeOK'
  <2>1. records' \in SUBSET records
    BY <1>2 DEF Forget
  <2>2. IsFiniteSet(records')
    BY <2>1, FS_Subset DEF SelectionTypeOK
  <2> QED BY <2>1, <2>2 DEF SelectionTypeOK
<1>3. CASE UNCHANGED records
  BY <1>3 DEF SelectionTypeOK
<1> QED BY <1>1, <1>2, <1>3 DEF SelectionNext

LEMMA SelectionBegins == SelectionInit => SelectionTypeOK
BY FS_EmptySet DEF SelectionInit, SelectionTypeOK

\* The snapshots have a time, an event and an identifier of their own, and there are finitely many.
THEOREM SelectionTypeCorrect == SelectionSpec => []SelectionTypeOK
BY SelectionBegins, SelectionSteps, PTL DEF SelectionSpec

\* Every selector selects the snapshot it means (select.go:19), in whatever order snapshots were
\* recorded and whichever were forgotten.
THEOREM ResolvesRight == SelectionSpec => []ResolveRight
BY SelectionTypeCorrect, SelectsRight, PTL

LEMMA SelectsRightNext == SelectionTypeOK' => ResolveRight'
BY SelectsRight, PTL

\* A step of the snapshots changes what a point in time means only if it forgets that snapshot,
\* or records one up to that time.
LEMMA StableSteps ==
    ASSUME SelectionTypeOK, SelectionTypeOK'
    PROVE  StableStep
<1> SUFFICES ASSUME NEW at \in 1 .. MaxTime
             PROVE  LET sel == Selector(<<>>, at, NoEvent, 0)
                        s == Resolve(Sorted, sel)
                        t == Resolve(Sorted, sel)'
                    IN t # s => s \in records \ records' \/ (t \in records' \ records /\ t.time <= at)
  BY DEF StableStep
<1> DEFINE sel == Selector(<<>>, at, NoEvent, 0)
           s == Resolve(Sorted, sel)
           t == Resolve(Sorted, sel)'
           upTo == {u \in records : u.time <= at}
           upTo1 == {u \in records' : u.time <= at}
           Stable == t # s => s \in records \ records' \/ (t \in records' \ records /\ t.time <= at)
<1>1. /\ sel \in Selectors /\ sel.id = <<>> /\ sel.at = at /\ sel.event = NoEvent
      /\ at \in Nat /\ at # 0
  BY SelectionAssumption DEF Selectors, Selector
<1>2. Meant(sel) = upTo
  BY <1>1 DEF Meant
<1>3. Meant(sel)' = upTo1
  BY <1>1 DEF Meant
<1>4. IF upTo = {} THEN s = None ELSE IsLatest(s, upTo)
  BY <1>1, <1>2, SelectsRight DEF ResolveRight
<1>5. IF upTo1 = {} THEN t = None ELSE IsLatest(t, upTo1)
  BY <1>1, <1>3, SelectsRightNext DEF ResolveRight, IsLatest, Before
<1> HIDE DEF s, t
<1>6. ASSUME t # s, ~(s \in records \ records') PROVE t \in records' \ records /\ t.time <= at
  <2>1. CASE upTo1 = {}
    <3>1. upTo # {}
      BY <1>4, <1>5, <1>6, <2>1
    <3>2. s \in records /\ s.time <= at
      BY <1>4, <3>1 DEF IsLatest
    <3> QED BY <1>6, <2>1, <3>2
  <2>2. CASE upTo1 # {}
    <3>1. t \in records' /\ t.time <= at /\ \A u \in upTo1 \ {t} : Before(u, t)
      BY <1>5, <2>2 DEF IsLatest
    <3>2. ASSUME t \in records PROVE FALSE
      <4>1. t \in upTo
        BY <3>1, <3>2
      <4>2. s \in records /\ s.time <= at /\ Before(t, s)
        BY <1>4, <1>6, <4>1 DEF IsLatest
      <4>3. Before(s, t)
        BY <1>6, <3>1, <4>2
      <4> QED BY <3>2, <4>2, <4>3, BeforeOrders
    <3> QED BY <3>1, <3>2
  <2> QED BY <2>1, <2>2
<1>7. Stable
  BY <1>6
<1> QED BY <1>7 DEF s, t

\* What --at means changes only as that snapshot is forgotten, or one up to that time recorded.
THEOREM TimeTravelIsStable == SelectionSpec => TimeTravelStable
BY SelectionTypeCorrect, StableSteps, PTL DEF SelectionSpec, TimeTravelStable

-----------------------------------------------------------------------------
(* The registry. *)

Runs == [pc : {"idle", "exists", "put", "load", "truncate", "write", "open"},
         kind : {"none", "init", "setDefault", "open"}, name : Names \cup {NoName},
         location : Locations, cwd : Cwds, asDefault : BOOLEAN,
         id : 0 .. MaxCommands, held : Registries, clear : BOOLEAN]

\* What a command has of its arguments at each point.
WellFormed(run) ==
    /\ run.kind \in {"init", "setDefault"} => run.name \in Names
    /\ run.pc \in {"exists", "put"} => run.kind = "init" /\ run.id > 0
    /\ run.pc = "load" => run.kind # "none"
    /\ run.pc \in {"truncate", "write"} => run.kind \in {"init", "setDefault"}

CommandsWellFormed == RegistryTypeOK /\ \A p \in Procs : WellFormed(cmd[p])

-----------------------------------------------------------------------------
(* Configurations. *)

LEMMA EmptyType == Empty \in Registries /\ DOMAIN Empty.repos = {} /\ Empty.default = NoName
<1>1. DOMAIN <<>> = {} /\ <<>> \in [{} -> Locations]
  OBVIOUS
<1>2. {} \in SUBSET Names
  OBVIOUS
<1>3. <<>> \in UNION {[ns -> Locations] : ns \in SUBSET Names}
  BY <1>1, <1>2
<1> QED BY <1>1, <1>3 DEF Empty, Registries

\* The entries of a configuration, and where they lead.
LEMMA EntriesAre ==
    ASSUME NEW c \in Registries
    PROVE  /\ DOMAIN c.repos \subseteq Names /\ c.default \in Names \cup {NoName}
           /\ \A name \in DOMAIN c.repos : c.repos[name] \in Locations
<1>1. PICK ns \in SUBSET Names : c.repos \in [ns -> Locations]
  BY DEF Registries
<1> QED BY <1>1 DEF Registries

\* An entry is added, or replaces the one of its name.
LEMMA WithEntryType ==
    ASSUME NEW c \in Registries, NEW name \in Names, NEW location \in Locations,
           NEW asDefault \in BOOLEAN
    PROVE  LET d == WithEntry(c, name, location, asDefault) IN
           /\ d \in Registries /\ DOMAIN d.repos = DOMAIN c.repos \cup {name}
           /\ d.repos[name] = location
           /\ \A other \in DOMAIN c.repos \ {name} : d.repos[other] = c.repos[other]
           /\ d.default \in {name, c.default} \ {NoName}
<1> DEFINE repos == [n \in {name} \cup DOMAIN c.repos |->
                       IF n = name THEN location ELSE c.repos[n]]
           default == IF asDefault \/ c.default = NoName THEN name ELSE c.default
<1>1. PICK ns \in SUBSET Names : c.repos \in [ns -> Locations]
  BY DEF Registries
<1>3. repos \in [{name} \cup ns -> Locations] /\ {name} \cup ns \in SUBSET Names
  BY <1>1
<1>4. /\ DOMAIN repos = DOMAIN c.repos \cup {name} /\ repos[name] = location
      /\ \A other \in DOMAIN c.repos \ {name} : repos[other] = c.repos[other]
  OBVIOUS
<1>5. repos \in UNION {[m -> Locations] : m \in SUBSET Names}
  BY <1>3
<1>6. default \in Names /\ default \in {name, c.default} \ {NoName}
  BY RegistryAssumption DEF Registries
<1>7. WithEntry(c, name, location, asDefault) = [default |-> default, repos |-> repos]
  BY DEF WithEntry
<1> HIDE DEF repos, default
<1> QED BY <1>4, <1>5, <1>6, <1>7 DEF Registries

\* What a command makes of a configuration is one, with a default.
LEMMA ChangedType ==
    ASSUME NEW c \in Registries, NEW run \in Runs, run.name \in Names
    PROVE  /\ Changed(c, run) \in Registries /\ Changed(c, run).default # NoName
           /\ Changed(c, run) # Empty
<1>1. /\ Changed(c, run) \in Registries /\ Changed(c, run).default # NoName
  <2>1. CASE run.kind = "init"
    <3>1. run.location \in Locations /\ run.asDefault \in BOOLEAN
      BY DEF Runs
    <3> QED BY <2>1, <3>1, WithEntryType DEF Changed
  <2>2. CASE run.kind # "init"
    BY <2>2, RegistryAssumption DEF Changed, Registries
  <2> QED BY <2>1, <2>2
<1> QED BY <1>1, EmptyType

-----------------------------------------------------------------------------
(* Types. *)

LEMMA IdleType == Idle \in Runs /\ WellFormed(Idle) /\ Idle.pc = "idle" /\ Idle.kind = "none"
<1>1. (CHOOSE l \in Locations : TRUE) \in Locations /\ (CHOOSE c \in Cwds : TRUE) \in Cwds
  BY RegistryAssumption
<1>2. 0 \in 0 .. MaxCommands
  BY RegistryAssumption
<1> QED BY <1>1, <1>2, EmptyType DEF Idle, Runs, WellFormed

\* One process goes on, and the others stay where they are.
LEMMA OneMoves ==
    ASSUME CommandsWellFormed, NEW p \in Procs, NEW run \in Runs, WellFormed(run),
           cmd' = [cmd EXCEPT ![p] = run]
    PROVE  /\ cmd' \in [Procs -> Runs] /\ cmd'[p] = run
           /\ \A q \in Procs \ {p} : cmd'[q] = cmd[q]
           /\ \A q \in Procs : WellFormed(cmd'[q])
<1>1. cmd \in [Procs -> Runs] /\ \A q \in Procs : WellFormed(cmd[q])
  BY DEF CommandsWellFormed, RegistryTypeOK, Runs
<1>2. /\ cmd' \in [Procs -> Runs] /\ cmd'[p] = run
      /\ \A q \in Procs \ {p} : cmd'[q] = cmd[q]
  BY <1>1
<1> QED BY <1>1, <1>2

\* The directory a command means.
LEMMA DirOfType ==
    ASSUME CommandsWellFormed, NEW p \in Procs
    PROVE  cmd[p] \in Runs /\ WellFormed(cmd[p]) /\ DirOf(p) \in Dirs
<1>1. cmd[p] \in Runs /\ WellFormed(cmd[p])
  BY DEF CommandsWellFormed, RegistryTypeOK, Runs
<1> QED BY <1>1, RegistryAssumption DEF DirOf, Runs

-----------------------------------------------------------------------------
(* What each step makes of the process that takes it. *)

LEMMA StartInitRun ==
    ASSUME CommandsWellFormed, NEW p \in Procs, NEW name \in Names \cup {NoName},
           NEW location \in Locations, NEW cwd \in Cwds, NEW asDefault \in BOOLEAN,
           StartInit(p, name, location, cwd, asDefault)
    PROVE  \E run \in Runs :
             /\ WellFormed(run) /\ cmd' = [cmd EXCEPT ![p] = run]
             /\ run.pc = "exists" /\ run.kind = "init" /\ run.location = location /\ run.cwd = cwd
             /\ run.clear = (meta[Where[cwd][location]] = 0)
<1> DEFINE called == IF name = NoName THEN NameOf[location] ELSE name
           clear == meta[Where[cwd][location]] = 0
           run == [Idle EXCEPT !.pc = "exists", !.kind = "init", !.location = location,
                               !.cwd = cwd, !.name = called, !.asDefault = asDefault,
                               !.id = commands + 1, !.clear = clear]
<1>1. cmd' = [cmd EXCEPT ![p] = run]
  BY DEF StartInit
<1>2. called \in Names /\ clear \in BOOLEAN
  BY RegistryAssumption
<1>3. commands + 1 \in 0 .. MaxCommands /\ commands + 1 > 0
  BY RegistryAssumption DEF StartInit, Starts, CommandsWellFormed, RegistryTypeOK
<1>4. Idle \in Runs
  BY IdleType
<1> HIDE DEF called, clear
<1>5. /\ run \in Runs /\ run.pc = "exists" /\ run.kind = "init" /\ run.name = called
      /\ run.location = location /\ run.cwd = cwd /\ run.clear = clear /\ run.id = commands + 1
  BY <1>2, <1>3, <1>4 DEF Runs
<1>6. WellFormed(run)
  BY <1>2, <1>3, <1>5 DEF WellFormed
<1> HIDE DEF run
<1> QED BY <1>1, <1>5, <1>6 DEF clear

LEMMA StartSetDefaultRun ==
    ASSUME CommandsWellFormed, NEW p \in Procs, NEW name \in Names, StartSetDefault(p, name)
    PROVE  \E run \in Runs :
             /\ WellFormed(run) /\ cmd' = [cmd EXCEPT ![p] = run]
             /\ run.pc = "load" /\ run.kind = "setDefault"
<1> DEFINE run == [Idle EXCEPT !.pc = "load", !.kind = "setDefault", !.name = name]
<1>1. cmd' = [cmd EXCEPT ![p] = run]
  BY DEF StartSetDefault
<1>2. run \in Runs /\ run.pc = "load" /\ run.kind = "setDefault" /\ run.name = name
  BY IdleType DEF Runs
<1>3. WellFormed(run)
  BY <1>2 DEF WellFormed
<1> HIDE DEF run
<1> QED BY <1>1, <1>2, <1>3

LEMMA StartOpenRun ==
    ASSUME CommandsWellFormed, NEW p \in Procs, NEW name \in Names \cup {NoName}, NEW cwd \in Cwds,
           StartOpen(p, name, cwd)
    PROVE  \E run \in Runs :
             /\ WellFormed(run) /\ cmd' = [cmd EXCEPT ![p] = run]
             /\ run.pc = "load" /\ run.kind = "open"
<1> DEFINE run == [Idle EXCEPT !.pc = "load", !.kind = "open", !.name = name, !.cwd = cwd]
<1>1. cmd' = [cmd EXCEPT ![p] = run]
  BY DEF StartOpen
<1>2. run \in Runs /\ run.pc = "load" /\ run.kind = "open"
  BY IdleType DEF Runs
<1>3. WellFormed(run)
  BY <1>2 DEF WellFormed
<1> HIDE DEF run
<1> QED BY <1>1, <1>2, <1>3

\* A step from one point of a command to the next.
LEMMA GotoRun ==
    ASSUME CommandsWellFormed, NEW p \in Procs, NEW pc \in {"put", "load", "write"},
           cmd[p].kind # "none", pc = "put" => At(p, "exists"), pc = "write" => At(p, "truncate"),
           cmd' = Goto(p, pc)
    PROVE  \E run \in Runs :
             /\ WellFormed(run) /\ cmd' = [cmd EXCEPT ![p] = run]
             /\ run = [cmd[p] EXCEPT !.pc = pc] /\ run.pc = pc
             /\ run.kind = cmd[p].kind /\ run.name = cmd[p].name /\ run.location = cmd[p].location
             /\ run.cwd = cmd[p].cwd /\ run.asDefault = cmd[p].asDefault
             /\ run.held = cmd[p].held /\ run.clear = cmd[p].clear
<1> DEFINE run == [cmd[p] EXCEPT !.pc = pc]
<1>1. cmd' = [cmd EXCEPT ![p] = run]
  BY DEF Goto
<1>2. cmd[p] \in Runs /\ WellFormed(cmd[p])
  BY DirOfType
<1>3. /\ run \in Runs /\ run.pc = pc
      /\ run.kind = cmd[p].kind /\ run.name = cmd[p].name /\ run.location = cmd[p].location
      /\ run.cwd = cmd[p].cwd /\ run.asDefault = cmd[p].asDefault /\ run.id = cmd[p].id
      /\ run.held = cmd[p].held /\ run.clear = cmd[p].clear
  BY <1>2 DEF Runs
<1>4. WellFormed(run)
  BY <1>2, <1>3 DEF WellFormed, At
<1> HIDE DEF run
<1> QED BY <1>1, <1>3, <1>4 DEF run

\* A configuration is loaded: it is changed in memory, or looked into.
LEMMA LoadRun ==
    ASSUME CommandsWellFormed, NEW p \in Procs, LoadConfig(p)
    PROVE  LET c == config.registry IN
           /\ c \in Registries /\ WellFormed(cmd[p])
           /\ \E run \in Runs :
             /\ WellFormed(run) /\ cmd' = [cmd EXCEPT ![p] = run]
             /\ run.kind = cmd[p].kind /\ run.name = cmd[p].name
             /\ run.cwd = cmd[p].cwd /\ run.asDefault = cmd[p].asDefault
             /\ \/ /\ cmd[p].kind = "open" /\ run.pc = "open" /\ Resolves(c, cmd[p].name)
                   /\ run.location = ResolvedLocation(c, cmd[p].name)
                \/ /\ cmd[p].kind \in {"init", "setDefault"} /\ run.pc = "truncate"
                   /\ run.location = cmd[p].location
                   /\ run.held = Changed(c, cmd[p])
                   /\ cmd[p].kind = "setDefault" => cmd[p].name \in DOMAIN c.repos
<1> DEFINE c == config.registry
<1>1. cmd[p] \in Runs /\ WellFormed(cmd[p]) /\ cmd[p].pc = "load"
  BY DirOfType DEF LoadConfig, At
<1>2. c \in Registries
  BY DEF CommandsWellFormed, RegistryTypeOK
<1>3. CASE cmd[p].kind = "open"
  <2> DEFINE location == ResolvedLocation(c, cmd[p].name)
             run == [cmd[p] EXCEPT !.pc = "open", !.location = location]
  <2>1. cmd' = [cmd EXCEPT ![p] = run]
    BY <1>3 DEF LoadConfig
  <2>2. Resolves(c, cmd[p].name)
    BY <1>3 DEF LoadConfig, Accepted
  <2>3. location \in Locations
    BY <1>2, <2>2, EntriesAre DEF Resolves, ResolvedLocation
  <2> HIDE DEF location
  <2>4. /\ run \in Runs /\ run.pc = "open" /\ run.kind = cmd[p].kind /\ run.name = cmd[p].name
        /\ run.cwd = cmd[p].cwd /\ run.asDefault = cmd[p].asDefault /\ run.location = location
    BY <1>1, <2>3 DEF Runs
  <2>5. WellFormed(run)
    BY <1>3, <2>4 DEF WellFormed
  <2> HIDE DEF run
  <2> QED BY <1>1, <1>2, <1>3, <2>1, <2>2, <2>4, <2>5 DEF location
<1>4. CASE cmd[p].kind # "open"
  <2> DEFINE held == Changed(c, cmd[p])
             run == [cmd[p] EXCEPT !.pc = "truncate", !.held = held]
  <2>1. cmd' = [cmd EXCEPT ![p] = run]
    BY <1>4 DEF LoadConfig
  <2>2. cmd[p].kind \in {"init", "setDefault"} /\ cmd[p].name \in Names
    BY <1>1, <1>4 DEF WellFormed, Runs
  <2>3. cmd[p].kind = "setDefault" => cmd[p].name \in DOMAIN c.repos
    BY DEF LoadConfig, Accepted
  <2>4. held \in Registries
    BY <1>1, <1>2, <2>2, ChangedType
  <2> HIDE DEF held
  <2>5. /\ run \in Runs /\ run.pc = "truncate" /\ run.kind = cmd[p].kind /\ run.name = cmd[p].name
        /\ run.cwd = cmd[p].cwd /\ run.asDefault = cmd[p].asDefault /\ run.held = held
        /\ run.location = cmd[p].location
    BY <1>1, <2>4 DEF Runs
  <2>6. WellFormed(run)
    BY <2>2, <2>5 DEF WellFormed
  <2> HIDE DEF run
  <2> QED BY <1>1, <1>2, <2>1, <2>2, <2>3, <2>5, <2>6 DEF held
<1> QED BY <1>3, <1>4

\* What a command that has made its change in memory writes.
LEMMA WritesChange ==
    ASSUME CommandsWellFormed, NEW p \in Procs, cmd[p].pc \in {"truncate", "write"}
    PROVE  cmd[p] \in Runs /\ cmd[p].name \in Names /\ cmd[p].kind \in {"init", "setDefault"}
BY DirOfType DEF WellFormed

-----------------------------------------------------------------------------
(* The types are kept. *)

LEMMA MovesTyped ==
    ASSUME CommandsWellFormed, NEW p \in Procs, NEW run \in Runs, WellFormed(run),
           cmd' = [cmd EXCEPT ![p] = run],
           meta' \in [Dirs -> 0 .. MaxCommands], commands' \in 0 .. MaxCommands,
           config' \in [state : {"none", "empty", "garbled", "whole"}, registry : Registries],
           promised' \in Registries, apart' \in BOOLEAN,
           config' = config \/ config'.state # "none",
           run.pc = "write" => config'.state # "none"
    PROVE  CommandsWellFormed'
<1>1. /\ cmd' \in [Procs -> Runs] /\ cmd'[p] = run
      /\ \A q \in Procs \ {p} : cmd'[q] = cmd[q]
      /\ \A q \in Procs : WellFormed(cmd'[q])
  BY OneMoves
<1>2. \A q \in Procs : cmd'[q].pc = "write" => config'.state # "none"
  BY <1>1 DEF CommandsWellFormed, RegistryTypeOK, At
<1> QED BY <1>1, <1>2 DEF CommandsWellFormed, RegistryTypeOK, At, Runs, WellFormed

\* What a step leaves alone keeps its type.
LEMMA RunsAre ==
    ASSUME CommandsWellFormed
    PROVE  /\ meta \in [Dirs -> 0 .. MaxCommands] /\ commands \in 0 .. MaxCommands
           /\ config \in [state : {"none", "empty", "garbled", "whole"}, registry : Registries]
           /\ promised \in Registries /\ apart \in BOOLEAN
           /\ \A p \in Procs : cmd[p].pc = "write" => config.state # "none"
BY DEF CommandsWellFormed, RegistryTypeOK, At

\* A command begins.
LEMMA StartTyped ==
    ASSUME CommandsWellFormed, NEW p \in Procs, Starts(p), UNCHANGED <<meta, config, promised>>,
           NEW run \in Runs, WellFormed(run), run.pc # "write", cmd' = [cmd EXCEPT ![p] = run]
    PROVE  CommandsWellFormed'
<1>1. commands' \in 0 .. MaxCommands /\ apart' \in BOOLEAN
  BY RunsAre, RegistryAssumption DEF Starts
<1> QED BY <1>1, RunsAre, MovesTyped

\* A command ends, and has changed nothing.
LEMMA EndTyped ==
    ASSUME CommandsWellFormed, NEW p \in Procs, cmd' = [cmd EXCEPT ![p] = Idle],
           UNCHANGED <<meta, config, commands, promised>>, apart' \in BOOLEAN
    PROVE  CommandsWellFormed'
BY RunsAre, IdleType, MovesTyped

LEMMA StepTyped ==
    ASSUME CommandsWellFormed, NEW p \in Procs,
           \/ InitExists(p) \/ InitPut(p) \/ LoadConfig(p) \/ LoadFails(p) \/ Truncate(p)
           \/ Write(p) \/ Open(p) \/ Crash(p)
    PROVE  CommandsWellFormed'
<1>1. cmd[p] \in Runs /\ WellFormed(cmd[p]) /\ DirOf(p) \in Dirs
  BY DirOfType
<1>2. CASE InitExists(p)
  <2>1. UNCHANGED <<meta, config, commands, promised, apart>> /\ At(p, "exists") /\ cmd[p].kind # "none"
    BY <1>1, <1>2 DEF InitExists, At, WellFormed
  <2>2. CASE meta[DirOf(p)] = 0
    <3>1. cmd' = Goto(p, "put")
      BY <1>2, <2>2 DEF InitExists
    <3>2. PICK run \in Runs : WellFormed(run) /\ cmd' = [cmd EXCEPT ![p] = run] /\ run.pc = "put"
      BY <2>1, <3>1, GotoRun
    <3> QED BY <2>1, <3>2, RunsAre, MovesTyped
  <2>3. CASE meta[DirOf(p)] # 0
    BY <1>2, <2>1, <2>3, RunsAre, EndTyped DEF InitExists
  <2> QED BY <2>2, <2>3
<1>3. CASE InitPut(p)
  <2>1. /\ UNCHANGED <<config, commands, promised, apart>> /\ cmd' = Goto(p, "load")
        /\ meta' = [meta EXCEPT ![DirOf(p)] = cmd[p].id] /\ cmd[p].kind # "none"
    BY <1>1, <1>3 DEF InitPut, At, WellFormed
  <2>2. PICK run \in Runs : WellFormed(run) /\ cmd' = [cmd EXCEPT ![p] = run] /\ run.pc = "load"
    BY <2>1, GotoRun
  <2>3. cmd[p].id \in 0 .. MaxCommands
    BY <1>1 DEF Runs
  <2>4. meta' \in [Dirs -> 0 .. MaxCommands]
    BY <2>1, <2>3, RunsAre
  <2> QED BY <2>1, <2>2, <2>4, RunsAre, MovesTyped
<1>4. CASE LoadConfig(p)
  <2>1. UNCHANGED <<meta, config, commands, promised, apart>>
    BY <1>4 DEF LoadConfig
  <2>2. PICK run \in Runs : /\ WellFormed(run) /\ cmd' = [cmd EXCEPT ![p] = run]
                            /\ run.pc \in {"open", "truncate"}
    BY <1>4, LoadRun
  <2> QED BY <2>1, <2>2, RunsAre, MovesTyped
<1>5. CASE LoadFails(p) \/ Open(p) \/ Crash(p)
  BY <1>5, RunsAre, EndTyped DEF LoadFails, Open, Crash
<1>6. CASE Truncate(p)
  <2>1. /\ UNCHANGED <<meta, commands, promised, apart>> /\ cmd' = Goto(p, "write")
        /\ At(p, "truncate") /\ config' = [state |-> "empty", registry |-> Empty]
    BY <1>6 DEF Truncate, NoFile
  <2>2. cmd[p].kind # "none"
    BY <1>1, <2>1 DEF WellFormed, At
  <2>3. PICK run \in Runs : WellFormed(run) /\ cmd' = [cmd EXCEPT ![p] = run] /\ run.pc = "write"
    BY <2>1, <2>2, GotoRun
  <2> QED BY <2>1, <2>3, EmptyType, RunsAre, MovesTyped
<1>7. CASE Write(p)
  <2>1. /\ UNCHANGED <<meta, commands, apart>> /\ cmd' = [cmd EXCEPT ![p] = Idle]
        /\ promised' = Changed(promised, cmd[p]) /\ cmd[p].pc = "write"
        /\ \/ config' = [state |-> "whole", registry |-> cmd[p].held]
           \/ config' = [state |-> "garbled", registry |-> Empty]
    BY <1>7 DEF Write, NoFile, At
  <2>2. promised' \in Registries
    BY <2>1, RunsAre, WritesChange, ChangedType
  <2>3. cmd[p].held \in Registries
    BY <1>1 DEF Runs
  <2>4. /\ config' \in [state : {"none", "empty", "garbled", "whole"}, registry : Registries]
        /\ config'.state # "none"
    BY <2>1, <2>3, EmptyType
  <2> QED BY <2>1, <2>2, <2>4, IdleType, RunsAre, MovesTyped
<1> QED BY <1>2, <1>3, <1>4, <1>5, <1>6, <1>7

LEMMA NextTyped == CommandsWellFormed /\ [RegistryNext]_registryVars => CommandsWellFormed'
<1> SUFFICES ASSUME CommandsWellFormed, [RegistryNext]_registryVars PROVE CommandsWellFormed'
  OBVIOUS
<1>1. ASSUME NEW p \in Procs, NEW name \in Names \cup {NoName}, NEW location \in Locations,
             NEW cwd \in Cwds, NEW asDefault \in BOOLEAN, StartInit(p, name, location, cwd, asDefault)
      PROVE  CommandsWellFormed'
  <2>1. PICK run \in Runs : WellFormed(run) /\ cmd' = [cmd EXCEPT ![p] = run] /\ run.pc = "exists"
    BY <1>1, StartInitRun
  <2> QED BY <1>1, <2>1, StartTyped DEF StartInit
<1>2. ASSUME NEW p \in Procs, NEW name \in Names, StartSetDefault(p, name)
      PROVE  CommandsWellFormed'
  <2>1. PICK run \in Runs : WellFormed(run) /\ cmd' = [cmd EXCEPT ![p] = run] /\ run.pc = "load"
    BY <1>2, StartSetDefaultRun
  <2> QED BY <1>2, <2>1, StartTyped DEF StartSetDefault
<1>3. ASSUME NEW p \in Procs, NEW name \in Names \cup {NoName}, NEW cwd \in Cwds,
             StartOpen(p, name, cwd)
      PROVE  CommandsWellFormed'
  <2>1. PICK run \in Runs : WellFormed(run) /\ cmd' = [cmd EXCEPT ![p] = run] /\ run.pc = "load"
    BY <1>3, StartOpenRun
  <2> QED BY <1>3, <2>1, StartTyped DEF StartOpen
<1>4. CASE UNCHANGED registryVars
  BY <1>4 DEF registryVars, CommandsWellFormed, RegistryTypeOK, At, WellFormed
<1> QED BY <1>1, <1>2, <1>3, <1>4, StepTyped DEF RegistryNext

LEMMA InitTyped == RegistryInit => CommandsWellFormed
<1> SUFFICES ASSUME RegistryInit PROVE CommandsWellFormed
  OBVIOUS
<1>1. 0 \in 0 .. MaxCommands
  BY RegistryAssumption
<1>2. cmd \in [Procs -> Runs] /\ \A p \in Procs : WellFormed(cmd[p]) /\ cmd[p].pc = "idle"
  BY IdleType DEF RegistryInit
<1>3. config \in [state : {"none", "empty", "garbled", "whole"}, registry : Registries]
  BY EmptyType DEF RegistryInit, NoFile
<1> QED BY <1>1, <1>2, <1>3, EmptyType DEF CommandsWellFormed, RegistryTypeOK, RegistryInit, At, Runs

LEMMA CommandsStayWellFormed == RegistrySpec => []CommandsWellFormed
BY InitTyped, NextTyped, PTL DEF RegistrySpec

\* The registry, the identities and the commands under way are what they are meant to be, for any
\* commands beside each other and killed anywhere.
THEOREM RegistryTypeCorrect == RegistrySpec => []RegistryTypeOK
<1>1. CommandsWellFormed => RegistryTypeOK
  BY DEF CommandsWellFormed
<1> QED BY <1>1, CommandsStayWellFormed, PTL

-----------------------------------------------------------------------------
(* An identity, once it is there, is not lost, and what was seen of a      *)
(* directory is not undone.                                                *)

\* Between the look for a repo.json and the writing of it.
ClearInv == \A p \in Procs :
    /\ At(p, "exists") => cmd[p].clear \/ meta[DirOf(p)] # 0
    /\ At(p, "put") => cmd[p].clear

\* No step takes an identity away; only the put of an init gives one.
LEMMA IdentitiesStay ==
    ASSUME CommandsWellFormed, [RegistryNext]_registryVars
    PROVE  /\ \A d \in Dirs : meta[d] # 0 => meta'[d] # 0
           /\ \A d \in Dirs : meta'[d] # meta[d] =>
                \E p \in Procs : At(p, "put") /\ DirOf(p) = d /\ cmd' = Goto(p, "load")
<1>1. CASE UNCHANGED meta
  BY <1>1
<1>2. ASSUME NEW p \in Procs, InitPut(p)
      PROVE  /\ \A d \in Dirs : meta[d] # 0 => meta'[d] # 0
             /\ \A d \in Dirs : meta'[d] # meta[d] =>
                  \E q \in Procs : At(q, "put") /\ DirOf(q) = d /\ cmd' = Goto(q, "load")
  <2>1. /\ meta' = [meta EXCEPT ![DirOf(p)] = cmd[p].id] /\ At(p, "put") /\ cmd' = Goto(p, "load")
    BY <1>2 DEF InitPut
  <2>2. meta \in [Dirs -> 0 .. MaxCommands]
    BY RunsAre
  <2>3. cmd[p].id > 0 /\ cmd[p].id \in 0 .. MaxCommands
    BY <2>1, DirOfType DEF WellFormed, At, Runs
  <2>4. \A d \in Dirs : meta'[d] # meta[d] => d = DirOf(p)
    BY <2>1, <2>2
  <2>5. \A d \in Dirs : d = DirOf(p) => meta'[d] = cmd[p].id
    BY <2>1, <2>2
  <2>6. \A d \in Dirs : meta[d] # 0 => meta'[d] # 0
    BY <2>3, <2>4, <2>5
  <2> QED BY <2>1, <2>4, <2>6
<1>3. UNCHANGED meta \/ \E p \in Procs : InitPut(p)
  BY DEF RegistryNext, registryVars, StartInit, StartSetDefault, StartOpen, InitExists, LoadConfig,
         LoadFails, Truncate, Write, Open, Crash
<1> QED BY <1>1, <1>2, <1>3

\* The command of one process goes on by run, and keeps to what ClearInv says of it.
LEMMA ClearMoves ==
    ASSUME CommandsWellFormed, ClearInv, NEW p \in Procs, NEW run \in Runs, WellFormed(run),
           cmd' = [cmd EXCEPT ![p] = run],
           run.pc = "exists" => run.clear \/ meta'[Where[run.cwd][run.location]] # 0,
           run.pc = "put" => run.clear,
           \A d \in Dirs : meta[d] # 0 => meta'[d] # 0
    PROVE  ClearInv'
<1>1. /\ cmd'[p] = run /\ \A q \in Procs \ {p} : cmd'[q] = cmd[q]
  BY OneMoves
<1>2. \A q \in Procs : DirOf(q) \in Dirs
  BY DirOfType
<1>3. \A q \in Procs \ {p} : DirOf(q)' = DirOf(q)
  BY <1>1 DEF DirOf
<1>4. DirOf(p)' = Where[run.cwd][run.location]
  BY <1>1 DEF DirOf
<1> QED BY <1>1, <1>2, <1>3, <1>4 DEF ClearInv, At

LEMMA ClearStep == CommandsWellFormed /\ ClearInv /\ [RegistryNext]_registryVars => ClearInv'
<1> SUFFICES ASSUME CommandsWellFormed, ClearInv, [RegistryNext]_registryVars PROVE ClearInv'
  OBVIOUS
<1> DEFINE Stays == \A d \in Dirs : meta[d] # 0 => meta'[d] # 0
<1>0. Stays
  BY IdentitiesStay
<1> HIDE DEF Stays
<1>1. ASSUME NEW p \in Procs, cmd' = [cmd EXCEPT ![p] = Idle] PROVE ClearInv'
  BY <1>0, <1>1, IdleType, ClearMoves DEF Stays
<1>2. ASSUME NEW p \in Procs, NEW name \in Names \cup {NoName}, NEW location \in Locations,
             NEW cwd \in Cwds, NEW asDefault \in BOOLEAN, StartInit(p, name, location, cwd, asDefault)
      PROVE  ClearInv'
  <2>1. PICK run \in Runs :
             /\ WellFormed(run) /\ cmd' = [cmd EXCEPT ![p] = run]
             /\ run.pc = "exists" /\ run.location = location /\ run.cwd = cwd
             /\ run.clear = (meta[Where[cwd][location]] = 0)
    BY <1>2, StartInitRun
  <2>2. UNCHANGED meta
    BY <1>2 DEF StartInit
  <2> QED BY <1>0, <2>1, <2>2, ClearMoves DEF Stays
<1>3. ASSUME NEW p \in Procs, NEW run \in Runs, WellFormed(run), cmd' = [cmd EXCEPT ![p] = run],
             run.pc \notin {"exists", "put"}
      PROVE  ClearInv'
  BY <1>0, <1>3, ClearMoves DEF Stays
<1>4. ASSUME NEW p \in Procs, NEW name \in Names, StartSetDefault(p, name) PROVE ClearInv'
  <2>1. PICK run \in Runs : WellFormed(run) /\ cmd' = [cmd EXCEPT ![p] = run] /\ run.pc = "load"
    BY <1>4, StartSetDefaultRun
  <2> QED BY <1>3, <2>1
<1>5. ASSUME NEW p \in Procs, NEW name \in Names \cup {NoName}, NEW cwd \in Cwds,
             StartOpen(p, name, cwd)
      PROVE  ClearInv'
  <2>1. PICK run \in Runs : WellFormed(run) /\ cmd' = [cmd EXCEPT ![p] = run] /\ run.pc = "load"
    BY <1>5, StartOpenRun
  <2> QED BY <1>3, <2>1
<1>6. ASSUME NEW p \in Procs, InitExists(p) PROVE ClearInv'
  <2>1. UNCHANGED meta /\ At(p, "exists") /\ cmd[p].kind # "none"
    BY <1>6, DirOfType DEF InitExists, At, WellFormed
  <2>2. CASE meta[DirOf(p)] = 0
    <3>1. cmd' = Goto(p, "put")
      BY <1>6, <2>2 DEF InitExists
    <3>2. PICK run \in Runs : /\ WellFormed(run) /\ cmd' = [cmd EXCEPT ![p] = run]
                              /\ run.pc = "put" /\ run.clear = cmd[p].clear
      BY <2>1, <3>1, GotoRun
    <3>3. cmd[p].clear
      BY <2>1, <2>2 DEF ClearInv
    <3> QED BY <1>0, <3>2, <3>3, ClearMoves DEF Stays
  <2>3. CASE meta[DirOf(p)] # 0
    BY <1>1, <1>6, <2>3 DEF InitExists
  <2> QED BY <2>2, <2>3
<1>7. ASSUME NEW p \in Procs, NEW pc \in {"load", "write"}, cmd[p].kind # "none",
             pc = "write" => At(p, "truncate"), cmd' = Goto(p, pc)
      PROVE  ClearInv'
  <2>1. PICK run \in Runs : WellFormed(run) /\ cmd' = [cmd EXCEPT ![p] = run] /\ run.pc = pc
    BY <1>7, GotoRun
  <2> QED BY <1>3, <2>1
<1>8. ASSUME NEW p \in Procs, InitPut(p) \/ Truncate(p) PROVE ClearInv'
  <2>1. cmd[p].kind # "none"
    BY <1>8, DirOfType DEF InitPut, Truncate, At, WellFormed
  <2> QED BY <1>7, <1>8, <2>1 DEF InitPut, Truncate
<1>9. ASSUME NEW p \in Procs, LoadConfig(p) PROVE ClearInv'
  <2>1. PICK run \in Runs : /\ WellFormed(run) /\ cmd' = [cmd EXCEPT ![p] = run]
                            /\ run.pc \in {"open", "truncate"}
    BY <1>9, LoadRun
  <2> QED BY <1>3, <2>1
<1>10. ASSUME NEW p \in Procs, LoadFails(p) \/ Write(p) \/ Open(p) \/ Crash(p) PROVE ClearInv'
  BY <1>1, <1>10 DEF LoadFails, Write, Open, Crash
<1>11. CASE UNCHANGED registryVars
  BY <1>11 DEF registryVars, ClearInv, At, DirOf
<1> QED BY <1>2, <1>4, <1>5, <1>6, <1>8, <1>9, <1>10, <1>11 DEF RegistryNext

LEMMA ClearAlways == RegistrySpec => []ClearInv
<1>1. RegistryInit => ClearInv
  BY IdleType DEF RegistryInit, ClearInv, At
<1> QED BY <1>1, ClearStep, CommandsStayWellFormed, PTL DEF RegistrySpec

\* An init that begins once the repository is there leaves its identity alone (repo.go:56), for any
\* number of processes, directories and kills.  It says nothing of inits that begin before it is
\* there, of which one may replace what another has put: that is InitOnce of Registry.
THEOREM IdentitiesKept == RegistrySpec => IdentityKept
<1> DEFINE A == \A p \in Procs, d \in Dirs :
                  meta[d] # 0 /\ meta'[d] # meta[d] /\ At(p, "put") /\ cmd'[p].pc # "put"
                    => cmd[p].clear
<1>1. CommandsWellFormed /\ ClearInv /\ [RegistryNext]_registryVars => [A]_registryVars
  BY DEF ClearInv
<1> QED BY <1>1, ClearAlways, CommandsStayWellFormed, PTL DEF RegistrySpec, IdentityKept

-----------------------------------------------------------------------------
(* What the registry names is there.  A relative location may mean another *)
(* directory to the next command, and be none to it: the locations are     *)
(* taken to be absolute.                                                   *)

Absolute == \A here, there \in Cwds, location \in Locations :
                Where[here][location] = Where[there][location]

\* The default is an entry, and each entry leads to a repository.
Leads(c) ==
    /\ c.default # NoName => c.default \in DOMAIN c.repos
    /\ \A name \in DOMAIN c.repos, cwd \in Cwds : meta[Where[cwd][c.repos[name]]] # 0

\* Where a command is about to enter a repository, or to open one, there is one.
Founded(run) ==
    /\ run.kind = "init" /\ run.pc \in {"load", "truncate", "write"} =>
         meta[Where[run.cwd][run.location]] # 0
    /\ run.pc \in {"truncate", "write"} => Leads(run.held)
    /\ run.pc = "open" => meta[Where[run.cwd][run.location]] # 0

OpenInv == Leads(config.registry) /\ \A p \in Procs : Founded(cmd[p])

LEMMA OpenEntries == OpenInv => EntriesOpen
<1> SUFFICES ASSUME OpenInv PROVE EntriesOpen
  OBVIOUS
<1>1. \A c \in Current : Leads(c)
  BY DEF OpenInv, Founded, Current
<1> QED BY <1>1 DEF OpenInv, Founded, Leads, EntriesOpen, At, DirOf

LEMMA EmptyLeads == Leads(Empty) /\ Founded(Idle)
BY EmptyType, IdleType DEF Leads, Founded

\* What leads somewhere does so after a step.
LEMMA StaysFounded ==
    ASSUME CommandsWellFormed, \A d \in Dirs : meta[d] # 0 => meta'[d] # 0
    PROVE  /\ \A c \in Registries : Leads(c) => /\ c.default # NoName => c.default \in DOMAIN c.repos
                                                /\ \A name \in DOMAIN c.repos, cwd \in Cwds :
                                                     meta'[Where[cwd][c.repos[name]]] # 0
           /\ \A run \in Runs : Founded(run) =>
                /\ run.kind = "init" /\ run.pc \in {"load", "truncate", "write"} =>
                     meta'[Where[run.cwd][run.location]] # 0
                /\ run.pc = "open" => meta'[Where[run.cwd][run.location]] # 0
<1>1. \A cwd \in Cwds, location \in Locations : Where[cwd][location] \in Dirs
  BY RegistryAssumption
<1>2. \A run \in Runs : Where[run.cwd][run.location] \in Dirs
  BY <1>1 DEF Runs
<1> QED BY <1>1, <1>2, EntriesAre DEF Leads, Founded

\* One process goes on by run, and the file stays as it is or gets a registry that leads.
LEMMA OpenMoves ==
    ASSUME CommandsWellFormed, OpenInv, NEW p \in Procs, NEW run \in Runs, WellFormed(run),
           cmd' = [cmd EXCEPT ![p] = run],
           \A d \in Dirs : meta[d] # 0 => meta'[d] # 0,
           Founded(run)',
           config' = config \/ Leads(config.registry)'
    PROVE  OpenInv'
<1>1. /\ cmd'[p] = run /\ \A q \in Procs \ {p} : cmd'[q] = cmd[q]
  BY OneMoves
<1>2. \A q \in Procs : cmd[q] \in Runs /\ cmd[q].held \in Registries
  BY DirOfType DEF Runs
<1>3. \A q \in Procs \ {p} : Founded(cmd[q])'
  <2> SUFFICES ASSUME NEW q \in Procs \ {p} PROVE Founded(cmd[q])'
    OBVIOUS
  <2>1. cmd'[q] = cmd[q] /\ Founded(cmd[q]) /\ cmd[q] \in Runs /\ cmd[q].held \in Registries
    BY <1>1, <1>2 DEF OpenInv
  <2>2. cmd[q].pc \in {"truncate", "write"} =>
          /\ cmd[q].held.default # NoName => cmd[q].held.default \in DOMAIN cmd[q].held.repos
          /\ \A name \in DOMAIN cmd[q].held.repos, cwd \in Cwds :
               meta'[Where[cwd][cmd[q].held.repos[name]]] # 0
    BY <2>1, StaysFounded DEF Founded
  <2>3. /\ cmd[q].kind = "init" /\ cmd[q].pc \in {"load", "truncate", "write"} =>
             meta'[Where[cmd[q].cwd][cmd[q].location]] # 0
        /\ cmd[q].pc = "open" => meta'[Where[cmd[q].cwd][cmd[q].location]] # 0
    BY <2>1, StaysFounded
  <2> QED BY <2>1, <2>2, <2>3 DEF Founded, Leads
<1>4. Leads(config.registry)'
  <2>1. config.registry \in Registries
    BY RunsAre
  <2>2. CASE config' = config
    BY <2>1, <2>2, StaysFounded DEF OpenInv, Leads
  <2> QED BY <2>2
<1>5. \A q \in Procs : Founded(cmd[q])'
  BY <1>1, <1>3
<1> QED BY <1>4, <1>5 DEF OpenInv

\* The change a command makes leads where it should.
LEMMA ChangeLeads ==
    ASSUME Absolute, CommandsWellFormed, OpenInv, NEW p \in Procs, At(p, "load"),
           cmd[p].kind \in {"init", "setDefault"},
           cmd[p].kind = "setDefault" => cmd[p].name \in DOMAIN config.registry.repos
    PROVE  Leads(Changed(config.registry, cmd[p]))
<1> DEFINE c == config.registry
           run == cmd[p]
           d == Changed(c, run)
<1>1. c \in Registries /\ run \in Runs /\ WellFormed(run) /\ Leads(c) /\ Founded(run)
  BY RunsAre, DirOfType DEF OpenInv
<1>2. /\ run.name \in Names /\ run.location \in Locations /\ run.asDefault \in BOOLEAN
      /\ run.cwd \in Cwds
  BY <1>1 DEF WellFormed, Runs
<1>3. CASE run.kind = "init"
  <2>1. /\ d \in Registries /\ DOMAIN d.repos = DOMAIN c.repos \cup {run.name}
        /\ d.repos[run.name] = run.location
        /\ \A other \in DOMAIN c.repos \ {run.name} : d.repos[other] = c.repos[other]
        /\ d.default \in {run.name, c.default} \ {NoName}
    <3>1. d = WithEntry(c, run.name, run.location, run.asDefault)
      BY <1>3 DEF Changed
    <3> HIDE DEF d, c, run
    <3> QED BY <1>1, <1>2, <3>1, WithEntryType
  <2>2. \A cwd \in Cwds : meta[Where[cwd][run.location]] # 0
    BY <1>1, <1>2, <1>3 DEF Founded, At, Absolute
  <2> HIDE DEF c, d, run
  <2> QED BY <1>1, <2>1, <2>2 DEF Leads, d, run, c
<1>4. CASE run.kind = "setDefault"
  <2>1. d.default = run.name /\ d.repos = c.repos
    BY <1>1, <1>4 DEF Changed, Registries
  <2> HIDE DEF c, d, run
  <2>2. Leads(d)
    BY <1>1, <1>4, <2>1 DEF Leads, run, c
  <2> QED BY <2>2 DEF d, c, run
<1> QED BY <1>3, <1>4

LEMMA OpenStep ==
    ASSUME Absolute, CommandsWellFormed, OpenInv, [RegistryNext]_registryVars
    PROVE  OpenInv'
<1> DEFINE Stays == \A d \in Dirs : meta[d] # 0 => meta'[d] # 0
<1>0. Stays
  BY IdentitiesStay
<1> HIDE DEF Stays
<1>1. ASSUME NEW p \in Procs, NEW run \in Runs, WellFormed(run), cmd' = [cmd EXCEPT ![p] = run],
             UNCHANGED config, Founded(run)'
      PROVE  OpenInv'
  BY <1>0, <1>1, OpenMoves DEF Stays
<1>2. Leads(Empty)' /\ Founded(Idle)'
  BY EmptyType, IdleType DEF Leads, Founded
<1>3. ASSUME NEW p \in Procs, NEW name \in Names \cup {NoName}, NEW location \in Locations,
             NEW cwd \in Cwds, NEW asDefault \in BOOLEAN, StartInit(p, name, location, cwd, asDefault)
      PROVE  OpenInv'
  <2>1. PICK run \in Runs : /\ WellFormed(run) /\ cmd' = [cmd EXCEPT ![p] = run]
                            /\ run.pc = "exists"
    BY <1>3, StartInitRun
  <2>2. Founded(run)'
    BY <2>1 DEF Founded
  <2> QED BY <1>1, <1>3, <2>1, <2>2 DEF StartInit
<1>4. ASSUME NEW p \in Procs, NEW name \in Names, StartSetDefault(p, name) PROVE OpenInv'
  <2>1. PICK run \in Runs : /\ WellFormed(run) /\ cmd' = [cmd EXCEPT ![p] = run]
                            /\ run.pc = "load" /\ run.kind = "setDefault"
    BY <1>4, StartSetDefaultRun
  <2>2. Founded(run)'
    BY <2>1 DEF Founded
  <2> QED BY <1>1, <1>4, <2>1, <2>2 DEF StartSetDefault
<1>5. ASSUME NEW p \in Procs, NEW name \in Names \cup {NoName}, NEW cwd \in Cwds,
             StartOpen(p, name, cwd)
      PROVE  OpenInv'
  <2>1. PICK run \in Runs : /\ WellFormed(run) /\ cmd' = [cmd EXCEPT ![p] = run]
                            /\ run.pc = "load" /\ run.kind = "open"
    BY <1>5, StartOpenRun
  <2>2. Founded(run)'
    BY <2>1 DEF Founded
  <2> QED BY <1>1, <1>5, <2>1, <2>2 DEF StartOpen
<1>6. ASSUME NEW p \in Procs, InitExists(p) PROVE OpenInv'
  <2>1. UNCHANGED <<meta, config>> /\ At(p, "exists") /\ cmd[p].kind # "none"
    BY <1>6, DirOfType DEF InitExists, At, WellFormed
  <2>2. CASE meta[DirOf(p)] = 0
    <3>1. cmd' = Goto(p, "put")
      BY <1>6, <2>2 DEF InitExists
    <3>2. PICK run \in Runs : WellFormed(run) /\ cmd' = [cmd EXCEPT ![p] = run] /\ run.pc = "put"
      BY <2>1, <3>1, GotoRun
    <3>3. Founded(run)'
      BY <3>2 DEF Founded
    <3> QED BY <1>1, <2>1, <3>2, <3>3
  <2>3. CASE meta[DirOf(p)] # 0
    BY <1>1, <1>2, <1>6, <2>1, <2>3, IdleType DEF InitExists
  <2> QED BY <2>2, <2>3
<1>7. ASSUME NEW p \in Procs, InitPut(p) PROVE OpenInv'
  <2>1. /\ UNCHANGED config /\ cmd' = Goto(p, "load") /\ At(p, "put")
        /\ meta' = [meta EXCEPT ![DirOf(p)] = cmd[p].id]
    BY <1>7 DEF InitPut
  <2>2. /\ DirOf(p) \in Dirs /\ cmd[p].id > 0 /\ cmd[p].id \in 0 .. MaxCommands
        /\ cmd[p].kind # "none"
    BY <2>1, DirOfType DEF WellFormed, At, Runs
  <2>3. meta'[DirOf(p)] # 0
    BY <2>1, <2>2, RunsAre
  <2>4. PICK run \in Runs : /\ WellFormed(run) /\ cmd' = [cmd EXCEPT ![p] = run] /\ run.pc = "load"
                            /\ run.location = cmd[p].location /\ run.cwd = cmd[p].cwd
    BY <2>1, <2>2, GotoRun
  <2>5. Founded(run)'
    BY <2>3, <2>4 DEF Founded, DirOf
  <2> QED BY <1>1, <2>1, <2>4, <2>5
<1>8. ASSUME NEW p \in Procs, LoadConfig(p) PROVE OpenInv'
  <2> DEFINE c == config.registry
  <2>1. UNCHANGED <<meta, config>> /\ At(p, "load") /\ Leads(c) /\ c \in Registries
    BY <1>8, RunsAre DEF LoadConfig, OpenInv
  <2>2. PICK run \in Runs :
          /\ WellFormed(run) /\ cmd' = [cmd EXCEPT ![p] = run]
          /\ run.kind = cmd[p].kind /\ run.cwd = cmd[p].cwd
          /\ \/ /\ cmd[p].kind = "open" /\ run.pc = "open" /\ Resolves(c, cmd[p].name)
                /\ run.location = ResolvedLocation(c, cmd[p].name)
             \/ /\ cmd[p].kind \in {"init", "setDefault"} /\ run.pc = "truncate"
                /\ run.location = cmd[p].location
                /\ run.held = Changed(c, cmd[p])
                /\ cmd[p].kind = "setDefault" => cmd[p].name \in DOMAIN c.repos
    BY <1>8, LoadRun
  <2>3. CASE run.pc = "open"
    <3>1. /\ Resolves(c, cmd[p].name) /\ run.location = ResolvedLocation(c, cmd[p].name)
          /\ run.cwd \in Cwds /\ run.kind = "open"
      BY <2>2, <2>3 DEF Runs
    <3>2. meta[Where[run.cwd][run.location]] # 0
      BY <2>1, <3>1 DEF Leads, Resolves, ResolvedLocation
    <3>3. Founded(run)'
      BY <2>1, <2>3, <3>1, <3>2 DEF Founded
    <3> QED BY <1>1, <2>1, <2>2, <3>3
  <2>4. CASE run.pc = "truncate"
    <3>1. /\ cmd[p].kind \in {"init", "setDefault"} /\ run.location = cmd[p].location
          /\ run.held = Changed(c, cmd[p])
          /\ cmd[p].kind = "setDefault" => cmd[p].name \in DOMAIN c.repos
      BY <2>2, <2>4
    <3>2. Leads(run.held)
      BY <2>1, <3>1, ChangeLeads
    <3>3. run.kind = "init" => meta[Where[run.cwd][run.location]] # 0
      BY <2>1, <2>2, <3>1 DEF OpenInv, Founded, At
    <3>4. Founded(run)'
      BY <2>1, <2>4, <3>2, <3>3 DEF Founded, Leads
    <3> QED BY <1>1, <2>1, <2>2, <3>4
  <2> QED BY <2>2, <2>3, <2>4
<1>9. ASSUME NEW p \in Procs, LoadFails(p) \/ Open(p) \/ Crash(p) PROVE OpenInv'
  BY <1>1, <1>2, <1>9, IdleType DEF LoadFails, Open, Crash
<1>10. ASSUME NEW p \in Procs, Truncate(p) PROVE OpenInv'
  <2>1. /\ UNCHANGED meta /\ cmd' = Goto(p, "write") /\ At(p, "truncate")
        /\ config'.registry = Empty
    BY <1>10 DEF Truncate, NoFile
  <2>2. cmd[p].kind # "none" /\ cmd[p] \in Runs /\ Founded(cmd[p])
    BY <2>1, DirOfType DEF WellFormed, At, OpenInv
  <2>3. PICK run \in Runs : /\ WellFormed(run) /\ cmd' = [cmd EXCEPT ![p] = run] /\ run.pc = "write"
                            /\ run.kind = cmd[p].kind /\ run.location = cmd[p].location
                            /\ run.cwd = cmd[p].cwd /\ run.held = cmd[p].held
    BY <2>1, <2>2, GotoRun
  <2>4. Founded(run)'
    BY <2>1, <2>2, <2>3 DEF Founded, Leads, At
  <2>5. Leads(config.registry)'
    BY <1>2, <2>1 DEF Leads
  <2> QED BY <1>0, <2>3, <2>4, <2>5, OpenMoves DEF Stays
<1>11. ASSUME NEW p \in Procs, Write(p) PROVE OpenInv'
  <2>1. /\ UNCHANGED meta /\ cmd' = [cmd EXCEPT ![p] = Idle] /\ At(p, "write")
        /\ config'.registry \in {cmd[p].held, Empty}
    BY <1>11 DEF Write, NoFile
  <2>2. Leads(cmd[p].held)
    BY <2>1 DEF OpenInv, Founded, At
  <2>3. Leads(config.registry)'
    BY <1>2, <2>1, <2>2 DEF Leads
  <2> QED BY <1>0, <1>2, <2>1, <2>3, IdleType, OpenMoves DEF Stays
<1>12. CASE UNCHANGED registryVars
  BY <1>12 DEF registryVars, OpenInv, Leads, Founded
<1> QED BY <1>3, <1>4, <1>5, <1>6, <1>7, <1>8, <1>9, <1>10, <1>11, <1>12 DEF RegistryNext

\* What the registry names is there, from every working directory, where locations are absolute:
\* whatever inits and changes of the default run beside each other and are killed, between the
\* put of repo.json (init.go:38) and the two steps of a save (init.go:51) too.
THEOREM EntriesAlwaysOpen ==
    ASSUME Absolute
    PROVE  RegistrySpec => []EntriesOpen
<1>1. RegistryInit => OpenInv
  BY EmptyLeads DEF RegistryInit, OpenInv, NoFile
<1>2. CommandsWellFormed /\ OpenInv /\ [RegistryNext]_registryVars => OpenInv'
  BY OpenStep
<1> QED BY <1>1, <1>2, OpenEntries, CommandsStayWellFormed, PTL DEF RegistrySpec

-----------------------------------------------------------------------------
(* What commands that have reported success have made of the registry is   *)
(* kept.                                                                   *)

\* The file that holds what was promised.
Kept == [state |-> IF promised = Empty THEN "none" ELSE "whole", registry |-> promised]

\* As long as commands come one after another and are not killed: the one under way, if any, is
\* about to write what it makes of the promises, and the file holds them but while it is cut off.
PromiseInv == apart =>
    /\ \A p, q \in Procs : At(p, "idle") \/ At(q, "idle") \/ p = q
    /\ \A p \in Procs : cmd[p].pc \in {"truncate", "write"} => cmd[p].held = Changed(promised, cmd[p])
    /\ (\A p \in Procs : ~At(p, "write")) => config = Kept
    /\ \A p \in Procs : At(p, "write") => config.state = "empty"

\* A step of the only command under way that leaves the file alone.
LEMMA PromiseMoves ==
    ASSUME CommandsWellFormed, PromiseInv, NEW p \in Procs, NEW run \in Runs, WellFormed(run),
           cmd' = [cmd EXCEPT ![p] = run], UNCHANGED <<config, promised>>,
           apart' => /\ apart /\ ~At(p, "write") /\ run.pc # "write"
                     /\ \A q \in Procs : q # p => At(q, "idle"),
           apart' /\ run.pc = "truncate" => run.held = Changed(promised, run)
    PROVE  PromiseInv'
<1> SUFFICES ASSUME apart' PROVE PromiseInv'
  BY DEF PromiseInv
<1>1. /\ cmd'[p] = run /\ \A q \in Procs \ {p} : cmd'[q] = cmd[q]
  BY OneMoves
<1>2. \A q \in Procs \ {p} : cmd'[q].pc = "idle" /\ cmd[q].pc = "idle"
  BY <1>1 DEF At
<1>3. config = Kept
  BY <1>2 DEF PromiseInv, At
<1>4. \A q \in Procs : cmd'[q].pc # "write"
  BY <1>1, <1>2
<1>5. \A q \in Procs : cmd'[q].pc = "truncate" => cmd'[q].held = Changed(promised, cmd'[q])
  BY <1>1, <1>2
<1>6. config' = Kept' /\ promised' = promised
  BY <1>3 DEF Kept
<1>7. \A q, r \in Procs : cmd'[q].pc = "idle" \/ cmd'[r].pc = "idle" \/ q = r
  BY <1>2
<1> HIDE DEF Kept
<1>8. \A q \in Procs : cmd'[q].pc \in {"truncate", "write"} =>
                         cmd'[q].held = Changed(promised', cmd'[q])
  BY <1>4, <1>5, <1>6
<1>9. \A q \in Procs : Changed(promised, cmd[q])' = Changed(promised', cmd'[q])
  BY DEF Changed, WithEntry
<1> QED BY <1>4, <1>6, <1>7, <1>8, <1>9 DEF PromiseInv, At

\* The one under way is the only one.
LEMMA Alone ==
    ASSUME PromiseInv, apart, NEW p \in Procs, ~At(p, "idle")
    PROVE  \A q \in Procs : q # p => At(q, "idle")
BY DEF PromiseInv

\* A command begins, and if it is the only one it has not got to the file yet.
LEMMA PromiseStarts ==
    ASSUME CommandsWellFormed, PromiseInv, NEW p \in Procs, Starts(p), NEW run \in Runs,
           WellFormed(run), cmd' = [cmd EXCEPT ![p] = run], UNCHANGED <<config, promised>>,
           run.pc \in {"exists", "load"}
    PROVE  PromiseInv'
<1>1. apart' => apart /\ \A q \in Procs : At(q, "idle")
  BY DEF Starts
<1>2. ~At(p, "write")
  BY DEF Starts, At
<1> QED BY <1>1, <1>2, PromiseMoves

\* A command goes on, or ends, without getting to the file.
LEMMA PromiseGoesOn ==
    ASSUME CommandsWellFormed, PromiseInv, NEW p \in Procs, NEW run \in Runs, WellFormed(run),
           cmd' = [cmd EXCEPT ![p] = run], UNCHANGED <<config, promised, apart>>,
           cmd[p].pc \notin {"idle", "write"}, run.pc # "write",
           apart /\ run.pc = "truncate" => run.held = Changed(promised, run)
    PROVE  PromiseInv'
<1>1. ~At(p, "idle") /\ ~At(p, "write")
  BY DEF At
<1>2. apart => \A q \in Procs : q # p => At(q, "idle")
  BY <1>1, Alone
<1> QED BY <1>1, <1>2, PromiseMoves

LEMMA PromiseStep ==
    ASSUME CommandsWellFormed, PromiseInv, [RegistryNext]_registryVars
    PROVE  PromiseInv'
<1>1. ASSUME NEW p \in Procs, NEW name \in Names \cup {NoName}, NEW location \in Locations,
             NEW cwd \in Cwds, NEW asDefault \in BOOLEAN, StartInit(p, name, location, cwd, asDefault)
      PROVE  PromiseInv'
  <2>1. PICK run \in Runs : WellFormed(run) /\ cmd' = [cmd EXCEPT ![p] = run] /\ run.pc = "exists"
    BY <1>1, StartInitRun
  <2> QED BY <1>1, <2>1, PromiseStarts DEF StartInit
<1>2. ASSUME NEW p \in Procs, NEW name \in Names, StartSetDefault(p, name) PROVE PromiseInv'
  <2>1. PICK run \in Runs : WellFormed(run) /\ cmd' = [cmd EXCEPT ![p] = run] /\ run.pc = "load"
    BY <1>2, StartSetDefaultRun
  <2> QED BY <1>2, <2>1, PromiseStarts DEF StartSetDefault
<1>3. ASSUME NEW p \in Procs, NEW name \in Names \cup {NoName}, NEW cwd \in Cwds,
             StartOpen(p, name, cwd)
      PROVE  PromiseInv'
  <2>1. PICK run \in Runs : WellFormed(run) /\ cmd' = [cmd EXCEPT ![p] = run] /\ run.pc = "load"
    BY <1>3, StartOpenRun
  <2> QED BY <1>3, <2>1, PromiseStarts DEF StartOpen
<1>4. ASSUME NEW p \in Procs, InitExists(p) PROVE PromiseInv'
  <2>1. UNCHANGED <<config, promised, apart>> /\ cmd[p].pc = "exists" /\ cmd[p].kind # "none"
    BY <1>4, DirOfType DEF InitExists, At, WellFormed
  <2>2. CASE meta[DirOf(p)] = 0
    <3>1. cmd' = Goto(p, "put")
      BY <1>4, <2>2 DEF InitExists
    <3>2. PICK run \in Runs : WellFormed(run) /\ cmd' = [cmd EXCEPT ![p] = run] /\ run.pc = "put"
      BY <2>1, <3>1, GotoRun DEF At
    <3> QED BY <2>1, <3>2, PromiseGoesOn
  <2>3. CASE meta[DirOf(p)] # 0
    BY <1>4, <2>1, <2>3, IdleType, PromiseGoesOn DEF InitExists
  <2> QED BY <2>2, <2>3
<1>5. ASSUME NEW p \in Procs, InitPut(p) PROVE PromiseInv'
  <2>1. /\ UNCHANGED <<config, promised, apart>> /\ cmd[p].pc = "put" /\ cmd[p].kind # "none"
        /\ cmd' = Goto(p, "load")
    BY <1>5, DirOfType DEF InitPut, At, WellFormed
  <2>2. PICK run \in Runs : WellFormed(run) /\ cmd' = [cmd EXCEPT ![p] = run] /\ run.pc = "load"
    BY <2>1, GotoRun
  <2> QED BY <2>1, <2>2, PromiseGoesOn
<1>6. ASSUME NEW p \in Procs, LoadConfig(p) PROVE PromiseInv'
  <2> DEFINE c == config.registry
  <2>1. UNCHANGED <<config, promised, apart>> /\ cmd[p].pc = "load"
    BY <1>6 DEF LoadConfig, At
  <2>2. PICK run \in Runs :
          /\ WellFormed(run) /\ cmd' = [cmd EXCEPT ![p] = run]
          /\ run.kind = cmd[p].kind /\ run.name = cmd[p].name /\ run.asDefault = cmd[p].asDefault
          /\ \/ run.pc = "open"
             \/ /\ run.pc = "truncate" /\ run.location = cmd[p].location
                /\ run.held = Changed(c, cmd[p])
    BY <1>6, LoadRun
  <2>3. ASSUME apart, run.pc = "truncate" PROVE run.held = Changed(promised, run)
    <3>1. \A q \in Procs : ~At(q, "write")
      BY <2>1, <2>3, Alone DEF At
    <3>2. c = promised
      BY <2>3, <3>1 DEF PromiseInv, Kept
    <3>3. Changed(promised, run) = Changed(promised, cmd[p])
      BY <2>2, <2>3 DEF Changed
    <3> QED BY <2>2, <2>3, <3>2, <3>3
  <2> QED BY <2>1, <2>2, <2>3, PromiseGoesOn
<1>7. ASSUME NEW p \in Procs, LoadFails(p) \/ Open(p) PROVE PromiseInv'
  BY <1>7, IdleType, PromiseGoesOn DEF LoadFails, Open, At
<1>8. ASSUME NEW p \in Procs, Crash(p) PROVE PromiseInv'
  BY <1>8 DEF Crash, PromiseInv
<1>9. ASSUME NEW p \in Procs, Truncate(p) PROVE PromiseInv'
  <2>1. /\ UNCHANGED <<promised, apart>> /\ cmd[p].pc = "truncate" /\ cmd' = Goto(p, "write")
        /\ config'.state = "empty"
    BY <1>9 DEF Truncate, At, NoFile
  <2>2. cmd[p].kind # "none"
    BY <2>1, DirOfType DEF WellFormed
  <2>3. PICK run \in Runs :
          /\ WellFormed(run) /\ cmd' = [cmd EXCEPT ![p] = run] /\ run.pc = "write"
          /\ run.kind = cmd[p].kind /\ run.name = cmd[p].name /\ run.location = cmd[p].location
          /\ run.asDefault = cmd[p].asDefault /\ run.held = cmd[p].held
    BY <2>1, <2>2, GotoRun DEF At
  <2>4. /\ cmd'[p] = run /\ \A q \in Procs \ {p} : cmd'[q] = cmd[q]
    BY <2>3, OneMoves
  <2> SUFFICES ASSUME apart PROVE PromiseInv'
    BY <2>1 DEF PromiseInv
  <2>5. \A q \in Procs \ {p} : cmd'[q].pc = "idle"
    BY <2>1, <2>4, Alone DEF At
  <2>6. run.held = Changed(promised, run)
    BY <2>1, <2>3 DEF PromiseInv, Changed
  <2>7. \A q \in Procs : cmd'[q].pc \in {"truncate", "write"} =>
                           cmd'[q].held = Changed(promised', cmd'[q])
    BY <2>1, <2>4, <2>5, <2>6
  <2>8. \A q \in Procs : Changed(promised, cmd[q])' = Changed(promised', cmd'[q])
    BY DEF Changed, WithEntry
  <2>9. \E q \in Procs : cmd'[q].pc = "write"
    BY <2>3, <2>4
  <2> QED BY <2>1, <2>4, <2>5, <2>7, <2>8, <2>9 DEF PromiseInv, At
<1>10. ASSUME NEW p \in Procs, Write(p) PROVE PromiseInv'
  <2>1. /\ UNCHANGED apart /\ At(p, "write") /\ cmd' = [cmd EXCEPT ![p] = Idle]
        /\ promised' = Changed(promised, cmd[p])
        /\ \/ config' = [state |-> "whole", registry |-> cmd[p].held]
           \/ config.state \in {"garbled", "whole"}
    BY <1>10 DEF Write
  <2> SUFFICES ASSUME apart PROVE PromiseInv'
    BY <2>1 DEF PromiseInv
  <2>2. cmd[p].held = Changed(promised, cmd[p]) /\ config.state = "empty"
    BY <2>1 DEF PromiseInv, At
  <2>3. promised' # Empty
    BY <2>1, RunsAre, WritesChange, ChangedType DEF At
  <2>4. config' = [state |-> "whole", registry |-> promised']
    BY <2>1, <2>2
  <2>5. config' = Kept'
    BY <2>3, <2>4 DEF Kept
  <2>6. \A q \in Procs : cmd'[q].pc = "idle"
    <3>1. \A q \in Procs \ {p} : cmd[q].pc = "idle"
      BY <2>1, Alone DEF At
    <3> QED BY <2>1, <3>1, IdleType, OneMoves
  <2> HIDE DEF Kept
  <2> QED BY <2>5, <2>6 DEF PromiseInv, At
<1>11. CASE UNCHANGED registryVars
  <2>1. \A q \in Procs : Changed(promised, cmd[q])' = Changed(promised, cmd[q])
    BY <1>11 DEF Changed, WithEntry, registryVars
  <2> QED BY <1>11, <2>1 DEF registryVars, PromiseInv, At, Kept
<1> QED BY <1>1, <1>2, <1>3, <1>4, <1>5, <1>6, <1>7, <1>8, <1>9, <1>10, <1>11 DEF RegistryNext

\* At rest the registry is what the commands that reported success have made of it, for any names
\* and any number of commands, as long as they were run one after another and none was killed.
THEOREM PromisesAlwaysKept == RegistrySpec => []PromisesKept
<1>1. RegistryInit => PromiseInv
  BY IdleType DEF RegistryInit, PromiseInv, At, Kept, NoFile
<1>2. PromiseInv => PromisesKept
  BY DEF PromiseInv, PromisesKept, Kept, At
<1> QED BY <1>1, <1>2, PromiseStep, CommandsStayWellFormed, PTL DEF RegistrySpec

-----------------------------------------------------------------------------
(* The commands together.                                                  *)

\* By the way the composition is written each step of it is a step of every part, or none.
LEMMA PartsStayThemselves == CommandsSpec => Spec /\ SelectionSpec /\ RegistrySpec
<1>1. CommandsInit => Init /\ SelectionInit /\ RegistryInit
  BY DEF CommandsInit
<1>2. [NextTree \/ NextSelection \/ NextRegistry]_commandsVars =>
        [Next]_vars /\ [SelectionNext]_records /\ [RegistryNext]_registryVars
  BY DEF NextTree, NextSelection, NextRegistry, commandsVars
<1> QED BY <1>1, <1>2, PTL DEF CommandsSpec, Spec, SelectionSpec, RegistrySpec

\* Trees, snapshots and the registry are what they are meant to be, for any places, edits,
\* selectors, names and directories.
THEOREM CommandsTypeCorrect == CommandsSpec => []CommandsTypeOK
<1>1. TypeOK /\ SelectionTypeOK /\ RegistryTypeOK => CommandsTypeOK
  BY DEF CommandsTypeOK
<1> QED BY <1>1, PartsStayThemselves, TreeTypeCorrect, SelectionTypeCorrect, RegistryTypeCorrect, PTL
=============================================================================
