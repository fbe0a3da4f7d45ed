----------------------------- MODULE TreeSafety -----------------------------
(***************************************************************************)
(* Trees on their way through a backup and a restore, for any places and   *)
(* any edits: a snapshot holds the trees it was made of, its files as they *)
(* were when they were read, be it by an earlier backup; a restore gives   *)
(* them back; and an absolute path finds what was backed up from a source  *)
(* that was given as one.                                                  *)
(***************************************************************************)
EXTENDS Tree, WellFoundedInduction, TLAPS

\* The sources of a backup have names of their own, below which each is stored.  Nothing in the
\* code sees to it.
Distinct(roots) == \A i, j \in DOMAIN roots : Base(roots[i]) = Base(roots[j]) => i = j

NoNamesakes == \A sources \in SourceLists, dir \in WorkDirs : Distinct(Roots(sources, dir))

-----------------------------------------------------------------------------
(* Naturals.                                                               *)

LEMMA LeastIs == ASSUME NEW S \in SUBSET Nat, S # {} PROVE \E i \in S : \A j \in S : i <= j
<1> DEFINE Less == OpToRel(<, Nat)
<1>1. \A i, j \in Nat : i < j => <<i, j>> \in Less
  BY DEF OpToRel
<1>2. IsWellFoundedOn(Less, Nat)
  BY NatLessThanWellFounded
<1> HIDE DEF Less
<1>3. PICK i \in S : \A j \in S : ~(<<j, i>> \in Less)
  BY <1>2, WFMin
<1>4. \A j \in S : ~(j < i)
  BY <1>1, <1>3
<1> QED BY <1>4

LEMMA GreatestIs ==
    ASSUME NEW n \in Nat, NEW S \in SUBSET (0 .. n), S # {}
    PROVE  \E i \in S : \A j \in S : j <= i
<1> DEFINE T == {n - i : i \in S}
<1>1. T \in SUBSET Nat /\ T # {}
  <2>1. \A i \in S : n - i \in Nat
    OBVIOUS
  <2> QED BY <2>1
<1>2. PICK d \in T : \A j \in T : d <= j
  BY <1>1, LeastIs
<1>3. PICK i \in S : d = n - i
  BY <1>2
<1>4. \A j \in S : n - j \in T
  OBVIOUS
<1> HIDE DEF T
<1>5. \A j \in S : n - i <= n - j
  BY <1>2, <1>3, <1>4
<1> QED BY <1>3, <1>5

\* Induction, for a set of naturals.
LEMMA AllOfNat ==
    ASSUME NEW S, 0 \in S, \A n \in Nat : n \in S => n + 1 \in S
    PROVE  \A n \in Nat : n \in S
<1>1. ASSUME Nat \ S # {} PROVE FALSE
  <2>1. PICK m \in Nat \ S : \A j \in Nat \ S : m <= j
    BY <1>1, LeastIs
  <2>2. m - 1 \in Nat /\ m - 1 \notin Nat \ S
    BY <2>1
  <2>3. (m - 1) + 1 \in S
    BY <2>2
  <2> QED BY <2>1, <2>3
<1> QED BY <1>1

-----------------------------------------------------------------------------
(* Paths.                                                                  *)

\* The base name of the root is one as well.
Paths == Seq(STRING \cup {"/"})

LEMMA PlacesArePaths == \A p \in Places : p \in Paths
<1>1. ASSUME NEW p \in Places PROVE p \in Paths
  <2>1. p \in Seq(STRING)
    BY TreeAssumption
  <2>2. Len(p) \in Nat /\ p \in [1 .. Len(p) -> STRING \cup {"/"}]
    BY <2>1
  <2> QED BY <2>2 DEF Paths
<1> QED BY <1>1

LEMMA SamePaths ==
    ASSUME NEW p \in Paths, NEW q \in Paths, Len(p) = Len(q), \A j \in 1 .. Len(p) : p[j] = q[j]
    PROVE  p = q
BY DEF Paths

LEMMA JoinedIs ==
    ASSUME NEW p \in Paths, NEW q \in Paths
    PROVE  /\ p \o q \in Paths /\ Len(p \o q) = Len(p) + Len(q)
           /\ \A j \in 1 .. Len(p) : (p \o q)[j] = p[j]
           /\ \A j \in 1 .. Len(q) : (p \o q)[Len(p) + j] = q[j]
BY DEF Paths

LEMMA UnderIs ==
    ASSUME NEW p \in Paths, NEW q \in Paths
    PROVE  Under(p, q) <=> Len(p) <= Len(q) /\ \A j \in 1 .. Len(p) : p[j] = q[j]
<1>1. Len(p) \in Nat /\ Len(q) \in Nat
  BY DEF Paths
<1>2. /\ SubSeq(p, 1, Len(p)) \in Paths /\ Len(SubSeq(p, 1, Len(p))) = Len(p)
      /\ \A j \in 1 .. Len(p) : SubSeq(p, 1, Len(p))[j] = p[j]
  BY <1>1 DEF Paths
<1>3. CASE Len(p) <= Len(q)
  <2> DEFINE u == SubSeq(p, 1, Len(p))
             v == SubSeq(q, 1, Len(p))
  <2>1. v \in Paths /\ Len(v) = Len(p) /\ \A j \in 1 .. Len(p) : v[j] = q[j]
    BY <1>1, <1>3 DEF Paths
  <2>2. Under(p, q) <=> u = v
    BY <1>3 DEF Under, IsPrefix
  <2> HIDE DEF u, v
  <2>3. u = v <=> \A j \in 1 .. Len(p) : u[j] = v[j]
    BY <1>2, <2>1, SamePaths DEF u
  <2> QED BY <1>2, <1>3, <2>1, <2>2, <2>3 DEF u
<1>4. CASE ~(Len(p) <= Len(q))
  BY <1>4 DEF Under, IsPrefix
<1> QED BY <1>3, <1>4

LEMMA CutIs ==
    ASSUME NEW p \in Paths, NEW n \in 0 .. Len(p)
    PROVE  /\ SubSeq(p, 1, n) \in Paths /\ Len(SubSeq(p, 1, n)) = n
           /\ \A j \in 1 .. n : SubSeq(p, 1, n)[j] = p[j]
           /\ Under(SubSeq(p, 1, n), p)
<1>1. Len(p) \in Nat /\ n \in Nat /\ n <= Len(p)
  BY DEF Paths
<1>2. /\ SubSeq(p, 1, n) \in Paths /\ Len(SubSeq(p, 1, n)) = n
      /\ \A j \in 1 .. n : SubSeq(p, 1, n)[j] = p[j]
  BY <1>1 DEF Paths
<1> QED BY <1>1, <1>2, UnderIs

LEMMA FrontIs ==
    ASSUME NEW p \in Paths, p # <<>>
    PROVE  /\ Front(p) \in Paths /\ Len(Front(p)) = Len(p) - 1 /\ Len(p) \in Nat \ {0}
           /\ \A j \in 1 .. Len(p) - 1 : Front(p)[j] = p[j]
           /\ Under(Front(p), p)
<1>1. Len(p) \in Nat /\ Len(p) # 0
  BY DEF Paths
<1>2. Len(p) - 1 \in 0 .. Len(p) /\ Front(p) = SubSeq(p, 1, Len(p) - 1)
  BY <1>1 DEF Front
<1> QED BY <1>1, <1>2, CutIs, ZenonT(60)

LEMMA BaseType == ASSUME NEW p \in Paths PROVE Base(p) \in STRING \cup {"/"}
<1>1. CASE p = <<>>
  BY <1>1 DEF Base
<1>2. CASE p # <<>>
  <2>1. Len(p) \in 1 .. Len(p)
    BY <1>2 DEF Paths
  <2>2. p[Len(p)] \in STRING \cup {"/"}
    BY <2>1 DEF Paths
  <2> QED BY <1>2, <2>2 DEF Base, Last
<1> QED BY <1>1, <1>2

\* A path as it is stored: the base name of its source, and what is below the source.
LEMMA StoredIs ==
    ASSUME NEW s \in Paths, NEW p \in Paths, Under(s, p)
    PROVE  /\ StoredAs(s, p) \in Paths /\ Len(StoredAs(s, p)) = Len(p) - Len(s) + 1
           /\ StoredAs(s, p)[1] = Base(s)
           /\ \A j \in 1 .. Len(p) - Len(s) : StoredAs(s, p)[j + 1] = p[Len(s) + j]
           /\ Len(s) \in Nat /\ Len(p) \in Nat /\ Len(s) <= Len(p)
<1>1. Len(s) \in Nat /\ Len(p) \in Nat /\ Len(s) <= Len(p)
  BY UnderIs DEF Paths
<1> DEFINE rel == Rel(s, p)
           base == <<Base(s)>>
<1>2. /\ rel \in Paths /\ Len(rel) = Len(p) - Len(s)
      /\ \A j \in 1 .. Len(p) - Len(s) : rel[j] = p[Len(s) + j]
  <2> DEFINE r == SubSeq(p, Len(s) + 1, Len(p))
  <2>1. r \in Paths /\ Len(r) = Len(p) - Len(s)
    BY <1>1 DEF Paths
  <2>2. \A j \in 1 .. Len(p) - Len(s) : r[j] = p[Len(s) + j]
    BY <1>1 DEF Paths
  <2> QED BY <2>1, <2>2 DEF Rel
<1>3. base \in Paths /\ Len(base) = 1 /\ base[1] = Base(s)
  BY BaseType DEF Paths
<1>4. StoredAs(s, p) = base \o rel
  BY DEF StoredAs
<1> HIDE DEF rel, base
<1>5. /\ base \o rel \in Paths /\ Len(base \o rel) = 1 + Len(rel)
      /\ (base \o rel)[1] = base[1]
      /\ \A j \in 1 .. Len(rel) : (base \o rel)[1 + j] = rel[j]
  <2>1. 1 \in 1 .. Len(base)
    BY <1>3
  <2>2. /\ base \o rel \in Paths /\ Len(base \o rel) = Len(base) + Len(rel)
        /\ \A j \in 1 .. Len(base) : (base \o rel)[j] = base[j]
        /\ \A j \in 1 .. Len(rel) : (base \o rel)[Len(base) + j] = rel[j]
    BY <1>2, <1>3, JoinedIs
  <2> QED BY <1>3, <2>1, <2>2
<1> DEFINE u == base \o rel
<1>6. u \in Paths /\ Len(u) = 1 + (Len(p) - Len(s)) /\ u[1] = Base(s)
  BY <1>2, <1>3, <1>5
<1>7. \A j \in 1 .. Len(p) - Len(s) : u[1 + j] = p[Len(s) + j]
  BY <1>2, <1>5
<1> HIDE DEF u
<1>8. \A j \in 1 .. Len(p) - Len(s) : u[j + 1] = p[Len(s) + j]
  <2>1. ASSUME NEW j \in 1 .. Len(p) - Len(s) PROVE u[j + 1] = p[Len(s) + j]
    <3>1. j + 1 = 1 + j
      BY <1>1
    <3> QED BY <1>7, <3>1
  <2> QED BY <2>1
<1>9. Len(u) = Len(p) - Len(s) + 1
  BY <1>1, <1>6
<1> QED BY <1>1, <1>4, <1>6, <1>8, <1>9 DEF u

\* What is under a source is stored at paths of its own.
LEMMA StoredApart ==
    ASSUME NEW s \in Paths, NEW p \in Paths, NEW q \in Paths, Under(s, p), Under(s, q)
    PROVE  /\ Under(StoredAs(s, p), StoredAs(s, q)) <=> Under(p, q)
           /\ StoredAs(s, p) = StoredAs(s, q) => p = q
<1>1. /\ Len(s) \in Nat /\ Len(p) \in Nat /\ Len(q) \in Nat /\ Len(s) <= Len(p) /\ Len(s) <= Len(q)
      /\ \A j \in 1 .. Len(s) : s[j] = p[j] /\ s[j] = q[j]
  BY UnderIs DEF Paths
<1> DEFINE u == StoredAs(s, p)
           v == StoredAs(s, q)
<1>2. /\ u \in Paths /\ Len(u) = Len(p) - Len(s) + 1 /\ u[1] = Base(s)
      /\ \A j \in 1 .. Len(p) - Len(s) : u[j + 1] = p[Len(s) + j]
  BY StoredIs
<1>3. /\ v \in Paths /\ Len(v) = Len(q) - Len(s) + 1 /\ v[1] = Base(s)
      /\ \A j \in 1 .. Len(q) - Len(s) : v[j + 1] = q[Len(s) + j]
  BY StoredIs
<1> HIDE DEF u, v
<1>4. ASSUME Under(u, v) PROVE Under(p, q)
  <2>1. Len(p) <= Len(q) /\ \A j \in 1 .. Len(u) : u[j] = v[j]
    BY <1>1, <1>2, <1>3, <1>4, UnderIs
  <2>2. ASSUME NEW j \in 1 .. Len(p) PROVE p[j] = q[j]
    <3>1. CASE j <= Len(s)
      BY <1>1, <3>1
    <3>2. CASE j > Len(s)
      <4> DEFINE i == j - Len(s)
      <4>1. i \in 1 .. Len(p) - Len(s) /\ i \in 1 .. Len(q) - Len(s) /\ Len(s) + i = j
            /\ i + 1 \in 1 .. Len(u)
        BY <1>1, <1>2, <2>1, <3>2
      <4> HIDE DEF i
      <4>2. u[i + 1] = p[j] /\ v[i + 1] = q[j] /\ u[i + 1] = v[i + 1]
        BY <1>2, <1>3, <2>1, <4>1
      <4> QED BY <4>2
    <3> QED BY <1>1, <3>1, <3>2
  <2> QED BY <2>1, <2>2, UnderIs
<1>5. ASSUME Under(p, q) PROVE Under(u, v)
  <2>1. Len(p) <= Len(q) /\ \A j \in 1 .. Len(p) : p[j] = q[j]
    BY <1>5, UnderIs
  <2>2. ASSUME NEW j \in 1 .. Len(u) PROVE u[j] = v[j]
    <3>1. CASE j = 1
      BY <1>2, <1>3, <3>1
    <3>2. CASE j # 1
      <4> DEFINE i == j - 1
      <4>1. i \in 1 .. Len(p) - Len(s) /\ i \in 1 .. Len(q) - Len(s) /\ i + 1 = j
            /\ Len(s) + i \in 1 .. Len(p)
        BY <1>1, <1>2, <2>1, <3>2
      <4> HIDE DEF i
      <4>2. u[j] = p[Len(s) + i] /\ v[j] = q[Len(s) + i]
        BY <1>2, <1>3, <4>1
      <4> QED BY <2>1, <4>1, <4>2
    <3> QED BY <3>1, <3>2
  <2> QED BY <1>1, <1>2, <1>3, <2>1, <2>2, UnderIs
<1>6. ASSUME u = v PROVE p = q
  <2>1. Under(u, v) /\ Len(p) = Len(q)
    BY <1>1, <1>2, <1>3, <1>6, UnderIs
  <2>2. \A j \in 1 .. Len(p) : p[j] = q[j]
    BY <1>4, <2>1, UnderIs
  <2> QED BY <2>1, <2>2, SamePaths
<1> QED BY <1>4, <1>5, <1>6 DEF u, v

\* A part of a stored path that is not empty is the stored path of what is above.
LEMMA StoredCut ==
    ASSUME NEW s \in Paths, NEW p \in Paths, Under(s, p), NEW i \in 1 .. Len(StoredAs(s, p))
    PROVE  /\ Len(s) + i - 1 \in Len(s) .. Len(p)
           /\ Under(s, SubSeq(p, 1, Len(s) + i - 1))
           /\ SubSeq(StoredAs(s, p), 1, i) = StoredAs(s, SubSeq(p, 1, Len(s) + i - 1))
<1> DEFINE u == StoredAs(s, p)
           n == Len(s) + i - 1
           q == SubSeq(p, 1, n)
           v == StoredAs(s, q)
           w == SubSeq(u, 1, i)
<1>1. /\ u \in Paths /\ Len(u) = Len(p) - Len(s) + 1 /\ u[1] = Base(s)
      /\ \A j \in 1 .. Len(p) - Len(s) : u[j + 1] = p[Len(s) + j]
      /\ Len(s) \in Nat /\ Len(p) \in Nat /\ Len(s) <= Len(p)
  BY StoredIs
<1> HIDE DEF u
<1>2. n \in Len(s) .. Len(p) /\ n \in 0 .. Len(p) /\ i \in 0 .. Len(u) /\ n \in Nat /\ i \in Nat
      /\ i >= 1
  BY <1>1 DEF u
<1>3. n = Len(s) + i - 1
  OBVIOUS
<1> HIDE DEF n
<1>4. q \in Paths /\ Len(q) = n /\ \A j \in 1 .. n : q[j] = p[j]
  BY <1>2, CutIs
<1> HIDE DEF q
<1>5. Under(s, q)
  <2>1. \A j \in 1 .. Len(s) : s[j] = p[j]
    BY UnderIs
  <2>2. \A j \in 1 .. Len(s) : j \in 1 .. n
    BY <1>1, <1>2
  <2>3. \A j \in 1 .. Len(s) : s[j] = q[j]
    BY <1>4, <2>1, <2>2
  <2> QED BY <1>1, <1>2, <1>4, <2>3, UnderIs
<1>6. /\ v \in Paths /\ Len(v) = n - Len(s) + 1 /\ v[1] = Base(s)
      /\ \A j \in 1 .. n - Len(s) : v[j + 1] = q[Len(s) + j]
  BY <1>4, <1>5, StoredIs
<1>7. w \in Paths /\ Len(w) = i /\ \A j \in 1 .. i : w[j] = u[j]
  BY <1>1, <1>2, CutIs
<1> HIDE DEF v, w
<1>8. ASSUME NEW j \in 1 .. i PROVE w[j] = v[j]
  <2>1. CASE j = 1
    BY <1>1, <1>6, <1>7, <2>1
  <2>2. CASE j # 1
    <3> DEFINE l == j - 1
    <3>1. /\ l \in 1 .. n - Len(s) /\ l \in 1 .. Len(p) - Len(s) /\ l + 1 = j
          /\ Len(s) + l \in 1 .. n
      BY <1>1, <1>2, <1>3, <2>2
    <3> HIDE DEF l
    <3>2. w[j] = u[j] /\ u[j] = p[Len(s) + l] /\ v[j] = q[Len(s) + l]
      BY <1>1, <1>6, <1>7, <3>1
    <3> QED BY <1>4, <3>1, <3>2
  <2> QED BY <2>1, <2>2
<1>9. Len(w) = Len(v)
  BY <1>1, <1>2, <1>3, <1>6, <1>7
<1>10. w = v
  BY <1>6, <1>7, <1>8, <1>9, SamePaths
<1> QED BY <1>2, <1>5, <1>10 DEF n, q, u, v, w

-----------------------------------------------------------------------------
(* What there is in a file system.                                         *)

LEMMA RootsAre ==
    ASSUME NEW sources \in SourceLists, NEW dir \in WorkDirs
    PROVE  /\ Roots(sources, dir) \in Seq(Places) /\ DOMAIN Roots(sources, dir) = DOMAIN sources
           /\ \A i \in DOMAIN sources : Roots(sources, dir)[i] = Abs(sources[i], dir)
<1>1. sources \in Seq([absolute : BOOLEAN, names : Seq(STRING)])
      /\ \A i \in DOMAIN sources : Abs(sources[i], dir) \in Places
  BY TreeAssumption
<1>2. Len(sources) \in Nat /\ DOMAIN sources = 1 .. Len(sources)
  BY <1>1
<1>3. Roots(sources, dir) = [i \in 1 .. Len(sources) |-> Abs(sources[i], dir)]
  BY <1>2 DEF Roots
<1>4. Roots(sources, dir) \in [1 .. Len(sources) -> Places]
  BY <1>1, <1>2, <1>3
<1>5. Roots(sources, dir) \in Seq(Places)
  BY <1>2, <1>4
<1> QED BY <1>2, <1>3, <1>5

\* Trees: what is above an entry is a directory.
IsForest(f) ==
    /\ DOMAIN f \subseteq Places
    /\ \A p \in DOMAIN f : IsEntry(f[p])
    /\ \A p \in DOMAIN f : Top(p) \/ (Front(p) \in DOMAIN f /\ f[Front(p)].type = "dir")

\* What is between a source and a place is there, and is a directory.
LEMMA Above ==
    ASSUME NEW f, IsForest(f), NEW p \in DOMAIN f, NEW s \in Places, Under(s, p),
           NEW n \in Len(s) .. Len(p)
    PROVE  /\ SubSeq(p, 1, n) \in DOMAIN f
           /\ n < Len(p) => f[SubSeq(p, 1, n)].type = "dir"
<1>1. p \in Places /\ p \in Paths /\ s \in Paths
  BY PlacesArePaths DEF IsForest
<1>2. /\ Len(s) \in Nat /\ Len(p) \in Nat /\ Len(s) <= Len(p)
      /\ \A j \in 1 .. Len(s) : s[j] = p[j]
  BY <1>1, UnderIs DEF Paths
<1> DEFINE P(m) == m \in Len(s) .. Len(p) =>
                     /\ SubSeq(p, 1, m) \in DOMAIN f
                     /\ m < Len(p) => f[SubSeq(p, 1, m)].type = "dir"
           S == {d \in Nat : P(Len(p) - d)}
<1>3. P(Len(p))
  <2>1. SubSeq(p, 1, Len(p)) = p
    <3> DEFINE u == SubSeq(p, 1, Len(p))
    <3>4. Len(p) \in 0 .. Len(p)
      BY <1>2
    <3>1. u \in Paths /\ Len(u) = Len(p) /\ \A j \in 1 .. Len(p) : u[j] = p[j]
      BY <1>1, <3>4, CutIs
    <3>2. \A j \in 1 .. Len(u) : u[j] = p[j]
      BY <3>1
    <3> HIDE DEF u
    <3>3. u = p
      BY <1>1, <3>1, <3>2, SamePaths
    <3> QED BY <3>3 DEF u
  <2>2. SubSeq(p, 1, Len(p)) \in DOMAIN f
    BY <2>1, Zenon
  <2>3. ~(Len(p) < Len(p))
    BY <1>2
  <2> QED BY <2>2, <2>3, Zenon
<1>4. ASSUME NEW m \in Nat, m + 1 \in Len(s) .. Len(p), m \in Len(s) .. Len(p), P(m + 1) PROVE P(m)
  <2> DEFINE u == SubSeq(p, 1, m + 1)
             v == SubSeq(p, 1, m)
  <2>1. u \in DOMAIN f
    BY <1>4
  <2>2. /\ u \in Paths /\ Len(u) = m + 1 /\ \A j \in 1 .. m + 1 : u[j] = p[j]
        /\ v \in Paths /\ Len(v) = m /\ \A j \in 1 .. m : v[j] = p[j]
    BY <1>1, <1>2, <1>4, CutIs
  <2> HIDE DEF u, v
  <2>3. u # <<>> /\ u \in Places
    BY <2>1, <2>2 DEF IsForest
  <2>4. Front(u) = v
    <3>1. /\ Front(u) \in Paths /\ Len(Front(u)) = Len(u) - 1
          /\ \A j \in 1 .. Len(u) - 1 : Front(u)[j] = u[j]
      BY <2>2, <2>3, FrontIs
    <3>2. Len(u) - 1 = m /\ \A j \in 1 .. m : j \in 1 .. m + 1
      BY <2>2
    <3>3. \A j \in 1 .. m : Front(u)[j] = v[j]
      BY <2>2, <3>1, <3>2
    <3> QED BY <2>2, <3>1, <3>2, <3>3, SamePaths
  <2>5. IsStrictPrefix(s, u)
    <3>1. \A j \in 1 .. Len(s) : j \in 1 .. m + 1
      BY <1>2, <1>4
    <3>2. \A j \in 1 .. Len(s) : s[j] = u[j]
      BY <1>2, <2>2, <3>1
    <3>3. Len(s) <= m /\ Len(s) # Len(u)
      BY <1>2, <1>4, <2>2
    <3>4. Under(s, u)
      BY <1>1, <1>2, <2>2, <3>2, <3>3, UnderIs
    <3> QED BY <3>3, <3>4 DEF IsStrictPrefix, Under
  <2>6. Front(u) \in Places
    BY <2>3, <2>5, TreeAssumption
  <2>7. ~Top(u)
    BY <2>3, <2>6 DEF Top
  <2>8. v \in DOMAIN f /\ f[v].type = "dir"
    BY <2>1, <2>4, <2>7 DEF IsForest
  <2> QED BY <2>8 DEF v
<1> HIDE DEF P
<1>5. 0 \in S
  BY <1>2, <1>3
<1>6. ASSUME NEW d \in Nat, d \in S PROVE d + 1 \in S
  <2> DEFINE m == Len(p) - (d + 1)
  <2>1. CASE m \in Len(s) .. Len(p)
    <3>1. m \in Nat /\ m + 1 \in Len(s) .. Len(p) /\ Len(p) - d = m + 1
      BY <1>2, <2>1
    <3>2. P(m + 1)
      BY <1>6, <3>1
    <3> QED BY <1>4, <2>1, <3>1, <3>2
  <2>2. CASE m \notin Len(s) .. Len(p)
    BY <2>2 DEF P
  <2> QED BY <2>1, <2>2
<1> HIDE DEF S
<1>7. \A d \in Nat : d \in S
  BY <1>5, <1>6, AllOfNat
<1>8. Len(p) - n \in Nat /\ Len(p) - (Len(p) - n) = n
  BY <1>2
<1>9. P(n)
  BY <1>7, <1>8 DEF S
<1> QED BY <1>9 DEF P

LEMMA WithoutTreeIs ==
    ASSUME NEW f, IsForest(f), NEW p \in Places
    PROVE  /\ IsForest(WithoutTree(f, p))
           /\ DOMAIN WithoutTree(f, p) = {q \in DOMAIN f : ~Under(p, q)}
           /\ \A q \in DOMAIN WithoutTree(f, p) : WithoutTree(f, p)[q] = f[q]
<1> DEFINE g == WithoutTree(f, p)
<1>1. DOMAIN g = {q \in DOMAIN f : ~Under(p, q)} /\ \A q \in DOMAIN g : g[q] = f[q]
  BY DEF WithoutTree
<1> HIDE DEF g
<1>2. DOMAIN g \subseteq Places /\ \A q \in DOMAIN g : IsEntry(g[q])
  BY <1>1 DEF IsForest
<1>3. ASSUME NEW q \in DOMAIN g, ~Top(q) PROVE Front(q) \in DOMAIN g /\ g[Front(q)].type = "dir"
  <2>1. q \in DOMAIN f /\ ~Under(p, q) /\ q # <<>>
    BY <1>1, <1>3 DEF Top
  <2>2. Front(q) \in DOMAIN f /\ f[Front(q)].type = "dir"
    BY <1>3, <2>1 DEF IsForest
  <2>3. q \in Paths /\ p \in Paths
    BY <2>1, PlacesArePaths DEF IsForest
  <2>4. ASSUME Under(p, Front(q)) PROVE FALSE
    <3>1. /\ Front(q) \in Paths /\ Len(Front(q)) = Len(q) - 1 /\ Len(q) \in Nat \ {0}
          /\ \A j \in 1 .. Len(q) - 1 : Front(q)[j] = q[j]
      BY <2>1, <2>3, FrontIs
    <3>2. Len(p) <= Len(Front(q)) /\ \A j \in 1 .. Len(p) : p[j] = Front(q)[j]
      BY <2>3, <2>4, <3>1, UnderIs
    <3>3. Len(p) \in Nat
      BY <2>3 DEF Paths
    <3>4. \A j \in 1 .. Len(p) : p[j] = q[j]
      BY <3>1, <3>2, <3>3
    <3> QED BY <2>1, <2>3, <3>1, <3>2, <3>3, <3>4, UnderIs
  <2> QED BY <1>1, <2>2, <2>4
<1> QED BY <1>1, <1>2, <1>3 DEF IsForest, g

\* What takes the place of a directory that stays, or is put where nothing is under it.
LEMMA PutKeeps ==
    ASSUME NEW f, IsForest(f), NEW p \in Places, NEW e, IsEntry(e),
           Top(p) \/ (Front(p) \in DOMAIN f /\ f[Front(p)].type = "dir"),
           e.type = "dir" \/ \A q \in DOMAIN f : ~Under(p, q)
    PROVE  IsForest(Put(f, p, e))
<1> DEFINE g == Put(f, p, e)
<1>1. DOMAIN g = DOMAIN f \cup {p} /\ g[p] = e /\ \A q \in DOMAIN f \ {p} : g[q] = f[q]
  BY DEF Put
<1> HIDE DEF g
<1>2. DOMAIN g \subseteq Places /\ \A q \in DOMAIN g : IsEntry(g[q])
  BY <1>1 DEF IsForest
<1>3. ASSUME NEW q \in DOMAIN g, ~Top(q) PROVE Front(q) \in DOMAIN g /\ g[Front(q)].type = "dir"
  <2>1. q \in Places /\ q \in Paths /\ q # <<>>
    BY <1>2, <1>3, PlacesArePaths DEF Top
  <2>2. Front(q) \in DOMAIN f /\ f[Front(q)].type = "dir"
    BY <1>1, <1>3 DEF IsForest
  <2>3. CASE Front(q) # p
    BY <1>1, <2>2, <2>3
  <2>4. CASE Front(q) = p
    <3>1. Under(p, p)
      <4>1. p \in Paths
        BY PlacesArePaths
      <4>2. Len(p) \in Nat
        BY <4>1 DEF Paths
      <4> QED BY <4>1, <4>2, UnderIs
    <3>2. p \in DOMAIN f
      BY <2>2, <2>4
    <3> QED BY <1>1, <2>4, <3>1, <3>2
  <2> QED BY <2>3, <2>4
<1> QED BY <1>2, <1>3 DEF IsForest, g

LEMMA EditKeeps ==
    ASSUME IsForest(fs), NEW p \in Places, Edit(p)
    PROVE  IsForest(fs')
<1>1. PICK e \in Entries :
        fs' = IF e.type = "dir" /\ p \in DOMAIN fs /\ fs[p].type = "dir"
              THEN Put(fs, p, e) ELSE Put(WithoutTree(fs, p), p, e)
  BY DEF Edit
<1>2. Top(p) \/ (Front(p) \in DOMAIN fs /\ fs[Front(p)].type = "dir")
  BY DEF Edit
<1>3. IsEntry(e)
  BY TreeAssumption
<1>4. CASE e.type = "dir" /\ p \in DOMAIN fs /\ fs[p].type = "dir"
  BY <1>1, <1>2, <1>3, <1>4, PutKeeps
<1>5. CASE ~(e.type = "dir" /\ p \in DOMAIN fs /\ fs[p].type = "dir")
  <2> DEFINE g == WithoutTree(fs, p)
  <2>1. /\ IsForest(g) /\ DOMAIN g = {q \in DOMAIN fs : ~Under(p, q)}
        /\ \A q \in DOMAIN g : g[q] = fs[q]
    BY WithoutTreeIs
  <2> HIDE DEF g
  <2>2. Top(p) \/ (Front(p) \in DOMAIN g /\ g[Front(p)].type = "dir")
    <3>1. SUFFICES ASSUME ~Top(p) PROVE Front(p) \in DOMAIN g /\ g[Front(p)].type = "dir"
      OBVIOUS
    <3>2. p \in Paths /\ p # <<>>
      BY <3>1, PlacesArePaths DEF Top
    <3>3. Front(p) \in Paths /\ Len(Front(p)) = Len(p) - 1 /\ Len(p) \in Nat \ {0}
      BY <3>2, FrontIs
    <3>4. ~Under(p, Front(p))
      BY <3>2, <3>3, UnderIs
    <3> QED BY <1>2, <2>1, <3>1, <3>4
  <2>3. \A q \in DOMAIN g : ~Under(p, q)
    BY <2>1
  <2>4. IsForest(Put(g, p, e))
    BY <1>3, <2>1, <2>2, <2>3, PutKeeps
  <2> QED BY <1>1, <1>5, <2>4 DEF g
<1> QED BY <1>4, <1>5

-----------------------------------------------------------------------------
(* What there is in a snapshot.                                            *)

\* A node, or a row of the table of nodes, of what a snapshot records.
IsNode(n) ==
    /\ n = [path |-> n.path, type |-> n.type, mode |-> n.mode, size |-> n.size,
            mtime |-> n.mtime, target |-> n.target, chunks |-> n.chunks]
    /\ n.type \in {"dir", "file", "symlink"}

IsSnapshot(snap) ==
    /\ snap.sources \in SourceLists
    /\ \E dir \in WorkDirs : snap.roots = Roots(snap.sources, dir)
    /\ IsForest(snap.was)
    /\ DOMAIN snap.rows \subseteq Walk(snap.roots, snap.was)
    /\ \A k \in DOMAIN snap.rows : IsNode(snap.rows[k])
    /\ \A row \in snap.chunkRows : \E k \in DOMAIN snap.rows :
         snap.rows[k].path = row.path /\ snap.rows[k].type = "file"

TreeInv ==
    /\ IsForest(fs)
    /\ edits \in 0 .. MaxEdits
    /\ snaps \in Seq(Snapshots) /\ Len(snaps) <= MaxBackups
    /\ \A snap \in Snapshots : IsSnapshot(snap)

\* The last of some nodes is one of them.
LEMMA LatestIs ==
    ASSUME NEW nodes, NEW ks, ks # {}, NEW n \in Nat, \A k \in ks : k[1] \in 0 .. n
    PROVE  \E k \in ks : Latest(nodes, ks) = nodes[k]
<1> DEFINE S == {k[1] : k \in ks}
<1>1. S \in SUBSET (0 .. n) /\ S # {}
  OBVIOUS
<1>2. PICK i \in S : \A j \in S : j <= i
  BY <1>1, GreatestIs
<1>3. PICK k \in ks : k[1] = i
  BY <1>2
<1>4. \A j \in ks : j[1] <= k[1]
  BY <1>2, <1>3
<1> DEFINE those(k0) == \A j \in ks : j[1] <= k0[1]
           c == CHOOSE k0 \in ks : those(k0)
<1>5. c \in ks
  <2>1. \E k0 \in ks : those(k0)
    BY <1>4
  <2> HIDE DEF those
  <2> QED BY <2>1
<1>6. Latest(nodes, ks) = nodes[c]
  BY DEF Latest
<1> QED BY <1>5, <1>6

\* The keys of the nodes of a walk.
LEMMA WalkIs ==
    ASSUME NEW roots \in Seq(Places), NEW f, IsForest(f), NEW k \in Walk(roots, f)
    PROVE  /\ k[1] \in DOMAIN roots /\ k[1] \in 1 .. Len(roots) /\ Len(roots) \in Nat
           /\ k[2] \in DOMAIN f /\ k = <<k[1], k[2]>>
           /\ roots[k[1]] \in Places /\ roots[k[1]] \in Paths
           /\ k[2] \in Places /\ k[2] \in Paths
           /\ Under(roots[k[1]], k[2]) /\ f[k[2]].type # "other" /\ IsEntry(f[k[2]])
<1>1. k \in (DOMAIN roots) \X (DOMAIN f) /\ Under(roots[k[1]], k[2]) /\ Recorded(f[k[2]])
  BY DEF Walk
<1>2. k[1] \in DOMAIN roots /\ k[2] \in DOMAIN f /\ k = <<k[1], k[2]>>
  BY <1>1
<1>3. Len(roots) \in Nat /\ DOMAIN roots = 1 .. Len(roots) /\ roots[k[1]] \in Places
  BY <1>2
<1>4. k[2] \in Places
  BY <1>2 DEF IsForest
<1>5. roots[k[1]] \in Paths /\ k[2] \in Paths
  BY <1>3, <1>4, PlacesArePaths
<1> QED BY <1>1, <1>2, <1>3, <1>4, <1>5 DEF Recorded, IsForest

LEMMA SnapshotRoots ==
    ASSUME NEW snap, IsSnapshot(snap)
    PROVE  /\ snap.roots \in Seq(Places) /\ DOMAIN snap.roots = DOMAIN snap.sources
           /\ \A i \in DOMAIN snap.sources :
                snap.sources[i].absolute => snap.roots[i] = snap.sources[i].names
<1>1. PICK dir \in WorkDirs : snap.roots = Roots(snap.sources, dir)
  BY DEF IsSnapshot
<1>2. /\ snap.roots \in Seq(Places) /\ DOMAIN snap.roots = DOMAIN snap.sources
      /\ \A i \in DOMAIN snap.sources : snap.roots[i] = Abs(snap.sources[i], dir)
  BY <1>1, RootsAre DEF IsSnapshot
<1> QED BY <1>2 DEF Abs

LEMMA LoadedIs ==
    ASSUME NEW snap, IsSnapshot(snap), NEW k \in DOMAIN snap.rows
    PROVE  /\ DOMAIN LoadNodes(snap) = DOMAIN snap.rows
           /\ IsNode(LoadNodes(snap)[k])
           /\ LoadNodes(snap)[k].path = snap.rows[k].path
           /\ LoadNodes(snap)[k].type = snap.rows[k].type
<1> DEFINE r == snap.rows[k]
           c == ListOf(snap.chunkRows, r.path)
<1>1. IsNode(r)
  BY DEF IsSnapshot
<1>2. DOMAIN LoadNodes(snap) = DOMAIN snap.rows /\ LoadNodes(snap)[k] = [r EXCEPT !.chunks = c]
  BY DEF LoadNodes
<1> HIDE DEF r, c
<1> DEFINE n == [path |-> r.path, type |-> r.type, mode |-> r.mode, size |-> r.size,
                 mtime |-> r.mtime, target |-> r.target, chunks |-> c]
<1>3. [r EXCEPT !.chunks = c] = n
  BY <1>1 DEF IsNode
<1>4. /\ n.path = r.path /\ n.type = r.type /\ n.mode = r.mode /\ n.size = r.size
      /\ n.mtime = r.mtime /\ n.target = r.target /\ n.chunks = c
  OBVIOUS
<1>5. IsNode(n)
  BY <1>1, <1>4 DEF IsNode
<1> QED BY <1>2, <1>3, <1>4, <1>5 DEF r

\* A node of the parent is a node of the latest snapshot.
LEMMA ParentIs ==
    ASSUME TreeInv, NEW path \in DOMAIN ParentNodes
    PROVE  /\ snaps # <<>> /\ Last(snaps) \in Snapshots
           /\ \E k \in DOMAIN Last(snaps).rows :
                 ParentNodes[path] = LoadNodes(Last(snaps))[k] /\ LoadNodes(Last(snaps))[k].path = path
<1> DEFINE nodes == IF snaps = <<>> THEN <<>> ELSE LoadNodes(Last(snaps))
           ks == KeysOf(nodes, path)
<1>1. DOMAIN ParentNodes = {nodes[k].path : k \in DOMAIN nodes} /\ ParentNodes[path] = Latest(nodes, ks)
  BY DEF ParentNodes
<1>2. PICK k1 \in DOMAIN nodes : nodes[k1].path = path
  BY <1>1
<1>3. snaps # <<>> /\ nodes = LoadNodes(Last(snaps))
  BY <1>2
<1> DEFINE snap == Last(snaps)
<1>4. snap \in Snapshots
  <2>1. Len(snaps) \in DOMAIN snaps
    BY <1>3 DEF TreeInv
  <2> QED BY <2>1 DEF Last, Snapshots
<1>5. IsSnapshot(snap)
  BY <1>4 DEF TreeInv
<1> HIDE DEF snap
<1>6. DOMAIN nodes = DOMAIN snap.rows
  BY <1>3 DEF LoadNodes, snap
<1>7. \A k \in DOMAIN snap.rows : k[1] \in 1 .. Len(snap.roots) /\ Len(snap.roots) \in Nat
  BY <1>5, SnapshotRoots, WalkIs DEF IsSnapshot
<1>8. ks # {} /\ \A k \in ks : k \in DOMAIN snap.rows /\ nodes[k].path = path
  BY <1>2, <1>6 DEF KeysOf
<1> HIDE DEF nodes, ks
<1>9. Len(snap.roots) \in Nat /\ \A k \in ks : k[1] \in 0 .. Len(snap.roots)
  BY <1>7, <1>8
<1>10. PICK k \in ks : Latest(nodes, ks) = nodes[k]
  BY <1>8, <1>9, LatestIs
<1> QED BY <1>1, <1>3, <1>4, <1>8, <1>10 DEF snap

\* What a backup of the roots makes of what is there.
Taken(roots) ==
    LET parents == ParentNodes
    IN [k \in Walk(roots, fs) |-> AddOne(StoredAs(roots[k[1]], k[2]), fs[k[2]], parents)]

SnapshotOf(sources, dir) ==
    LET nodes == Taken(Roots(sources, dir))
    IN [sources |-> sources, rows |-> NodeRows(nodes), chunkRows |-> ChunkRows(nodes),
        roots |-> Roots(sources, dir), was |-> fs]

LEMMA BackupIs ==
    ASSUME NEW sources, NEW dir, Backup(sources, dir)
    PROVE  /\ snaps' = Append(snaps, SnapshotOf(sources, dir))
           /\ Len(snaps) < MaxBackups /\ UNCHANGED <<fs, edits>>
BY DEF Backup, Taken, SnapshotOf

LEMMA NodeIs ==
    ASSUME NEW e, IsEntry(e), Recorded(e), NEW path
    PROVE  /\ IsNode(Node(path, e)) /\ Node(path, e).path = path /\ Node(path, e).type = e.type
           /\ e.type # "file" => Node(path, e).chunks = <<>>
           /\ Node(path, e).chunks \in Seq(STRING)
<1>1. e.type \in {"dir", "file", "symlink", "other"} /\ e.content \in Seq(STRING)
      /\ (e.type # "file" => e.content = <<>>)
  BY DEF IsEntry
<1> QED BY <1>1 DEF Recorded, IsNode, Node

LEMMA TakenIs ==
    ASSUME TreeInv, NEW roots \in Seq(Places), NEW k \in Walk(roots, fs)
    PROVE  /\ IsNode(Taken(roots)[k])
           /\ Taken(roots)[k].type # "file" => Taken(roots)[k].chunks = <<>>
<1> DEFINE path == StoredAs(roots[k[1]], k[2])
           e == fs[k[2]]
<1>1. Taken(roots)[k] = AddOne(path, e, ParentNodes)
  BY DEF Taken
<1>2. IsEntry(e) /\ Recorded(e)
  BY WalkIs DEF TreeInv, Recorded
<1> HIDE DEF path, e
<1>3. CASE e.type = "file" /\ Unchanged(ParentNodes, path, e)
  <2>1. Taken(roots)[k] = ParentNodes[path] /\ path \in DOMAIN ParentNodes
        /\ ParentNodes[path].type = "file"
    BY <1>1, <1>3 DEF AddOne, Unchanged
  <2>2. PICK j \in DOMAIN Last(snaps).rows : ParentNodes[path] = LoadNodes(Last(snaps))[j]
    BY <2>1, ParentIs
  <2>3. IsSnapshot(Last(snaps))
    BY <2>1, ParentIs DEF TreeInv
  <2>4. IsNode(ParentNodes[path])
    BY <2>2, <2>3, LoadedIs
  <2> QED BY <2>1, <2>4
<1>4. CASE ~(e.type = "file" /\ Unchanged(ParentNodes, path, e))
  <2>1. Taken(roots)[k] = Node(path, e)
    BY <1>1, <1>4 DEF AddOne
  <2> QED BY <1>2, <2>1, NodeIs
<1> QED BY <1>3, <1>4

\* The tables of nodes: a row of each, and rows of chunks for files only.
LEMMA TablesAre ==
    ASSUME NEW nodes, \A k \in DOMAIN nodes : IsNode(nodes[k]) /\ (nodes[k].type # "file" => nodes[k].chunks = <<>>)
    PROVE  /\ DOMAIN NodeRows(nodes) = DOMAIN nodes
           /\ \A k \in DOMAIN nodes : /\ IsNode(NodeRows(nodes)[k])
                                      /\ NodeRows(nodes)[k].path = nodes[k].path
                                      /\ NodeRows(nodes)[k].type = nodes[k].type
           /\ \A row \in ChunkRows(nodes) : \E k \in DOMAIN nodes :
                nodes[k].path = row.path /\ nodes[k].type = "file"
<1>1. DOMAIN NodeRows(nodes) = DOMAIN nodes
  BY DEF NodeRows
<1>2. ASSUME NEW k \in DOMAIN nodes
      PROVE  /\ IsNode(NodeRows(nodes)[k])
             /\ NodeRows(nodes)[k].path = nodes[k].path
             /\ NodeRows(nodes)[k].type = nodes[k].type
  <2> DEFINE r == nodes[k]
             n == [path |-> r.path, type |-> r.type, mode |-> r.mode, size |-> r.size,
                   mtime |-> r.mtime, target |-> r.target, chunks |-> <<>>]
  <2>1. NodeRows(nodes)[k] = [r EXCEPT !.chunks = <<>>] /\ IsNode(r)
    BY DEF NodeRows
  <2> HIDE DEF r
  <2>2. [r EXCEPT !.chunks = <<>>] = n
    BY <2>1 DEF IsNode
  <2>3. /\ n.path = r.path /\ n.type = r.type /\ n.mode = r.mode /\ n.size = r.size
        /\ n.mtime = r.mtime /\ n.target = r.target /\ n.chunks = <<>>
    OBVIOUS
  <2>4. IsNode(n)
    BY <2>1, <2>3 DEF IsNode
  <2> QED BY <2>1, <2>2, <2>3, <2>4 DEF r
<1>3. ASSUME NEW row \in ChunkRows(nodes)
      PROVE  \E k \in DOMAIN nodes : nodes[k].path = row.path /\ nodes[k].type = "file"
  <2>1. PICK k \in DOMAIN nodes : \E seq \in DOMAIN nodes[k].chunks :
          row = [order |-> k[1], path |-> nodes[k].path, seq |-> seq, hash |-> nodes[k].chunks[seq]]
    BY DEF ChunkRows
  <2>2. row.path = nodes[k].path /\ nodes[k].chunks # <<>>
    BY <2>1
  <2> QED BY <2>2
<1> QED BY <1>1, <1>2, <1>3

LEMMA OneMore ==
    ASSUME snaps \in Seq(Snapshots), NEW snap, snaps' = Append(snaps, snap)
    PROVE  /\ Len(snaps) \in Nat /\ Len(snaps') = Len(snaps) + 1
           /\ snaps' \in Seq(Snapshots') /\ Snapshots' = Snapshots \cup {snap}
<1> DEFINE n == Len(snaps)
           more == Snapshots \cup {snap}
<1>1. n \in Nat /\ DOMAIN snaps = 1 .. n /\ \A i \in 1 .. n : snaps[i] \in Snapshots
  OBVIOUS
<1>2. snaps \in Seq(more)
  <2>1. snaps \in [1 .. n -> more]
    BY <1>1
  <2> QED BY <1>1, <2>1
<1>3. snap \in more
  OBVIOUS
<1> DEFINE s == Append(snaps, snap)
<1>4. /\ s \in Seq(more) /\ Len(s) = n + 1 /\ DOMAIN s = 1 .. n + 1
      /\ \A i \in 1 .. n : s[i] = snaps[i]
      /\ s[n + 1] = snap
  <2> HIDE DEF more
  <2> QED BY <1>2, <1>3
<1> HIDE DEF s, more
<1>5. {s[i] : i \in DOMAIN s} = {snaps[i] : i \in DOMAIN snaps} \cup {snap}
  <2>1. \A i \in 1 .. n : i \in 1 .. n + 1 /\ s[i] = snaps[i]
    BY <1>1, <1>4
  <2>2. \A i \in 1 .. n + 1 : i \in 1 .. n \/ i = n + 1
    BY <1>1
  <2>3. n + 1 \in 1 .. n + 1
    BY <1>1
  <2> QED BY <1>1, <1>4, <2>1, <2>2, <2>3
<1>6. Snapshots' = {s[i] : i \in DOMAIN s}
  BY DEF Snapshots, s
<1>7. Snapshots' = more
  BY <1>5, <1>6 DEF Snapshots, more
<1> QED BY <1>1, <1>4, <1>7 DEF s, more

LEMMA SnapshotTyped ==
    ASSUME TreeInv, NEW sources \in SourceLists, NEW dir \in WorkDirs
    PROVE  IsSnapshot(SnapshotOf(sources, dir))
<1> DEFINE roots == Roots(sources, dir)
           nodes == Taken(roots)
           snap == SnapshotOf(sources, dir)
<1>1. DOMAIN nodes = Walk(roots, fs)
  BY DEF Taken
<1>2. \A k \in DOMAIN nodes : IsNode(nodes[k]) /\ (nodes[k].type # "file" => nodes[k].chunks = <<>>)
  BY <1>1, RootsAre, TakenIs
<1>3. IsForest(fs)
  BY DEF TreeInv
<1>4. snap.sources = sources /\ snap.rows = NodeRows(nodes) /\ snap.chunkRows = ChunkRows(nodes)
      /\ snap.roots = Roots(sources, dir) /\ snap.was = fs
  BY DEF SnapshotOf
<1> HIDE DEF nodes, snap
<1>5. /\ DOMAIN snap.rows = DOMAIN nodes
      /\ \A k \in DOMAIN nodes : /\ IsNode(snap.rows[k])
                                 /\ snap.rows[k].path = nodes[k].path
                                 /\ snap.rows[k].type = nodes[k].type
      /\ \A row \in snap.chunkRows : \E k \in DOMAIN nodes :
           nodes[k].path = row.path /\ nodes[k].type = "file"
  BY <1>2, <1>4, TablesAre
<1>6. \A row \in snap.chunkRows : \E k \in DOMAIN snap.rows :
         snap.rows[k].path = row.path /\ snap.rows[k].type = "file"
  <2>1. SUFFICES ASSUME NEW row \in snap.chunkRows
                 PROVE  \E k \in DOMAIN snap.rows :
                          snap.rows[k].path = row.path /\ snap.rows[k].type = "file"
    OBVIOUS
  <2>2. PICK k \in DOMAIN nodes : nodes[k].path = row.path /\ nodes[k].type = "file"
    BY <1>5, <2>1
  <2> QED BY <1>5, <2>2
<1>7. IsForest(snap.was) /\ DOMAIN snap.rows = Walk(snap.roots, snap.was)
  BY <1>1, <1>3, <1>4, <1>5
<1>8. \A k \in DOMAIN snap.rows : IsNode(snap.rows[k])
  BY <1>5
<1>9. IsSnapshot(snap)
  BY <1>4, <1>6, <1>7, <1>8 DEF IsSnapshot
<1> QED BY <1>9 DEF snap

LEMMA BackupTyped ==
    ASSUME TreeInv, NEW sources \in SourceLists, NEW dir \in WorkDirs, Backup(sources, dir)
    PROVE  TreeInv'
<1> DEFINE snap == SnapshotOf(sources, dir)
<1>1. IsSnapshot(snap)
  BY SnapshotTyped
<1>2. snaps' = Append(snaps, snap) /\ Len(snaps) < MaxBackups /\ fs' = fs /\ edits' = edits
  BY BackupIs
<1> HIDE DEF snap
<1>3. /\ Len(snaps) \in Nat /\ Len(snaps') = Len(snaps) + 1
      /\ snaps' \in Seq(Snapshots') /\ Snapshots' = Snapshots \cup {snap}
  BY <1>2, OneMore DEF TreeInv
<1>4. Len(snaps') <= MaxBackups
  BY <1>2, <1>3, TreeAssumption
<1>5. \A s \in Snapshots' : IsSnapshot(s)
  BY <1>1, <1>3 DEF TreeInv
<1>6. IsForest(fs') /\ edits' \in 0 .. MaxEdits
  BY <1>2 DEF TreeInv
<1> QED BY <1>3, <1>4, <1>5, <1>6 DEF TreeInv

LEMMA ChangeTyped ==
    ASSUME TreeInv, NEW p \in Places, Edit(p) \/ Delete(p)
    PROVE  TreeInv'
<1>1. edits \in Nat /\ IsForest(fs)
  BY TreeAssumption DEF TreeInv
<1>2. edits < MaxEdits /\ edits' = edits + 1 /\ snaps' = snaps
  BY DEF Edit, Delete, MayEdit
<1>3. IsForest(fs')
  <2>1. CASE Edit(p)
    BY <1>1, <2>1, EditKeeps
  <2>2. CASE Delete(p)
    BY <1>1, <2>2, WithoutTreeIs DEF Delete
  <2> QED BY <2>1, <2>2
<1>4. edits' \in 0 .. MaxEdits
  BY <1>1, <1>2, TreeAssumption
<1>5. Snapshots' = Snapshots
  BY <1>2 DEF Snapshots
<1>6. snaps' \in Seq(Snapshots') /\ Len(snaps') <= MaxBackups /\ \A snap \in Snapshots' : IsSnapshot(snap)
  BY <1>2, <1>5 DEF TreeInv
<1> QED BY <1>3, <1>4, <1>6 DEF TreeInv

LEMMA TreeBegins == Init => TreeInv
<1> SUFFICES ASSUME Init PROVE TreeInv
  OBVIOUS
<1>1. fs = <<>> /\ edits = 0 /\ snaps = <<>>
  BY DEF Init
<1>2. DOMAIN fs = {} /\ DOMAIN snaps = {} /\ Len(snaps) = 0 /\ Snapshots = {}
  BY <1>1 DEF Snapshots
<1>3. IsForest(fs)
  BY <1>2 DEF IsForest
<1>4. snaps \in Seq(Snapshots)
  BY <1>1
<1>5. MaxEdits \in Nat /\ MaxBackups \in Nat
  BY TreeAssumption
<1> QED BY <1>1, <1>2, <1>3, <1>4, <1>5 DEF TreeInv

LEMMA TreeSteps == TreeInv /\ [Next]_vars => TreeInv'
<1> SUFFICES ASSUME TreeInv, [Next]_vars PROVE TreeInv'
  OBVIOUS
<1>1. CASE \E p \in Places : Edit(p) \/ Delete(p)
  BY <1>1, ChangeTyped
<1>2. CASE \E sources \in SourceLists, dir \in WorkDirs : Backup(sources, dir)
  BY <1>2, BackupTyped
<1>3. CASE UNCHANGED vars
  BY <1>3 DEF vars, TreeInv, Snapshots
<1> QED BY <1>1, <1>2, <1>3 DEF Next

LEMMA TreeTyped == TreeInv => TypeOK
<1> SUFFICES ASSUME TreeInv PROVE TypeOK
  OBVIOUS
<1>1. DOMAIN fs \subseteq Places /\ edits \in 0 .. MaxEdits /\ Len(snaps) <= MaxBackups
  BY DEF TreeInv, IsForest
<1>2. \A p \in DOMAIN fs : Top(p) \/ fs[Front(p)].type = "dir"
  BY DEF TreeInv, IsForest
<1>3. ASSUME NEW snap \in Snapshots
      PROVE  /\ \A k \in DOMAIN snap.rows : snap.rows[k].type \in {"dir", "file", "symlink"}
             /\ \A row \in snap.chunkRows : \E k \in DOMAIN snap.rows :
                  snap.rows[k].path = row.path /\ snap.rows[k].type = "file"
  BY DEF TreeInv, IsSnapshot, IsNode
<1> QED BY <1>1, <1>2, <1>3 DEF TypeOK

\* Whatever the sources and their names: what is above an entry is a directory, nothing but
\* directories, files and links is recorded, and only files have chunks (snapshot.go:257).
THEOREM TreeTypeCorrect == Spec => []TypeOK
<1>1. Spec => []TreeInv
  BY TreeBegins, TreeSteps, PTL DEF Spec
<1> QED BY <1>1, TreeTyped, PTL

-----------------------------------------------------------------------------
(* The two tables give back the nodes.                                     *)

RowsOf(chunkRows, path) == {row \in chunkRows : row.path = path}

RowsFor(order, path, chunks) ==
    {[order |-> order, path |-> path, seq |-> seq, hash |-> chunks[seq]] : seq \in DOMAIN chunks}

\* The rows of the chunks of a file, given back in their order.
LEMMA ListIs ==
    ASSUME NEW c \in Seq(STRING), NEW chunkRows, NEW order \in Nat, NEW path,
           RowsOf(chunkRows, path) = RowsFor(order, path, c)
    PROVE  ListOf(chunkRows, path) = c
<1> DEFINE rows == {row \in chunkRows : row.path = path}
           rowAt(seq) == [order |-> order, path |-> path, seq |-> seq, hash |-> c[seq]]
<1>1. /\ Len(c) \in Nat /\ DOMAIN c = 1 .. Len(c)
      /\ rows = {rowAt(seq) : seq \in 1 .. Len(c)}
      /\ \A seq : rowAt(seq).seq = seq /\ rowAt(seq).order = order /\ rowAt(seq).hash = c[seq]
  BY DEF RowsOf, RowsFor
<1>2. ListOf(chunkRows, path) = [seq \in 1 .. Longest(rows) |-> HashAt(rows, seq)]
  BY DEF ListOf
<1> HIDE DEF rows, rowAt
<1>3. Longest(rows) = Len(c)
  <2>1. CASE Len(c) = 0
    BY <1>1, <2>1 DEF Longest
  <2>2. CASE Len(c) # 0
    <3> DEFINE last(row) == \A other \in rows : other.seq <= row.seq
               r == CHOOSE row \in rows : last(row)
    <3>1. Len(c) \in 1 .. Len(c)
      BY <1>1, <2>2
    <3>2. rowAt(Len(c)) \in rows /\ rowAt(Len(c)).seq = Len(c)
      BY <1>1, <3>1
    <3>3. last(rowAt(Len(c)))
      BY <1>1, <3>2
    <3>4. r \in rows /\ last(r)
      <4> HIDE DEF last
      <4> QED BY <3>2, <3>3
    <3>5. r.seq \in 1 .. Len(c) /\ Len(c) <= r.seq
      BY <1>1, <3>2, <3>4
    <3>6. Longest(rows) = r.seq
      BY <3>2 DEF Longest
    <3> HIDE DEF r
    <3> QED BY <1>1, <3>5, <3>6
  <2> QED BY <2>1, <2>2
<1>4. ASSUME NEW seq \in 1 .. Len(c) PROVE HashAt(rows, seq) = c[seq]
  <2> DEFINE those == {row \in rows : row.seq = seq}
             latest(row) == \A other \in those : other.order <= row.order
             r == CHOOSE row \in those : latest(row)
  <2>1. those = {rowAt(seq)}
    BY <1>1
  <2>2. HashAt(rows, seq) = r.hash
    BY <2>1 DEF HashAt
  <2>3. rowAt(seq) \in those /\ latest(rowAt(seq))
    BY <1>1, <2>1
  <2>4. r \in those
    <3> HIDE DEF those, latest
    <3> QED BY <2>3
  <2> HIDE DEF r, those
  <2> QED BY <1>1, <2>1, <2>2, <2>4
<1>5. [seq \in 1 .. Len(c) |-> HashAt(rows, seq)] = c
  BY <1>1, <1>4
<1> QED BY <1>2, <1>3, <1>5

LEMMA RoundTrip ==
    ASSUME NEW nodes, NEW snap, snap.rows = NodeRows(nodes), snap.chunkRows = ChunkRows(nodes),
           nodes = [k \in DOMAIN nodes |-> nodes[k]],
           \A k \in DOMAIN nodes : IsNode(nodes[k]) /\ nodes[k].chunks \in Seq(STRING) /\ k[1] \in Nat,
           \A j, k \in DOMAIN nodes : nodes[j].path = nodes[k].path => j = k
    PROVE  LoadNodes(snap) = nodes
<1>1. DOMAIN LoadNodes(snap) = DOMAIN nodes
  BY DEF LoadNodes, NodeRows
<1>2. ASSUME NEW k \in DOMAIN nodes PROVE LoadNodes(snap)[k] = nodes[k]
  <2> DEFINE n == nodes[k]
             c == n.chunks
  <2>1. IsNode(n) /\ c \in Seq(STRING) /\ k[1] \in Nat
    OBVIOUS
  <2>2. snap.rows[k] = [n EXCEPT !.chunks = <<>>]
    BY DEF NodeRows
  <2>3. snap.rows[k].path = n.path
    BY <2>1, <2>2 DEF IsNode
  <2>4. RowsOf(snap.chunkRows, n.path) = RowsFor(k[1], n.path, c)
    <3> DEFINE own(j) == {[order |-> j[1], path |-> nodes[j].path, seq |-> seq,
                           hash |-> nodes[j].chunks[seq]] : seq \in DOMAIN nodes[j].chunks}
    <3>1. snap.chunkRows = UNION {own(j) : j \in DOMAIN nodes}
      BY DEF ChunkRows
    <3>2. \A j \in DOMAIN nodes : \A row \in own(j) : row.path = nodes[j].path
      OBVIOUS
    <3>3. own(k) = RowsFor(k[1], n.path, c)
      BY DEF RowsFor
    <3> HIDE DEF own, c
    <3>4. \A row \in snap.chunkRows : row.path = n.path => row \in own(k)
      BY <3>1, <3>2
    <3>5. \A row \in own(k) : row \in snap.chunkRows /\ row.path = n.path
      BY <3>1, <3>2
    <3> QED BY <3>3, <3>4, <3>5 DEF RowsOf
  <2> HIDE DEF n, c
  <2>5. ListOf(snap.chunkRows, n.path) = c
    BY <2>1, <2>4, ListIs
  <2>6. LoadNodes(snap)[k] = [snap.rows[k] EXCEPT !.chunks = ListOf(snap.chunkRows, snap.rows[k].path)]
    BY <1>1 DEF LoadNodes
  <2>7. LoadNodes(snap)[k] = [[n EXCEPT !.chunks = <<>>] EXCEPT !.chunks = c]
    BY <2>2, <2>3, <2>5, <2>6
  <2>8. [[n EXCEPT !.chunks = <<>>] EXCEPT !.chunks = n.chunks] = n
    BY <2>1 DEF IsNode
  <2> QED BY <2>7, <2>8 DEF n, c
<1> DEFINE loaded == LoadNodes(snap)
<1>3. loaded = [k \in DOMAIN nodes |-> loaded[k]]
  <2>1. loaded = [k \in DOMAIN loaded |-> loaded[k]]
    BY DEF LoadNodes
  <2> HIDE DEF loaded
  <2> QED BY <1>1, <2>1 DEF loaded
<1> HIDE DEF loaded
<1>4. \A k \in DOMAIN nodes : loaded[k] = nodes[k]
  BY <1>2 DEF loaded
<1> QED BY <1>3, <1>4 DEF loaded

-----------------------------------------------------------------------------
(* A snapshot is what was there when it was made, or when it was read.       *)

\* What is loaded of snapshot n: a node for each of its places, of an entry as it was read.
IsRead(all, n) ==
    LET snap == all[n]
        nodes == LoadNodes(snap) IN
    /\ DOMAIN nodes = Walk(snap.roots, snap.was)
    /\ \A k \in DOMAIN nodes :
         \E e \in AsRead(all, n, PathIn(snap, k[1], k[2]), snap.was[k[2]]) :
           nodes[k] = Node(PathIn(snap, k[1], k[2]), e)

ReadInv == TreeInv /\ \A n \in DOMAIN snaps : IsRead(snaps, n)

\* Among roots of different names no two nodes have one path.
LEMMA NodesApart ==
    ASSUME NoNamesakes, NEW sources \in SourceLists, NEW dir \in WorkDirs, NEW f, IsForest(f),
           NEW roots, roots = Roots(sources, dir),
           NEW j \in Walk(roots, f), NEW k \in Walk(roots, f),
           StoredAs(roots[j[1]], j[2]) = StoredAs(roots[k[1]], k[2])
    PROVE  j = k
<1>1. roots \in Seq(Places) /\ Distinct(roots)
  BY RootsAre DEF NoNamesakes
<1>2. /\ j[1] \in DOMAIN roots /\ j = <<j[1], j[2]>> /\ roots[j[1]] \in Paths /\ j[2] \in Paths
      /\ Under(roots[j[1]], j[2])
      /\ k[1] \in DOMAIN roots /\ k = <<k[1], k[2]>> /\ roots[k[1]] \in Paths /\ k[2] \in Paths
      /\ Under(roots[k[1]], k[2])
  BY <1>1, WalkIs
<1>3. /\ StoredAs(roots[j[1]], j[2])[1] = Base(roots[j[1]])
      /\ StoredAs(roots[k[1]], k[2])[1] = Base(roots[k[1]])
  BY <1>2, StoredIs
<1>4. j[1] = k[1]
  BY <1>1, <1>2, <1>3 DEF Distinct
<1>5. j[2] = k[2]
  BY <1>2, <1>4, StoredApart
<1> QED BY <1>2, <1>4, <1>5

LEMMA KeysApart ==
    ASSUME NoNamesakes, NEW snap, IsSnapshot(snap),
           NEW j \in Walk(snap.roots, snap.was), NEW k \in Walk(snap.roots, snap.was),
           PathIn(snap, j[1], j[2]) = PathIn(snap, k[1], k[2])
    PROVE  j = k
<1>1. PICK dir \in WorkDirs : snap.roots = Roots(snap.sources, dir)
  BY DEF IsSnapshot
<1> QED BY <1>1, NodesApart DEF IsSnapshot, PathIn

LEMMA FoundIs ==
    ASSUME NEW snap, NEW path, NEW d
    PROVE  d \in FoundAt(snap, path) <=>
             \E k \in Walk(snap.roots, snap.was) : PathIn(snap, k[1], k[2]) = path /\ d = snap.was[k[2]]
<1>1. ASSUME d \in FoundAt(snap, path)
      PROVE  \E k \in Walk(snap.roots, snap.was) : PathIn(snap, k[1], k[2]) = path /\ d = snap.was[k[2]]
  <2>1. PICK p \in DOMAIN snap.was, i \in DOMAIN snap.roots :
          p \in Held(snap, i) /\ PathIn(snap, i, p) = path /\ d = snap.was[p]
    BY <1>1 DEF FoundAt
  <2> DEFINE k == <<i, p>>
  <2>2. k[1] = i /\ k[2] = p /\ k \in Walk(snap.roots, snap.was)
    BY <2>1 DEF Held, Walk, Recorded
  <2> HIDE DEF k
  <2> QED BY <2>1, <2>2
<1>2. ASSUME NEW k \in Walk(snap.roots, snap.was), PathIn(snap, k[1], k[2]) = path, d = snap.was[k[2]]
      PROVE  d \in FoundAt(snap, path)
  <2>1. k[1] \in DOMAIN snap.roots /\ k[2] \in DOMAIN snap.was /\ k[2] \in Held(snap, k[1])
    BY DEF Walk, Held, Recorded
  <2> QED BY <1>2, <2>1 DEF FoundAt
<1> QED BY <1>1, <1>2

Forests(all, n) == \A i \in 1 .. n : IsForest(all[i].was)

\* What is read for an entry is an entry like it.
LEMMA AsReadIs ==
    ASSUME NEW n, NEW all, Forests(all, n),
           NEW path, NEW d, IsEntry(d), NEW e \in AsRead(all, n, path, d)
    PROVE  IsEntry(e) /\ e.type = d.type /\ (d.type = "file" => Alike(e, d))
<1>1. CASE d.type # "file"
  BY <1>1 DEF AsRead
<1>2. CASE d.type = "file"
  <2>1. PICK m \in 1 .. n : e \in FoundAt(all[m], path) /\ Alike(e, d)
    BY <1>2 DEF AsRead
  <2>2. PICK k \in Walk(all[m].roots, all[m].was) : e = all[m].was[k[2]]
    BY <2>1, FoundIs
  <2>3. k[2] \in DOMAIN all[m].was
    BY DEF Walk
  <2>4. IsEntry(e)
    BY <2>2, <2>3 DEF Forests, IsForest
  <2> QED BY <1>2, <2>1, <2>4 DEF Alike
<1> QED BY <1>1, <1>2

LEMMA FirstRead ==
    ASSUME NEW n, NEW all, NEW path, NEW e, e.type = "file", NEW m \in 1 .. n, NEW before,
           before = m - 1, Unbroken(all, m, n, path, e), m = 1 \/ ~Unbroken(all, before, n, path, e),
           NEW d \in FoundAt(all[m], path), Alike(d, e)
    PROVE  d \in AsRead(all, n, path, e)
<1> DEFINE first == {i \in 1 .. n : /\ Unbroken(all, i, n, path, e)
                                    /\ i = 1 \/ ~Unbroken(all, i - 1, n, path, e)}
           read(i) == {c \in FoundAt(all[i], path) : Alike(c, e)}
<1>1. m \in first
  OBVIOUS
<1>2. d \in read(m)
  OBVIOUS
<1>3. AsRead(all, n, path, e) = UNION {read(i) : i \in first}
  BY DEF AsRead
<1> HIDE DEF first, read
<1> QED BY <1>1, <1>2, <1>3

\* What is read goes by the snapshots up to the one that records it.
LEMMA AsReadStays ==
    ASSUME NEW n \in Nat, NEW all, NEW more, \A i \in 1 .. n : all[i] = more[i],
           NEW path, NEW e
    PROVE  AsRead(all, n, path, e) = AsRead(more, n, path, e)
<1>1. ASSUME NEW i \in 1 .. n PROVE Unbroken(all, i, n, path, e) <=> Unbroken(more, i, n, path, e)
  BY DEF Unbroken
<1>2. ASSUME NEW i \in 1 .. n, i # 1
      PROVE  Unbroken(all, i - 1, n, path, e) <=> Unbroken(more, i - 1, n, path, e)
  <2>1. i - 1 \in 1 .. n
    BY <1>2
  <2> QED BY <1>1, <2>1
<1> DEFINE first(a, i) == Unbroken(a, i, n, path, e) /\ (i = 1 \/ ~Unbroken(a, i - 1, n, path, e))
           read(a, i) == {d \in FoundAt(a[i], path) : Alike(d, e)}
<1>3. \A i \in 1 .. n : (first(all, i) <=> first(more, i)) /\ read(all, i) = read(more, i)
  BY <1>1, <1>2
<1>4. \A a : AsRead(a, n, path, e) =
               IF e.type # "file" THEN {e} ELSE UNION {read(a, m) : m \in {i \in 1 .. n : first(a, i)}}
  BY DEF AsRead
<1> HIDE DEF first, read
<1>5. {i \in 1 .. n : first(all, i)} = {i \in 1 .. n : first(more, i)}
  BY <1>3
<1>6. \A d : d \in UNION {read(all, m) : m \in {i \in 1 .. n : first(all, i)}}
             <=> d \in UNION {read(more, m) : m \in {i \in 1 .. n : first(more, i)}}
  BY <1>3
<1> QED BY <1>4, <1>6

LEMMA LastIs ==
    ASSUME TreeInv, snaps # <<>>
    PROVE  /\ Len(snaps) \in DOMAIN snaps /\ Len(snaps) \in Nat \ {0}
           /\ Last(snaps) = snaps[Len(snaps)] /\ Last(snaps) \in Snapshots
           /\ IsSnapshot(Last(snaps)) /\ IsForest(Last(snaps).was)
           /\ \A i \in 1 .. Len(snaps) : i \in DOMAIN snaps /\ IsForest(snaps[i].was)
<1>1. Len(snaps) \in Nat \ {0} /\ DOMAIN snaps = 1 .. Len(snaps)
  BY DEF TreeInv
<1>2. \A i \in DOMAIN snaps : snaps[i] \in Snapshots
  BY DEF Snapshots
<1>3. \A i \in DOMAIN snaps : IsSnapshot(snaps[i]) /\ IsForest(snaps[i].was)
  BY <1>2 DEF TreeInv, IsSnapshot
<1> QED BY <1>1, <1>2, <1>3 DEF Last

\* The parent has a node at each path that it has anything at, as that was read.
LEMMA ParentRead ==
    ASSUME NoNamesakes, ReadInv, snaps # <<>>, NEW k \in Walk(Last(snaps).roots, Last(snaps).was)
    PROVE  LET path == PathIn(Last(snaps), k[1], k[2]) IN
           /\ path \in DOMAIN ParentNodes
           /\ \E e \in AsRead(snaps, Len(snaps), path, Last(snaps).was[k[2]]) :
                ParentNodes[path] = Node(path, e)
<1> DEFINE snap == Last(snaps)
           nodes == LoadNodes(snap)
           path == PathIn(snap, k[1], k[2])
<1>1. /\ snap = snaps[Len(snaps)] /\ Len(snaps) \in DOMAIN snaps /\ IsSnapshot(snap)
      /\ TreeInv
  BY LastIs DEF ReadInv
<1>2. IsRead(snaps, Len(snaps))
  BY <1>1 DEF ReadInv
<1>3. /\ DOMAIN nodes = Walk(snap.roots, snap.was)
      /\ \A j \in DOMAIN nodes :
           \E e \in AsRead(snaps, Len(snaps), PathIn(snap, j[1], j[2]), snap.was[j[2]]) :
             nodes[j] = Node(PathIn(snap, j[1], j[2]), e)
  BY <1>1, <1>2 DEF IsRead
<1>4. DOMAIN ParentNodes = {nodes[j].path : j \in DOMAIN nodes}
  BY DEF ParentNodes
<1>5. \A j \in DOMAIN nodes : nodes[j].path = PathIn(snap, j[1], j[2])
  BY <1>3 DEF Node
<1>6. path \in DOMAIN ParentNodes
  BY <1>3, <1>4, <1>5
<1>7. DOMAIN snap.rows = DOMAIN nodes
  BY DEF LoadNodes
<1>8. PICK j \in DOMAIN nodes : ParentNodes[path] = nodes[j] /\ nodes[j].path = path
  BY <1>1, <1>6, <1>7, ParentIs
<1>9. j = k
  BY <1>1, <1>3, <1>5, <1>8, KeysApart
<1> QED BY <1>3, <1>6, <1>8, <1>9

LEMMA ParentAt ==
    ASSUME NoNamesakes, ReadInv, NEW path \in DOMAIN ParentNodes
    PROVE  /\ snaps # <<>>
           /\ \E k \in Walk(Last(snaps).roots, Last(snaps).was) : path = PathIn(Last(snaps), k[1], k[2])
<1>1. /\ snaps # <<>>
      /\ \E k \in DOMAIN Last(snaps).rows : LoadNodes(Last(snaps))[k].path = path
  BY ParentIs DEF ReadInv
<1>2. Len(snaps) \in DOMAIN snaps /\ Last(snaps) = snaps[Len(snaps)]
  BY <1>1, LastIs DEF ReadInv
<1>3. IsRead(snaps, Len(snaps))
  BY <1>2 DEF ReadInv
<1>4. PICK k \in DOMAIN LoadNodes(Last(snaps)) : LoadNodes(Last(snaps))[k].path = path
  BY <1>1 DEF LoadNodes
<1>5. /\ k \in Walk(Last(snaps).roots, Last(snaps).was)
      /\ LoadNodes(Last(snaps))[k].path = PathIn(Last(snaps), k[1], k[2])
  BY <1>2, <1>3, <1>4 DEF IsRead, Node
<1> QED BY <1>1, <1>4, <1>5

\* What a backup records for an entry is that as it was read: by it, or by the first of those that
\* since then found one like it.
LEMMA AddedRight ==
    ASSUME NoNamesakes, ReadInv, NEW all, NEW snap, all = Append(snaps, snap), snap.was = fs,
           NEW k \in Walk(snap.roots, snap.was), IsEntry(fs[k[2]])
    PROVE  LET path == PathIn(snap, k[1], k[2])
               e == fs[k[2]]
           IN \E d \in AsRead(all, Len(snaps) + 1, path, e) : AddOne(path, e, ParentNodes) = Node(path, d)
<1> DEFINE path == PathIn(snap, k[1], k[2])
           e == fs[k[2]]
           n == Len(snaps)
<1>1. n \in Nat /\ all[n + 1] = snap /\ \A i \in 1 .. n : all[i] = snaps[i]
  <2>1. snaps \in Seq(Snapshots \cup {snap})
    <3>1. Len(snaps) \in Nat /\ DOMAIN snaps = 1 .. Len(snaps)
      BY DEF ReadInv, TreeInv
    <3>2. snaps \in [1 .. Len(snaps) -> Snapshots \cup {snap}]
      BY <3>1 DEF ReadInv, TreeInv
    <3> QED BY <3>1, <3>2
  <2> QED BY <2>1
<1>2. e \in FoundAt(all[n + 1], path)
  BY <1>1, FoundIs
<1> HIDE DEF path, e, n
<1>3. CASE e.type # "file"
  <2>1. AddOne(path, e, ParentNodes) = Node(path, e) /\ AsRead(all, n + 1, path, e) = {e}
    BY <1>3 DEF AddOne, AsRead
  <2>2. \E d \in AsRead(all, n + 1, path, e) : AddOne(path, e, ParentNodes) = Node(path, d)
    BY <2>1
  <2> QED BY <2>2 DEF path, e, n
<1>4. ASSUME e.type = "file" PROVE Alike(e, e)
  BY <1>4 DEF Alike
<1>5. ASSUME e.type = "file", snaps # <<>>, NEW j \in Walk(Last(snaps).roots, Last(snaps).was),
             path = PathIn(Last(snaps), j[1], j[2])
      PROVE  LET d == Last(snaps).was[j[2]] IN
             /\ Unchanged(ParentNodes, path, e) <=> Alike(d, e)
             /\ Alike(d, e) => \E c \in AsRead(snaps, n, path, d) : ParentNodes[path] = Node(path, c)
  <2> DEFINE d == Last(snaps).was[j[2]]
  <2>1. PICK c \in AsRead(snaps, n, path, d) : path \in DOMAIN ParentNodes /\ ParentNodes[path] = Node(path, c)
    BY <1>5, ParentRead DEF n
  <2>2. IsEntry(d)
    <3>1. j[2] \in DOMAIN Last(snaps).was
      BY DEF Walk
    <3> QED BY <1>5, <3>1, LastIs DEF ReadInv, IsForest
  <2> HIDE DEF d
  <2>3. Forests(snaps, n)
    BY <1>5, LastIs DEF ReadInv, Forests, n
  <2>4. c.type = d.type /\ (d.type = "file" => Alike(c, d))
    BY <2>1, <2>2, <2>3, AsReadIs
  <2>5. ParentNodes[path].type = c.type /\ ParentNodes[path].size = Len(c.content)
        /\ ParentNodes[path].mtime = c.mtime
    BY <2>1 DEF Node
  <2>6. Unchanged(ParentNodes, path, e) <=> Alike(c, e)
    BY <1>5, <2>1, <2>5 DEF Unchanged, Alike
  <2>7. Alike(c, e) <=> Alike(d, e)
    BY <2>4 DEF Alike
  <2> QED BY <2>1, <2>6, <2>7 DEF d
<1>6. CASE e.type = "file" /\ Unchanged(ParentNodes, path, e)
  <2>1. path \in DOMAIN ParentNodes /\ AddOne(path, e, ParentNodes) = ParentNodes[path]
    BY <1>6 DEF Unchanged, AddOne
  <2>2. PICK j \in Walk(Last(snaps).roots, Last(snaps).was) : path = PathIn(Last(snaps), j[1], j[2])
    BY <2>1, ParentAt
  <2> DEFINE d == Last(snaps).was[j[2]]
  <2>3. snaps # <<>> /\ Last(snaps) = snaps[n] /\ n \in Nat \ {0}
    BY <2>1, ParentAt, LastIs DEF ReadInv, n
  <2>4. Alike(d, e) /\ \E c \in AsRead(snaps, n, path, d) : ParentNodes[path] = Node(path, c)
    BY <1>5, <1>6, <2>2, <2>3
  <2> HIDE DEF d
  <2>5. PICK c \in AsRead(snaps, n, path, d) : ParentNodes[path] = Node(path, c)
    BY <2>4
  <2>6. d.type = "file" /\ \A b : Alike(b, d) <=> Alike(b, e)
    BY <2>4 DEF Alike
  <2>7. PICK m \in 1 .. n : /\ Unbroken(snaps, m, n, path, d) /\ c \in FoundAt(snaps[m], path) /\ Alike(c, d)
                            /\ m = 1 \/ ~Unbroken(snaps, m - 1, n, path, d)
    BY <2>5, <2>6 DEF AsRead
  <2>8. m \in 1 .. n + 1 /\ Unbroken(all, m, n + 1, path, e)
    <3>1. ASSUME NEW i \in m .. n PROVE \E b \in FoundAt(all[i], path) : Alike(b, e)
      <4>1. i \in 1 .. n /\ \E b \in FoundAt(snaps[i], path) : Alike(b, d)
        BY <1>1, <2>7 DEF Unbroken
      <4> QED BY <1>1, <2>6, <4>1
    <3>2. \E b \in FoundAt(all[n + 1], path) : Alike(b, e)
      BY <1>2, <1>4, <1>6
    <3>3. \A i \in m .. n + 1 : i \in m .. n \/ i = n + 1
      BY <1>1
    <3>4. \A i \in m .. n + 1 : \E b \in FoundAt(all[i], path) : Alike(b, e)
      BY <3>1, <3>2, <3>3
    <3>5. m \in 1 .. n + 1
      BY <1>1
    <3> QED BY <3>4, <3>5 DEF Unbroken
  <2>9. m = 1 \/ ~Unbroken(all, m - 1, n + 1, path, e)
    <3>1. SUFFICES ASSUME m # 1, Unbroken(all, m - 1, n + 1, path, e) PROVE Unbroken(snaps, m - 1, n, path, d)
      BY <2>7
    <3>2. ASSUME NEW i \in m - 1 .. n PROVE \E b \in FoundAt(snaps[i], path) : Alike(b, d)
      <4>1. i \in 1 .. n /\ i \in m - 1 .. n + 1
        BY <1>1, <3>1
      <4>2. \E b \in FoundAt(all[i], path) : Alike(b, e)
        BY <3>1, <4>1 DEF Unbroken
      <4> QED BY <1>1, <2>6, <4>1, <4>2
    <3> QED BY <3>2 DEF Unbroken
  <2>10. c \in FoundAt(all[m], path) /\ Alike(c, e)
    BY <1>1, <2>6, <2>7
  <2>11. c \in AsRead(all, n + 1, path, e)
    <3> DEFINE before == m - 1
    <3>1. before = m - 1 /\ (m = 1 \/ ~Unbroken(all, before, n + 1, path, e))
      BY <2>9
    <3> HIDE DEF before
    <3> QED BY <1>6, <2>8, <2>10, <3>1, FirstRead
  <2> QED BY <2>1, <2>5, <2>11 DEF path, e, n
<1>7. CASE e.type = "file" /\ ~Unchanged(ParentNodes, path, e)
  <2>1. AddOne(path, e, ParentNodes) = Node(path, e)
    BY <1>7 DEF AddOne
  <2>2. n + 1 = 1 \/ ~Unbroken(all, n, n + 1, path, e)
    <3>1. SUFFICES ASSUME n # 0, Unbroken(all, n, n + 1, path, e) PROVE FALSE
      BY <1>1
    <3>2. snaps # <<>> /\ n \in DOMAIN snaps /\ n \in n .. n + 1 /\ n \in 1 .. n
      BY <1>1, <3>1 DEF n, ReadInv, TreeInv
    <3>3. Last(snaps) = snaps[n]
      BY <3>2, LastIs DEF ReadInv, n
    <3>4. PICK d \in FoundAt(all[n], path) : Alike(d, e)
      BY <3>1, <3>2 DEF Unbroken
    <3>5. PICK j \in Walk(Last(snaps).roots, Last(snaps).was) :
            PathIn(Last(snaps), j[1], j[2]) = path /\ d = Last(snaps).was[j[2]]
      BY <1>1, <3>2, <3>3, <3>4, FoundIs
    <3> QED BY <1>5, <1>7, <3>2, <3>4, <3>5
  <2>3. n + 1 \in 1 .. n + 1 /\ Unbroken(all, n + 1, n + 1, path, e)
    <3>1. \A i \in n + 1 .. n + 1 : i = n + 1
      BY <1>1
    <3>2. n + 1 \in 1 .. n + 1
      BY <1>1
    <3> QED BY <1>2, <1>4, <1>7, <3>1, <3>2 DEF Unbroken
  <2>4. e \in AsRead(all, n + 1, path, e)
    <3> DEFINE m == n + 1
    <3>1. m \in 1 .. m /\ Unbroken(all, m, m, path, e)
      BY <2>3
    <3>2. n = m - 1
      BY <1>1
    <3>3. e \in FoundAt(all[m], path)
      BY <1>2
    <3>4. m = 1 \/ ~Unbroken(all, n, m, path, e)
      BY <2>2
    <3> HIDE DEF m
    <3>5. e \in AsRead(all, m, path, e)
      BY <1>4, <1>7, <3>1, <3>2, <3>3, <3>4, FirstRead
    <3> QED BY <3>5 DEF m
  <2> QED BY <2>1, <2>4 DEF path, e, n
<1> QED BY <1>3, <1>6, <1>7 DEF path, e, n

\* What is loaded of the snapshot that a backup makes.
LEMMA NewIsRead ==
    ASSUME NoNamesakes, ReadInv, NEW sources \in SourceLists, NEW dir \in WorkDirs,
           NEW all, all = Append(snaps, SnapshotOf(sources, dir)), all[Len(snaps) + 1] = SnapshotOf(sources, dir)
    PROVE  IsRead(all, Len(snaps) + 1)
<1> DEFINE snap == SnapshotOf(sources, dir)
           roots == Roots(sources, dir)
           nodes == Taken(roots)
           n == Len(snaps) + 1
<1>1. /\ snap.rows = NodeRows(nodes) /\ snap.chunkRows = ChunkRows(nodes)
      /\ snap.roots = roots /\ snap.was = fs
  BY DEF SnapshotOf
<1>2. DOMAIN nodes = Walk(roots, fs) /\ nodes = [k \in DOMAIN nodes |-> nodes[k]]
  BY DEF Taken
<1>3. roots \in Seq(Places) /\ IsForest(fs)
  BY RootsAre DEF ReadInv, TreeInv
<1> HIDE DEF snap
<1>4. ASSUME NEW k \in DOMAIN nodes
      PROVE  \E d \in AsRead(all, n, PathIn(snap, k[1], k[2]), fs[k[2]]) :
               nodes[k] = Node(PathIn(snap, k[1], k[2]), d)
  <2>1. k \in Walk(snap.roots, snap.was) /\ IsEntry(fs[k[2]])
    BY <1>1, <1>2, <1>3, WalkIs
  <2>2. nodes[k] = AddOne(PathIn(snap, k[1], k[2]), fs[k[2]], ParentNodes)
    BY <1>1, <1>2 DEF Taken, PathIn
  <2> HIDE DEF nodes
  <2>3. all = Append(snaps, snap)
    BY DEF snap
  <2>4. \E d \in AsRead(all, Len(snaps) + 1, PathIn(snap, k[1], k[2]), fs[k[2]]) :
           AddOne(PathIn(snap, k[1], k[2]), fs[k[2]], ParentNodes) = Node(PathIn(snap, k[1], k[2]), d)
    <3>1. snap.was = fs
      BY <1>1
    <3> QED BY <2>1, <2>3, <3>1, AddedRight
  <2> QED BY <2>2, <2>4
<1> HIDE DEF nodes
<1>5. ASSUME NEW k \in DOMAIN nodes
      PROVE  /\ IsNode(nodes[k]) /\ nodes[k].chunks \in Seq(STRING) /\ k[1] \in Nat
             /\ nodes[k].path = PathIn(snap, k[1], k[2])
  <2>1. k[1] \in Nat /\ IsEntry(fs[k[2]]) /\ Recorded(fs[k[2]])
    <3>1. k[1] \in 1 .. Len(roots) /\ Len(roots) \in Nat /\ IsEntry(fs[k[2]]) /\ Recorded(fs[k[2]])
      BY <1>2, <1>3, WalkIs DEF Recorded
    <3> QED BY <3>1
  <2>2. PICK d \in AsRead(all, n, PathIn(snap, k[1], k[2]), fs[k[2]]) : nodes[k] = Node(PathIn(snap, k[1], k[2]), d)
    BY <1>4
  <2>3. Forests(all, n)
    <3>1. /\ Len(snaps) \in Nat /\ DOMAIN snaps = 1 .. Len(snaps)
          /\ \A i \in DOMAIN snaps : IsForest(snaps[i].was)
      BY DEF ReadInv, TreeInv, IsSnapshot, Snapshots
    <3>2. \A i \in 1 .. Len(snaps) : all[i] = snaps[i]
      <4>1. snaps \in Seq(Snapshots \cup {snap})
        <5>1. snaps \in [1 .. Len(snaps) -> Snapshots \cup {snap}]
          BY <3>1 DEF ReadInv, TreeInv
        <5> QED BY <3>1, <5>1
      <4> QED BY <4>1 DEF snap
    <3>3. IsForest(all[n].was)
      BY <1>1, <1>3 DEF snap
    <3>4. \A i \in 1 .. n : i \in 1 .. Len(snaps) \/ i = n
      BY <3>1
    <3> QED BY <3>1, <3>2, <3>3, <3>4 DEF Forests
  <2>4. IsEntry(d) /\ Recorded(d)
    <3>1. IsEntry(d) /\ d.type = fs[k[2]].type
      BY <2>1, <2>2, <2>3, AsReadIs
    <3> QED BY <2>1, <3>1 DEF Recorded
  <2> QED BY <2>1, <2>2, <2>4, NodeIs
<1>6. ASSUME NEW j \in DOMAIN nodes, NEW k \in DOMAIN nodes, nodes[j].path = nodes[k].path PROVE j = k
  <2>1. StoredAs(roots[j[1]], j[2]) = StoredAs(roots[k[1]], k[2])
    BY <1>1, <1>5, <1>6 DEF PathIn
  <2> QED BY <1>2, <1>3, <2>1, NodesApart
<1>7. LoadNodes(snap) = nodes
  BY <1>1, <1>2, <1>5, <1>6, RoundTrip
<1>8. all[n] = snap
  BY DEF snap
<1> QED BY <1>1, <1>2, <1>4, <1>7, <1>8 DEF IsRead

LEMMA BackupRead ==
    ASSUME NoNamesakes, ReadInv, NEW sources \in SourceLists, NEW dir \in WorkDirs, Backup(sources, dir)
    PROVE  ReadInv'
<1> DEFINE snap == SnapshotOf(sources, dir)
           n == Len(snaps)
<1>1. TreeInv'
  BY BackupTyped DEF ReadInv
<1>2. snaps' = Append(snaps, snap)
  BY BackupIs
<1>3. n \in Nat /\ DOMAIN snaps = 1 .. n /\ snaps \in Seq(Snapshots \cup {snap})
  <2>1. n \in Nat /\ DOMAIN snaps = 1 .. n
    BY DEF ReadInv, TreeInv
  <2>2. snaps \in [1 .. n -> Snapshots \cup {snap}]
    BY <2>1 DEF ReadInv, TreeInv
  <2> QED BY <2>1, <2>2
<1>4. /\ DOMAIN snaps' = 1 .. n + 1 /\ snaps'[n + 1] = snap
      /\ \A i \in 1 .. n : snaps'[i] = snaps[i]
  BY <1>2, <1>3
<1>5. IsRead(snaps', n + 1)
  BY <1>2, <1>4, NewIsRead
<1> HIDE DEF n, snap
<1>6. ASSUME NEW m \in 1 .. n PROVE IsRead(snaps', m)
  <2>1. m \in DOMAIN snaps /\ m \in Nat /\ snaps'[m] = snaps[m] /\ \A i \in 1 .. m : snaps[i] = snaps'[i]
    BY <1>3, <1>4
  <2>2. IsRead(snaps, m)
    BY <2>1 DEF ReadInv
  <2>3. \A path, e : AsRead(snaps, m, path, e) = AsRead(snaps', m, path, e)
    BY <2>1, AsReadStays
  <2> QED BY <2>1, <2>2, <2>3 DEF IsRead
<1>7. \A m \in DOMAIN snaps' : IsRead(snaps', m)
  <2>1. \A m \in 1 .. n + 1 : m \in 1 .. n \/ m = n + 1
    BY <1>3
  <2> QED BY <1>4, <1>5, <1>6, <2>1
<1> QED BY <1>1, <1>7 DEF ReadInv

LEMMA ReadBegins == Init => ReadInv
<1> SUFFICES ASSUME Init PROVE ReadInv
  OBVIOUS
<1>1. DOMAIN snaps = {}
  BY DEF Init
<1> QED BY <1>1, TreeBegins DEF ReadInv

LEMMA ReadSteps == NoNamesakes /\ ReadInv /\ [Next]_vars => ReadInv'
<1> SUFFICES ASSUME NoNamesakes, ReadInv, [Next]_vars PROVE ReadInv'
  OBVIOUS
<1>1. CASE \E p \in Places : Edit(p) \/ Delete(p)
  <2>1. TreeInv'
    BY TreeSteps DEF ReadInv
  <2>2. snaps' = snaps
    BY <1>1 DEF Edit, Delete
  <2> QED BY <2>1, <2>2 DEF ReadInv
<1>2. CASE \E sources \in SourceLists, dir \in WorkDirs : Backup(sources, dir)
  BY <1>2, BackupRead
<1>3. CASE UNCHANGED vars
  <2>1. TreeInv'
    BY TreeSteps DEF ReadInv
  <2> QED BY <1>3, <2>1 DEF vars, ReadInv
<1> QED BY <1>1, <1>2, <1>3 DEF Next

\* Every snapshot holds what was there, its files as they were read.
LEMMA AlwaysRead == ASSUME NoNamesakes PROVE Spec => []ReadInv
BY ReadBegins, ReadSteps, PTL DEF Spec

-----------------------------------------------------------------------------
(* A restore of a whole snapshot gives back what it is of.                 *)

Nodes(snap) == LoadNodes(snap)

\* A node for each place, of some entry of its type.
Good(snap) ==
    /\ IsSnapshot(snap)
    /\ DOMAIN Nodes(snap) = Walk(snap.roots, snap.was)
    /\ \A k \in DOMAIN Nodes(snap) :
        /\ Nodes(snap)[k].path = PathIn(snap, k[1], k[2])
        /\ Nodes(snap)[k].type = snap.was[k[2]].type
        /\ \E e : IsEntry(e) /\ Nodes(snap)[k] = Node(Nodes(snap)[k].path, e)

LEMMA ReadIsGood == ASSUME ReadInv, NEW n \in DOMAIN snaps PROVE Good(snaps[n])
<1> DEFINE snap == snaps[n]
           nodes == Nodes(snap)
<1>1. IsRead(snaps, n) /\ IsSnapshot(snap) /\ IsForest(snap.was) /\ Forests(snaps, n)
  <2>1. Len(snaps) \in Nat /\ DOMAIN snaps = 1 .. Len(snaps) /\ \A i \in DOMAIN snaps : snaps[i] \in Snapshots
    BY DEF ReadInv, TreeInv, Snapshots
  <2>2. \A i \in DOMAIN snaps : IsSnapshot(snaps[i]) /\ IsForest(snaps[i].was)
    BY <2>1 DEF ReadInv, TreeInv, IsSnapshot
  <2>3. \A i \in 1 .. n : i \in DOMAIN snaps
    BY <2>1
  <2> QED BY <2>1, <2>2, <2>3 DEF ReadInv, Forests
<1>2. /\ DOMAIN nodes = Walk(snap.roots, snap.was)
      /\ \A k \in DOMAIN nodes :
           \E e \in AsRead(snaps, n, PathIn(snap, k[1], k[2]), snap.was[k[2]]) :
             nodes[k] = Node(PathIn(snap, k[1], k[2]), e)
  BY <1>1 DEF IsRead, Nodes
<1> HIDE DEF nodes
<1>3. ASSUME NEW k \in DOMAIN nodes
      PROVE  /\ nodes[k].path = PathIn(snap, k[1], k[2]) /\ nodes[k].type = snap.was[k[2]].type
             /\ \E e : IsEntry(e) /\ nodes[k] = Node(nodes[k].path, e)
  <2> DEFINE path == PathIn(snap, k[1], k[2])
             d == snap.was[k[2]]
  <2>1. PICK e \in AsRead(snaps, n, path, d) : nodes[k] = Node(path, e)
    BY <1>2
  <2>2. IsEntry(d)
    <3>1. k[2] \in DOMAIN snap.was
      BY <1>2 DEF Walk
    <3> QED BY <1>1, <3>1 DEF IsForest
  <2> HIDE DEF path, d
  <2>3. IsEntry(e) /\ e.type = d.type
    BY <1>1, <2>1, <2>2, AsReadIs
  <2>4. Node(path, e).path = path /\ Node(path, e).type = e.type
    BY DEF Node
  <2> QED BY <2>1, <2>3, <2>4 DEF path, d
<1> QED BY <1>1, <1>2, <1>3 DEF Good, nodes

LEMMA GoodNodes ==
    ASSUME NoNamesakes, NEW snap, Good(snap)
    PROVE  /\ snap.roots \in Seq(Places) /\ DOMAIN snap.roots = DOMAIN snap.sources
           /\ IsForest(snap.was)
           /\ DOMAIN Nodes(snap) = Walk(snap.roots, snap.was)
           /\ Nodes(snap) = [k \in DOMAIN Nodes(snap) |-> Nodes(snap)[k]]
           /\ \A k \in DOMAIN Nodes(snap) :
                /\ k[1] \in Nat /\ k[1] \in DOMAIN snap.roots
                /\ k[2] \in Held(snap, k[1]) /\ k[2] \in DOMAIN snap.was
                /\ Nodes(snap)[k].path = PathIn(snap, k[1], k[2])
                /\ Nodes(snap)[k].path \in Paths
                /\ Nodes(snap)[k].type = snap.was[k[2]].type
           /\ \A i \in DOMAIN snap.roots : \A p \in Held(snap, i) :
                <<i, p>> \in DOMAIN Nodes(snap)
           /\ \A j, k \in DOMAIN Nodes(snap) : Nodes(snap)[j].path = Nodes(snap)[k].path => j = k
<1> DEFINE nodes == Nodes(snap)
<1>1. /\ snap.roots \in Seq(Places) /\ DOMAIN snap.roots = DOMAIN snap.sources
      /\ IsSnapshot(snap) /\ IsForest(snap.was)
  BY SnapshotRoots DEF Good, IsSnapshot
<1>2. /\ DOMAIN nodes = Walk(snap.roots, snap.was) /\ nodes = [k \in DOMAIN nodes |-> nodes[k]]
      /\ \A k \in DOMAIN nodes : /\ nodes[k].path = PathIn(snap, k[1], k[2])
                                 /\ nodes[k].type = snap.was[k[2]].type
  BY DEF Good, Nodes, LoadNodes
<1> HIDE DEF nodes
<1>3. ASSUME NEW j \in DOMAIN nodes, NEW k \in DOMAIN nodes, nodes[j].path = nodes[k].path PROVE j = k
  BY <1>1, <1>2, <1>3, KeysApart
<1>4. ASSUME NEW k \in DOMAIN nodes
      PROVE  /\ k[1] \in Nat /\ k[1] \in DOMAIN snap.roots
             /\ k[2] \in Held(snap, k[1]) /\ k[2] \in DOMAIN snap.was
             /\ nodes[k].path \in Paths
  <2>1. /\ k[1] \in DOMAIN snap.roots /\ k[1] \in 1 .. Len(snap.roots) /\ Len(snap.roots) \in Nat
        /\ k[2] \in DOMAIN snap.was
        /\ snap.roots[k[1]] \in Paths /\ k[2] \in Paths
        /\ Under(snap.roots[k[1]], k[2]) /\ snap.was[k[2]].type # "other"
    BY <1>1, <1>2, WalkIs
  <2>2. StoredAs(snap.roots[k[1]], k[2]) \in Paths
    BY <2>1, StoredIs
  <2>3. k[1] \in Nat
    BY <2>1
  <2> QED BY <1>2, <2>1, <2>2, <2>3 DEF Held, PathIn
<1>5. ASSUME NEW i \in DOMAIN snap.roots, NEW p \in Held(snap, i) PROVE <<i, p>> \in DOMAIN nodes
  BY <1>2 DEF Held, Walk, Recorded
<1> QED BY <1>1, <1>2, <1>3, <1>4, <1>5 DEF nodes

\* The only node of its path counts.
LEMMA OnlyOne ==
    ASSUME NoNamesakes, NEW snap, Good(snap), NEW k \in DOMAIN Nodes(snap)
    PROVE  /\ KeysOf(Nodes(snap), Nodes(snap)[k].path) = {k}
           /\ Final(Nodes(snap), Nodes(snap)[k].path) = Nodes(snap)[k]
<1> DEFINE nodes == Nodes(snap)
           path == nodes[k].path
           links == {j \in KeysOf(nodes, path) : nodes[j].type = "symlink"}
<1>1. KeysOf(nodes, path) = {k} /\ k[1] \in Nat
  BY GoodNodes DEF KeysOf
<1> HIDE DEF nodes
<1>2. Latest(nodes, {k}) = nodes[k]
  <2>1. k[1] \in 0 .. k[1] /\ {k} # {}
    BY <1>1
  <2>2. \E j \in {k} : Latest(nodes, {k}) = nodes[j]
    BY <1>1, <2>1, LatestIs
  <2> QED BY <2>2
<1>3. links = {} \/ links = {k}
  BY <1>1
<1>4. Final(nodes, path) = Latest(nodes, {k})
  BY <1>1, <1>3 DEF Final
<1> QED BY <1>1, <1>2, <1>4 DEF nodes

\* What is above a node of a snapshot is a directory of it.
LEMMA NodesAbove ==
    ASSUME NoNamesakes, NEW snap, Good(snap), NEW k \in DOMAIN Nodes(snap),
           NEW i \in 1 .. Len(Nodes(snap)[k].path) - 1
    PROVE  \E j \in DOMAIN Nodes(snap) :
             /\ Nodes(snap)[j].path = SubSeq(Nodes(snap)[k].path, 1, i)
             /\ Nodes(snap)[j].type = "dir"
<1> DEFINE s == snap.roots[k[1]]
           p == k[2]
           path == StoredAs(s, p)
           n == Len(s) + i - 1
           q == SubSeq(p, 1, n)
<1>1. /\ k \in Walk(snap.roots, snap.was) /\ snap.roots \in Seq(Places) /\ IsForest(snap.was)
      /\ Nodes(snap)[k].path = path
  BY GoodNodes DEF PathIn
<1>2. /\ k[1] \in DOMAIN snap.roots /\ p \in DOMAIN snap.was
      /\ s \in Places /\ s \in Paths /\ p \in Paths /\ Under(s, p)
  BY <1>1, WalkIs
<1> HIDE DEF s, p
<1>3. Len(path) = Len(p) - Len(s) + 1 /\ Len(s) \in Nat /\ Len(p) \in Nat /\ Len(s) <= Len(p)
  BY <1>2, StoredIs
<1>4. i \in 1 .. Len(path) /\ i \in 1 .. Len(path) - 1
  BY <1>1, <1>3
<1>5. /\ n \in Len(s) .. Len(p) /\ Under(s, q) /\ SubSeq(path, 1, i) = StoredAs(s, q)
  BY <1>2, <1>4, StoredCut
<1>6. n < Len(p)
  BY <1>3, <1>4
<1> HIDE DEF n
<1>7. q \in DOMAIN snap.was /\ snap.was[q].type = "dir"
  BY <1>1, <1>2, <1>5, <1>6, Above
<1> HIDE DEF q
<1>8. q \in Held(snap, k[1])
  BY <1>5, <1>7 DEF Held, s
<1> DEFINE j == <<k[1], q>>
<1>9. j \in DOMAIN Nodes(snap) /\ j[1] = k[1] /\ j[2] = q
  BY <1>2, <1>8, GoodNodes
<1> HIDE DEF j
<1>10. Nodes(snap)[j].type = snap.was[q].type /\ Nodes(snap)[j].path = StoredAs(s, q)
  BY <1>9, GoodNodes DEF PathIn, s
<1>11. Nodes(snap)[j].type = "dir"
  BY <1>7, <1>10
<1> QED BY <1>1, <1>5, <1>9, <1>10, <1>11

LEMMA MadeIs ==
    ASSUME NoNamesakes, NEW snap, Good(snap)
    PROVE  LET nodes == Nodes(snap) IN
           /\ DOMAIN Made(nodes) = {nodes[k].path : k \in DOMAIN nodes}
           /\ \A k \in DOMAIN nodes : Made(nodes)[nodes[k].path] = EntryMade(nodes[k])
<1> DEFINE nodes == Nodes(snap)
           paths == {nodes[k].path : k \in DOMAIN nodes}
           above == UNION {{SubSeq(path, 1, i) : i \in 1 .. Len(path) - 1} : path \in paths}
<1>1. Made(nodes) = [p \in paths \cup above |->
                        IF p \in paths THEN EntryMade(Final(nodes, p)) ELSE NewDir]
  BY DEF Made
<1>2. above \subseteq paths
  <2>1. ASSUME NEW k \in DOMAIN nodes, NEW i \in 1 .. Len(nodes[k].path) - 1
        PROVE  SubSeq(nodes[k].path, 1, i) \in paths
    <3>1. PICK j \in DOMAIN nodes : nodes[j].path = SubSeq(nodes[k].path, 1, i)
      BY NodesAbove
    <3> QED BY <3>1
  <2> HIDE DEF nodes
  <2>2. ASSUME NEW u \in above PROVE u \in paths
    <3>1. PICK path \in paths : \E i \in 1 .. Len(path) - 1 : u = SubSeq(path, 1, i)
      OBVIOUS
    <3>2. PICK i \in 1 .. Len(path) - 1 : u = SubSeq(path, 1, i)
      BY <3>1
    <3>3. PICK k \in DOMAIN nodes : path = nodes[k].path
      OBVIOUS
    <3> HIDE DEF paths
    <3> QED BY <2>1, <3>2, <3>3
  <2> QED BY <2>2
<1> HIDE DEF above
<1>3. paths \cup above = paths
  BY <1>2
<1>4. DOMAIN Made(nodes) = paths
  BY <1>1, <1>3
<1>5. ASSUME NEW k \in DOMAIN nodes PROVE Made(nodes)[nodes[k].path] = EntryMade(nodes[k])
  <2>1. nodes[k].path \in paths
    OBVIOUS
  <2>2. Final(nodes, nodes[k].path) = nodes[k]
    BY OnlyOne
  <2> HIDE DEF nodes, paths
  <2> QED BY <1>1, <1>3, <2>1, <2>2
<1> QED BY <1>4, <1>5

LEMMA NoFailure ==
    ASSUME NoNamesakes, NEW snap, Good(snap), Fails(Nodes(snap))
    PROVE  DOMAIN Nodes(snap) = {}
<1> DEFINE nodes == Nodes(snap)
<1>1. ASSUME NEW j \in DOMAIN nodes, NEW k \in DOMAIN nodes, nodes[j].path = nodes[k].path,
             nodes[j].type = "dir", nodes[k].type # "dir"
      PROVE  FALSE
  BY <1>1, GoodNodes
<1>4. ASSUME NEW j \in DOMAIN nodes, NEW k \in DOMAIN nodes, nodes[j].path = nodes[k].path, j[1] < k[1]
      PROVE  FALSE
  <2>1. j = k /\ k[1] \in Nat
    BY <1>4, GoodNodes
  <2> QED BY <1>4, <2>1
<1>2. ASSUME NEW k \in DOMAIN nodes, Len(nodes[k].path) > 1
      PROVE  Made(nodes)[Front(nodes[k].path)] = NewDir
  <2> DEFINE path == nodes[k].path
  <2>1. path \in Paths
    BY GoodNodes
  <2>2. Len(path) \in Nat
    BY <2>1 DEF Paths
  <2>3. Len(path) - 1 \in 1 .. Len(path) - 1
    BY <1>2, <2>2
  <2>4. PICK j \in DOMAIN nodes : nodes[j].path = SubSeq(path, 1, Len(path) - 1) /\ nodes[j].type = "dir"
    BY <2>3, NodesAbove
  <2>5. Made(nodes)[nodes[j].path] = EntryMade(nodes[j])
    BY MadeIs
  <2> HIDE DEF nodes
  <2> QED BY <2>4, <2>5 DEF Front, EntryMade
<1>3. NewDir.type = "dir" /\ NewDir.mode = "rw"
  BY DEF NewDir
<1> HIDE DEF nodes
<1> QED BY <1>1, <1>2, <1>3, <1>4 DEF Fails, nodes

LEMMA RestoredRight ==
    ASSUME NoNamesakes, NEW snap, Good(snap)
    PROVE  LET dest == Restored(snap, <<>>)
               nodes == Nodes(snap)
           IN /\ dest.failed => DOMAIN nodes = {}
              /\ DOMAIN dest.tree = {nodes[k].path : k \in DOMAIN nodes}
              /\ \A k \in DOMAIN nodes : \A e :
                   IsEntry(e) /\ nodes[k] = Node(nodes[k].path, e) => dest.tree[nodes[k].path] = AsRestored(e)
<1> DEFINE nodes == Nodes(snap)
           dest == Restored(snap, <<>>)
           made == Made(nodes)
<1>1. Selected(snap, <<>>) = nodes
  <2>1. LoadNodes(snap) = nodes /\ nodes = [k \in DOMAIN nodes |-> nodes[k]]
    BY GoodNodes DEF Nodes
  <2>2. ASSUME NEW k \in DOMAIN nodes PROVE Under(<<>>, nodes[k].path)
    <3>1. nodes[k].path \in Paths
      BY GoodNodes
    <3> DEFINE path == nodes[k].path
    <3> HIDE DEF nodes, path
    <3>2. <<>> \in Paths /\ Len(<<>>) = 0
      BY DEF Paths
    <3>3. Len(path) \in Nat
      BY <3>1 DEF Paths, path
    <3>4. Under(<<>>, path)
      BY <3>1, <3>2, <3>3, UnderIs DEF path
    <3> QED BY <3>4 DEF path
  <2>3. {j \in DOMAIN nodes : Under(<<>>, nodes[j].path)} = DOMAIN nodes
    BY <2>2
  <2> HIDE DEF nodes
  <2> QED BY <2>1, <2>3 DEF Selected
<1>2. /\ dest.failed = Fails(nodes)
      /\ dest.tree = [p \in DOMAIN made |->
                        IF KeysOf(nodes, p) # {} /\ made[p].type = "dir"
                        THEN [made[p] EXCEPT !.mode = Final(nodes, p).mode] ELSE made[p]]
  BY <1>1 DEF Restored
<1>3. DOMAIN made = {nodes[k].path : k \in DOMAIN nodes}
  BY MadeIs
<1>4. DOMAIN dest.tree = {nodes[k].path : k \in DOMAIN nodes}
  BY <1>2, <1>3
<1>5. ASSUME NEW k \in DOMAIN nodes, NEW e, IsEntry(e), nodes[k] = Node(nodes[k].path, e)
      PROVE  dest.tree[nodes[k].path] = AsRestored(e)
  <2> DEFINE path == nodes[k].path
             n == nodes[k]
  <2>1. KeysOf(nodes, path) = {k} /\ Final(nodes, path) = n
    BY OnlyOne
  <2>2. made[path] = EntryMade(n)
    BY MadeIs
  <2>3. n = Node(path, e) /\ n.type = e.type /\ e.type # "other"
    <3>1. n.type = snap.was[k[2]].type /\ snap.was[k[2]].type # "other"
      BY GoodNodes DEF Held
    <3>2. Node(path, e).type = e.type
      BY DEF Node
    <3> QED BY <1>5, <3>1, <3>2
  <2>5. /\ e = [type |-> e.type, mode |-> e.mode, content |-> e.content, mtime |-> e.mtime,
                target |-> e.target]
        /\ e.type \in {"dir", "file", "symlink"} /\ e.content \in Seq(STRING)
        /\ e.type # "file" => e.content = <<>>
        /\ e.type # "symlink" => e.target = <<>>
        /\ e.type = "symlink" => e.mode = "rw"
    BY <1>5, <2>3 DEF IsEntry
  <2>6. path \in DOMAIN made
    BY <1>3
  <2>7. dest.tree[path] = IF made[path].type = "dir" THEN [made[path] EXCEPT !.mode = n.mode] ELSE made[path]
    BY <1>2, <2>1, <2>6
  <2> HIDE DEF dest, made, nodes, path, n
  <2>8. n.type = e.type /\ n.mode = e.mode /\ n.mtime = e.mtime /\ n.target = e.target /\ n.chunks = e.content
    BY <2>3 DEF Node
  <2>9. ASSUME e.type = "dir" PROVE dest.tree[path] = AsRestored(e)
    <3>1. made[path] = NewDir
      BY <2>2, <2>8, <2>9 DEF EntryMade
    <3>2. dest.tree[path] = [NewDir EXCEPT !.mode = e.mode]
      BY <2>7, <2>8, <3>1 DEF NewDir
    <3>3. AsRestored(e) = [e EXCEPT !.mtime = 0]
      BY <2>9 DEF AsRestored
    <3> QED BY <2>5, <2>9, <3>2, <3>3 DEF NewDir
  <2>10. ASSUME e.type = "symlink" PROVE dest.tree[path] = AsRestored(e)
    <3>1. made[path] = [NewDir EXCEPT !.type = "symlink", !.target = e.target]
      BY <2>2, <2>8, <2>10 DEF EntryMade
    <3>2. dest.tree[path] = made[path]
      BY <2>7, <3>1 DEF NewDir
    <3> DEFINE link == [type |-> "symlink", mode |-> "rw", content |-> <<>>, mtime |-> 0,
                        target |-> e.target]
    <3>3. AsRestored(e) = [e EXCEPT !.mtime = 0]
      BY <2>10 DEF AsRestored
    <3>4. e.content = <<>> /\ e.mode = "rw"
      BY <2>5, <2>10
    <3>5. [e EXCEPT !.mtime = 0] = [type |-> e.type, mode |-> e.mode, content |-> e.content,
                                    mtime |-> 0, target |-> e.target]
      BY <2>5
    <3>6. AsRestored(e) = link
      BY <2>10, <3>3, <3>4, <3>5
    <3>7. made[path] = link
      BY <3>1 DEF NewDir
    <3> QED BY <3>2, <3>6, <3>7
  <2>11. ASSUME e.type = "file" PROVE dest.tree[path] = AsRestored(e)
    <3>1. made[path] = [type |-> "file", mode |-> e.mode, content |-> e.content,
                        mtime |-> e.mtime, target |-> <<>>]
      BY <2>2, <2>8, <2>11 DEF EntryMade
    <3>2. dest.tree[path] = made[path]
      BY <2>7, <3>1
    <3>3. AsRestored(e) = e
      BY <2>11 DEF AsRestored
    <3> QED BY <2>5, <2>11, <3>1, <3>2, <3>3
  <2>12. dest.tree[path] = AsRestored(e)
    BY <2>5, <2>9, <2>10, <2>11
  <2> QED BY <2>12 DEF path
<1>6. dest.failed => DOMAIN nodes = {}
  BY <1>2, NoFailure
<1> QED BY <1>4, <1>5, <1>6

LEMMA WholeAgain == NoNamesakes /\ ReadInv => RestoredWhole
<1> SUFFICES ASSUME NoNamesakes, ReadInv, NEW n \in DOMAIN snaps
             PROVE  LET snap == snaps[n]
                        dest == Restored(snap, <<>>) IN
                    /\ dest.failed => \A i \in DOMAIN snap.roots : Held(snap, i) = {}
                    /\ DOMAIN dest.tree =
                         UNION {{PathIn(snap, i, p) : p \in Held(snap, i)} : i \in DOMAIN snap.roots}
                    /\ \A i \in DOMAIN snap.roots : \A p \in Held(snap, i) :
                         \E e \in AsRead(snaps, n, PathIn(snap, i, p), snap.was[p]) :
                           dest.tree[PathIn(snap, i, p)] = AsRestored(e)
  BY DEF RestoredWhole
<1> DEFINE snap == snaps[n]
           dest == Restored(snap, <<>>)
           nodes == Nodes(snap)
<1>1. Good(snap) /\ IsSnapshot(snap) /\ IsForest(snap.was)
  BY ReadIsGood DEF Good, IsSnapshot
<1>2. /\ dest.failed => DOMAIN nodes = {}
      /\ DOMAIN dest.tree = {nodes[k].path : k \in DOMAIN nodes}
      /\ \A k \in DOMAIN nodes : \A e :
           IsEntry(e) /\ nodes[k] = Node(nodes[k].path, e) => dest.tree[nodes[k].path] = AsRestored(e)
  BY <1>1, RestoredRight
<1>3. /\ \A k \in DOMAIN nodes : /\ k[1] \in DOMAIN snap.roots /\ k[2] \in Held(snap, k[1])
                                 /\ nodes[k].path = PathIn(snap, k[1], k[2])
      /\ \A i \in DOMAIN snap.roots : \A p \in Held(snap, i) : <<i, p>> \in DOMAIN nodes
  BY <1>1, GoodNodes
<1>4. \A k \in DOMAIN nodes : \E e \in AsRead(snaps, n, PathIn(snap, k[1], k[2]), snap.was[k[2]]) :
         IsEntry(e) /\ nodes[k] = Node(PathIn(snap, k[1], k[2]), e)
  <2>1. SUFFICES ASSUME NEW k \in DOMAIN nodes
                 PROVE  \E e \in AsRead(snaps, n, PathIn(snap, k[1], k[2]), snap.was[k[2]]) :
                          IsEntry(e) /\ nodes[k] = Node(PathIn(snap, k[1], k[2]), e)
    OBVIOUS
  <2>2. PICK e \in AsRead(snaps, n, PathIn(snap, k[1], k[2]), snap.was[k[2]]) :
          nodes[k] = Node(PathIn(snap, k[1], k[2]), e)
    BY <2>1 DEF ReadInv, IsRead, Nodes
  <2>3. k[2] \in DOMAIN snap.was
    BY <1>3 DEF Held
  <2>4. IsEntry(snap.was[k[2]])
    BY <1>1, <2>3 DEF IsForest
  <2>5. Forests(snaps, n)
    <3>1. DOMAIN snaps = 1 .. Len(snaps) /\ Len(snaps) \in Nat
      BY DEF ReadInv, TreeInv
    <3>2. \A i \in 1 .. n : i \in DOMAIN snaps
      BY <3>1
    <3>3. \A i \in DOMAIN snaps : IsForest(snaps[i].was)
      BY DEF ReadInv, TreeInv, IsSnapshot, Snapshots
    <3> QED BY <3>1, <3>2, <3>3 DEF Forests
  <2>6. IsEntry(e)
    BY <2>2, <2>4, <2>5, AsReadIs
  <2> QED BY <2>2, <2>6
<1> HIDE DEF dest, nodes, snap
<1>5. ASSUME NEW i \in DOMAIN snap.roots, NEW p \in Held(snap, i)
      PROVE  \E k \in DOMAIN nodes : k[1] = i /\ k[2] = p /\ nodes[k].path = PathIn(snap, i, p)
  BY <1>3
<1>6. dest.failed => \A i \in DOMAIN snap.roots : Held(snap, i) = {}
  BY <1>2, <1>3
<1>7. {nodes[k].path : k \in DOMAIN nodes} =
        UNION {{PathIn(snap, i, p) : p \in Held(snap, i)} : i \in DOMAIN snap.roots}
  BY <1>3, <1>5
<1>8. ASSUME NEW i \in DOMAIN snap.roots, NEW p \in Held(snap, i)
      PROVE  \E e \in AsRead(snaps, n, PathIn(snap, i, p), snap.was[p]) :
               dest.tree[PathIn(snap, i, p)] = AsRestored(e)
  <2>1. PICK k \in DOMAIN nodes : k[1] = i /\ k[2] = p /\ nodes[k].path = PathIn(snap, i, p)
    BY <1>5
  <2>2. PICK e \in AsRead(snaps, n, PathIn(snap, i, p), snap.was[p]) :
          IsEntry(e) /\ nodes[k] = Node(PathIn(snap, i, p), e)
    BY <1>4, <2>1
  <2> QED BY <1>2, <2>1, <2>2
<1> QED BY <1>2, <1>6, <1>7, <1>8 DEF dest, snap

\* For any places, edits and backups whose sources have names of their own: what is restored from a
\* snapshot is what was there when it was made, under directories that admit no writing too
\* (restore.go:118); a file has the size and the time that it had then, and the contents and the
\* permissions with which it was read, by this backup or by the first of those that carried it over
\* (snapshot.go:100).
THEOREM TreesComeBack ==
    ASSUME NoNamesakes
    PROVE  Spec => []RestoredWhole
<1>1. ReadInv => RestoredWhole
  BY WholeAgain
<1> QED BY <1>1, AlwaysRead, PTL

-----------------------------------------------------------------------------
(* An absolute path finds what was backed up from there.                   *)

\* The root is not given as a source: nothing is found under it, for no clean path begins with "//".
RootLeftOut == \A sources \in SourceLists : \A i \in DOMAIN sources :
    sources[i].absolute => sources[i].names # <<>>

\* The paths in or under a source are stored under it, and those of other sources are not.
LEMMA StoredUnderIs ==
    ASSUME NoNamesakes, NEW snap, Good(snap), NEW j \in DOMAIN snap.roots,
           NEW u \in Held(snap, j), NEW k \in DOMAIN Nodes(snap)
    PROVE  Under(PathIn(snap, j, u), Nodes(snap)[k].path) <=> k[1] = j /\ Under(u, k[2])
<1> DEFINE s == snap.roots[j]
           t == snap.roots[k[1]]
           q == k[2]
           v == StoredAs(s, u)
           w == StoredAs(t, q)
<1>1. /\ k \in Walk(snap.roots, snap.was) /\ snap.roots \in Seq(Places) /\ IsForest(snap.was)
      /\ Nodes(snap)[k].path = w /\ Distinct(snap.roots)
  BY GoodNodes DEF PathIn, Good, IsSnapshot, NoNamesakes
<1>2. k[1] \in DOMAIN snap.roots /\ t \in Paths /\ q \in Paths /\ Under(t, q)
  BY <1>1, WalkIs
<1>3. s \in Paths /\ u \in Paths /\ Under(s, u)
  <2>1. s \in Places /\ u \in Places /\ Under(s, u)
    BY <1>1 DEF Held, IsForest
  <2> QED BY <2>1, PlacesArePaths
<1>4. /\ v \in Paths /\ v[1] = Base(s) /\ Len(v) = Len(u) - Len(s) + 1
      /\ Len(s) \in Nat /\ Len(u) \in Nat /\ Len(s) <= Len(u)
  BY <1>3, StoredIs
<1>5. w \in Paths /\ w[1] = Base(t)
  BY <1>2, StoredIs
<1>6. ASSUME Under(v, w) PROVE k[1] = j
  <2>1. Len(v) <= Len(w) /\ \A i \in 1 .. Len(v) : v[i] = w[i]
    BY <1>4, <1>5, <1>6, UnderIs
  <2>2. 1 \in 1 .. Len(v)
    BY <1>4
  <2>3. Base(s) = Base(t)
    BY <1>4, <1>5, <2>1, <2>2
  <2> QED BY <1>1, <1>2, <2>3 DEF Distinct
<1>7. ASSUME k[1] = j PROVE Under(v, w) <=> Under(u, q)
  BY <1>2, <1>3, <1>7, StoredApart
<1>8. PathIn(snap, j, u) = v
  BY DEF PathIn
<1> HIDE DEF v, w
<1> QED BY <1>1, <1>6, <1>7, <1>8

\* The first source that an absolute path matches is the one it is stored under.
LEMMA StoredPathIs ==
    ASSUME RootLeftOut, NEW snap, Good(snap), NEW u \in Places, NEW j \in DOMAIN snap.sources,
           Matches(u, snap.sources[j]), \A k \in 1 .. j - 1 : ~Matches(u, snap.sources[k])
    PROVE  Under(snap.roots[j], u) /\ StoredPath(snap, u) = PathIn(snap, j, u)
<1> DEFINE matching == {i \in DOMAIN snap.sources : Matches(u, snap.sources[i])}
           least(i) == \A k \in matching : i <= k
           first == CHOOSE i \in matching : least(i)
           s == snap.roots[j]
<1>1. /\ snap.sources \in SourceLists /\ snap.roots \in Seq(Places)
      /\ DOMAIN snap.sources = 1 .. Len(snap.sources) /\ Len(snap.sources) \in Nat
      /\ DOMAIN snap.roots = DOMAIN snap.sources
      /\ snap.sources[j].absolute /\ snap.roots[j] = snap.sources[j].names
  <2>1. snap.sources \in Seq([absolute : BOOLEAN, names : Seq(STRING)]) /\ snap.sources \in SourceLists
    BY TreeAssumption DEF Good, IsSnapshot
  <2> QED BY <2>1, SnapshotRoots DEF Good, Matches
<1>2. j \in matching /\ least(j)
  BY <1>1
<1>3. first = j
  <2>1. first \in matching /\ least(first)
    <3> HIDE DEF matching, least
    <3> QED BY <1>2
  <2>2. first \in 1 .. Len(snap.sources) /\ j \in 1 .. Len(snap.sources)
    BY <1>1, <2>1
  <2>3. first <= j /\ j <= first
    BY <1>2, <2>1
  <2> HIDE DEF first
  <2> QED BY <2>2, <2>3
<1>4. s # <<>> /\ s \in Places /\ s \in Paths /\ u \in Paths
  <2>1. s # <<>> /\ s \in Places
    BY <1>1 DEF RootLeftOut
  <2> QED BY <2>1, PlacesArePaths
<1>5. Under(s, u)
  <2>1. Len(s) \in Nat
    BY <1>4 DEF Paths
  <2>2. Under(s, s)
    BY <1>4, <2>1, UnderIs
  <2> QED BY <1>1, <2>2 DEF Matches
<1>6. StoredUnder(u, snap.sources[j]) = StoredAs(s, u)
  BY <1>1 DEF StoredUnder, StoredAs
<1>7. StoredAs(s, u) # <<"/">>
  <2>1. StoredAs(s, u)[1] = Base(s)
    BY <1>4, <1>5, StoredIs
  <2>2. Len(s) \in DOMAIN s /\ Base(s) = s[Len(s)]
    BY <1>4 DEF Base, Last, Paths
  <2>3. s[Len(s)] # "/"
    BY <1>4, <2>2, TreeAssumption
  <2> QED BY <2>1, <2>2, <2>3
<1>8. StoredPath(snap, u) = StoredAs(s, u)
  <2>1. matching # {}
    BY <1>2
  <2>2. StoredPath(snap, u) = LET stored == StoredUnder(u, snap.sources[first])
                              IN IF stored = <<"/">> THEN <<>> ELSE stored
    BY <2>1 DEF StoredPath
  <2> HIDE DEF first
  <2> QED BY <1>3, <1>6, <1>7, <2>2
<1> QED BY <1>5, <1>8 DEF PathIn

LEMMA FoundAgain == NoNamesakes /\ RootLeftOut /\ ReadInv => PathsFound
<1> SUFFICES ASSUME NoNamesakes, RootLeftOut, ReadInv, NEW snap \in Snapshots,
                    NEW i \in DOMAIN snap.sources, NEW u \in Held(snap, i), snap.sources[i].absolute
             PROVE  LET nodes == Selected(snap, StoredPath(snap, u)) IN
                    /\ DOMAIN nodes # {}
                    /\ \A j \in {k \in DOMAIN snap.sources : Matches(u, snap.sources[k])} :
                        (\A k \in 1 .. j - 1 : ~Matches(u, snap.sources[k])) =>
                            {nodes[k].path : k \in DOMAIN nodes} =
                            {PathIn(snap, j, p) : p \in {q \in Held(snap, j) : Under(u, q)}}
  BY DEF PathsFound
<1>1. Good(snap)
  BY ReadIsGood DEF Snapshots
<1> DEFINE all == Nodes(snap)
           prefix == StoredPath(snap, u)
           nodes == Selected(snap, prefix)
           isFirst(j) == /\ j \in DOMAIN snap.sources /\ Matches(u, snap.sources[j])
                         /\ \A k \in 1 .. j - 1 : ~Matches(u, snap.sources[k])
<1>2. /\ DOMAIN nodes = {k \in DOMAIN all : Under(prefix, all[k].path)}
      /\ \A k \in DOMAIN nodes : nodes[k] = all[k]
  BY DEF Selected, Nodes
<1>3. /\ \A k \in DOMAIN all : /\ k[1] \in DOMAIN snap.sources /\ k[2] \in Held(snap, k[1])
                               /\ all[k].path = PathIn(snap, k[1], k[2])
      /\ \A j \in DOMAIN snap.sources : \A p \in Held(snap, j) : <<j, p>> \in DOMAIN all
      /\ snap.roots \in Seq(Places) /\ DOMAIN snap.roots = DOMAIN snap.sources /\ IsForest(snap.was)
  BY <1>1, GoodNodes
<1>4. u \in Places /\ u \in Paths /\ u \in DOMAIN snap.was /\ snap.was[u].type # "other"
      /\ Under(snap.roots[i], u) /\ snap.roots[i] = snap.sources[i].names
  BY <1>1, <1>3, PlacesArePaths, SnapshotRoots DEF Held, IsForest, Good
<1>5. Under(u, u)
  <2>1. Len(u) \in Nat
    BY <1>4 DEF Paths
  <2> QED BY <1>4, <2>1, UnderIs
<1>6. ASSUME NEW j, isFirst(j)
      PROVE  /\ prefix = PathIn(snap, j, u) /\ u \in Held(snap, j) /\ j \in DOMAIN snap.sources
             /\ \A k \in DOMAIN all : k \in DOMAIN nodes <=> k[1] = j /\ Under(u, k[2])
  <2>1. prefix = PathIn(snap, j, u) /\ Under(snap.roots[j], u)
    BY <1>1, <1>4, <1>6, StoredPathIs
  <2>2. u \in Held(snap, j)
    BY <1>4, <2>1 DEF Held
  <2>3. ASSUME NEW k \in DOMAIN all PROVE Under(prefix, all[k].path) <=> k[1] = j /\ Under(u, k[2])
    BY <1>1, <1>3, <1>6, <2>1, <2>2, StoredUnderIs
  <2> QED BY <1>2, <1>6, <2>1, <2>2, <2>3
<1> HIDE DEF prefix, nodes, all
<1>7. \E j : isFirst(j)
  <2> DEFINE matching == {k \in DOMAIN snap.sources : Matches(u, snap.sources[k])}
  <2>1. DOMAIN snap.sources = 1 .. Len(snap.sources) /\ Len(snap.sources) \in Nat
    BY <1>1, TreeAssumption DEF Good, IsSnapshot
  <2>2. i \in matching
    <3>1. snap.sources \in SourceLists
      BY <1>1 DEF Good, IsSnapshot
    <3> QED BY <1>4, <3>1 DEF Matches, RootLeftOut
  <2>3. matching \in SUBSET Nat /\ matching # {}
    <3>1. \A k \in matching : k \in Nat
      BY <2>1
    <3> QED BY <2>2, <3>1
  <2> HIDE DEF matching
  <2>4. PICK j \in matching : \A k \in matching : j <= k
    BY <2>3, LeastIs
  <2>5. j \in DOMAIN snap.sources /\ Matches(u, snap.sources[j]) /\ j \in 1 .. Len(snap.sources)
    BY <2>1, <2>4 DEF matching
  <2>6. ASSUME NEW k \in 1 .. j - 1, Matches(u, snap.sources[k]) PROVE FALSE
    <3>1. k \in DOMAIN snap.sources
      BY <2>1, <2>5
    <3>2. j <= k
      BY <2>4, <2>6, <3>1 DEF matching
    <3> QED BY <2>5, <3>2
  <2> QED BY <2>5, <2>6
<1>8. DOMAIN nodes # {}
  <2>1. PICK j : isFirst(j)
    BY <1>7
  <2>2. <<j, u>> \in DOMAIN all
    BY <1>3, <1>6, <2>1
  <2>3. <<j, u>>[1] = j /\ <<j, u>>[2] = u
    OBVIOUS
  <2> HIDE DEF isFirst
  <2> QED BY <1>5, <1>6, <2>1, <2>2, <2>3
<1>9. ASSUME NEW j, isFirst(j)
      PROVE  {nodes[k].path : k \in DOMAIN nodes} =
             {PathIn(snap, j, p) : p \in {q \in Held(snap, j) : Under(u, q)}}
  <2>1. j \in DOMAIN snap.sources
        /\ \A k \in DOMAIN all : k \in DOMAIN nodes <=> k[1] = j /\ Under(u, k[2])
    BY <1>6, <1>9
  <2> HIDE DEF isFirst
  <2>2. ASSUME NEW k \in DOMAIN nodes
        PROVE  nodes[k].path = PathIn(snap, j, k[2]) /\ k[2] \in Held(snap, j) /\ Under(u, k[2])
    BY <1>2, <1>3, <2>1
  <2>3. ASSUME NEW p \in Held(snap, j), Under(u, p)
        PROVE  \E k \in DOMAIN nodes : nodes[k].path = PathIn(snap, j, p)
    <3> DEFINE k == <<j, p>>
    <3>1. k \in DOMAIN all /\ k[1] = j /\ k[2] = p
      BY <1>3, <2>1
    <3> HIDE DEF k
    <3> QED BY <1>2, <1>3, <2>1, <2>3, <3>1
  <2> QED BY <2>2, <2>3
<1> QED BY <1>8, <1>9 DEF nodes, prefix

\* Whoever gives the absolute path of something that is under a source which was itself given as an
\* absolute path gets that and what is under it, and nothing else (path.go:11), where sources have
\* names of their own and the root is none of them.
THEOREM PathsAreFound ==
    ASSUME NoNamesakes, RootLeftOut
    PROVE  Spec => []PathsFound
<1>1. ReadInv => PathsFound
  BY FoundAgain
<1> QED BY <1>1, AlwaysRead, PTL
=============================================================================
