------------------------ MODULE FeatureRefresh_proofs ------------------------
(***************************************************************************)
(* Proofs about FeatureRefresh: an analysis stored under a file's present  *)
(* stamp is of what the file holds; the groups are the connected           *)
(* components of the files' audio after any history of interrupted         *)
(* refreshes; scalars stay with the files they are of; and a full refresh  *)
(* that ends by itself leaves nothing undone.                              *)
(***************************************************************************)
EXTENDS FeatureRefresh, FiniteSetTheorems, NaturalsInduction, WellFoundedInduction, TLAPS

-----------------------------------------------------------------------------
(* Least and greatest numbers. *)

\* A set of numbers that is not empty has a least one.
LEMMA Least ==
    ASSUME NEW T, T \subseteq Nat, T # {}
    PROVE \E x \in T : \A y \in T : x =< y
<1>1. PICK x \in T : \A y \in T : ~(<<y, x>> \in OpToRel(<, Nat))
  BY NatLessThanWellFounded, WFMin
<1>2. \A y \in T : ~(y < x)
  BY <1>1 DEF OpToRel
<1> QED
  BY <1>2

LEMMA MinIsLeast ==
    ASSUME NEW S, S \subseteq Nat, S # {}
    PROVE Min(S) \in S /\ \A y \in S : Min(S) =< y
BY Least DEF Min

\* A set of numbers that has a bound has a greatest one.
LEMMA MaxIsGreatest ==
    ASSUME NEW S, S \subseteq Nat, S # {}, NEW u \in Nat, \A n \in S : n =< u
    PROVE Max(S) \in S /\ \A y \in S : y =< Max(S)
<1> DEFINE T == {u - n : n \in S}
<1>1. T \subseteq Nat /\ T # {}
  <2>1. \A n \in S : u - n \in Nat
    <3> SUFFICES ASSUME NEW n \in S
                 PROVE u - n \in Nat
      OBVIOUS
    <3>1. n \in Nat /\ n =< u
      OBVIOUS
    <3> QED
      BY <3>1
  <2> QED
    BY <2>1
<1>2. PICK x \in T : \A y \in T : x =< y
  <2> HIDE DEF T
  <2> QED
    BY <1>1, Least
<1>3. PICK n \in S : x = u - n
  BY <1>2
<1>4. \A y \in S : n >= y
  <2> SUFFICES ASSUME NEW y \in S
               PROVE n >= y
    OBVIOUS
  <2>1. x =< u - y
    BY <1>2
  <2> QED
    BY <2>1, <1>3
<1>5. Max(S) \in S /\ \A y \in S : Max(S) >= y
  <2> HIDE DEF T
  <2> QED
    BY <1>4, Zenon DEF Max
<1> QED
  BY <1>5

-----------------------------------------------------------------------------
(* Connected components. *)

\* A part from which no link leads away.
Closed(part, rows, links) ==
    \A x \in part, y \in rows : <<x, y>> \in links => y \in part

Symmetric(rows, links) ==
    \A x, y \in rows : <<x, y>> \in links => <<y, x>> \in links

\* The parts of rows: none is empty, each row is in one, and no row is in two.
IsPartition(parts, rows) ==
    /\ parts \subseteq SUBSET rows
    /\ \A p \in parts : p # {}
    /\ \A f \in rows : \E p \in parts : f \in p
    /\ \A p, q \in parts : p \intersect q # {} => p = q

LEMMA ComponentIsLeast ==
    ASSUME NEW rows, NEW links, NEW f \in rows
    PROVE /\ f \in Component(rows, links, f)
          /\ Component(rows, links, f) \subseteq rows
          /\ Closed(Component(rows, links, f), rows, links)
          /\ \A part \in SUBSET rows : f \in part /\ Closed(part, rows, links) =>
                Component(rows, links, f) \subseteq part
<1>1. Component(rows, links, f) =
        {g \in rows : \A part \in SUBSET rows : f \in part /\ Closed(part, rows, links) => g \in part}
  BY DEF Component, Closed
<1>2. Closed(Component(rows, links, f), rows, links)
  <2> SUFFICES ASSUME NEW x \in Component(rows, links, f), NEW y \in rows, <<x, y>> \in links,
                      NEW part \in SUBSET rows, f \in part, Closed(part, rows, links)
               PROVE y \in part
    BY <1>1 DEF Closed
  <2>1. x \in part
    BY <1>1
  <2> QED
    BY <2>1 DEF Closed
<1> QED
  BY <1>1, <1>2

LEMMA ComponentOfMember ==
    ASSUME NEW rows, NEW links, Symmetric(rows, links),
           NEW f \in rows, NEW g \in Component(rows, links, f)
    PROVE Component(rows, links, g) = Component(rows, links, f)
<1> DEFINE C == Component(rows, links, f)
           D == Component(rows, links, g)
<1>1. g \in rows /\ C \subseteq rows /\ f \in C
  BY ComponentIsLeast
<1>2. D \subseteq C
  BY <1>1, ComponentIsLeast
<1>3. f \in D
  <2> SUFFICES ASSUME f \notin D
               PROVE FALSE
    OBVIOUS
  <2>1. g \in D /\ D \subseteq rows /\ Closed(D, rows, links)
    BY <1>1, ComponentIsLeast
  <2>2. Closed(rows \ D, rows, links)
    <3> HIDE DEF D
    <3> QED
      BY <2>1 DEF Closed, Symmetric
  <2>3. C \subseteq rows \ D
    <3> HIDE DEF D
    <3> QED
      BY <2>2, ComponentIsLeast
  <2> QED
    BY <2>1, <2>3
<1>4. C \subseteq D
  BY <1>1, <1>3, ComponentIsLeast
<1> QED
  BY <1>2, <1>4

LEMMA ComponentsPartition ==
    ASSUME NEW rows, NEW links, Symmetric(rows, links)
    PROVE IsPartition(Components(rows, links), rows)
<1>1. \A f \in rows : f \in Component(rows, links, f) /\ Component(rows, links, f) \subseteq rows
  BY ComponentIsLeast
<1>2. ASSUME NEW f \in rows, NEW g \in rows,
             NEW h \in Component(rows, links, f), h \in Component(rows, links, g)
      PROVE Component(rows, links, f) = Component(rows, links, g)
  BY <1>2, ComponentOfMember
<1> QED
  BY <1>1, <1>2 DEF IsPartition, Components

\* Links that close the same parts have the same components.
LEMMA SameComponents ==
    ASSUME NEW rows, NEW links, NEW others,
           \A part \in SUBSET rows : Closed(part, rows, links) <=> Closed(part, rows, others)
    PROVE Components(rows, links) = Components(rows, others)
<1>1. \A f \in rows : Component(rows, links, f) = Component(rows, others, f)
  BY DEF Component, Closed
<1> QED
  BY <1>1, Zenon DEF Components

-----------------------------------------------------------------------------
(* The ids of the groups. *)

Bounded(S) == \E u \in Nat : \A n \in S : n =< u

\* A store whose rows fit each other: what was decoded is known of a good row, groups exist, and there
\* is a highest id.
SoundStore(store) ==
    /\ IsStore(store)
    /\ \A f \in Files : store.files[f].ok => store.files[f].audio \in Audio
    /\ \A f \in Files : store.files[f].group \in store.groups \union {None}
    /\ Bounded(store.groups \union DOMAIN store.features)

LEMMA FilesAreNumbers == Files \subseteq Nat /\ 0 \notin Files /\ IsFiniteSet(Files)
BY RefreshAssumption, FS_Interval DEF Files

LEMMA ReservedIsHighest ==
    ASSUME NEW store, SoundStore(store)
    PROVE /\ Reserved(store) \in Nat
          /\ \A g \in store.groups \union DOMAIN store.features : g =< Reserved(store)
          /\ \A f \in Files : store.files[f].group =< Reserved(store)
<1> DEFINE S == {None} \union store.groups \union {store.files[f].group : f \in Files}
                    \union DOMAIN store.features
<1>1. S = {None} \union store.groups \union DOMAIN store.features
  BY DEF SoundStore
<1>2. S \subseteq Nat /\ S # {}
  BY <1>1 DEF SoundStore, IsStore, GroupIds, None
<1>3. PICK u \in Nat : \A n \in store.groups \union DOMAIN store.features : n =< u
  BY DEF SoundStore, Bounded
<1>4. \A n \in S : n =< u
  BY <1>1, <1>3 DEF None
<1>5. Max(S) \in S /\ \A y \in S : y =< Max(S)
  <2> HIDE DEF S
  <2> QED
    BY <1>2, <1>4, MaxIsGreatest
<1>6. Reserved(store) = Max(S)
  BY DEF Reserved
<1>7. \A f \in Files : store.files[f].group \in S
  OBVIOUS
<1> QED
  BY <1>1, <1>2, <1>5, <1>6, <1>7

\* The first file of each part is in it.
LEMMA FirstOfPart ==
    ASSUME NEW store, NEW parts, IsPartition(parts, Grouped(store)), NEW p \in parts
    PROVE /\ p \subseteq Grouped(store) /\ p \subseteq Files
          /\ Min(p) \in p /\ Min(p) \in Files /\ Min(p) \in Nat
          /\ \A f \in p : Min(p) =< f
<1>1. p \subseteq Grouped(store) /\ p \subseteq Files /\ p # {}
  BY DEF IsPartition, Grouped
<1> QED
  BY <1>1, FilesAreNumbers, MinIsLeast

\* What the two passes give a part, given what the parts before it get.
Takes(store, parts, p, given) ==
    IF Kept(store, p) # {} THEN Min(Kept(store, p))
    ELSE IF Free(store, parts, p, given) = {} THEN None
    ELSE Min(Free(store, parts, p, given))

LEMMA TakesLooksBack ==
    ASSUME NEW store, NEW parts, NEW p \in parts, NEW given, NEW other,
           \A q \in parts : Min(q) < Min(p) => given[q] = other[q]
    PROVE Takes(store, parts, p, given) = Takes(store, parts, p, other)
<1>1. {given[q] : q \in {e \in parts : Min(e) < Min(p)}} = {other[q] : q \in {e \in parts : Min(e) < Min(p)}}
  OBVIOUS
<1>2. Free(store, parts, p, given) = Free(store, parts, p, other)
  BY <1>1, Zenon DEF Free
<1> QED
  BY <1>2, Zenon DEF Takes

\* The parts that begin before file m.
Before(parts, m) == {p \in parts : Min(p) < m}
IsReused(r, store, parts, m) == r = [p \in Before(parts, m) |-> Takes(store, parts, p, r)]

LEMMA ReusedExists ==
    ASSUME NEW store, NEW parts, IsPartition(parts, Grouped(store)), NEW last \in Nat
    PROVE \E r : IsReused(r, store, parts, last)
<1> DEFINE T == {m \in Nat : ~\E r : IsReused(r, store, parts, m)}
<1>1. SUFFICES ASSUME T # {}
               PROVE FALSE
  OBVIOUS
<1>2. PICK m \in T : \A y \in T : m =< y
  <2> HIDE DEF T
  <2>1. T \subseteq Nat
    BY DEF T
  <2> QED
    BY <1>1, <2>1, Least
<1>0. \A p \in parts : Min(p) \in Nat
  BY FirstOfPart
<1>3. CASE m = 0
  <2> DEFINE r == [p \in {} |-> None]
  <2>1. Before(parts, 0) = {}
    BY <1>0 DEF Before
  <2>2. r = [p \in Before(parts, 0) |-> Takes(store, parts, p, r)]
    BY <2>1
  <2>3. IsReused(r, store, parts, 0)
    BY <2>2, Zenon DEF IsReused
  <2> QED
    BY <1>2, <1>3, <2>3
<1>4. CASE m # 0
  <2>1. m \in Nat /\ m - 1 \in Nat /\ m - 1 \notin T
    BY <1>2, <1>4
  <2>2. PICK r : IsReused(r, store, parts, m - 1)
    BY <2>1
  <2> DEFINE t == [p \in Before(parts, m) |->
                      IF Min(p) < m - 1 THEN r[p] ELSE Takes(store, parts, p, r)]
             u == [p \in Before(parts, m) |-> Takes(store, parts, p, t)]
  <2> HIDE DEF T
  <2>3. ASSUME NEW p \in Before(parts, m)
        PROVE t[p] = Takes(store, parts, p, t)
    <3>1. p \in parts /\ Min(p) \in Nat /\ Min(p) =< m - 1
      BY <2>3, <1>0, <2>1 DEF Before
    <3>2. ASSUME NEW q \in parts, Min(q) < Min(p)
          PROVE r[q] = t[q]
      <4>1. Min(q) \in Nat /\ Min(q) < m - 1 /\ q \in Before(parts, m)
        BY <3>1, <3>2, <1>0, <2>1 DEF Before
      <4> QED
        BY <4>1
    <3>3. Takes(store, parts, p, r) = Takes(store, parts, p, t)
      <4> HIDE DEF t
      <4> QED
        BY <3>1, <3>2, TakesLooksBack
    <3>4. CASE Min(p) < m - 1
      <4>1. p \in Before(parts, m - 1)
        BY <3>1, <3>4 DEF Before
      <4>2. r[p] = Takes(store, parts, p, r)
        BY <4>1, <2>2, Zenon DEF IsReused
      <4>3. t[p] = r[p]
        BY <3>4
      <4> QED
        BY <4>2, <4>3, <3>3
    <3>5. CASE ~(Min(p) < m - 1)
      <4>1. t[p] = Takes(store, parts, p, r)
        BY <3>5
      <4> QED
        BY <4>1, <3>3
    <3> QED
      BY <3>4, <3>5
  <2>4. t = u
    BY <2>3, Zenon
  <2>5. IsReused(t, store, parts, m)
    <3> HIDE DEF t
    <3> QED
      BY <2>4, Zenon DEF IsReused
  <2> QED
    BY <1>2, <2>5 DEF T
<1> QED
  BY <1>3, <1>4

LEMMA ReusedDef ==
    ASSUME NEW store, NEW parts, IsPartition(parts, Grouped(store)), NEW p \in parts
    PROVE Reused(store, parts)[p] = Takes(store, parts, p, Reused(store, parts))
<1> DEFINE last == FileCount + 1
<1>1. last \in Nat /\ Before(parts, last) = parts
  BY FirstOfPart, RefreshAssumption DEF Before, Files
<1>2. Reused(store, parts) = CHOOSE r : IsReused(r, store, parts, last)
  <2>1. \A r : IsReused(r, store, parts, last) <=> r = [q \in parts |-> Takes(store, parts, q, r)]
    BY <1>1, Zenon DEF IsReused
  <2>2. Reused(store, parts) = CHOOSE r : r = [q \in parts |-> Takes(store, parts, q, r)]
    BY Zenon DEF Reused, Takes
  <2> HIDE DEF last
  <2> QED
    BY <2>1, <2>2, Zenon
<1>3. IsReused(Reused(store, parts), store, parts, last)
  <2> HIDE DEF last
  <2> QED
    BY <1>1, <1>2, ReusedExists, Zenon
<1> QED
  BY <1>1, <1>3, Zenon DEF IsReused

LEMMA OldIdsAreIds ==
    ASSUME NEW store, SoundStore(store), NEW p, p \subseteq Files
    PROVE OldIds(store, p) \subseteq GroupIds /\ None \notin OldIds(store, p)
BY DEF SoundStore, IsStore, OldIds, GroupIds, None

\* What a part takes over is an id that a file of it had; no two take the same.
LEMMA ReusedFacts ==
    ASSUME NEW store, SoundStore(store), NEW parts, IsPartition(parts, Grouped(store))
    PROVE /\ \A p \in parts : \/ Reused(store, parts)[p] = None
                              \/ Reused(store, parts)[p] \in OldIds(store, p)
          /\ \A p, q \in parts :
                Reused(store, parts)[p] = Reused(store, parts)[q] /\ Reused(store, parts)[p] # None => p = q
<1> DEFINE r == Reused(store, parts)
           first(p) == Kept(store, p) # {}
           free(p) == Free(store, parts, p, r)
<1>1. \A p \in parts : OldIds(store, p) \subseteq Nat /\ Kept(store, p) \subseteq OldIds(store, p)
                       /\ free(p) \subseteq OldIds(store, p)
  BY OldIdsAreIds, FirstOfPart DEF Kept, Free, GroupIds
<1>2. ASSUME NEW p \in parts, first(p)
      PROVE r[p] \in Kept(store, p) /\ r[p] \in Claimed(store, parts)
  <2>1. r[p] = Min(Kept(store, p))
    BY <1>2, ReusedDef DEF Takes
  <2>2. Min(Kept(store, p)) \in Kept(store, p)
    BY <1>1, <1>2, MinIsLeast
  <2>3. Min(Kept(store, p)) \in Claimed(store, parts)
    BY <1>2 DEF Claimed
  <2> QED
    BY <2>1, <2>2, <2>3
<1>3. ASSUME NEW p \in parts, ~first(p), r[p] # None
      PROVE r[p] \in free(p)
  <2>1. free(p) # {} /\ r[p] = Min(free(p))
    BY <1>3, ReusedDef DEF Takes
  <2>2. free(p) \subseteq Nat
    BY <1>1
  <2> QED
    BY <2>1, <2>2, MinIsLeast
<1>4. \A p \in parts : r[p] = None \/ r[p] \in OldIds(store, p)
  <2> HIDE DEF r
  <2> QED
    BY <1>1, <1>2, <1>3
<1>5. ASSUME NEW p \in parts, NEW q \in parts, r[p] = r[q], r[p] # None, first(p), first(q)
      PROVE p = q
  <2>1. Representative(store, r[p]) \in p /\ Representative(store, r[p]) \in q
    BY <1>2, <1>5 DEF Kept
  <2> QED
    BY <2>1 DEF IsPartition
<1>6. ASSUME NEW p \in parts, NEW q \in parts, r[p] = r[q], r[p] # None, first(p), ~first(q)
      PROVE FALSE
  <2>1. r[p] \in Claimed(store, parts)
    BY <1>2, <1>6
  <2>2. r[q] \in free(q)
    BY <1>3, <1>6
  <2> QED
    BY <2>1, <2>2, <1>6 DEF Free
<1>7. ASSUME NEW p \in parts, NEW q \in parts, r[p] = r[q], r[p] # None, ~first(p), Min(q) < Min(p)
      PROVE FALSE
  <2>1. r[p] \in free(p)
    BY <1>3, <1>7
  <2>2. r[q] \in {r[e] : e \in {d \in parts : Min(d) < Min(p)}}
    BY <1>7
  <2> QED
    BY <2>1, <2>2, <1>7 DEF Free
<1>8. ASSUME NEW p \in parts, NEW q \in parts, r[p] = r[q], r[p] # None, ~first(p), ~first(q)
      PROVE p = q
  <2>1. Min(p) \in Nat /\ Min(q) \in Nat /\ Min(p) \in p /\ Min(q) \in q
    BY FirstOfPart
  <2>2. Min(p) = Min(q)
    <3> HIDE DEF r
    <3> QED
      BY <2>1, <1>7, <1>8
  <2> QED
    BY <2>1, <2>2 DEF IsPartition
<1>9. \A p, q \in parts : r[p] = r[q] /\ r[p] # None => p = q
  <2> HIDE DEF r, first
  <2> QED
    BY <1>5, <1>6, <1>8
<1> QED
  BY <1>4, <1>9

\* A part without an old id gets an id of its own past all that are in the store.
LEMMA FreshIds ==
    ASSUME NEW store, NEW parts, IsPartition(parts, Grouped(store)), NEW reused
    PROVE LET taking(p) == {q \in parts : reused[q] = None /\ Min(q) =< Min(p)}
          IN /\ IsFiniteSet(parts)
             /\ \A p \in parts : Cardinality(taking(p)) \in Nat /\ Cardinality(taking(p)) =< Cardinality(parts)
             /\ \A p \in parts : reused[p] = None => Cardinality(taking(p)) > 0
             /\ \A p, q \in parts : reused[p] = None /\ reused[q] = None
                    /\ Cardinality(taking(p)) = Cardinality(taking(q)) => p = q
<1> DEFINE taking(p) == {q \in parts : reused[q] = None /\ Min(q) =< Min(p)}
<1>1. IsFiniteSet(parts)
  <2>1. parts \in SUBSET SUBSET Files
    BY DEF IsPartition, Grouped
  <2> QED
    BY <2>1, FilesAreNumbers, FS_SUBSET, FS_Subset
<1>2. \A p \in parts : taking(p) \in SUBSET parts
  OBVIOUS
<1>3. \A p \in parts : IsFiniteSet(taking(p)) /\ Cardinality(taking(p)) =< Cardinality(parts)
                       /\ Cardinality(taking(p)) \in Nat
  <2> HIDE DEF taking
  <2> QED
    BY <1>1, <1>2, FS_Subset, FS_CardinalityType
<1>4. \A p \in parts : Min(p) \in Nat /\ Min(p) \in p
  BY FirstOfPart
<1>5. ASSUME NEW p \in parts, reused[p] = None
      PROVE Cardinality(taking(p)) > 0
  <2>1. p \in taking(p)
    BY <1>4, <1>5
  <2>2. Cardinality(taking(p)) # 0
    <3> HIDE DEF taking
    <3> QED
      BY <2>1, <1>3, FS_EmptySet
  <2> HIDE DEF taking
  <2> QED
    BY <2>2, <1>3
<1>6. ASSUME NEW p \in parts, NEW q \in parts, reused[p] = None, reused[q] = None, Min(p) < Min(q)
      PROVE Cardinality(taking(p)) # Cardinality(taking(q))
  <2>1. q \in taking(q) /\ q \notin taking(p)
    BY <1>4, <1>6
  <2>2. \A e \in taking(p) : e \in taking(q)
    <3> SUFFICES ASSUME NEW e \in taking(p)
                 PROVE e \in taking(q)
      OBVIOUS
    <3>1. e \in parts /\ Min(e) =< Min(p) /\ reused[e] = None
      OBVIOUS
    <3>2. Min(e) =< Min(q)
      BY <3>1, <1>4, <1>6
    <3> QED
      BY <3>1, <3>2
  <2> HIDE DEF taking
  <2>3. taking(p) \in SUBSET taking(q) /\ taking(p) # taking(q)
    BY <2>1, <2>2
  <2> QED
    BY <2>3, <1>3, FS_Subset
<1>7. ASSUME NEW p \in parts, NEW q \in parts, reused[p] = None, reused[q] = None,
             Cardinality(taking(p)) = Cardinality(taking(q))
      PROVE p = q
  <2>1. Min(p) = Min(q)
    <3> HIDE DEF taking
    <3> QED
      BY <1>4, <1>6, <1>7
  <2> QED
    BY <2>1, <1>4 DEF IsPartition
<1> QED
  BY <1>1, <1>3, <1>5, <1>7

\* assignStableGroupIds(): each part has an id of its own; an id that was in use was that of one of the
\* part's files.
LEMMA IdsAreStable ==
    ASSUME NEW store, SoundStore(store), NEW parts, IsPartition(parts, Grouped(store))
    PROVE LET ids == AssignIds(store, parts)
          IN /\ ids \in [parts -> GroupIds]
             /\ \A p, q \in parts : ids[p] = ids[q] => p = q
             /\ \A p \in parts : ids[p] =< Reserved(store) => ids[p] \in OldIds(store, p)
             /\ Bounded({ids[p] : p \in parts})
<1> DEFINE r == Reused(store, parts)
           ids == AssignIds(store, parts)
           count(p) == Cardinality({q \in parts : r[q] = None /\ Min(q) =< Min(p)})
           top == Reserved(store)
<1>1. \A p \in parts : ids[p] = IF r[p] = None THEN top + count(p) ELSE r[p]
  BY DEF AssignIds
<1>2. DOMAIN ids = parts /\ ids = [p \in parts |-> ids[p]]
  BY Zenon DEF AssignIds
<1>3. /\ IsFiniteSet(parts) /\ Cardinality(parts) \in Nat
      /\ \A p \in parts : count(p) \in Nat /\ count(p) =< Cardinality(parts)
      /\ \A p \in parts : r[p] = None => count(p) > 0
      /\ \A p, q \in parts : r[p] = None /\ r[q] = None /\ count(p) = count(q) => p = q
  <2> HIDE DEF r
  <2>1. IsFiniteSet(parts)
    BY FreshIds
  <2>2. Cardinality(parts) \in Nat
    BY <2>1, FS_CardinalityType
  <2> QED
    BY <2>1, <2>2, FreshIds
<1>4. /\ \A p \in parts : r[p] = None \/ r[p] \in OldIds(store, p)
      /\ \A p, q \in parts : r[p] = r[q] /\ r[p] # None => p = q
  BY ReusedFacts
<1>5. top \in Nat /\ \A f \in Files : store.files[f].group =< top
  BY ReservedIsHighest
<1>6. ASSUME NEW p \in parts, r[p] # None
      PROVE r[p] \in GroupIds /\ r[p] \in OldIds(store, p) /\ r[p] =< top
  <2>1. p \subseteq Files /\ r[p] \in OldIds(store, p)
    BY <1>4, <1>6, FirstOfPart
  <2>2. r[p] \in GroupIds
    BY <2>1, OldIdsAreIds
  <2>3. PICK f \in p : r[p] = store.files[f].group
    BY <2>1 DEF OldIds
  <2> QED
    BY <2>1, <2>2, <2>3, <1>5
<1> HIDE DEF r, ids, count, top
<1>7. \A p \in parts : ids[p] \in GroupIds /\ ids[p] =< top + Cardinality(parts)
  <2> SUFFICES ASSUME NEW p \in parts
               PROVE ids[p] \in GroupIds /\ ids[p] =< top + Cardinality(parts)
    OBVIOUS
  <2>1. CASE r[p] = None
    BY <2>1, <1>1, <1>3, <1>5 DEF GroupIds
  <2>2. CASE r[p] # None
    <3>1. ids[p] = r[p] /\ r[p] \in GroupIds /\ r[p] =< top
      BY <2>2, <1>1, <1>6
    <3> QED
      BY <3>1, <1>3, <1>5 DEF GroupIds
  <2> QED
    BY <2>1, <2>2
<1>8. ASSUME NEW p \in parts, ids[p] =< top
      PROVE ids[p] \in OldIds(store, p)
  <2>1. r[p] # None
    BY <1>8, <1>1, <1>3, <1>5
  <2> QED
    BY <2>1, <1>1, <1>6
<1>9. ASSUME NEW p \in parts, NEW q \in parts, ids[p] = ids[q]
      PROVE p = q
  <2>1. CASE r[p] = None /\ r[q] = None
    <3>1. top + count(p) = top + count(q)
      BY <2>1, <1>9, <1>1
    <3>2. count(p) = count(q)
      BY <3>1, <1>3, <1>5
    <3> QED
      BY <2>1, <3>2, <1>3
  <2>2. ASSUME NEW x \in parts, NEW y \in parts, ids[x] = ids[y], r[x] = None, r[y] # None
        PROVE FALSE
    <3>1. ids[x] = top + count(x) /\ ids[y] = r[y] /\ r[y] =< top /\ r[y] \in GroupIds
      BY <2>2, <1>1, <1>6
    <3> QED
      BY <3>1, <2>2, <1>3, <1>5 DEF GroupIds
  <2>3. CASE r[p] # None /\ r[q] # None
    <3>1. r[p] = r[q]
      BY <2>3, <1>9, <1>1
    <3> QED
      BY <3>1, <2>3, <1>4
  <2> QED
    BY <2>1, <2>2, <2>3, <1>9
<1>10. Bounded({ids[p] : p \in parts})
  <2>1. top + Cardinality(parts) \in Nat
    BY <1>3, <1>5
  <2> QED
    BY <2>1, <1>7 DEF Bounded
<1>11. ids \in [parts -> GroupIds]
  BY <1>2, <1>7
<1> QED
  BY <1>8, <1>9, <1>10, <1>11 DEF ids, top

-----------------------------------------------------------------------------
(* Grouping. *)

LEMMA FullLinksSymmetric ==
    ASSUME NEW store
    PROVE Symmetric(Grouped(store), FullLinks(store))
BY RefreshAssumption DEF Symmetric, FullLinks, Match

LEMMA IncrementalLinksSymmetric ==
    ASSUME NEW store, NEW ids
    PROVE Symmetric(Grouped(store), IncrementalLinks(store, ids))
BY RefreshAssumption DEF Symmetric, IncrementalLinks, Linked, Affected, Match

LEMMA GroupsArePartition ==
    ASSUME NEW store, NEW ids
    PROVE /\ IsPartition(FullGroups(store), Grouped(store))
          /\ IsPartition(IncrementalGroups(store, ids), Grouped(store))
BY FullLinksSymmetric, IncrementalLinksSymmetric, ComponentsPartition DEF FullGroups, IncrementalGroups

\* What an incremental grouping relies on: groups without a changed file are not linked with each other,
\* and none of them falls apart.
Intact(store, ids) ==
    /\ \A x, y \in Grouped(store) :
          <<x, y>> \in FullLinks(store)
          /\ ~Affected(store.files[x], ids) /\ ~Affected(store.files[y], ids) =>
              store.files[x].group = store.files[y].group
    /\ \A g \in GroupIdsOf(store) \ ids : \A part \in SUBSET Members(store, g) :
          part # {} /\ Closed(part, Members(store, g), FullLinks(store)) => part = Members(store, g)

\* Comparing only pairs with an affected file then finds the same components as comparing all.
LEMMA IncrementalIsFull ==
    ASSUME NEW store, NEW ids, Intact(store, ids)
    PROVE IncrementalGroups(store, ids) = FullGroups(store)
<1> DEFINE rows == Grouped(store)
           full == FullLinks(store)
           some == IncrementalLinks(store, ids)
           group(x) == store.files[x].group
           affected(x) == Affected(store.files[x], ids)
<1>1. ASSUME NEW part \in SUBSET rows, Closed(part, rows, full)
      PROVE Closed(part, rows, some)
  <2> SUFFICES ASSUME NEW x \in part, NEW y \in rows, <<x, y>> \in some
               PROVE y \in part
    BY DEF Closed
  <2>1. CASE <<x, y>> \in full
    BY <2>1, <1>1 DEF Closed
  <2>2. CASE <<x, y>> \notin full
    <3>1. group(x) = group(y) /\ ~affected(x)
      BY <2>2 DEF IncrementalLinks, Linked, FullLinks, Match
    <3> DEFINE M == Members(store, group(x))
    <3>2. group(x) \in GroupIdsOf(store) \ ids /\ x \in M /\ y \in M /\ M \subseteq rows
      BY <3>1 DEF Affected, GroupIdsOf, Members
    <3>3. Closed(part \intersect M, M, full)
      BY <3>2, <1>1 DEF Closed
    <3>4. part \intersect M = M
      <4>1. part \intersect M \in SUBSET M /\ part \intersect M # {}
        BY <3>2
      <4> QED
        BY <4>1, <3>2, <3>3 DEF Intact
    <3> QED
      BY <3>2, <3>4
  <2> QED
    BY <2>1, <2>2
<1>2. ASSUME NEW part \in SUBSET rows, Closed(part, rows, some)
      PROVE Closed(part, rows, full)
  <2> SUFFICES ASSUME NEW x \in part, NEW y \in rows, <<x, y>> \in full
               PROVE y \in part
    BY DEF Closed
  <2>1. <<x, y>> \in some
    <3>1. CASE affected(x) \/ affected(y)
      BY <3>1 DEF FullLinks, IncrementalLinks, Linked
    <3>2. CASE ~affected(x) /\ ~affected(y)
      <4>1. group(x) = group(y)
        BY <3>2 DEF Intact
      <4> QED
        BY <4>1, <3>2 DEF FullLinks, IncrementalLinks, Linked
    <3> QED
      BY <3>1, <3>2
  <2> QED
    BY <2>1, <1>2 DEF Closed
<1>3. \A part \in SUBSET rows : Closed(part, rows, some) <=> Closed(part, rows, full)
  BY <1>1, <1>2
<1> QED
  BY <1>3, SameComponents DEF IncrementalGroups, FullGroups

\* The groups are the components.
Clean(store) == {Members(store, g) : g \in store.groups} = FullGroups(store)

LEMMA CleanIsIntact ==
    ASSUME NEW store, SoundStore(store), Ungrouped(store) = {}, Clean(store), NEW ids
    PROVE Intact(store, ids)
<1> DEFINE rows == Grouped(store)
           full == FullLinks(store)
<1>1. ASSUME NEW x \in rows
      PROVE \E h \in rows : Members(store, store.files[x].group) = Component(rows, full, h)
  <2>1. store.files[x].group \in store.groups
    BY <1>1 DEF SoundStore, Ungrouped, Grouped
  <2>2. Members(store, store.files[x].group) \in FullGroups(store)
    BY <2>1 DEF Clean
  <2> QED
    BY <2>2 DEF FullGroups, Components
<1>2. ASSUME NEW x \in rows, NEW y \in rows, <<x, y>> \in full
      PROVE store.files[x].group = store.files[y].group
  <2>1. PICK h \in rows : Members(store, store.files[x].group) = Component(rows, full, h)
    BY <1>1
  <2>2. Closed(Members(store, store.files[x].group), rows, full)
    BY <2>1, ComponentIsLeast
  <2>3. x \in Members(store, store.files[x].group)
    BY DEF Members
  <2>4. y \in Members(store, store.files[x].group)
    BY <2>2, <2>3, <1>2 DEF Closed
  <2> QED
    BY <2>4 DEF Members
<1>3. ASSUME NEW g \in GroupIdsOf(store) \ ids, NEW part \in SUBSET Members(store, g), part # {},
             Closed(part, Members(store, g), full)
      PROVE part = Members(store, g)
  <2>1. PICK z \in part : z \in rows /\ store.files[z].group = g
    BY <1>3 DEF Members
  <2>2. PICK h \in rows : Members(store, g) = Component(rows, full, h)
    BY <2>1, <1>1
  <2>3. Component(rows, full, z) = Members(store, g)
    BY <2>1, <2>2, ComponentOfMember, FullLinksSymmetric
  <2>4. Closed(part, rows, full)
    <3>1. Closed(Members(store, g), rows, full)
      BY <2>2, ComponentIsLeast
    <3> QED
      BY <3>1, <1>3 DEF Closed
  <2>5. part \in SUBSET rows
    BY DEF Members
  <2>6. Component(rows, full, z) \subseteq part
    BY <2>1, <2>4, <2>5, ComponentIsLeast
  <2> QED
    BY <2>3, <2>6
<1> QED
  BY <1>2, <1>3 DEF Intact

\* Rows of affected groups, and rows that await grouping, do not matter.
LEMMA IntactDependsOn ==
    ASSUME NEW s, NEW t, NEW ids, Intact(s, ids),
           \A x \in Files : (x \in Grouped(t) /\ ~Affected(t.files[x], ids)) =>
                                x \in Grouped(s) /\ t.files[x] = s.files[x],
           \A x \in Files : (x \in Grouped(s) /\ ~Affected(s.files[x], ids)) =>
                                x \in Grouped(t) /\ t.files[x] = s.files[x]
    PROVE Intact(t, ids)
<1>1. ASSUME NEW x \in Grouped(t), NEW y \in Grouped(t), <<x, y>> \in FullLinks(t),
             ~Affected(t.files[x], ids), ~Affected(t.files[y], ids)
      PROVE t.files[x].group = t.files[y].group
  <2>1. x \in Grouped(s) /\ y \in Grouped(s) /\ t.files[x] = s.files[x] /\ t.files[y] = s.files[y]
    BY <1>1 DEF Grouped
  <2>2. <<x, y>> \in FullLinks(s)
    BY <2>1, <1>1 DEF FullLinks
  <2> QED
    BY <2>1, <2>2, <1>1 DEF Intact
<1>2. ASSUME NEW g \in GroupIdsOf(t) \ ids, NEW part \in SUBSET Members(t, g), part # {},
             Closed(part, Members(t, g), FullLinks(t))
      PROVE part = Members(t, g)
  <2>1. \A x \in Members(t, g) : x \in Members(s, g) /\ t.files[x] = s.files[x]
    BY DEF Members, Grouped, Affected, GroupIdsOf
  <2>2. \A x \in Members(s, g) : x \in Members(t, g)
    BY DEF Members, Grouped, Affected, GroupIdsOf
  <2>3. Members(t, g) = Members(s, g)
    BY <2>1, <2>2
  <2>4. g \in GroupIdsOf(s) \ ids
    BY <2>1, <1>2 DEF Members, GroupIdsOf
  <2>5. Closed(part, Members(s, g), FullLinks(s))
    BY <2>1, <2>3, <1>2 DEF Closed, FullLinks, Members
  <2> QED
    BY <2>3, <2>4, <2>5, <1>2 DEF Intact
<1> QED
  BY <1>1, <1>2 DEF Intact

\* The scalars do not matter, nor do the rows of files that take no part.
LEMMA CleanDependsOn ==
    ASSUME NEW s, NEW t, Clean(s), t.groups = s.groups, Grouped(t) = Grouped(s),
           \A x \in Grouped(s) : t.files[x].group = s.files[x].group /\ t.files[x].audio = s.files[x].audio
    PROVE Clean(t)
<1>1. \A g : Members(t, g) = Members(s, g)
  BY DEF Members
<1>2. FullLinks(t) = FullLinks(s)
  BY DEF FullLinks
<1>3. FullGroups(t) = FullGroups(s)
  BY <1>2 DEF FullGroups
<1> QED
  BY <1>1, <1>3 DEF Clean

\* What Regrouped() makes of a store: the parts are its groups, and nothing but the groups changes.
LEMMA RegroupedFacts ==
    ASSUME NEW store, SoundStore(store), NEW parts, IsPartition(parts, Grouped(store))
    PROVE LET r == Regrouped(store, parts)
          IN /\ SoundStore(r) /\ Ungrouped(r) = {} /\ Grouped(r) = Grouped(store)
             /\ \A f \in Files : /\ r.files[f].stamp = store.files[f].stamp
                                 /\ r.files[f].audio = store.files[f].audio
                                 /\ r.files[f].ok = store.files[f].ok
             /\ {Members(r, g) : g \in r.groups} = parts
             /\ \A f \in Files : \/ r.fileFeatures[f] = store.fileFeatures[f]
                                 \/ ~store.files[f].ok
             /\ \A g \in GroupIdsOf(r) \intersect DOMAIN r.features :
                    \E f \in Members(r, g) : store.files[f].group = g
<1> DEFINE ids == AssignIds(store, parts)
           r == Regrouped(store, parts)
           rows == Grouped(store)
           part(f) == CHOOSE p \in parts : f \in p
           groups == {ids[p] : p \in parts}
           features == [g \in groups \intersect DOMAIN store.features |-> store.features[g]]
           scalars == [f \in Files |-> IF store.files[f] = NoRow THEN NoScalars ELSE store.fileFeatures[f]]
           files == [f \in Files |->
                [store.files[f] EXCEPT !.group = IF f \in rows THEN ids[part(f)] ELSE None]]
<1>1. /\ ids \in [parts -> GroupIds]
      /\ \A p, q \in parts : ids[p] = ids[q] => p = q
      /\ \A p \in parts : ids[p] =< Reserved(store) => ids[p] \in OldIds(store, p)
      /\ Bounded({ids[p] : p \in parts})
  BY IdsAreStable
<1>2. r = [files |-> files, groups |-> groups, features |-> features, fileFeatures |-> scalars]
  BY Zenon DEF Regrouped
<1>3. \A p \in parts : \A f \in p : f \in rows /\ part(f) = p
  <2> SUFFICES ASSUME NEW p \in parts, NEW f \in p
               PROVE f \in rows /\ part(f) = p
    OBVIOUS
  <2>1. f \in rows
    BY DEF IsPartition
  <2>2. part(f) \in parts /\ f \in part(f)
    OBVIOUS
  <2> QED
    BY <2>1, <2>2 DEF IsPartition
<1>4. \A f \in rows : part(f) \in parts /\ f \in part(f) /\ f \in Files
  <2> SUFFICES ASSUME NEW f \in rows
               PROVE part(f) \in parts /\ f \in part(f) /\ f \in Files
    OBVIOUS
  <2>1. \E p \in parts : f \in p
    BY DEF IsPartition
  <2> QED
    BY <2>1 DEF Grouped
<1>5. IsStore(store)
  BY DEF SoundStore
<1> HIDE DEF ids, part
<1>6. \A f \in Files : /\ files[f] \in Row
                       /\ files[f].stamp = store.files[f].stamp /\ files[f].audio = store.files[f].audio
                       /\ files[f].ok = store.files[f].ok
                       /\ files[f].group = IF f \in rows THEN ids[part(f)] ELSE None
  <2> SUFFICES ASSUME NEW f \in Files
               PROVE /\ files[f] \in Row
                     /\ files[f].stamp = store.files[f].stamp /\ files[f].audio = store.files[f].audio
                     /\ files[f].ok = store.files[f].ok
                     /\ files[f].group = IF f \in rows THEN ids[part(f)] ELSE None
    OBVIOUS
  <2> DEFINE g == IF f \in rows THEN ids[part(f)] ELSE None
  <2>1. store.files[f] \in Row
    BY <1>5 DEF IsStore
  <2>2. g \in GroupIds \union {None}
    BY <1>1, <1>4
  <2>3. files[f] = [store.files[f] EXCEPT !.group = g]
    OBVIOUS
  <2> HIDE DEF g, files
  <2>4. [store.files[f] EXCEPT !.group = g] \in Row
    BY <2>1, <2>2 DEF Row
  <2>5. /\ [store.files[f] EXCEPT !.group = g].stamp = store.files[f].stamp
        /\ [store.files[f] EXCEPT !.group = g].audio = store.files[f].audio
        /\ [store.files[f] EXCEPT !.group = g].ok = store.files[f].ok
        /\ [store.files[f] EXCEPT !.group = g].group = g
    BY <2>1 DEF Row
  <2> QED
    BY <2>3, <2>4, <2>5 DEF g
<1>7. \A f \in rows : files[f].group \in groups
  <2> HIDE DEF files
  <2> QED
    BY <1>4, <1>6
<1>8. files = [f \in Files |-> files[f]]
  OBVIOUS
<1>9. /\ r.files = files /\ r.groups = groups /\ r.features = features /\ r.fileFeatures = scalars
      /\ r = [files |-> r.files, groups |-> r.groups, features |-> r.features,
              fileFeatures |-> r.fileFeatures]
  <2> HIDE DEF r, files, groups, features, scalars
  <2> QED
    BY <1>2
<1>10. groups \subseteq GroupIds
  BY <1>1
<1>11. /\ DOMAIN features \subseteq GroupIds
       /\ features = [g \in DOMAIN features |-> features[g]]
       /\ \A g \in DOMAIN features : features[g] \in Scalars
  <2>1. DOMAIN features = groups \intersect DOMAIN store.features
    OBVIOUS
  <2>2. \A g \in DOMAIN features : features[g] = store.features[g] /\ g \in DOMAIN store.features
    BY <2>1
  <2>3. features = [g \in DOMAIN features |-> features[g]]
    BY Zenon
  <2> HIDE DEF features, groups
  <2> QED
    BY <2>1, <2>2, <2>3, <1>10, <1>5 DEF IsStore
<1>12. scalars \in [Files -> Scalars]
  BY <1>5 DEF IsStore, Scalars, NoScalars
<1> HIDE DEF r, files, groups, features, scalars
<1>13. IsStore(r)
  BY <1>6, <1>8, <1>9, <1>10, <1>11, <1>12 DEF IsStore
<1>14. Grouped(r) = rows
  BY <1>6, <1>9 DEF Grouped
<1>15. Ungrouped(r) = {}
  <2>1. \A f \in rows : r.files[f].group \in GroupIds
    BY <1>7, <1>9, <1>10
  <2> QED
    BY <2>1, <1>14 DEF Ungrouped, GroupIds, None
<1>16. SoundStore(r)
  <2>1. \A f \in Files : r.files[f].ok => r.files[f].audio \in Audio
    BY <1>6, <1>9 DEF SoundStore
  <2>2. \A f \in Files : r.files[f].group \in r.groups \union {None}
    BY <1>6, <1>7, <1>9
  <2>3. r.groups \union DOMAIN r.features = {ids[p] : p \in parts}
    BY <1>9 DEF groups, features
  <2> QED
    BY <2>1, <2>2, <2>3, <1>13, <1>1 DEF SoundStore
<1>17. \A p \in parts : Members(r, ids[p]) = p
  <2> SUFFICES ASSUME NEW p \in parts
               PROVE Members(r, ids[p]) = p
    OBVIOUS
  <2>1. ASSUME NEW f \in p
        PROVE f \in Members(r, ids[p])
    <3>1. f \in rows /\ part(f) = p /\ f \in Files
      BY <1>3, <1>4
    <3> QED
      BY <3>1, <1>6, <1>9, <1>14 DEF Members
  <2>2. ASSUME NEW f \in Members(r, ids[p])
        PROVE f \in p
    <3>1. f \in rows /\ r.files[f].group = ids[p]
      BY <1>14 DEF Members
    <3>2. part(f) \in parts /\ f \in part(f) /\ ids[part(f)] = ids[p]
      BY <3>1, <1>4, <1>6, <1>9
    <3> QED
      BY <3>2, <1>1
  <2> QED
    BY <2>1, <2>2
<1>18. {Members(r, g) : g \in r.groups} = parts
  <2>1. r.groups = {ids[p] : p \in parts}
    BY <1>9 DEF groups
  <2> QED
    BY <2>1, <1>17
<1>19. \A f \in Files : r.fileFeatures[f] = store.fileFeatures[f] \/ ~store.files[f].ok
  BY <1>9 DEF scalars, NoRow
<1>20. ASSUME NEW g \in GroupIdsOf(r) \intersect DOMAIN r.features
       PROVE \E f \in Members(r, g) : store.files[f].group = g
  <2>1. g \in groups /\ g \in DOMAIN store.features
    BY <1>9 DEF features
  <2>2. PICK p \in parts : g = ids[p]
    BY <2>1 DEF groups
  <2>3. g =< Reserved(store)
    BY <2>1, ReservedIsHighest
  <2>4. g \in OldIds(store, p)
    BY <2>2, <2>3, <1>1
  <2>5. PICK f \in p : store.files[f].group = g
    BY <2>4 DEF OldIds
  <2> QED
    BY <2>2, <2>5, <1>17
<1> QED
  BY <1>6, <1>9, <1>14, <1>15, <1>16, <1>18, <1>19, <1>20 DEF r

\* A grouping of everything leaves the components, and an incremental one does where it may.
LEMMA RegroupedIsClean ==
    ASSUME NEW store, SoundStore(store), NEW ids
    PROVE /\ Clean(Regrouped(store, FullGroups(store)))
          /\ Intact(store, ids) => Clean(Regrouped(store, IncrementalGroups(store, ids)))
<1>1. ASSUME NEW parts, IsPartition(parts, Grouped(store)), parts = FullGroups(store)
      PROVE Clean(Regrouped(store, parts))
  <2> DEFINE r == Regrouped(store, parts)
  <2>1. /\ Grouped(r) = Grouped(store)
        /\ \A f \in Files : r.files[f].audio = store.files[f].audio
        /\ {Members(r, g) : g \in r.groups} = parts
    BY <1>1, RegroupedFacts
  <2> HIDE DEF r
  <2>2. FullLinks(r) = FullLinks(store)
    BY <2>1 DEF FullLinks, Grouped
  <2>3. FullGroups(r) = FullGroups(store)
    BY <2>1, <2>2 DEF FullGroups
  <2>4. Clean(r)
    BY <2>1, <2>3, <1>1 DEF Clean
  <2> QED
    BY <2>4 DEF r
<1>2. IsPartition(FullGroups(store), Grouped(store))
  BY GroupsArePartition
<1>3. Intact(store, ids) => IncrementalGroups(store, ids) = FullGroups(store)
  BY IncrementalIsFull
<1> QED
  BY <1>1, <1>2, <1>3

-----------------------------------------------------------------------------
(* The inductive invariant. *)

\* No stamp is ahead of the file's own, so that a change of the file makes all of them old.
StampInv ==
    \A f \in Files : /\ library[f] =< disk[f].stamp /\ run.stamp[f] =< disk[f].stamp
                     /\ db.files[f].stamp =< disk[f].stamp /\ durable.files[f].stamp =< disk[f].stamp

\* What is stored, or about to be, under a file's present stamp is of what the file holds.
TrueStore(store) ==
    \A f \in Files : store.files[f].ok /\ store.files[f].stamp = disk[f].stamp =>
        /\ store.files[f].audio = disk[f].audio
        /\ store.fileFeatures[f].version # None => store.fileFeatures[f].audio = disk[f].audio

ContentInv ==
    /\ TrueStore(db) /\ TrueStore(durable)
    /\ run.at = "scan" => \A f \in Files : run.decoded[f] # NoAudio /\ run.stamp[f] = disk[f].stamp =>
           run.decoded[f] = disk[f].audio
    /\ run.at = "scan" => \A f \in run.pending : run.extracted[f] = NoAudio
    /\ \A f \in Files : run.extracted[f] # NoAudio /\ db.files[f].stamp = disk[f].stamp =>
           run.extracted[f] = disk[f].audio
    /\ run.at = "backfill" =>
           /\ run.file \in Files /\ run.decoded[run.file] # NoAudio
           /\ db.files[run.file].stamp = disk[run.file].stamp => run.decoded[run.file] = disk[run.file].audio

\* A store in which no row awaits grouping has the components as its groups; while a refresh has yet to
\* group what it stored, the groups that it did not touch are still whole.
GroupsInv ==
    /\ \A store \in {db, durable} : torn = "no" /\ Ungrouped(store) = {} => Clean(store)
    /\ run.at \notin {"scan", "group"} => torn # "here"
    /\ run.at \in {"scan", "group"} /\ ~run.full /\ torn # "lost" => Intact(db, run.affected)
    /\ run.at = "scan" => \A f \in run.pending : db.files[f].group \in run.affected \union {None}

\* What a refresh has done so far, and what it will do.
DoneInv ==
    /\ run.at \in {"scan", "group"} => run.stage # "features"
    /\ run.at = "scan" => \A f \in Files \ run.pending : db.files[f].stamp = run.stamp[f]
    /\ run.at = "group" \/ (run.at \in {"fill", "backfill"} /\ run.stage = "all") =>
           \A f \in Files : db.files[f].stamp = run.stamp[f]
    /\ run.at \in {"fill", "backfill"} =>
           /\ Ungrouped(db) = {}
           /\ run.copies \union run.decodes \subseteq GroupIdsOf(db)
           /\ StaleGroups(db) \subseteq run.copies \union run.decodes \union run.failed

IInv ==
    /\ TypeOK /\ SoundStore(db) /\ SoundStore(durable)
    /\ StampInv /\ ContentInv /\ GroupsInv /\ DoneInv

-----------------------------------------------------------------------------
(* What the steps make of the store. *)

LEMMA RepresentativeIsMember ==
    ASSUME NEW store, NEW g \in GroupIdsOf(store)
    PROVE /\ Representative(store, g) \in Members(store, g)
          /\ Representative(store, g) \in Grouped(store) /\ Representative(store, g) \in Files
<1>1. Members(store, g) # {} /\ Members(store, g) \subseteq Files
  BY DEF GroupIdsOf, Members, Grouped
<1> QED
  BY <1>1, FilesAreNumbers, MinIsLeast DEF Representative, Members, Grouped

LEMMA GroupsExist ==
    ASSUME NEW store, SoundStore(store)
    PROVE GroupIdsOf(store) \subseteq store.groups /\ GroupIdsOf(store) \subseteq GroupIds
BY DEF SoundStore, IsStore, GroupIdsOf, Grouped

\* The store with the analysis of a file.
LEMMA StoredFacts ==
    ASSUME SoundStore(db), run \in Run, version \in Versions,
           NEW f \in Files, run.decoded[f] # NoAudio, NEW ok \in BOOLEAN
    PROVE LET s == Stored(f, ok)
          IN /\ SoundStore(s) /\ s.groups = db.groups /\ s.features = db.features
             /\ \A x \in Files \ {f} : s.files[x] = db.files[x] /\ s.fileFeatures[x] = db.fileFeatures[x]
             /\ s.files[f] = [stamp |-> run.stamp[f], audio |-> IF ok THEN run.decoded[f] ELSE NoAudio,
                              ok |-> ok, group |-> None]
             /\ s.fileFeatures[f] = IF ok THEN [audio |-> run.decoded[f], version |-> version]
                                    ELSE db.fileFeatures[f]
<1> DEFINE s == Stored(f, ok)
           row == [stamp |-> run.stamp[f], audio |-> IF ok THEN run.decoded[f] ELSE NoAudio, ok |-> ok,
                   group |-> None]
           scalars == IF ok THEN [audio |-> run.decoded[f], version |-> version] ELSE db.fileFeatures[f]
           files == [db.files EXCEPT ![f] = row]
           fileFeatures == [db.fileFeatures EXCEPT ![f] = scalars]
<1>1. IsStore(db)
  BY DEF SoundStore
<1>2. s = [files |-> files, groups |-> db.groups, features |-> db.features, fileFeatures |-> fileFeatures]
  <2>1. db = [files |-> db.files, groups |-> db.groups, features |-> db.features,
              fileFeatures |-> db.fileFeatures]
    BY <1>1, Zenon DEF IsStore
  <2>2. s = [db EXCEPT !.files[f] = row, !.fileFeatures[f] = scalars]
    BY DEF Stored
  <2> HIDE DEF row, scalars, s
  <2> QED
    BY <2>1, <2>2
<1>3. run.stamp[f] \in Stamps /\ run.decoded[f] \in Audio
  BY DEF Run
<1>4. row \in Row
  BY <1>3 DEF Row
<1>5. scalars \in Scalars
  BY <1>1, <1>3 DEF Scalars, IsStore
<1>6. files \in [Files -> Row] /\ fileFeatures \in [Files -> Scalars]
  <2> HIDE DEF row, scalars
  <2> QED
    BY <1>1, <1>4, <1>5 DEF IsStore
<1>7. /\ s.files = files /\ s.groups = db.groups /\ s.features = db.features /\ s.fileFeatures = fileFeatures
      /\ s = [files |-> s.files, groups |-> s.groups, features |-> s.features,
              fileFeatures |-> s.fileFeatures]
  <2> HIDE DEF s, files, fileFeatures
  <2> QED
    BY <1>2
<1>8. /\ \A x \in Files \ {f} : files[x] = db.files[x] /\ fileFeatures[x] = db.fileFeatures[x]
      /\ files[f] = row /\ fileFeatures[f] = scalars
  <2> HIDE DEF row, scalars
  <2> QED
    BY <1>1 DEF IsStore
<1> HIDE DEF s, files, fileFeatures
<1>9. IsStore(s)
  BY <1>1, <1>6, <1>7 DEF IsStore
<1>10. \A x \in Files : s.files[x].ok => s.files[x].audio \in Audio
  BY <1>3, <1>7, <1>8 DEF SoundStore
<1>11. \A x \in Files : s.files[x].group \in s.groups \union {None}
  BY <1>7, <1>8 DEF SoundStore
<1>12. SoundStore(s)
  BY <1>7, <1>9, <1>10, <1>11 DEF SoundStore
<1> QED
  BY <1>7, <1>8, <1>12 DEF s

\* The store with other rows of groups.
LEMMA FeaturesFacts ==
    ASSUME NEW store, SoundStore(store), NEW F, F = [g \in DOMAIN F |-> F[g]],
           DOMAIN F \subseteq DOMAIN store.features \union store.groups, \A g \in DOMAIN F : F[g] \in Scalars
    PROVE LET s == [store EXCEPT !.features = F]
          IN /\ SoundStore(s) /\ s.files = store.files /\ s.groups = store.groups
             /\ s.features = F /\ s.fileFeatures = store.fileFeatures
<1> DEFINE s == [store EXCEPT !.features = F]
<1>1. IsStore(store)
  BY DEF SoundStore
<1>2. s = [files |-> store.files, groups |-> store.groups, features |-> F, fileFeatures |-> store.fileFeatures]
  <2>1. store = [files |-> store.files, groups |-> store.groups, features |-> store.features,
                 fileFeatures |-> store.fileFeatures]
    BY <1>1, Zenon DEF IsStore
  <2> QED
    BY <2>1
<1>3. /\ s.files = store.files /\ s.groups = store.groups /\ s.features = F
      /\ s.fileFeatures = store.fileFeatures
      /\ s = [files |-> s.files, groups |-> s.groups, features |-> s.features,
              fileFeatures |-> s.fileFeatures]
  <2> HIDE DEF s
  <2> QED
    BY <1>2
<1> HIDE DEF s
<1>4. IsStore(s)
  BY <1>1, <1>3 DEF IsStore
<1>5. Bounded(s.groups \union DOMAIN s.features)
  BY <1>3 DEF SoundStore, Bounded
<1>6. SoundStore(s)
  BY <1>3, <1>4, <1>5 DEF SoundStore
<1> QED
  BY <1>3, <1>6 DEF s

\* The store with other scalars of a file.
LEMMA BackfillFacts ==
    ASSUME NEW store, SoundStore(store), NEW f \in Files, NEW x \in Scalars
    PROVE LET s == [store EXCEPT !.fileFeatures[f] = x]
          IN /\ SoundStore(s) /\ s.files = store.files /\ s.groups = store.groups
             /\ s.features = store.features
             /\ s.fileFeatures = [store.fileFeatures EXCEPT ![f] = x]
<1> DEFINE s == [store EXCEPT !.fileFeatures[f] = x]
           fileFeatures == [store.fileFeatures EXCEPT ![f] = x]
<1>1. IsStore(store)
  BY DEF SoundStore
<1>2. s = [files |-> store.files, groups |-> store.groups, features |-> store.features,
           fileFeatures |-> fileFeatures]
  <2>1. store = [files |-> store.files, groups |-> store.groups, features |-> store.features,
                 fileFeatures |-> store.fileFeatures]
    BY <1>1, Zenon DEF IsStore
  <2> QED
    BY <2>1
<1>3. fileFeatures \in [Files -> Scalars]
  BY <1>1 DEF IsStore
<1>4. /\ s.files = store.files /\ s.groups = store.groups /\ s.features = store.features
      /\ s.fileFeatures = fileFeatures
      /\ s = [files |-> s.files, groups |-> s.groups, features |-> s.features,
              fileFeatures |-> s.fileFeatures]
  <2> HIDE DEF s, fileFeatures
  <2> QED
    BY <1>2
<1> HIDE DEF s, fileFeatures
<1>5. IsStore(s)
  BY <1>1, <1>3, <1>4 DEF IsStore
<1>6. SoundStore(s)
  BY <1>4, <1>5 DEF SoundStore
<1> QED
  BY <1>4, <1>6 DEF s, fileFeatures

LEMMA WithScalarsFacts ==
    ASSUME NEW store, SoundStore(store), NEW g \in GroupIdsOf(store), NEW x \in Audio \union {NoAudio},
           version \in Versions
    PROVE LET F == WithScalars(store.features, g, x)
          IN /\ F = [h \in DOMAIN F |-> F[h]] /\ \A h \in DOMAIN F : F[h] \in Scalars
             /\ DOMAIN F = DOMAIN store.features \union {g}
             /\ DOMAIN F \subseteq DOMAIN store.features \union store.groups
             /\ F[g] = [audio |-> x, version |-> version]
             /\ \A h \in DOMAIN store.features \ {g} : F[h] = store.features[h]
<1> DEFINE F == WithScalars(store.features, g, x)
<1>1. IsStore(store) /\ g \in store.groups
  BY GroupsExist DEF SoundStore
<1>2. /\ DOMAIN F = DOMAIN store.features \union {g}
      /\ \A h \in DOMAIN F : F[h] = IF h = g THEN [audio |-> x, version |-> version] ELSE store.features[h]
  BY DEF WithScalars
<1>3. F = [h \in DOMAIN F |-> F[h]]
  BY Zenon DEF WithScalars
<1> HIDE DEF F
<1>4. \A h \in DOMAIN F : F[h] \in Scalars
  BY <1>1, <1>2 DEF IsStore, Scalars
<1> QED
  BY <1>1, <1>2, <1>3, <1>4 DEF F

\* The steps that fill rows of groups, or of a file, leave the rows of the files and the groups alone.
Filling ==
    \/ \E g \in run.copies : FillCopy(g)
    \/ \E g \in run.decodes : FillDecode(g)
    \/ Backfill
    \/ \E records \in SUBSET Audio, replace \in BOOLEAN : Import(records, replace)

LEMMA AnalysedIsAudio ==
    ASSUME TypeOK, NEW f \in Files
    PROVE Analysed(f) \in Audio
BY DEF TypeOK, Run, Analysed

\* The steps that write a group's row: its scalars are of this version then.
RowWritten(g) ==
    /\ g \in DOMAIN db'.features /\ db'.features[g].version = version
    /\ \A h \in DOMAIN db.features \ {g} : h \in DOMAIN db'.features /\ db'.features[h] = db.features[h]
    /\ db'.fileFeatures = db.fileFeatures

LEMMA WritesRow ==
    ASSUME TypeOK, SoundStore(db), NEW g \in GroupIdsOf(db), NEW x \in Audio \union {NoAudio},
           Committed([db EXCEPT !.features = WithScalars(@, g, x)])
    PROVE /\ SoundStore(db') /\ durable' = db'
          /\ db'.files = db.files /\ db'.groups = db.groups /\ RowWritten(g)
<1> DEFINE F == WithScalars(db.features, g, x)
<1>1. version \in Versions
  BY DEF TypeOK
<1>2. /\ F = [h \in DOMAIN F |-> F[h]] /\ \A h \in DOMAIN F : F[h] \in Scalars
      /\ DOMAIN F = DOMAIN db.features \union {g}
      /\ DOMAIN F \subseteq DOMAIN db.features \union db.groups
      /\ F[g] = [audio |-> x, version |-> version]
      /\ \A h \in DOMAIN db.features \ {g} : F[h] = db.features[h]
  BY <1>1, WithScalarsFacts
<1> HIDE DEF F
<1>3. db' = [db EXCEPT !.features = F] /\ durable' = db'
  BY DEF Committed, F
<1>4. /\ SoundStore(db') /\ db'.files = db.files /\ db'.groups = db.groups
      /\ db'.features = F /\ db'.fileFeatures = db.fileFeatures
  BY <1>2, <1>3, FeaturesFacts
<1> QED
  BY <1>2, <1>3, <1>4 DEF RowWritten

LEMMA CopyWrites ==
    ASSUME TypeOK, SoundStore(db), DoneInv, NEW g \in run.copies, FillCopy(g)
    PROVE /\ g \in GroupIdsOf(db)
          /\ SoundStore(db') /\ durable' = db'
          /\ db'.files = db.files /\ db'.groups = db.groups /\ RowWritten(g)
<1> DEFINE x == db.fileFeatures[Representative(db, g)].audio
<1>1. g \in GroupIdsOf(db)
  BY DEF DoneInv, FillCopy
<1>2. x \in Audio \union {NoAudio}
  <2>1. Representative(db, g) \in Files
    BY <1>1, RepresentativeIsMember
  <2> QED
    BY <2>1 DEF SoundStore, IsStore, Scalars
<1>3. Committed([db EXCEPT !.features = WithScalars(@, g, x)])
  BY DEF FillCopy
<1> HIDE DEF x
<1> QED
  BY <1>1, <1>2, <1>3, WritesRow

\* The decode of a group's first file succeeds, or fails.
DecodeWrites(g) ==
    /\ run.at = "fill" /\ ~run.stop
    /\ Committed([db EXCEPT !.features = WithScalars(@, g, Analysed(Representative(db, g)))])
    /\ run' = [run EXCEPT !.at = "backfill", !.decodes = @ \ {g}, !.file = Representative(db, g),
                          !.decoded[Representative(db, g)] = Analysed(Representative(db, g))]
    /\ UNCHANGED <<disk, library, version, torn, remaining>>
DecodeFails(g) ==
    /\ run.at = "fill" /\ ~run.stop /\ remaining.failures > 0
    /\ remaining' = [remaining EXCEPT !.failures = @ - 1]
    /\ run' = [run EXCEPT !.decodes = @ \ {g}, !.failed = @ \union {g}]
    /\ UNCHANGED <<disk, library, db, durable, version, torn>>

LEMMA FillDecodeCases ==
    ASSUME NEW g, FillDecode(g)
    PROVE DecodeWrites(g) \/ DecodeFails(g)
BY DEF FillDecode, DecodeWrites, DecodeFails

LEMMA DecodeWritesRow ==
    ASSUME TypeOK, SoundStore(db), DoneInv, NEW g \in run.decodes, DecodeWrites(g)
    PROVE /\ g \in GroupIdsOf(db)
          /\ SoundStore(db') /\ durable' = db'
          /\ db'.files = db.files /\ db'.groups = db.groups /\ RowWritten(g)
          /\ Representative(db, g) \in Files /\ Analysed(Representative(db, g)) \in Audio
<1> DEFINE x == Analysed(Representative(db, g))
<1>1. g \in GroupIdsOf(db)
  BY DEF DoneInv, DecodeWrites
<1>2. Representative(db, g) \in Files
  BY <1>1, RepresentativeIsMember
<1>3. x \in Audio
  BY <1>2, AnalysedIsAudio
<1>4. Committed([db EXCEPT !.features = WithScalars(@, g, x)])
  BY DEF DecodeWrites
<1> HIDE DEF x
<1>5. x \in Audio \union {NoAudio}
  BY <1>3
<1>6. /\ SoundStore(db') /\ durable' = db'
      /\ db'.files = db.files /\ db'.groups = db.groups /\ RowWritten(g)
  BY <1>1, <1>4, <1>5, WritesRow
<1> QED
  BY <1>1, <1>2, <1>3, <1>6 DEF x

LEMMA BackfillWrites ==
    ASSUME TypeOK, SoundStore(db), ContentInv, Backfill
    PROVE /\ SoundStore(db') /\ durable' = db'
          /\ db'.files = db.files /\ db'.groups = db.groups /\ db'.features = db.features
          /\ db'.fileFeatures = [db.fileFeatures EXCEPT ![run.file] =
                                    [audio |-> run.decoded[run.file], version |-> version]]
<1>1. run.file \in Files
  BY DEF ContentInv, Backfill
<1>2. [audio |-> run.decoded[run.file], version |-> version] \in Scalars
  BY <1>1 DEF TypeOK, Run, Scalars
<1>3. /\ db' = [db EXCEPT !.fileFeatures[run.file] = [audio |-> run.decoded[run.file], version |-> version]]
      /\ durable' = db'
  BY DEF Backfill, Committed
<1> QED
  BY <1>1, <1>2, <1>3, BackfillFacts

LEMMA ImportWrites ==
    ASSUME TypeOK, SoundStore(db), NEW records \in SUBSET Audio, NEW replace \in BOOLEAN,
           Import(records, replace)
    PROVE /\ SoundStore(db') /\ durable' = db'
          /\ db'.files = db.files /\ db'.groups = db.groups /\ db'.fileFeatures = db.fileFeatures
<1> DEFINE hash(g) == db.files[Representative(db, g)].audio
           adopting == {g \in GroupIdsOf(db) :
               /\ hash(g) \in records /\ \A h \in GroupIdsOf(db) : hash(h) = hash(g) => h = g
               /\ replace \/ ~HasScalars(db, g)}
           F == [g \in DOMAIN db.features \union adopting |->
                    IF g \in adopting THEN [audio |-> hash(g), version |-> version] ELSE db.features[g]]
<1>1. \A g \in adopting : hash(g) \in Audio /\ g \in db.groups
  BY GroupsExist
<1>2. IsStore(db) /\ version \in Versions
  BY DEF SoundStore, TypeOK
<1>3. db' = [db EXCEPT !.features = F] /\ durable' = db'
  BY Zenon DEF Import, Committed
<1>4. /\ DOMAIN F = DOMAIN db.features \union adopting
      /\ F = [g \in DOMAIN F |-> F[g]]
  BY Zenon
<1>5. \A g \in DOMAIN F : F[g] = IF g \in adopting THEN [audio |-> hash(g), version |-> version]
                                 ELSE db.features[g]
  OBVIOUS
<1> HIDE DEF F, adopting, hash
<1>6. \A g \in DOMAIN F : F[g] \in Scalars
  <2> SUFFICES ASSUME NEW g \in DOMAIN F
               PROVE F[g] \in Scalars
    OBVIOUS
  <2>1. CASE g \in adopting
    <3>1. F[g] = [audio |-> hash(g), version |-> version] /\ hash(g) \in Audio
      BY <2>1, <1>1, <1>5
    <3> QED
      BY <3>1, <1>2 DEF Scalars
  <2>2. CASE g \notin adopting
    <3>1. g \in DOMAIN db.features /\ F[g] = db.features[g]
      BY <2>2, <1>4, <1>5
    <3> QED
      BY <3>1, <1>2 DEF IsStore
  <2> QED
    BY <2>1, <2>2
<1>7. DOMAIN F \subseteq DOMAIN db.features \union db.groups
  BY <1>1, <1>4
<1> QED
  BY <1>3, <1>4, <1>6, <1>7, FeaturesFacts

LEMMA FillingKeepsRows ==
    ASSUME TypeOK, SoundStore(db), SoundStore(durable), ContentInv, DoneInv, Filling
    PROVE /\ SoundStore(db') /\ SoundStore(durable')
          /\ db'.files = db.files /\ db'.groups = db.groups
          /\ durable' \in {db', durable} /\ torn' = torn
          /\ UNCHANGED <<disk, library, version>>
<1>1. ASSUME NEW g \in run.copies, FillCopy(g)
      PROVE /\ SoundStore(db') /\ durable' = db' /\ db'.files = db.files /\ db'.groups = db.groups
            /\ UNCHANGED <<disk, library, version, torn>>
  BY <1>1, CopyWrites DEF FillCopy
<1>2. ASSUME NEW g \in run.decodes, DecodeWrites(g)
      PROVE /\ SoundStore(db') /\ durable' = db' /\ db'.files = db.files /\ db'.groups = db.groups
            /\ UNCHANGED <<disk, library, version, torn>>
  BY <1>2, DecodeWritesRow DEF DecodeWrites
<1>3. ASSUME NEW g \in run.decodes, DecodeFails(g)
      PROVE UNCHANGED <<disk, library, db, durable, version, torn>>
  BY <1>3 DEF DecodeFails
<1>4. CASE Backfill
  BY <1>4, BackfillWrites DEF Backfill
<1>5. ASSUME NEW records \in SUBSET Audio, NEW replace \in BOOLEAN, Import(records, replace)
      PROVE /\ SoundStore(db') /\ durable' = db' /\ db'.files = db.files /\ db'.groups = db.groups
            /\ UNCHANGED <<disk, library, version, torn>>
  BY <1>5, ImportWrites DEF Import
<1> QED
  BY <1>1, <1>2, <1>3, <1>4, <1>5, FillDecodeCases DEF Filling

\* The refresh as it starts, and the two ways it does.
First(stage) == [Idle EXCEPT !.stage = stage, !.stamp = library, !.full = Ungrouped(db) # {}]
BeginScan(stage) ==
    /\ run.at = "idle" /\ stage # "features" /\ Pending # {}
    /\ run' = [First(stage) EXCEPT !.at = "scan", !.pending = Pending,
                                   !.affected = {db.files[f].group : f \in Pending} \ {None}]
    /\ UNCHANGED <<disk, library, db, durable, version, torn, remaining>>
BeginFill(stage) ==
    /\ run.at = "idle" /\ (stage = "features" \/ (stage = "all" /\ Pending = {}))
    /\ Committed(IF Ungrouped(db) # {} THEN Regrouped(db, FullGroups(db)) ELSE db)
    /\ run' = Fill(First(stage), db')
    /\ torn' = IF Ungrouped(db) # {} THEN "no" ELSE torn
    /\ UNCHANGED <<disk, library, version, remaining>>

LEMMA BeginCases ==
    ASSUME NEW stage \in Stages, Begin(stage)
    PROVE BeginScan(stage) \/ BeginFill(stage)
BY DEF Begin, BeginScan, BeginFill, First

LEMMA FirstFacts ==
    ASSUME TypeOK, NEW stage \in Stages
    PROVE LET r == First(stage)
          IN /\ r \in Run /\ r.at = "idle" /\ r.stage = stage /\ r.stamp = library
             /\ r.full = (Ungrouped(db) # {}) /\ r.failed = {} /\ r.stop = FALSE
             /\ r.extracted = [f \in Files |-> NoAudio] /\ r.decoded = [f \in Files |-> NoAudio]
             /\ r.pending = {} /\ r.file = None /\ r.affected = {}
BY DEF First, Idle, Run, TypeOK, Stages, Stamps

LEMMA FillFacts ==
    ASSUME NEW r \in Run, NEW store, SoundStore(store)
    PROVE LET s == Fill(r, store)
          IN /\ s \in Run /\ s.at = "fill" /\ s.stage = r.stage /\ s.stamp = r.stamp /\ s.failed = r.failed
             /\ s.extracted = r.extracted
             /\ s.copies \union s.decodes = StaleGroups(store)
<1> DEFINE copies == {g \in StaleGroups(store) : Copyable(store, g)}
           decodes == {g \in StaleGroups(store) : ~Copyable(store, g)}
           s == [r EXCEPT !.at = "fill", !.copies = copies, !.decodes = decodes]
<1>1. StaleGroups(store) \subseteq GroupIds
  BY GroupsExist DEF StaleGroups
<1>2. copies \in SUBSET GroupIds /\ decodes \in SUBSET GroupIds /\ copies \union decodes = StaleGroups(store)
  BY <1>1
<1>3. Fill(r, store) = s
  BY DEF Fill
<1> HIDE DEF copies, decodes
<1>4. /\ s \in Run /\ s.at = "fill" /\ s.stage = r.stage /\ s.stamp = r.stamp /\ s.failed = r.failed
      /\ s.extracted = r.extracted /\ s.copies = copies /\ s.decodes = decodes
  BY <1>2 DEF Run
<1> QED
  BY <1>2, <1>3, <1>4

\* The steps that group leave each row but for its group, and no row without one; a group has scalars
\* only of a file that was in the group of that id.
Grouping == (\E stage \in Stages : BeginFill(stage)) \/ Group

LEMMA GroupingWrites ==
    ASSUME TypeOK, SoundStore(db), Grouping
    PROVE /\ SoundStore(db') /\ durable' = db'
          /\ Ungrouped(db') = {} /\ Grouped(db') = Grouped(db)
          /\ \A f \in Files : /\ db'.files[f].stamp = db.files[f].stamp
                              /\ db'.files[f].audio = db.files[f].audio
                              /\ db'.files[f].ok = db.files[f].ok
          /\ \A f \in Files : db'.fileFeatures[f] = db.fileFeatures[f] \/ ~db.files[f].ok
          /\ \A g \in GroupIdsOf(db') \intersect DOMAIN db'.features :
                    \E f \in Members(db', g) : db.files[f].group = g
          /\ UNCHANGED <<disk, library, version, remaining>>
<1>1. ASSUME NEW parts, IsPartition(parts, Grouped(db)), db' = Regrouped(db, parts)
      PROVE /\ SoundStore(db')
            /\ Ungrouped(db') = {} /\ Grouped(db') = Grouped(db)
            /\ \A f \in Files : /\ db'.files[f].stamp = db.files[f].stamp
                                /\ db'.files[f].audio = db.files[f].audio
                                /\ db'.files[f].ok = db.files[f].ok
            /\ \A f \in Files : db'.fileFeatures[f] = db.fileFeatures[f] \/ ~db.files[f].ok
            /\ \A g \in GroupIdsOf(db') \intersect DOMAIN db'.features :
                    \E f \in Members(db', g) : db.files[f].group = g
  BY <1>1, RegroupedFacts
<1>2. \/ \E parts : IsPartition(parts, Grouped(db)) /\ db' = Regrouped(db, parts)
      \/ db' = db /\ Ungrouped(db) = {}
  <2>1. IsPartition(FullGroups(db), Grouped(db)) /\ IsPartition(IncrementalGroups(db, run.affected), Grouped(db))
    BY GroupsArePartition
  <2> QED
    BY <2>1 DEF Grouping, BeginFill, Group, Committed
<1>3. durable' = db' /\ UNCHANGED <<disk, library, version, remaining>>
  BY DEF Grouping, BeginFill, Group, Committed
<1>4. \A g \in GroupIdsOf(db) : \E f \in Members(db, g) : db.files[f].group = g
  BY DEF GroupIdsOf, Members
<1>5. CASE db' = db /\ Ungrouped(db) = {}
  BY <1>3, <1>4, <1>5
<1>6. CASE \E parts : IsPartition(parts, Grouped(db)) /\ db' = Regrouped(db, parts)
  BY <1>1, <1>3, <1>6
<1> QED
  BY <1>2, <1>5, <1>6

\* The analysis of one file.
StoreOne(f, ok) ==
    /\ run.at = "scan" /\ f \in run.pending /\ run.decoded[f] # NoAudio
    /\ ~ok => remaining.failures > 0
    /\ remaining' = [remaining EXCEPT !.failures = IF ok THEN @ ELSE @ - 1]
    /\ db' = Stored(f, ok)
    /\ run' = [run EXCEPT !.pending = @ \ {f}, !.decoded[f] = NoAudio,
                          !.extracted[f] = IF ok THEN run.decoded[f] ELSE @]
    /\ torn' = IF ~ok /\ db.files[f].ok /\ torn = "no" THEN "here" ELSE torn
    /\ UNCHANGED <<disk, library, durable, version>>

LEMMA StoreCases ==
    ASSUME NEW f \in Files, StoreAnalysis(f)
    PROVE \E ok \in BOOLEAN : StoreOne(f, ok)
BY DEF StoreAnalysis, StoreOne

LEMMA StoreOneWrites ==
    ASSUME TypeOK, SoundStore(db), NEW f \in Files, NEW ok \in BOOLEAN, StoreOne(f, ok)
    PROVE /\ SoundStore(db') /\ db'.groups = db.groups /\ db'.features = db.features
          /\ \A x \in Files \ {f} : /\ db'.files[x] = db.files[x]
                                    /\ db'.fileFeatures[x] = db.fileFeatures[x]
          /\ db'.files[f].stamp = run.stamp[f] /\ db'.files[f].ok = ok /\ db'.files[f].group = None
          /\ ok => db'.files[f].audio = run.decoded[f]
          /\ db'.fileFeatures[f] = IF ok THEN [audio |-> run.decoded[f], version |-> version]
                                   ELSE db.fileFeatures[f]
<1> DEFINE row == [stamp |-> run.stamp[f], audio |-> IF ok THEN run.decoded[f] ELSE NoAudio, ok |-> ok,
                   group |-> None]
<1>1. run \in Run /\ version \in Versions /\ run.decoded[f] # NoAudio /\ db' = Stored(f, ok)
  BY DEF TypeOK, StoreOne
<1>2. /\ SoundStore(db') /\ db'.groups = db.groups /\ db'.features = db.features
      /\ \A x \in Files \ {f} : /\ db'.files[x] = db.files[x]
                                /\ db'.fileFeatures[x] = db.fileFeatures[x]
      /\ db'.files[f] = row
      /\ db'.fileFeatures[f] = IF ok THEN [audio |-> run.decoded[f], version |-> version]
                               ELSE db.fileFeatures[f]
  BY <1>1, StoredFacts
<1>3. row.stamp = run.stamp[f] /\ row.ok = ok /\ row.group = None /\ (ok => row.audio = run.decoded[f])
  OBVIOUS
<1> HIDE DEF row
<1> QED
  BY <1>2, <1>3

\* The steps, each with what it may be.
LEMMA StepCases ==
    ASSUME Next
    PROVE \/ \E stage \in Stages : BeginScan(stage)
          \/ Grouping \/ Filling
          \/ \E f \in Files : Decode(f)
          \/ \E f \in Files, ok \in BOOLEAN : StoreOne(f, ok)
          \/ Commit \/ EndScan \/ EndFill \/ RequestStop \/ Crash \/ ScanLibrary \/ Upgrade
          \/ \E x \in Audio, f \in Files : Change(f, x)
BY BeginCases, StoreCases DEF Next, Refresh, Grouping, Filling

-----------------------------------------------------------------------------
(* Each part of the invariant, through each step. *)

LEMMA SoundStep ==
    ASSUME IInv, [Next]_vars
    PROVE SoundStore(db') /\ SoundStore(durable')
<1>0. TypeOK /\ SoundStore(db) /\ SoundStore(durable) /\ ContentInv /\ DoneInv
  BY DEF IInv
<1>1. CASE Grouping
  BY <1>0, <1>1, GroupingWrites
<1>2. CASE Filling
  BY <1>0, <1>2, FillingKeepsRows
<1>3. ASSUME NEW f \in Files, NEW ok \in BOOLEAN, StoreOne(f, ok)
      PROVE SoundStore(db') /\ durable' = durable
  BY <1>0, <1>3, StoreOneWrites DEF StoreOne
<1>4. CASE Commit
  BY <1>0, <1>4 DEF Commit
<1>5. CASE EndScan
  BY <1>0, <1>5 DEF EndScan
<1>6. CASE Crash
  BY <1>0, <1>6 DEF Crash
<1>7. CASE UNCHANGED <<db, durable>>
  BY <1>0, <1>7
<1>8. ASSUME NEW stage \in Stages, BeginScan(stage)
      PROVE UNCHANGED <<db, durable>>
  BY <1>8 DEF BeginScan
<1>9. ASSUME NEW f \in Files, Decode(f)
      PROVE UNCHANGED <<db, durable>>
  BY <1>9 DEF Decode
<1>10. ASSUME EndFill \/ RequestStop \/ ScanLibrary \/ Upgrade
       PROVE UNCHANGED <<db, durable>>
  BY <1>10 DEF EndFill, RequestStop, ScanLibrary, Upgrade
<1>11. ASSUME NEW x \in Audio, NEW f \in Files, Change(f, x)
       PROVE UNCHANGED <<db, durable>>
  BY <1>11 DEF Change
<1>12. CASE UNCHANGED vars
  BY <1>0, <1>12 DEF vars
<1> QED
  BY <1>0, <1>1, <1>2, <1>3, <1>4, <1>5, <1>6, <1>7, <1>8, <1>9, <1>10, <1>11, <1>12, StepCases

IdleIsRun == Idle \in Run

LEMMA IdleTyped == IdleIsRun
BY DEF IdleIsRun, Idle, Run, Stages, Stamps, Files, None

LEMMA TypeStep ==
    ASSUME IInv, [Next]_vars
    PROVE TypeOK'
<1>0. TypeOK /\ SoundStore(db) /\ SoundStore(durable) /\ ContentInv /\ DoneInv
  BY DEF IInv
<1>1. IsStore(db') /\ IsStore(durable')
  BY SoundStep DEF SoundStore
<1>2. Idle \in Run
  BY IdleTyped DEF IdleIsRun
<1> DEFINE Rest == /\ disk' \in [Files -> [stamp : Stamps, audio : Audio]] /\ library' \in [Files -> Stamps]
                   /\ version' \in Versions /\ torn' \in {"no", "here", "lost"}
                   /\ remaining' \in [changes : Nat, upgrades : Nat, failures : Nat, breaks : Nat]
<1>3. SUFFICES run' \in Run /\ Rest
  BY <1>1 DEF TypeOK
<1>4. ASSUME NEW stage \in Stages, BeginScan(stage)
      PROVE run' \in Run /\ Rest
  <2>1. First(stage) \in Run
    BY <1>0, FirstFacts
  <2>2. Pending \in SUBSET Files /\ {db.files[f].group : f \in Pending} \ {None} \in SUBSET GroupIds
    BY <1>0 DEF Pending, SoundStore, IsStore, Row
  <2>3. run' \in Run
    <3> DEFINE A == {db.files[f].group : f \in Pending} \ {None}
    <3>1. run' = [First(stage) EXCEPT !.at = "scan", !.pending = Pending, !.affected = A]
      BY <1>4 DEF BeginScan
    <3> HIDE DEF A
    <3>2. A \in SUBSET GroupIds
      BY <2>2 DEF A
    <3> QED
      BY <2>1, <2>2, <3>1, <3>2 DEF Run
  <2> QED
    BY <2>3, <1>0, <1>4 DEF BeginScan, TypeOK
<1>5. CASE Grouping
  <2>1. SoundStore(db') /\ UNCHANGED <<disk, library, version, remaining>>
    BY <1>0, <1>5, GroupingWrites
  <2>2. ASSUME NEW stage \in Stages, BeginFill(stage)
        PROVE run' \in Run /\ torn' \in {"no", torn}
    <3>1. First(stage) \in Run
      BY <1>0, FirstFacts
    <3>2. run' = Fill(First(stage), db') /\ torn' \in {"no", torn}
      BY <2>2 DEF BeginFill
    <3> QED
      BY <3>1, <3>2, <2>1, FillFacts
  <2>3. ASSUME Group
        PROVE run' \in Run /\ torn' \in {"no", torn}
    <3>1. run' \in {Fill(run, db'), Idle} /\ torn' \in {"no", torn}
      BY <2>3 DEF Group
    <3>2. Fill(run, db') \in Run
      BY <2>1, <1>0, FillFacts DEF TypeOK
    <3> QED
      BY <3>1, <3>2, <1>2
  <2> QED
    BY <2>1, <2>2, <2>3, <1>0, <1>5 DEF Grouping, TypeOK
<1>6. ASSUME NEW f \in Files, Decode(f)
      PROVE run' \in Run /\ Rest
  <2>1. disk[f].audio \in Audio
    BY <1>0 DEF TypeOK
  <2>2. run' = [run EXCEPT !.decoded[f] = disk[f].audio] /\ run \in Run
    BY <1>0, <1>6 DEF Decode, TypeOK
  <2>3. run' \in Run
    BY <2>1, <2>2 DEF Run
  <2> QED
    BY <2>3, <1>0, <1>6 DEF Decode, TypeOK
<1>7. ASSUME NEW f \in Files, NEW ok \in BOOLEAN, StoreOne(f, ok)
      PROVE run' \in Run /\ Rest
  <2> DEFINE x == IF ok THEN run.decoded[f] ELSE run.extracted[f]
  <2>1. run \in Run
    BY <1>0 DEF TypeOK
  <2>2. x \in Audio \union {NoAudio}
    BY <2>1 DEF Run
  <2>3. run' = [run EXCEPT !.pending = @ \ {f}, !.decoded[f] = NoAudio, !.extracted[f] = x]
    BY <1>7 DEF StoreOne
  <2> HIDE DEF x
  <2>4. run' \in Run
    BY <2>1, <2>2, <2>3 DEF Run
  <2>5. remaining' \in [changes : Nat, upgrades : Nat, failures : Nat, breaks : Nat]
    BY <1>0, <1>7 DEF StoreOne, TypeOK
  <2> QED
    BY <2>4, <2>5, <1>0, <1>7 DEF StoreOne, TypeOK
<1>8. CASE Commit
  BY <1>0, <1>8 DEF Commit, TypeOK
<1>9. CASE EndScan
  <2>1. run' \in {Idle, [run EXCEPT !.at = "group"]}
    BY <1>9 DEF EndScan
  <2>2. [run EXCEPT !.at = "group"] \in Run
    BY <1>0 DEF TypeOK, Run
  <2> QED
    BY <2>1, <2>2, <1>2, <1>0, <1>9 DEF EndScan, Forgotten, TypeOK
<1>10. ASSUME NEW g \in run.copies, FillCopy(g)
       PROVE run' \in Run /\ Rest
  <2>1. run' = [run EXCEPT !.copies = @ \ {g}] /\ run \in Run
    BY <1>0, <1>10 DEF FillCopy, TypeOK
  <2>2. run' \in Run
    BY <2>1 DEF Run
  <2> QED
    BY <2>2, <1>0, <1>10 DEF FillCopy, TypeOK
<1>11. ASSUME NEW g \in run.decodes, DecodeWrites(g)
       PROVE run' \in Run /\ Rest
  <2> DEFINE f == Representative(db, g)
             x == Analysed(f)
  <2>1. f \in Files /\ x \in Audio
    BY <1>0, <1>11, DecodeWritesRow
  <2>2. run' = [run EXCEPT !.at = "backfill", !.decodes = @ \ {g}, !.file = f, !.decoded[f] = x] /\ run \in Run
    BY <1>0, <1>11 DEF DecodeWrites, TypeOK
  <2> HIDE DEF f, x
  <2>3. run' \in Run
    BY <2>1, <2>2 DEF Run
  <2> QED
    BY <2>3, <1>0, <1>11 DEF DecodeWrites, TypeOK
<1>12. ASSUME NEW g \in run.decodes, DecodeFails(g)
       PROVE run' \in Run /\ Rest
  <2>1. run' = [run EXCEPT !.decodes = @ \ {g}, !.failed = @ \union {g}] /\ run \in Run
    BY <1>0, <1>12 DEF DecodeFails, TypeOK
  <2>2. run' \in Run
    BY <2>1 DEF Run
  <2>3. remaining' \in [changes : Nat, upgrades : Nat, failures : Nat, breaks : Nat]
    BY <1>0, <1>12 DEF DecodeFails, TypeOK
  <2> QED
    BY <2>2, <2>3, <1>0, <1>12 DEF DecodeFails, TypeOK
<1>13. CASE Backfill
  <2>1. run' = [run EXCEPT !.at = "fill", !.file = None, !.decoded[run.file] = NoAudio] /\ run \in Run
        /\ run.file \in Files
    BY <1>0, <1>13 DEF Backfill, TypeOK, ContentInv
  <2>2. run' \in Run
    BY <2>1 DEF Run
  <2> QED
    BY <2>2, <1>0, <1>13 DEF Backfill, TypeOK
<1>14. ASSUME NEW records \in SUBSET Audio, NEW replace \in BOOLEAN, Import(records, replace)
       PROVE run' \in Run /\ Rest
  BY <1>0, <1>14 DEF Import, TypeOK
<1>15. CASE EndFill
  BY <1>0, <1>2, <1>15 DEF EndFill, TypeOK
<1>16. CASE RequestStop
  <2>1. run' = [run EXCEPT !.stop = TRUE] /\ run \in Run
    BY <1>0, <1>16 DEF RequestStop, TypeOK
  <2>2. run' \in Run
    BY <2>1 DEF Run
  <2>3. remaining' \in [changes : Nat, upgrades : Nat, failures : Nat, breaks : Nat]
    BY <1>0, <1>16 DEF RequestStop, TypeOK
  <2> QED
    BY <2>2, <2>3, <1>0, <1>16 DEF RequestStop, TypeOK
<1>17. CASE Crash
  <2>1. remaining' \in [changes : Nat, upgrades : Nat, failures : Nat, breaks : Nat]
    BY <1>0, <1>17 DEF Crash, TypeOK
  <2> QED
    BY <2>1, <1>0, <1>2, <1>17 DEF Crash, Forgotten, TypeOK
<1>18. CASE ScanLibrary
  BY <1>0, <1>18 DEF ScanLibrary, TypeOK
<1>19. CASE Upgrade
  <2>1. remaining' \in [changes : Nat, upgrades : Nat, failures : Nat, breaks : Nat] /\ version' \in Versions
    BY <1>0, <1>19 DEF Upgrade, TypeOK, Versions
  <2> QED
    BY <2>1, <1>0, <1>19 DEF Upgrade, TypeOK
<1>20. ASSUME NEW x \in Audio, NEW f \in Files, Change(f, x)
       PROVE run' \in Run /\ Rest
  <2>1. remaining' \in [changes : Nat, upgrades : Nat, failures : Nat, breaks : Nat]
    BY <1>0, <1>20 DEF Change, TypeOK
  <2>2. disk' \in [Files -> [stamp : Stamps, audio : Audio]]
    BY <1>0, <1>20 DEF Change, TypeOK, Stamps
  <2> QED
    BY <2>1, <2>2, <1>0, <1>20 DEF Change, TypeOK
<1>21. CASE UNCHANGED vars
  BY <1>0, <1>21 DEF vars, TypeOK
<1>22. ASSUME Filling
       PROVE run' \in Run /\ Rest
  <2> HIDE DEF Rest
  <2> QED
    BY <1>10, <1>11, <1>12, <1>13, <1>14, <1>22, FillDecodeCases DEF Filling
<1> HIDE DEF Rest
<1> QED
  BY <1>4, <1>5, <1>6, <1>7, <1>8, <1>9, <1>15, <1>16, <1>17, <1>18, <1>19, <1>20, <1>21, <1>22, StepCases

LEMMA FillingKeepsRun ==
    ASSUME TypeOK, Filling
    PROVE /\ run'.stamp = run.stamp /\ run'.stage = run.stage /\ run'.extracted = run.extracted
          /\ run.at \in {"idle", "fill", "backfill"} /\ run'.at \in {"idle", "fill", "backfill"}
          /\ run'.at = "idle" <=> run.at = "idle"
<1>0. run \in Run
  BY DEF TypeOK
<1>1. ASSUME NEW g, FillCopy(g)
      PROVE /\ run'.stamp = run.stamp /\ run'.stage = run.stage /\ run'.extracted = run.extracted
            /\ run.at = "fill" /\ run'.at = "fill"
  BY <1>0, <1>1 DEF FillCopy, Run
<1>2. ASSUME NEW g, DecodeWrites(g)
      PROVE /\ run'.stamp = run.stamp /\ run'.stage = run.stage /\ run'.extracted = run.extracted
            /\ run.at = "fill" /\ run'.at = "backfill"
  BY <1>0, <1>2 DEF DecodeWrites, Run
<1>3. ASSUME NEW g, DecodeFails(g)
      PROVE /\ run'.stamp = run.stamp /\ run'.stage = run.stage /\ run'.extracted = run.extracted
            /\ run.at = "fill" /\ run'.at = "fill"
  BY <1>0, <1>3 DEF DecodeFails, Run
<1>4. ASSUME Backfill
      PROVE /\ run'.stamp = run.stamp /\ run'.stage = run.stage /\ run'.extracted = run.extracted
            /\ run.at = "backfill" /\ run'.at = "fill"
  BY <1>0, <1>4 DEF Backfill, Run
<1>5. ASSUME NEW records, NEW replace, Import(records, replace)
      PROVE run' = run /\ run.at = "idle"
  BY <1>5 DEF Import
<1> QED
  BY <1>1, <1>2, <1>3, <1>4, <1>5, FillDecodeCases DEF Filling

LEMMA BeginScanRuns ==
    ASSUME TypeOK, NEW stage \in Stages, BeginScan(stage)
    PROVE /\ run'.at = "scan" /\ run'.stage = stage /\ run'.stamp = library
          /\ run'.pending = Pending /\ run'.affected = {db.files[f].group : f \in Pending} \ {None}
          /\ run'.full = (Ungrouped(db) # {})
          /\ run'.extracted = [f \in Files |-> NoAudio] /\ run'.decoded = [f \in Files |-> NoAudio]
<1> DEFINE r == First(stage)
           A == {db.files[f].group : f \in Pending} \ {None}
<1>1. /\ r \in Run /\ r.stage = stage /\ r.stamp = library /\ r.full = (Ungrouped(db) # {})
      /\ r.extracted = [f \in Files |-> NoAudio] /\ r.decoded = [f \in Files |-> NoAudio]
  BY FirstFacts
<1>2. run' = [r EXCEPT !.at = "scan", !.pending = Pending, !.affected = A]
  BY DEF BeginScan
<1> HIDE DEF r, A
<1>3. /\ run'.at = "scan" /\ run'.pending = Pending /\ run'.affected = A /\ run'.stage = r.stage
      /\ run'.stamp = r.stamp /\ run'.full = r.full
      /\ run'.extracted = r.extracted /\ run'.decoded = r.decoded
  BY <1>1, <1>2 DEF Run
<1> QED
  BY <1>1, <1>3 DEF A

\* What a step that groups makes of the refresh.
LEMMA GroupingRuns ==
    ASSUME TypeOK, SoundStore(db), Grouping
    PROVE \/ run' = Idle
          \/ /\ run'.at = "fill"
             /\ run'.copies \union run'.decodes = StaleGroups(db')
             /\ \/ /\ run'.stamp = library /\ run'.extracted = [f \in Files |-> NoAudio]
                   /\ run'.stage = "all" => Pending = {}
                \/ /\ run.at = "group" /\ run'.stamp = run.stamp /\ run'.extracted = run.extracted
                   /\ run'.stage = run.stage
<1>1. SoundStore(db') /\ run \in Run
  BY GroupingWrites DEF TypeOK
<1>2. ASSUME NEW stage \in Stages, BeginFill(stage)
      PROVE /\ run'.at = "fill" /\ run'.failed = {}
            /\ run'.copies \union run'.decodes = StaleGroups(db')
            /\ run'.stamp = library /\ run'.extracted = [f \in Files |-> NoAudio]
            /\ run'.stage = "all" => Pending = {}
  <2> DEFINE r == First(stage)
  <2>1. r \in Run /\ r.stage = stage /\ r.stamp = library /\ r.failed = {}
        /\ r.extracted = [f \in Files |-> NoAudio]
    BY FirstFacts
  <2>2. run' = Fill(r, db') /\ (stage = "all" => Pending = {})
    BY <1>2 DEF BeginFill
  <2> HIDE DEF r
  <2> QED
    BY <1>1, <2>1, <2>2, FillFacts
<1>3. ASSUME Group
      PROVE \/ run' = Idle
            \/ /\ run'.at = "fill" /\ run'.failed = run.failed
               /\ run'.copies \union run'.decodes = StaleGroups(db')
               /\ run.at = "group" /\ run'.stamp = run.stamp /\ run'.extracted = run.extracted
               /\ run'.stage = run.stage
  <2>1. run.at = "group" /\ run' \in {Fill(run, db'), Idle}
    BY <1>3 DEF Group
  <2> QED
    BY <2>1, <1>1, FillFacts
<1> QED
  BY <1>2, <1>3 DEF Grouping

LEMMA IdleFacts ==
    /\ Idle.at = "idle" /\ Idle.stamp = [f \in Files |-> 0]
    /\ Idle.extracted = [f \in Files |-> NoAudio]
BY DEF Idle

LEMMA StampsAreNumbers ==
    ASSUME TypeOK
    PROVE \A f \in Files : /\ disk[f].stamp \in Nat /\ library[f] \in Nat /\ run.stamp[f] \in Nat
                           /\ db.files[f].stamp \in Nat \union {-1}
                           /\ durable.files[f].stamp \in Nat \union {-1}
BY DEF TypeOK, Run, Stamps, IsStore, Row

LEMMA StampStep ==
    ASSUME IInv, [Next]_vars
    PROVE StampInv'
<1>0. TypeOK /\ SoundStore(db) /\ SoundStore(durable) /\ ContentInv /\ DoneInv /\ StampInv
  BY DEF IInv
<1>1. \A f \in Files : /\ disk[f].stamp \in Nat /\ library[f] \in Nat /\ run.stamp[f] \in Nat
                       /\ db.files[f].stamp \in Nat \union {-1}
                       /\ durable.files[f].stamp \in Nat \union {-1}
  BY <1>0, StampsAreNumbers
<1>2. ASSUME UNCHANGED <<disk, library>>,
             run'.stamp \in {run.stamp, library, [f \in Files |-> 0]},
             \A f \in Files : /\ db'.files[f].stamp \in {db.files[f].stamp, durable.files[f].stamp, run.stamp[f]}
                              /\ durable'.files[f].stamp \in {db.files[f].stamp, durable.files[f].stamp}
      PROVE StampInv'
  BY <1>0, <1>1, <1>2 DEF StampInv
<1>3. CASE Grouping
  <2>1. run'.stamp \in {run.stamp, library, [f \in Files |-> 0]}
    BY <1>0, <1>3, GroupingRuns, IdleFacts
  <2> QED
    BY <2>1, <1>0, <1>2, <1>3, GroupingWrites
<1>4. CASE Filling
  BY <1>0, <1>2, <1>4, FillingKeepsRun, FillingKeepsRows
<1>5. ASSUME NEW stage \in Stages, BeginScan(stage)
      PROVE StampInv'
  <2>1. run'.stamp = library
    BY <1>0, <1>5, BeginScanRuns
  <2> QED
    BY <2>1, <1>2, <1>5 DEF BeginScan
<1>6. ASSUME NEW f \in Files, Decode(f)
      PROVE StampInv'
  <2>1. run'.stamp = run.stamp
    BY <1>0, <1>6 DEF Decode, TypeOK, Run
  <2> QED
    BY <2>1, <1>2, <1>6 DEF Decode
<1>7. ASSUME NEW f \in Files, NEW ok \in BOOLEAN, StoreOne(f, ok)
      PROVE StampInv'
  <2>1. run'.stamp = run.stamp /\ UNCHANGED <<disk, library, durable>>
    BY <1>0, <1>7 DEF StoreOne, TypeOK, Run
  <2>2. db'.files[f].stamp = run.stamp[f] /\ \A x \in Files \ {f} : db'.files[x] = db.files[x]
    BY <1>0, <1>7, StoreOneWrites
  <2> QED
    BY <2>1, <2>2, <1>2
<1>8. CASE Commit
  BY <1>2, <1>8 DEF Commit
<1>9. CASE EndScan
  <2>1. run'.stamp \in {run.stamp, [f \in Files |-> 0]}
    BY <1>0, <1>9, IdleFacts DEF EndScan, TypeOK, Run
  <2> QED
    BY <2>1, <1>2, <1>9 DEF EndScan
<1>10. CASE EndFill
  BY <1>2, <1>10, IdleFacts DEF EndFill
<1>11. CASE RequestStop
  <2>1. run'.stamp = run.stamp
    BY <1>0, <1>11 DEF RequestStop, TypeOK, Run
  <2> QED
    BY <2>1, <1>2, <1>11 DEF RequestStop
<1>12. CASE Crash
  BY <1>2, <1>12, IdleFacts DEF Crash
<1>13. CASE ScanLibrary
  BY <1>0, <1>1, <1>13 DEF ScanLibrary, StampInv
<1>14. CASE Upgrade
  BY <1>2, <1>14 DEF Upgrade
<1>15. ASSUME NEW x \in Audio, NEW f \in Files, Change(f, x)
       PROVE StampInv'
  <2>1. \A y \in Files : disk[y].stamp =< disk'[y].stamp /\ disk'[y].stamp \in Nat
    BY <1>0, <1>1, <1>15 DEF Change, TypeOK
  <2> QED
    BY <2>1, <1>0, <1>1, <1>15 DEF Change, StampInv
<1>16. CASE UNCHANGED vars
  BY <1>2, <1>16 DEF vars
<1> QED
  BY <1>3, <1>4, <1>5, <1>6, <1>7, <1>8, <1>9, <1>10, <1>11, <1>12, <1>13, <1>14, <1>15, <1>16, StepCases

\* What is about to be stored.
ScanTrue ==
    run.at = "scan" => /\ \A f \in Files : run.decoded[f] # NoAudio /\ run.stamp[f] = disk[f].stamp =>
                              run.decoded[f] = disk[f].audio
                       /\ \A f \in run.pending : run.extracted[f] = NoAudio
ExtractedTrue ==
    \A f \in Files : run.extracted[f] # NoAudio /\ db.files[f].stamp = disk[f].stamp =>
        run.extracted[f] = disk[f].audio
BackfillTrue ==
    run.at = "backfill" =>
        /\ run.file \in Files /\ run.decoded[run.file] # NoAudio
        /\ db.files[run.file].stamp = disk[run.file].stamp => run.decoded[run.file] = disk[run.file].audio

LEMMA ContentParts == ContentInv <=> TrueStore(db) /\ TrueStore(durable) /\ ScanTrue /\ ExtractedTrue /\ BackfillTrue
BY DEF ContentInv, ScanTrue, ExtractedTrue, BackfillTrue

LEMMA ContentPartsNext ==
    ContentInv' <=> TrueStore(db)' /\ TrueStore(durable)' /\ ScanTrue' /\ ExtractedTrue' /\ BackfillTrue'
BY DEF ContentInv, ScanTrue, ExtractedTrue, BackfillTrue

\* A refresh that is over knows nothing.
LEMMA IdleTrue ==
    ASSUME run' = Idle
    PROVE ScanTrue' /\ ExtractedTrue' /\ BackfillTrue'
BY IdleFacts DEF ScanTrue, ExtractedTrue, BackfillTrue

LEMMA ContentOfGrouping ==
    ASSUME IInv, Grouping
    PROVE ContentInv'
<1>0. TypeOK /\ SoundStore(db) /\ TrueStore(db) /\ ExtractedTrue
  BY ContentParts DEF IInv
<1>1. /\ durable' = db' /\ UNCHANGED disk
      /\ \A f \in Files : /\ db'.files[f].ok = db.files[f].ok /\ db'.files[f].stamp = db.files[f].stamp
                          /\ db'.files[f].audio = db.files[f].audio
                          /\ db'.fileFeatures[f] = db.fileFeatures[f] \/ ~db.files[f].ok
  BY <1>0, GroupingWrites
<1>2. TrueStore(db)' /\ TrueStore(durable)'
  BY <1>0, <1>1 DEF TrueStore
<1>3. ScanTrue' /\ ExtractedTrue' /\ BackfillTrue'
  <2>1. CASE run' = Idle
    BY <2>1, IdleTrue
  <2>2. CASE run'.at = "fill" /\ (\/ run'.extracted = [f \in Files |-> NoAudio]
                                  \/ run'.extracted = run.extracted)
    BY <2>2, <1>0, <1>1 DEF ScanTrue, ExtractedTrue, BackfillTrue
  <2> QED
    BY <2>1, <2>2, <1>0, GroupingRuns
<1> QED
  BY <1>2, <1>3, ContentPartsNext

LEMMA ContentOfFilling ==
    ASSUME IInv, Filling
    PROVE ContentInv'
<1>0. /\ TypeOK /\ SoundStore(db) /\ SoundStore(durable) /\ DoneInv /\ ContentInv
      /\ TrueStore(db) /\ TrueStore(durable) /\ ExtractedTrue /\ BackfillTrue
  BY ContentParts DEF IInv
<1>1. /\ db'.files = db.files /\ durable' \in {db', durable} /\ UNCHANGED disk
      /\ run'.extracted = run.extracted /\ run'.at # "scan"
  BY <1>0, FillingKeepsRows, FillingKeepsRun
<1>2. ScanTrue' /\ ExtractedTrue'
  BY <1>0, <1>1 DEF ScanTrue, ExtractedTrue
<1>4. ASSUME Backfill
      PROVE TrueStore(db)' /\ TrueStore(durable)'
  <2>1. /\ run.file \in Files /\ run.decoded[run.file] # NoAudio
        /\ db.files[run.file].stamp = disk[run.file].stamp => run.decoded[run.file] = disk[run.file].audio
    BY <1>0, <1>4 DEF BackfillTrue, Backfill
  <2> DEFINE x == [audio |-> run.decoded[run.file], version |-> version]
  <2>2. db'.fileFeatures = [db.fileFeatures EXCEPT ![run.file] = x]
    BY <1>0, <1>4, BackfillWrites
  <2>3. x.audio = run.decoded[run.file]
    OBVIOUS
  <2>4. \A f \in Files : db'.fileFeatures[f] = IF f = run.file THEN x ELSE db.fileFeatures[f]
    <3> HIDE DEF x
    <3> QED
      BY <2>1, <2>2, <1>0 DEF SoundStore, IsStore
  <2> HIDE DEF x
  <2>5. TrueStore(db)'
    BY <2>1, <2>3, <2>4, <1>0, <1>1 DEF TrueStore
  <2>6. durable' = db'
    BY <1>0, <1>4, BackfillWrites
  <2> QED
    BY <2>5, <2>6 DEF TrueStore
<1>5. TrueStore(db)' /\ TrueStore(durable)'
  <2>1. ASSUME NEW g \in run.copies, FillCopy(g)
        PROVE db'.fileFeatures = db.fileFeatures
    BY <2>1, <1>0, CopyWrites DEF RowWritten
  <2>2. ASSUME NEW g \in run.decodes, DecodeWrites(g)
        PROVE db'.fileFeatures = db.fileFeatures
    BY <2>2, <1>0, DecodeWritesRow DEF RowWritten
  <2>3. ASSUME NEW g \in run.decodes, DecodeFails(g)
        PROVE db'.fileFeatures = db.fileFeatures
    BY <2>3 DEF DecodeFails
  <2>4. ASSUME NEW records \in SUBSET Audio, NEW replace \in BOOLEAN, Import(records, replace)
        PROVE db'.fileFeatures = db.fileFeatures
    BY <2>4, <1>0, ImportWrites
  <2>5. db'.fileFeatures = db.fileFeatures \/ Backfill
    BY <2>1, <2>2, <2>3, <2>4, FillDecodeCases DEF Filling
  <2>6. CASE db'.fileFeatures = db.fileFeatures
    <3>1. TrueStore(db)'
      BY <2>6, <1>0, <1>1 DEF TrueStore
    <3>2. TrueStore(durable)'
      BY <2>6, <3>1, <1>0, <1>1 DEF TrueStore
    <3> QED
      BY <3>1, <3>2
  <2> QED
    BY <2>5, <2>6, <1>4
<1>6. BackfillTrue'
  <2>1. ASSUME NEW g \in run.decodes, DecodeWrites(g)
        PROVE BackfillTrue'
    <3> DEFINE f == Representative(db, g)
               x == Analysed(f)
    <3>1. f \in Files /\ x \in Audio
      BY <2>1, <1>0, DecodeWritesRow
    <3>2. db.files[f].stamp = disk[f].stamp => x = disk[f].audio
      BY <3>1, <1>0 DEF ExtractedTrue, Analysed
    <3>3. run' = [run EXCEPT !.at = "backfill", !.decodes = @ \ {g}, !.file = f, !.decoded[f] = x]
      BY <2>1 DEF DecodeWrites
    <3> HIDE DEF f, x
    <3>4. run'.file = f /\ run'.decoded[f] = x
      BY <3>1, <3>3, <1>0 DEF TypeOK, Run
    <3> QED
      BY <3>1, <3>2, <3>4, <1>1, RefreshAssumption DEF BackfillTrue
  <2>2. ASSUME NEW g \in run.copies, FillCopy(g)
        PROVE run'.at = "fill"
    BY <2>2, <1>0 DEF FillCopy, TypeOK, Run
  <2>3. ASSUME NEW g \in run.decodes, DecodeFails(g)
        PROVE run'.at = "fill"
    BY <2>3, <1>0 DEF DecodeFails, TypeOK, Run
  <2>4. ASSUME Backfill
        PROVE run'.at = "fill"
    BY <2>4, <1>0 DEF Backfill, TypeOK, Run
  <2>5. ASSUME NEW records \in SUBSET Audio, NEW replace \in BOOLEAN, Import(records, replace)
        PROVE run'.at = "idle"
    BY <2>5 DEF Import
  <2>6. run'.at \in {"idle", "fill"} => BackfillTrue'
    BY DEF BackfillTrue
  <2> QED
    BY <2>1, <2>2, <2>3, <2>4, <2>5, <2>6, FillDecodeCases DEF Filling
<1> QED
  BY <1>2, <1>5, <1>6, ContentPartsNext

LEMMA ContentOfStore ==
    ASSUME IInv, NEW f \in Files, NEW ok \in BOOLEAN, StoreOne(f, ok)
    PROVE ContentInv'
<1>0. /\ TypeOK /\ SoundStore(db) /\ TrueStore(db) /\ TrueStore(durable) /\ ScanTrue /\ ExtractedTrue
      /\ run \in Run /\ StampInv
  BY ContentParts DEF IInv, TypeOK
<1>1. /\ run.at = "scan" /\ f \in run.pending /\ run.decoded[f] # NoAudio
      /\ UNCHANGED <<disk, library, durable, version>>
  BY DEF StoreOne
<1>2. /\ \A x \in Files \ {f} : db'.files[x] = db.files[x] /\ db'.fileFeatures[x] = db.fileFeatures[x]
      /\ db'.files[f].stamp = run.stamp[f] /\ db'.files[f].ok = ok
      /\ ok => db'.files[f].audio = run.decoded[f]
      /\ ok => db'.fileFeatures[f] = [audio |-> run.decoded[f], version |-> version]
  BY <1>0, StoreOneWrites
<1>3. run.stamp[f] = disk[f].stamp => run.decoded[f] = disk[f].audio
  BY <1>0, <1>1 DEF ScanTrue
<1>4. TrueStore(db)'
  BY <1>0, <1>1, <1>2, <1>3 DEF TrueStore
<1>5. TrueStore(durable)'
  BY <1>0, <1>1 DEF TrueStore
<1> DEFINE e == IF ok THEN run.decoded[f] ELSE run.extracted[f]
<1>6. run' = [run EXCEPT !.pending = @ \ {f}, !.decoded[f] = NoAudio, !.extracted[f] = e]
  BY DEF StoreOne
<1>7. /\ run'.at = "scan" /\ run'.stamp = run.stamp /\ run'.pending = run.pending \ {f}
      /\ run'.decoded[f] = NoAudio /\ run'.extracted[f] = e
      /\ \A x \in Files \ {f} : run'.decoded[x] = run.decoded[x] /\ run'.extracted[x] = run.extracted[x]
  <2> HIDE DEF e
  <2> QED
    BY <1>0, <1>1, <1>6 DEF Run
<1>8. ScanTrue'
  BY <1>0, <1>1, <1>7 DEF ScanTrue, Run
<1>9. ExtractedTrue'
  <2>1. run.extracted[f] = NoAudio
    BY <1>0, <1>1 DEF ScanTrue
  <2> QED
    BY <2>1, <1>0, <1>1, <1>2, <1>3, <1>7 DEF ExtractedTrue
<1>10. BackfillTrue'
  BY <1>7 DEF BackfillTrue
<1> QED
  BY <1>4, <1>5, <1>8, <1>9, <1>10, ContentPartsNext

\* A file that changes has a stamp that nothing was stored under.
LEMMA ContentOfChange ==
    ASSUME IInv, NEW x \in Audio, NEW f \in Files, Change(f, x)
    PROVE ContentInv'
<1>0. /\ TypeOK /\ StampInv /\ TrueStore(db) /\ TrueStore(durable) /\ ScanTrue /\ ExtractedTrue /\ BackfillTrue
  BY ContentParts DEF IInv
<1>1. UNCHANGED <<db, durable, run>> /\ disk' = [disk EXCEPT ![f] = [stamp |-> @.stamp + 1, audio |-> x]]
  BY DEF Change
<1>2. disk'[f].stamp = disk[f].stamp + 1 /\ \A y \in Files \ {f} : disk'[y] = disk[y]
  BY <1>0, <1>1 DEF TypeOK
<1>3. /\ run.stamp[f] # disk'[f].stamp
      /\ db.files[f].stamp # disk'[f].stamp /\ durable.files[f].stamp # disk'[f].stamp
  <2>1. /\ disk[f].stamp \in Nat /\ run.stamp[f] \in Nat
        /\ db.files[f].stamp \in Nat \union {-1} /\ durable.files[f].stamp \in Nat \union {-1}
    BY <1>0, StampsAreNumbers
  <2>2. /\ run.stamp[f] =< disk[f].stamp
        /\ db.files[f].stamp =< disk[f].stamp /\ durable.files[f].stamp =< disk[f].stamp
    BY <1>0 DEF StampInv
  <2> QED
    BY <2>1, <2>2, <1>2
<1>4. TrueStore(db)' /\ TrueStore(durable)'
  BY <1>0, <1>1, <1>2, <1>3 DEF TrueStore
<1>5. ScanTrue' /\ ExtractedTrue'
  BY <1>0, <1>1, <1>2, <1>3 DEF ScanTrue, ExtractedTrue
<1>6. BackfillTrue'
  BY <1>0, <1>1, <1>2, <1>3 DEF BackfillTrue
<1> QED
  BY <1>4, <1>5, <1>6, ContentPartsNext

LEMMA ContentStep ==
    ASSUME IInv, [Next]_vars
    PROVE ContentInv'
<1>0. /\ TypeOK /\ SoundStore(db) /\ run \in Run
      /\ TrueStore(db) /\ TrueStore(durable) /\ ScanTrue /\ ExtractedTrue /\ BackfillTrue
  BY ContentParts DEF IInv, TypeOK
<1>1. ASSUME UNCHANGED disk, db' \in {db, durable}, durable' \in {db, durable}
      PROVE TrueStore(db)' /\ TrueStore(durable)'
  BY <1>0, <1>1 DEF TrueStore
<1>2. ASSUME NEW stage \in Stages, BeginScan(stage)
      PROVE ContentInv'
  <2>1. /\ run'.at = "scan" /\ run'.extracted = [f \in Files |-> NoAudio]
        /\ run'.decoded = [f \in Files |-> NoAudio] /\ run'.pending \subseteq Files
    BY <1>0, <1>2, BeginScanRuns DEF Pending
  <2>2. ScanTrue' /\ ExtractedTrue' /\ BackfillTrue'
    BY <2>1 DEF ScanTrue, ExtractedTrue, BackfillTrue
  <2> QED
    BY <2>2, <1>1, <1>2, ContentPartsNext DEF BeginScan
<1>3. ASSUME NEW f \in Files, Decode(f)
      PROVE ContentInv'
  <2>1. /\ run'.at = run.at /\ run.at = "scan" /\ run'.stamp = run.stamp /\ run'.extracted = run.extracted
        /\ run'.pending = run.pending /\ run'.decoded[f] = disk[f].audio
        /\ \A x \in Files \ {f} : run'.decoded[x] = run.decoded[x]
    BY <1>0, <1>3 DEF Decode, Run
  <2>2. UNCHANGED <<disk, db, durable>>
    BY <1>3 DEF Decode
  <2>3. ScanTrue' /\ ExtractedTrue' /\ BackfillTrue'
    BY <2>1, <2>2, <1>0 DEF ScanTrue, ExtractedTrue, BackfillTrue
  <2> QED
    BY <2>2, <2>3, <1>1, ContentPartsNext
<1>4. ASSUME UNCHANGED <<disk, db>>, durable' \in {db, durable},
             run'.at \in {run.at, "group"}, run'.stamp = run.stamp, run'.extracted = run.extracted,
             run'.decoded = run.decoded, run'.pending = run.pending, run'.file = run.file
      PROVE ContentInv'
  <2>1. ScanTrue' /\ ExtractedTrue' /\ BackfillTrue'
    BY <1>0, <1>4 DEF ScanTrue, ExtractedTrue, BackfillTrue
  <2> QED
    BY <2>1, <1>1, <1>4, ContentPartsNext
<1>5. ASSUME UNCHANGED disk, db' \in {db, durable}, durable' \in {db, durable}, run' = Idle
      PROVE ContentInv'
  BY <1>1, <1>5, IdleTrue, ContentPartsNext
<1>6. CASE Commit
  BY <1>4, <1>6 DEF Commit
<1>7. CASE EndScan
  <2>1. CASE run.stop
    BY <2>1, <1>5, <1>7 DEF EndScan
  <2>2. CASE ~run.stop
    <3>1. run' = [run EXCEPT !.at = "group"] /\ UNCHANGED <<disk, db>> /\ durable' = db
      BY <2>2, <1>7 DEF EndScan
    <3>2. /\ run'.at = "group" /\ run'.stamp = run.stamp /\ run'.extracted = run.extracted
          /\ run'.decoded = run.decoded /\ run'.pending = run.pending /\ run'.file = run.file
      BY <3>1, <1>0 DEF Run
    <3> QED
      BY <3>1, <3>2, <1>4
  <2> QED
    BY <2>1, <2>2
<1>8. CASE EndFill
  BY <1>5, <1>8 DEF EndFill
<1>9. CASE RequestStop
  <2>1. run' = [run EXCEPT !.stop = TRUE] /\ UNCHANGED <<disk, db, durable>>
    BY <1>9 DEF RequestStop
  <2>2. /\ run'.at = run.at /\ run'.stamp = run.stamp /\ run'.extracted = run.extracted
        /\ run'.decoded = run.decoded /\ run'.pending = run.pending /\ run'.file = run.file
    BY <2>1, <1>0 DEF Run
  <2> QED
    BY <2>1, <2>2, <1>4
<1>10. CASE Crash
  BY <1>5, <1>10 DEF Crash
<1>11. CASE ScanLibrary
  BY <1>4, <1>11 DEF ScanLibrary
<1>12. CASE Upgrade
  BY <1>4, <1>12 DEF Upgrade
<1>13. CASE UNCHANGED vars
  BY <1>4, <1>13 DEF vars
<1> QED
  BY <1>2, <1>3, <1>6, <1>7, <1>8, <1>9, <1>10, <1>11, <1>12, <1>13,
     ContentOfGrouping, ContentOfFilling, ContentOfStore, ContentOfChange, StepCases

LEMMA GroupsOfGrouping ==
    ASSUME IInv, Grouping
    PROVE GroupsInv'
<1>0. TypeOK /\ SoundStore(db) /\ GroupsInv
  BY DEF IInv
<1>1. durable' = db' /\ run'.at \in {"idle", "fill"}
  BY <1>0, GroupingWrites, GroupingRuns, IdleFacts
<1>2. ASSUME NEW stage \in Stages, BeginFill(stage)
      PROVE torn' # "here" /\ (torn' = "no" => Clean(db'))
  <2>1. torn # "here"
    BY <1>0, <1>2 DEF BeginFill, GroupsInv
  <2>2. CASE Ungrouped(db) # {}
    <3>1. db' = Regrouped(db, FullGroups(db)) /\ torn' = "no"
      BY <2>2, <1>2 DEF BeginFill, Committed
    <3> QED
      BY <3>1, <1>0, RegroupedIsClean
  <2>3. CASE Ungrouped(db) = {}
    <3>1. db' = db /\ torn' = torn
      BY <2>3, <1>2 DEF BeginFill, Committed
    <3>2. torn = "no" => Clean(db)
      BY <2>3, <1>0 DEF GroupsInv
    <3> QED
      BY <3>1, <3>2, <2>1
  <2> QED
    BY <2>2, <2>3
<1>3. ASSUME Group
      PROVE torn' # "here" /\ (torn' = "no" => Clean(db'))
  <2>1. run.at = "group" /\ torn' = IF run.full \/ torn = "here" THEN "no" ELSE torn
    BY <1>3 DEF Group
  <2>2. CASE run.full
    <3>1. db' = Regrouped(db, FullGroups(db))
      BY <2>2, <1>3 DEF Group, Committed
    <3> QED
      BY <2>1, <2>2, <3>1, <1>0, RegroupedIsClean
  <2>3. CASE ~run.full
    <3>1. db' = Regrouped(db, IncrementalGroups(db, run.affected))
      BY <2>3, <1>3 DEF Group, Committed
    <3>2. torn' = "no" => Intact(db, run.affected)
      BY <2>1, <2>3, <1>0 DEF GroupsInv
    <3> QED
      BY <2>1, <2>3, <3>1, <3>2, <1>0, RegroupedIsClean
  <2> QED
    BY <2>2, <2>3
<1>4. torn' # "here" /\ (torn' = "no" => Clean(db'))
  BY <1>2, <1>3 DEF Grouping
<1> QED
  BY <1>1, <1>4 DEF GroupsInv

LEMMA GroupsOfFilling ==
    ASSUME IInv, Filling
    PROVE GroupsInv'
<1>0. TypeOK /\ SoundStore(db) /\ SoundStore(durable) /\ ContentInv /\ DoneInv /\ GroupsInv
  BY DEF IInv
<1>1. /\ db'.files = db.files /\ db'.groups = db.groups /\ durable' \in {db', durable} /\ torn' = torn
      /\ run.at \in {"idle", "fill", "backfill"} /\ run'.at \in {"idle", "fill", "backfill"}
  BY <1>0, FillingKeepsRows, FillingKeepsRun
<1>2. Grouped(db') = Grouped(db) /\ Ungrouped(db') = Ungrouped(db)
  BY <1>1 DEF Grouped, Ungrouped
<1>3. Clean(db) => Clean(db')
  BY <1>1, <1>2, CleanDependsOn
<1> QED
  BY <1>0, <1>1, <1>2, <1>3 DEF GroupsInv

LEMMA GroupsOfStore ==
    ASSUME IInv, NEW f \in Files, NEW ok \in BOOLEAN, StoreOne(f, ok)
    PROVE GroupsInv'
<1>0. TypeOK /\ SoundStore(db) /\ GroupsInv /\ run \in Run
  BY DEF IInv, TypeOK
<1>1. /\ run.at = "scan" /\ f \in run.pending /\ durable' = durable
      /\ torn' = IF ~ok /\ db.files[f].ok /\ torn = "no" THEN "here" ELSE torn
  BY DEF StoreOne
<1>2. /\ db'.groups = db.groups
      /\ \A x \in Files \ {f} : db'.files[x] = db.files[x]
      /\ db'.files[f].ok = ok /\ db'.files[f].group = None
  BY <1>0, StoreOneWrites
<1>3. run'.at = "scan" /\ run'.pending = run.pending \ {f} /\ run'.full = run.full /\ run'.affected = run.affected
  <2> DEFINE e == IF ok THEN run.decoded[f] ELSE run.extracted[f]
  <2>1. run' = [run EXCEPT !.pending = @ \ {f}, !.decoded[f] = NoAudio, !.extracted[f] = e]
    BY DEF StoreOne
  <2> HIDE DEF e
  <2> QED
    BY <2>1, <1>0, <1>1 DEF Run
<1>4. ASSUME torn' = "no", Ungrouped(db') = {}
      PROVE Clean(db')
  <2>1. ~ok
    BY <1>2, <1>4 DEF Ungrouped, Grouped
  <2>2. ~db.files[f].ok /\ torn = "no"
    BY <2>1, <1>1, <1>4
  <2>3. db.files[f].ok \in BOOLEAN
    BY <1>0 DEF SoundStore, IsStore, Row
  <2>4. Grouped(db') = Grouped(db) /\ f \notin Grouped(db)
    BY <2>1, <2>2, <1>2 DEF Grouped
  <2>5. \A x \in Grouped(db) : db'.files[x] = db.files[x]
    BY <2>4, <1>2 DEF Grouped
  <2>6. Ungrouped(db) = {}
    BY <2>4, <2>5, <1>4 DEF Ungrouped
  <2>7. Clean(db)
    BY <2>2, <2>6, <1>0 DEF GroupsInv
  <2> QED
    BY <2>4, <2>5, <2>7, <1>2, CleanDependsOn
<1>5. ASSUME torn' = "no", Ungrouped(durable') = {}
      PROVE Clean(durable')
  BY <1>0, <1>1, <1>5 DEF GroupsInv
<1>6. ASSUME ~run'.full, torn' # "lost"
      PROVE Intact(db', run'.affected)
  <2>1. Intact(db, run.affected)
    BY <1>0, <1>1, <1>3, <1>6 DEF GroupsInv
  <2>2. Affected(db'.files[f], run.affected) /\ Affected(db.files[f], run.affected)
    BY <1>0, <1>1, <1>2 DEF Affected, GroupsInv
  <2>3. \A x \in Files \ {f} : (x \in Grouped(db') <=> x \in Grouped(db)) /\ db'.files[x] = db.files[x]
    BY <1>2 DEF Grouped
  <2>4. Intact(db', run.affected)
    BY <2>1, <2>2, <2>3, IntactDependsOn
  <2> QED
    BY <2>4, <1>3
<1>7. \A x \in run'.pending : db'.files[x].group \in run'.affected \union {None}
  <2>1. run.pending \subseteq Files
    BY <1>0 DEF Run
  <2> QED
    BY <2>1, <1>0, <1>1, <1>2, <1>3 DEF GroupsInv
<1> QED
  BY <1>3, <1>4, <1>5, <1>6, <1>7 DEF GroupsInv

LEMMA GroupsStep ==
    ASSUME IInv, [Next]_vars
    PROVE GroupsInv'
<1>0. TypeOK /\ SoundStore(db) /\ SoundStore(durable) /\ GroupsInv /\ run \in Run
      /\ torn \in {"no", "here", "lost"}
  BY DEF IInv, TypeOK
<1>1. ASSUME db' \in {db, durable}, durable' \in {db, durable}, torn' = "no" => torn = "no"
      PROVE \A store \in {db', durable'} : torn' = "no" /\ Ungrouped(store) = {} => Clean(store)
  BY <1>0, <1>1 DEF GroupsInv
<1>2. ASSUME db' \in {db, durable}, durable' \in {db, durable}, run' = Idle, torn' = Forgotten
      PROVE GroupsInv'
  BY <1>1, <1>2, IdleFacts DEF GroupsInv, Forgotten
<1>3. ASSUME UNCHANGED <<db, torn>>, durable' \in {db, durable},
             \/ run'.at = run.at
             \/ run'.at = "group" /\ run.at = "scan",
             run'.pending = run.pending, run'.full = run.full, run'.affected = run.affected
      PROVE GroupsInv'
  <2>1. \A store \in {db', durable'} : torn' = "no" /\ Ungrouped(store) = {} => Clean(store)
    BY <1>1, <1>3
  <2> QED
    BY <2>1, <1>0, <1>3 DEF GroupsInv
<1>4. ASSUME NEW stage \in Stages, BeginScan(stage)
      PROVE GroupsInv'
  <2>1. /\ run'.at = "scan" /\ run'.pending = Pending /\ run'.full = (Ungrouped(db) # {})
        /\ run'.affected = {db.files[f].group : f \in Pending} \ {None}
    BY <1>0, <1>4, BeginScanRuns
  <2>2. UNCHANGED <<db, durable, torn>> /\ run.at = "idle"
    BY <1>4 DEF BeginScan
  <2>3. ASSUME ~run'.full, torn' # "lost"
        PROVE Intact(db', run'.affected)
    <3>1. torn = "no" /\ Ungrouped(db) = {}
      BY <2>1, <2>2, <2>3, <1>0 DEF GroupsInv
    <3>2. Clean(db)
      BY <3>1, <1>0 DEF GroupsInv
    <3> QED
      BY <3>1, <3>2, <2>2, <1>0, CleanIsIntact
  <2>4. \A f \in run'.pending : db'.files[f].group \in run'.affected \union {None}
    BY <2>1, <2>2
  <2>5. \A store \in {db', durable'} : torn' = "no" /\ Ungrouped(store) = {} => Clean(store)
    BY <2>2, <1>1
  <2> QED
    BY <2>1, <2>3, <2>4, <2>5 DEF GroupsInv
<1>5. ASSUME NEW f \in Files, Decode(f)
      PROVE GroupsInv'
  <2>1. /\ run'.at = run.at /\ run'.pending = run.pending
        /\ run'.full = run.full /\ run'.affected = run.affected
    BY <1>0, <1>5 DEF Decode, Run
  <2> QED
    BY <2>1, <1>3, <1>5 DEF Decode
<1>6. CASE Commit
  BY <1>3, <1>6 DEF Commit
<1>7. CASE EndScan
  <2>1. CASE run.stop
    BY <2>1, <1>2, <1>7 DEF EndScan
  <2>2. CASE ~run.stop
    <3>1. run' = [run EXCEPT !.at = "group"] /\ UNCHANGED <<db, torn>> /\ durable' = db /\ run.at = "scan"
      BY <2>2, <1>7 DEF EndScan
    <3>2. /\ run'.at = "group" /\ run'.pending = run.pending
          /\ run'.full = run.full /\ run'.affected = run.affected
      BY <3>1, <1>0 DEF Run
    <3> QED
      BY <3>1, <3>2, <1>3
  <2> QED
    BY <2>1, <2>2
<1>8. CASE EndFill
  <2>1. torn # "here"
    BY <1>0, <1>8 DEF EndFill, GroupsInv
  <2>2. torn' = Forgotten
    BY <2>1, <1>8 DEF EndFill, Forgotten
  <2> QED
    BY <2>2, <1>2, <1>8 DEF EndFill
<1>9. CASE RequestStop
  <2>1. /\ run'.at = run.at /\ run'.pending = run.pending
        /\ run'.full = run.full /\ run'.affected = run.affected
    BY <1>0, <1>9 DEF RequestStop, Run
  <2> QED
    BY <2>1, <1>3, <1>9 DEF RequestStop
<1>10. CASE Crash
  BY <1>2, <1>10 DEF Crash
<1>11. CASE ScanLibrary
  BY <1>3, <1>11 DEF ScanLibrary
<1>12. CASE Upgrade
  BY <1>3, <1>12 DEF Upgrade
<1>13. ASSUME NEW x \in Audio, NEW f \in Files, Change(f, x)
       PROVE GroupsInv'
  BY <1>3, <1>13 DEF Change
<1>14. CASE UNCHANGED vars
  BY <1>3, <1>14 DEF vars
<1> QED
  BY <1>4, <1>5, <1>6, <1>7, <1>8, <1>9, <1>10, <1>11, <1>12, <1>13, <1>14,
     GroupsOfGrouping, GroupsOfFilling, GroupsOfStore, StepCases

LEMMA DoneOfGrouping ==
    ASSUME IInv, Grouping
    PROVE DoneInv'
<1>0. TypeOK /\ SoundStore(db) /\ DoneInv
  BY DEF IInv
<1>1. /\ SoundStore(db') /\ Ungrouped(db') = {} /\ version' = version
      /\ \A f \in Files : db'.files[f].stamp = db.files[f].stamp
  BY <1>0, GroupingWrites
<1>2. CASE run' = Idle
  BY <1>2, IdleFacts DEF DoneInv
<1>3. ASSUME run'.at = "fill", run'.copies \union run'.decodes = StaleGroups(db'),
             \/ run'.stamp = library /\ (run'.stage = "all" => Pending = {})
             \/ run.at = "group" /\ run'.stamp = run.stamp
      PROVE DoneInv'
  <2>1. StaleGroups(db)' = StaleGroups(db') /\ StaleGroups(db') \subseteq GroupIdsOf(db')
    BY <1>1 DEF StaleGroups, HasScalars
  <2>2. run'.stage = "all" => \A f \in Files : db'.files[f].stamp = run'.stamp[f]
    BY <1>0, <1>1, <1>3 DEF DoneInv, Pending
  <2> QED
    BY <2>1, <2>2, <1>1, <1>3 DEF DoneInv
<1> QED
  BY <1>0, <1>2, <1>3, GroupingRuns

LEMMA DoneOfFilling ==
    ASSUME IInv, Filling
    PROVE DoneInv'
<1>0. TypeOK /\ SoundStore(db) /\ SoundStore(durable) /\ ContentInv /\ DoneInv /\ run \in Run
  BY DEF IInv, TypeOK
<1>1. /\ db'.files = db.files /\ run'.stamp = run.stamp /\ run'.stage = run.stage /\ version' = version
      /\ run.at \in {"idle", "fill", "backfill"} /\ run'.at \in {"idle", "fill", "backfill"}
      /\ run'.at = "idle" <=> run.at = "idle"
  BY <1>0, FillingKeepsRows, FillingKeepsRun
<1>2. CASE run.at = "idle"
  BY <1>1, <1>2 DEF DoneInv
<1>3. GroupIdsOf(db') = GroupIdsOf(db) /\ Ungrouped(db') = Ungrouped(db)
  BY <1>1 DEF GroupIdsOf, Ungrouped, Grouped
<1>4. ASSUME NEW g \in GroupIdsOf(db), RowWritten(g)
      PROVE StaleGroups(db)' \subseteq StaleGroups(db) \ {g}
  BY <1>1, <1>3, <1>4 DEF RowWritten, StaleGroups, HasScalars
<1>5. ASSUME run.at # "idle", run'.copies \union run'.decodes \subseteq run.copies \union run.decodes,
             StaleGroups(db)' \subseteq run'.copies \union run'.decodes \union run'.failed
      PROVE DoneInv'
  BY <1>0, <1>1, <1>3, <1>5 DEF DoneInv
<1>6. ASSUME run.at # "idle"
      PROVE StaleGroups(db) \subseteq run.copies \union run.decodes \union run.failed
  BY <1>0, <1>1, <1>6 DEF DoneInv
<1>7. ASSUME NEW g \in run.copies, FillCopy(g)
      PROVE DoneInv'
  <2>1. g \in GroupIdsOf(db) /\ RowWritten(g)
    BY <1>0, <1>7, CopyWrites
  <2>2. /\ run.at = "fill" /\ run'.copies = run.copies \ {g} /\ run'.decodes = run.decodes
        /\ run'.failed = run.failed
    BY <1>0, <1>7 DEF FillCopy, Run
  <2> QED
    BY <2>1, <2>2, <1>4, <1>5, <1>6
<1>8. ASSUME NEW g \in run.decodes, DecodeWrites(g)
      PROVE DoneInv'
  <2>1. g \in GroupIdsOf(db) /\ RowWritten(g)
    BY <1>0, <1>8, DecodeWritesRow
  <2>2. /\ run.at = "fill" /\ run'.decodes = run.decodes \ {g} /\ run'.copies = run.copies
        /\ run'.failed = run.failed
    BY <1>0, <1>8 DEF DecodeWrites, Run
  <2> QED
    BY <2>1, <2>2, <1>4, <1>5, <1>6
<1>9. ASSUME NEW g \in run.decodes, DecodeFails(g)
      PROVE DoneInv'
  <2>1. /\ run.at = "fill" /\ run'.decodes = run.decodes \ {g} /\ run'.copies = run.copies
        /\ run'.failed = run.failed \union {g}
    BY <1>0, <1>9 DEF DecodeFails, Run
  <2>2. StaleGroups(db)' = StaleGroups(db)
    BY <1>1, <1>9 DEF DecodeFails, StaleGroups, HasScalars
  <2> QED
    BY <2>1, <2>2, <1>5, <1>6
<1>10. ASSUME Backfill
       PROVE DoneInv'
  <2>1. /\ run.at = "backfill" /\ run'.decodes = run.decodes /\ run'.copies = run.copies
        /\ run'.failed = run.failed
    BY <1>0, <1>10 DEF Backfill, Run
  <2>2. db'.features = db.features
    BY <1>0, <1>10, BackfillWrites
  <2>3. StaleGroups(db)' = StaleGroups(db)
    BY <2>2, <1>1, <1>3 DEF StaleGroups, HasScalars
  <2> QED
    BY <2>1, <2>3, <1>5, <1>6
<1>11. ASSUME NEW records, NEW replace, Import(records, replace)
       PROVE run.at = "idle"
  BY <1>11 DEF Import
<1> QED
  BY <1>2, <1>7, <1>8, <1>9, <1>10, <1>11, FillDecodeCases DEF Filling

LEMMA DoneStep ==
    ASSUME IInv, [Next]_vars
    PROVE DoneInv'
<1>0. TypeOK /\ SoundStore(db) /\ DoneInv /\ run \in Run
  BY DEF IInv, TypeOK
<1>1. ASSUME run'.at = "idle"
      PROVE DoneInv'
  BY <1>1 DEF DoneInv
<1>2. ASSUME UNCHANGED <<db, version>>, run'.at = run.at, run'.stage = run.stage, run'.stamp = run.stamp,
             run'.pending = run.pending, run'.copies = run.copies, run'.decodes = run.decodes,
             run'.failed = run.failed
      PROVE DoneInv'
  <2>1. StaleGroups(db)' = StaleGroups(db)
    BY <1>2 DEF StaleGroups, HasScalars
  <2> QED
    BY <2>1, <1>0, <1>2 DEF DoneInv
<1>3. ASSUME NEW stage \in Stages, BeginScan(stage)
      PROVE DoneInv'
  <2>1. run'.at = "scan" /\ run'.stage = stage /\ run'.stamp = library /\ run'.pending = Pending
    BY <1>0, <1>3, BeginScanRuns
  <2>2. stage # "features" /\ db' = db
    BY <1>3 DEF BeginScan
  <2> QED
    BY <2>1, <2>2 DEF DoneInv, Pending
<1>4. ASSUME NEW f \in Files, Decode(f)
      PROVE DoneInv'
  <2>1. /\ run'.at = run.at /\ run'.stage = run.stage /\ run'.stamp = run.stamp
        /\ run'.pending = run.pending /\ run'.copies = run.copies /\ run'.decodes = run.decodes
        /\ run'.failed = run.failed
    BY <1>0, <1>4 DEF Decode, Run
  <2> QED
    BY <2>1, <1>2, <1>4 DEF Decode
<1>5. ASSUME NEW f \in Files, NEW ok \in BOOLEAN, StoreOne(f, ok)
      PROVE DoneInv'
  <2> DEFINE e == IF ok THEN run.decoded[f] ELSE run.extracted[f]
  <2>1. run' = [run EXCEPT !.pending = @ \ {f}, !.decoded[f] = NoAudio, !.extracted[f] = e] /\ run.at = "scan"
    BY <1>5 DEF StoreOne
  <2> HIDE DEF e
  <2>2. /\ run'.at = "scan" /\ run'.stage = run.stage /\ run'.stamp = run.stamp
        /\ run'.pending = run.pending \ {f}
    BY <2>1, <1>0 DEF Run
  <2>3. db'.files[f].stamp = run.stamp[f] /\ \A x \in Files \ {f} : db'.files[x] = db.files[x]
    BY <1>0, <1>5, StoreOneWrites
  <2> QED
    BY <2>1, <2>2, <2>3, <1>0 DEF DoneInv
<1>6. CASE Commit
  BY <1>2, <1>6 DEF Commit
<1>7. CASE EndScan
  <2>1. CASE run.stop
    BY <2>1, <1>1, <1>7, IdleFacts DEF EndScan
  <2>2. CASE ~run.stop
    <3>1. run' = [run EXCEPT !.at = "group"] /\ db' = db /\ run.at = "scan" /\ run.pending = {}
      BY <2>2, <1>7 DEF EndScan
    <3>2. run'.at = "group" /\ run'.stage = run.stage /\ run'.stamp = run.stamp
      BY <3>1, <1>0 DEF Run
    <3> QED
      BY <3>1, <3>2, <1>0 DEF DoneInv
  <2> QED
    BY <2>1, <2>2
<1>8. CASE EndFill
  BY <1>1, <1>8, IdleFacts DEF EndFill
<1>9. CASE RequestStop
  <2>1. /\ run'.at = run.at /\ run'.stage = run.stage /\ run'.stamp = run.stamp
        /\ run'.pending = run.pending /\ run'.copies = run.copies /\ run'.decodes = run.decodes
        /\ run'.failed = run.failed
    BY <1>0, <1>9 DEF RequestStop, Run
  <2> QED
    BY <2>1, <1>2, <1>9 DEF RequestStop
<1>10. CASE Crash
  BY <1>1, <1>10, IdleFacts DEF Crash
<1>11. CASE ScanLibrary
  BY <1>2, <1>11 DEF ScanLibrary
<1>12. CASE Upgrade
  BY <1>1, <1>12 DEF Upgrade
<1>13. ASSUME NEW x \in Audio, NEW f \in Files, Change(f, x)
       PROVE DoneInv'
  BY <1>2, <1>13 DEF Change
<1>14. CASE UNCHANGED vars
  BY <1>2, <1>14 DEF vars
<1> QED
  BY <1>3, <1>4, <1>5, <1>6, <1>7, <1>8, <1>9, <1>10, <1>11, <1>12, <1>13, <1>14,
     DoneOfGrouping, DoneOfFilling, StepCases


-----------------------------------------------------------------------------
(* The invariant, and what follows from it. *)

LEMMA EmptyFacts ==
    /\ SoundStore(EmptyStore) /\ Grouped(EmptyStore) = {} /\ Ungrouped(EmptyStore) = {}
    /\ Clean(EmptyStore)
    /\ \A f \in Files : EmptyStore.files[f].stamp = -1
<1> DEFINE features == [g \in {} |-> NoScalars]
<1>1. NoRow \in Row /\ NoScalars \in Scalars
  BY DEF NoRow, Row, NoScalars, Scalars, None, Stamps
<1>2. /\ EmptyStore = [files |-> EmptyStore.files, groups |-> EmptyStore.groups,
                       features |-> EmptyStore.features, fileFeatures |-> EmptyStore.fileFeatures]
      /\ EmptyStore.files = [f \in Files |-> NoRow] /\ EmptyStore.groups = {}
      /\ EmptyStore.features = features /\ EmptyStore.fileFeatures = [f \in Files |-> NoScalars]
  BY DEF EmptyStore
<1>3. DOMAIN features = {} /\ features = [g \in DOMAIN features |-> features[g]]
  BY Zenon
<1> HIDE DEF features
<1>4. IsStore(EmptyStore)
  <2> HIDE DEF NoRow, NoScalars
  <2> QED
    BY <1>1, <1>2, <1>3 DEF IsStore
<1>5. \A f \in Files : ~EmptyStore.files[f].ok /\ EmptyStore.files[f].group = None
                       /\ EmptyStore.files[f].stamp = -1
  BY <1>2 DEF NoRow
<1>6. Bounded(EmptyStore.groups \union DOMAIN EmptyStore.features)
  BY <1>2, <1>3 DEF Bounded
<1>7. Grouped(EmptyStore) = {}
  BY <1>5 DEF Grouped
<1>8. Clean(EmptyStore)
  <2>1. {Members(EmptyStore, g) : g \in EmptyStore.groups} = {}
    BY <1>2
  <2>2. FullGroups(EmptyStore) = {}
    BY <1>7 DEF FullGroups, Components
  <2> QED
    BY <2>1, <2>2 DEF Clean
<1> QED
  BY <1>4, <1>5, <1>6, <1>7, <1>8 DEF SoundStore, Ungrouped

LEMMA InitIsIInv ==
    ASSUME Init
    PROVE IInv
<1>1. db = EmptyStore /\ durable = EmptyStore /\ run = Idle /\ torn = "no" /\ version = 1
  BY DEF Init
<1>2. run.at = "idle" /\ (\A f \in Files : run.stamp[f] = 0 /\ run.extracted[f] = NoAudio)
  BY <1>1, IdleFacts
<1>3. (\A f \in Files : disk[f].stamp = 0 /\ library[f] = 0) /\ (\A f \in Files : f \notin Grouped(db))
  BY <1>1, EmptyFacts DEF Init
<1>4. TypeOK
  <2>1. IsStore(db) /\ IsStore(durable) /\ run \in Run
    BY <1>1, EmptyFacts, IdleTyped DEF SoundStore, IdleIsRun
  <2>2. disk \in [Files -> [stamp : Stamps, audio : Audio]] /\ library \in [Files -> Stamps]
    BY RefreshAssumption DEF Init, Stamps
  <2>3. remaining \in [changes : Nat, upgrades : Nat, failures : Nat, breaks : Nat]
    BY RefreshAssumption DEF Init
  <2> QED
    BY <1>1, <2>1, <2>2, <2>3 DEF TypeOK, Versions
<1>5. SoundStore(db) /\ SoundStore(durable)
  BY <1>1, EmptyFacts
<1>6. StampInv
  <2>1. \A f \in Files : db.files[f].stamp = -1 /\ durable.files[f].stamp = -1
    BY <1>1, EmptyFacts
  <2> QED
    BY <1>2, <1>3, <2>1 DEF StampInv
<1>7. ContentInv
  <2>1. \A f \in Files : ~db.files[f].ok /\ ~durable.files[f].ok
    BY <1>1, EmptyFacts DEF Grouped
  <2> QED
    BY <1>2, <2>1 DEF ContentInv, TrueStore
<1>8. GroupsInv
  BY <1>1, <1>2, EmptyFacts DEF GroupsInv
<1>9. DoneInv
  BY <1>2 DEF DoneInv
<1> QED
  BY <1>4, <1>5, <1>6, <1>7, <1>8, <1>9 DEF IInv

LEMMA IInvStep ==
    ASSUME IInv, [Next]_vars
    PROVE IInv'
<1>1. TypeOK'
  BY TypeStep
<1>2. SoundStore(db') /\ SoundStore(durable')
  BY SoundStep
<1>3. StampInv'
  BY StampStep
<1>4. ContentInv'
  BY ContentStep
<1>5. GroupsInv'
  BY GroupsStep
<1>6. DoneInv'
  BY DoneStep
<1>7. SoundStore(db)' /\ SoundStore(durable)'
  BY <1>2 DEF SoundStore, IsStore
<1> QED
  BY <1>1, <1>3, <1>4, <1>5, <1>6, <1>7 DEF IInv

LEMMA Invariance == Spec => []IInv
<1>1. Init => IInv
  BY InitIsIInv
<1>2. IInv /\ [Next]_vars => IInv'
  BY IInvStep
<1> QED
  BY <1>1, <1>2, PTL DEF Spec

\* Every variable keeps its type: among others the stamps and ids are numbers, a refresh never goes on
\* with a group that is none, and what is spent of the bounds is never below zero.
THEOREM TypeCorrect == Spec => []TypeOK
<1>1. IInv => TypeOK
  BY DEF IInv
<1> QED
  BY <1>1, Invariance, PTL

\* What is stored under a file's present stamp is of what the file holds, however often files change
\* while they are decoded, and wherever refreshes break off; a change is assumed to leave the file
\* another stamp.
THEOREM AnalysisTrue == Spec => []AnalysisIsOfFile
<1>1. IInv => AnalysisIsOfFile
  BY DEF IInv, ContentInv, TrueStore, AnalysisIsOfFile
<1> QED
  BY <1>1, Invariance, PTL

\* The groups are the connected components of the files' audio whenever no refresh runs and no row
\* awaits grouping: comparing only the changed files finds the same groups as comparing all.
THEOREM GroupsTrue == Spec => []GroupsAreComponents
<1>1. IInv => GroupsAreComponents
  BY DEF IInv, GroupsInv, Clean, GroupsAreComponents
<1> QED
  BY <1>1, Invariance, PTL

LEMMA OwnScalars ==
    ASSUME IInv, [Next]_vars, NEW g \in GroupIdsOf(db') \intersect DOMAIN db'.features
    PROVE \E f \in Members(db', g) : g \in {db.files[f].group, durable.files[f].group}
<1>0. TypeOK /\ SoundStore(db) /\ SoundStore(durable) /\ ContentInv /\ DoneInv
  BY DEF IInv
<1>1. ASSUME \A f \in Files : db'.files[f].group \in {None, db.files[f].group, durable.files[f].group}
      PROVE \E f \in Members(db', g) : g \in {db.files[f].group, durable.files[f].group}
  <2>1. PICK f \in Grouped(db') : g = db'.files[f].group /\ g # None
    BY DEF GroupIdsOf
  <2>2. f \in Members(db', g) /\ f \in Files
    BY <2>1 DEF Members, Grouped
  <2> QED
    BY <1>1, <2>1, <2>2
<1>2. CASE Grouping
  <2>1. \E f \in Members(db', g) : db.files[f].group = g
    BY <1>0, <1>2, GroupingWrites
  <2> QED
    BY <2>1
<1>3. CASE Filling
  BY <1>0, <1>1, <1>3, FillingKeepsRows
<1>4. ASSUME NEW f \in Files, NEW ok \in BOOLEAN, StoreOne(f, ok)
      PROVE \A x \in Files : db'.files[x].group \in {None, db.files[x].group, durable.files[x].group}
  BY <1>0, <1>4, StoreOneWrites
<1>5. CASE Crash
  BY <1>1, <1>5 DEF Crash
<1>6. CASE db' = db
  BY <1>1, <1>6
<1>7. ASSUME Commit \/ EndScan \/ EndFill \/ RequestStop \/ ScanLibrary \/ Upgrade
      PROVE db' = db
  BY <1>7 DEF Commit, EndScan, EndFill, RequestStop, ScanLibrary, Upgrade
<1>8. ASSUME NEW stage \in Stages, BeginScan(stage)
      PROVE db' = db
  BY <1>8 DEF BeginScan
<1>9. ASSUME NEW f \in Files, Decode(f)
      PROVE db' = db
  BY <1>9 DEF Decode
<1>10. ASSUME NEW x \in Audio, NEW f \in Files, Change(f, x)
       PROVE db' = db
  BY <1>10 DEF Change
<1>11. CASE UNCHANGED vars
  BY <1>6, <1>11 DEF vars
<1> QED
  BY <1>1, <1>2, <1>3, <1>4, <1>5, <1>6, <1>7, <1>8, <1>9, <1>10, <1>11, StepCases

\* A group that keeps or gets an id with scalars has a file that was in the group of that id: a fresh id
\* is above every id that the store ever mentions.
THEOREM RowsFollow == Spec => RowFollowsFiles
<1>1. IInv /\ [Next]_vars => [\A g \in GroupIdsOf(db') \intersect DOMAIN db'.features :
            \E f \in Members(db', g) : g \in {db.files[f].group, durable.files[f].group}]_vars
  BY OwnScalars
<1> QED
  BY <1>1, Invariance, PTL DEF Spec, RowFollowsFiles

\* Only the end of the filling takes a refresh from there to its end without a use of the bounds.
LEMMA FinishIsEnd ==
    ASSUME IInv, [Next]_vars, Finishes
    PROVE EndFill
<1>0. TypeOK /\ SoundStore(db) /\ remaining \in [changes : Nat, upgrades : Nat, failures : Nat, breaks : Nat]
  BY DEF IInv, TypeOK
<1>1. run.at = "fill" /\ run'.at = "idle" /\ ~run.stop /\ remaining' = remaining
  BY DEF Finishes
<1>2. ASSUME NEW stage \in Stages, BeginScan(stage)
      PROVE FALSE
  BY <1>1, <1>2 DEF BeginScan
<1>3. CASE Grouping
  BY <1>1, <1>3 DEF Grouping, BeginFill, Group
<1>4. CASE Filling
  BY <1>0, <1>1, <1>4, FillingKeepsRun
<1>5. ASSUME NEW f \in Files, Decode(f)
      PROVE FALSE
  BY <1>1, <1>5 DEF Decode
<1>6. ASSUME NEW f \in Files, NEW ok \in BOOLEAN, StoreOne(f, ok)
      PROVE FALSE
  BY <1>1, <1>6 DEF StoreOne
<1>7. CASE Commit \/ EndScan
  BY <1>1, <1>7 DEF Commit, EndScan
<1>8. CASE RequestStop \/ Crash
  <2>1. remaining' = [remaining EXCEPT !.breaks = @ - 1] /\ remaining.breaks > 0
    BY <1>8 DEF RequestStop, Crash
  <2>2. remaining'.breaks = remaining.breaks - 1
    BY <1>0, <2>1
  <2> QED
    BY <1>0, <1>1, <2>2
<1>9. CASE ScanLibrary \/ Upgrade
  BY <1>1, <1>9 DEF ScanLibrary, Upgrade
<1>10. ASSUME NEW x \in Audio, NEW f \in Files, Change(f, x)
       PROVE FALSE
  BY <1>1, <1>10 DEF Change
<1>11. CASE UNCHANGED vars
  BY <1>1, <1>11 DEF vars
<1> QED
  BY <1>2, <1>3, <1>4, <1>5, <1>6, <1>7, <1>8, <1>9, <1>10, <1>11, StepCases

\* A full refresh that ends by itself has analysed and grouped every file of the library as it was when
\* the refresh began, and left no group without scalars of this version but those that could not be
\* decoded, whatever earlier refreshes left behind.
THEOREM RefreshIsComplete == Spec => RefreshCompletes
<1>1. ASSUME IInv, [Next]_vars, Finishes, run.stage = "all"
      PROVE /\ \A f \in Files : db.files[f].stamp = run.stamp[f]
            /\ Ungrouped(db) = {}
            /\ StaleGroups(db) \subseteq run.failed
  <2>1. EndFill
    BY <1>1, FinishIsEnd
  <2>2. run.copies \union run.decodes = {} /\ run.at = "fill"
    BY <1>1, <2>1 DEF EndFill, Finishes
  <2> QED
    BY <1>1, <2>2 DEF IInv, DoneInv
<1>2. IInv /\ [Next]_vars => [Finishes /\ run.stage = "all" =>
        /\ \A f \in Files : db.files[f].stamp = run.stamp[f]
        /\ Ungrouped(db) = {}
        /\ StaleGroups(db) \subseteq run.failed]_vars
  BY <1>1
<1> QED
  BY <1>2, Invariance, PTL DEF Spec, RefreshCompletes
=============================================================================
