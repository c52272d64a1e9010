-------------------------- MODULE PlayerCore_proofs --------------------------
(***************************************************************************)
(* Proofs about PlayerCore, for any tracks and lists and any bounds.       *)
(***************************************************************************)
EXTENDS PlayerCore, FiniteSetTheorems, SequenceTheorems, TLAPS

----------------------------------------------------------------------------
(* Positions: how many rows of a set come before one, and the rows picked. *)

LEMMA BeforeIsFinite ==
    ASSUME NEW n \in Nat, NEW S, \A x \in S : x \in 0 .. n - 1, NEW i \in Int
    PROVE  /\ IsFiniteSet(S) /\ Cardinality(S) \in Nat
           /\ IsFiniteSet({j \in S : j < i}) /\ Before(S, i) \in 0 .. Cardinality(S)
           /\ i < 0 => Before(S, i) = 0
           /\ i >= n => Before(S, i) = Cardinality(S)
<1>1. IsFiniteSet(S)
  <2>1. IsFiniteSet(0 .. n - 1)
    BY FS_Interval
  <2>2. S \in SUBSET (0 .. n - 1)
    OBVIOUS
  <2> QED
    BY <2>1, <2>2, FS_Subset
<1>2. {j \in S : j < i} \in SUBSET S
  OBVIOUS
<1>3. /\ IsFiniteSet({j \in S : j < i})
      /\ Cardinality({j \in S : j < i}) <= Cardinality(S)
  BY <1>1, <1>2, FS_Subset
<1>4. Cardinality(S) \in Nat /\ Cardinality({j \in S : j < i}) \in Nat
  BY <1>1, <1>3, FS_CardinalityType
<1>5. i < 0 => {j \in S : j < i} = {}
  OBVIOUS
<1>6. i >= n => {j \in S : j < i} = S
  OBVIOUS
<1> QED
  BY <1>1, <1>3, <1>4, <1>5, <1>6, FS_EmptySet DEF Before

LEMMA BeforeGrows ==
    ASSUME NEW n \in Nat, NEW S, \A x \in S : x \in 0 .. n - 1, NEW i \in Int, NEW k \in Int, i <= k
    PROVE  /\ Before(S, i) <= Before(S, k)
           /\ i \in S /\ i < k => Before(S, i) < Before(S, k)
<1> DEFINE low == {j \in S : j < i}
           high == {j \in S : j < k}
<1>1. low \in SUBSET high
  OBVIOUS
<1>2. IsFiniteSet(high) /\ IsFiniteSet(low)
  BY BeforeIsFinite
<1>3. Cardinality(low) <= Cardinality(high) /\ (Cardinality(low) = Cardinality(high) => high = low)
  BY <1>1, <1>2, FS_Subset
<1>4. i \in S /\ i < k => high # low
  OBVIOUS
<1>5. Cardinality(low) \in Nat /\ Cardinality(high) \in Nat
  BY <1>2, FS_CardinalityType
<1> QED
  BY <1>3, <1>4, <1>5 DEF Before

LEMMA BeforeMember ==
    ASSUME NEW n \in Nat, NEW S, \A x \in S : x \in 0 .. n - 1, NEW i \in S
    PROVE  Before(S, i) \in 0 .. Cardinality(S) - 1
<1>1. i \in Int /\ n \in Int /\ n >= n /\ i < n /\ i <= n
  OBVIOUS
<1>2. Before(S, i) < Before(S, n)
  BY <1>1, BeforeGrows
<1>3. Before(S, n) = Cardinality(S)
  BY <1>1, BeforeIsFinite
<1>4. Cardinality(S) \in Nat /\ Before(S, i) \in 0 .. Cardinality(S)
  BY <1>1, BeforeIsFinite
<1> QED
  BY <1>2, <1>3, <1>4

LEMMA RankIsUnique ==
    ASSUME NEW n \in Nat, NEW S, \A x \in S : x \in 0 .. n - 1, NEW i \in S, NEW k \in S,
           Before(S, i) = Before(S, k)
    PROVE  i = k
<1>1. i \in Int /\ k \in Int
  OBVIOUS
<1>2. Before(S, i) \in Int /\ Before(S, k) \in Int
  <2>1. Before(S, i) \in 0 .. Cardinality(S) - 1
    BY BeforeMember
  <2>2. Before(S, k) \in 0 .. Cardinality(S) - 1
    BY BeforeMember
  <2> QED
    BY <2>1, <2>2
<1>3. ASSUME i < k PROVE FALSE
  <2>1. i <= k
    BY <1>1, <1>3
  <2>2. Before(S, i) < Before(S, k)
    BY <1>1, <1>3, <2>1, BeforeGrows
  <2> QED
    BY <1>2, <2>2
<1>4. ASSUME k < i PROVE FALSE
  <2>1. k <= i
    BY <1>1, <1>4
  <2>2. Before(S, k) < Before(S, i)
    BY <1>1, <1>4, <2>1, BeforeGrows
  <2> QED
    BY <1>2, <2>2
<1> QED
  BY <1>1, <1>3, <1>4

\* Every rank below the size is that of one member.
LEMMA RankIsTaken ==
    ASSUME NEW n \in Nat, NEW S, \A x \in S : x \in 0 .. n - 1, NEW k \in 0 .. Cardinality(S) - 1
    PROVE  \E i \in S : Before(S, i) = k
<1> DEFINE m == Cardinality(S)
           rank == [i \in S |-> Before(S, i)]
<1>1. m \in Nat /\ IsFiniteSet(S)
  BY BeforeIsFinite
<1>2. IsFiniteSet(0 .. m - 1) /\ Cardinality(0 .. m - 1) = m
  BY <1>1, FS_Interval
<1>3. rank \in [S -> 0 .. m - 1]
  BY BeforeMember
<1>4. \A i, j \in S : rank[i] = rank[j] => i = j
  BY RankIsUnique
<1>5. rank \in Injection(S, 0 .. m - 1)
  BY <1>3, <1>4 DEF Injection, IsInjective
<1>6. rank \in Surjection(S, 0 .. m - 1)
  BY <1>2, <1>5, FS_Injection
<1> HIDE DEF rank
<1>7. \E i \in S : rank[i] = k
  BY <1>6 DEF Surjection
<1> QED
  BY <1>7 DEF rank

\* Counting the rows that are not in a set.
LEMMA BeforeComplement ==
    ASSUME NEW n \in Nat, NEW S, \A x \in S : x \in 0 .. n - 1, NEW i \in 0 .. n
    PROVE  Before((0 .. n - 1) \ S, i) = i - Before(S, i)
<1> DEFINE low == 0 .. i - 1
           part == {j \in S : j < i}
<1>1. IsFiniteSet(low) /\ Cardinality(low) = i
  BY FS_Interval
<1>2. {j \in (0 .. n - 1) \ S : j < i} = low \ part
  OBVIOUS
<1>3. low \cap part = part
  OBVIOUS
<1>4. Cardinality(low \ part) = Cardinality(low) - Cardinality(low \cap part)
  BY <1>1, FS_Difference
<1> QED
  BY <1>1, <1>2, <1>3, <1>4 DEF Before

\* The rows picked are those of the set, each at its rank.
LEMMA Picked ==
    ASSUME NEW R, NEW q \in Seq(R), NEW S, \A x \in S : x \in RowsOf(q)
    PROVE  LET p == PickRows(q, S)
           IN  /\ p \in Seq(R) /\ Len(p) = Cardinality(S) /\ Len(p) \in Nat
               /\ \A i \in S : Before(S, i) \in RowsOf(p) /\ p[Before(S, i) + 1] = q[i + 1]
               /\ \A k \in RowsOf(p) : \E i \in S : Before(S, i) = k
<1> DEFINE n == Len(q)
           m == Cardinality(S)
           at(k) == CHOOSE i \in S : Cardinality({j \in S : j < i}) = k - 1
           p == PickRows(q, S)
<1>1. n \in Nat /\ (\A x \in S : x \in 0 .. n - 1)
  BY LenProperties DEF RowsOf
<1>a. m \in Nat
  <2>1. 0 \in Int
    OBVIOUS
  <2> QED
    BY <1>1, <2>1, BeforeIsFinite
<1>2. \A k \in 1 .. m : \E i \in S : Cardinality({j \in S : j < i}) = k - 1
  <2> TAKE k \in 1 .. m
  <2>1. k - 1 \in 0 .. m - 1
    BY <1>a
  <2>2. \E i \in S : Before(S, i) = k - 1
    BY <1>1, <2>1, RankIsTaken
  <2> QED
    BY <2>2 DEF Before
<1>3. \A k \in 1 .. m : at(k) \in S /\ Before(S, at(k)) = k - 1
  BY <1>2 DEF Before
<1> HIDE DEF at
<1>4. p = [k \in 1 .. m |-> q[1 + at(k)]]
  BY DEF PickRows, at
<1>5. \A k \in 1 .. m : q[1 + at(k)] \in R
  <2> TAKE k \in 1 .. m
  <2>1. at(k) \in 0 .. n - 1
    BY <1>1, <1>3
  <2>2. 1 + at(k) \in 1 .. Len(q)
    BY <1>1, <2>1
  <2> QED
    BY <2>2, ElementOfSeq
<1>6. p \in [1 .. m -> R]
  BY <1>4, <1>5
<1>7. p \in Seq(R) /\ Len(p) = m
  BY <1>a, <1>6, SeqDef, LenProperties
<1>8. ASSUME NEW i \in S
      PROVE  Before(S, i) \in RowsOf(p) /\ p[Before(S, i) + 1] = q[i + 1]
  <2>1. Before(S, i) \in 0 .. m - 1
    BY <1>1, BeforeMember
  <2>2. Before(S, i) + 1 \in 1 .. m
    BY <1>a, <2>1
  <2>3. at(Before(S, i) + 1) \in S /\ Before(S, at(Before(S, i) + 1)) = Before(S, i)
    BY <1>1, <1>3, <1>a, <2>1, <2>2
  <2>4. at(Before(S, i) + 1) = i
    BY <1>1, <2>3, RankIsUnique
  <2>5. i \in Int
    BY <1>1
  <2> QED
    BY <1>4, <1>7, <1>a, <2>1, <2>2, <2>4, <2>5 DEF RowsOf
<1>9. ASSUME NEW k \in RowsOf(p) PROVE \E i \in S : Before(S, i) = k
  BY <1>1, <1>7, RankIsTaken DEF RowsOf
<1> QED
  BY <1>a, <1>7, <1>8, <1>9

----------------------------------------------------------------------------
(* Sequences of rows: one spliced into another, some removed, some moved. *)

\* b, put into a after its first rows.
Spliced(a, at, b) == SubSeq(a, 1, at) \o b \o SubSeq(a, at + 1, Len(a))

LEMMA Splicing ==
    ASSUME NEW R, NEW a \in Seq(R), NEW b \in Seq(R), NEW at \in 0 .. Len(a)
    PROVE  LET s == Spliced(a, at, b)
           IN  /\ s \in Seq(R) /\ Len(s) = Len(a) + Len(b)
               /\ \A k \in 1 .. at : s[k] = a[k]
               /\ \A k \in 1 .. Len(b) : s[at + k] = b[k]
               /\ \A k \in at + 1 .. Len(a) : s[k + Len(b)] = a[k]
<1> DEFINE left == SubSeq(a, 1, at)
           right == SubSeq(a, at + 1, Len(a))
           most == left \o b
<1>1. Len(a) \in Nat /\ Len(b) \in Nat /\ at \in Int /\ at + 1 \in Int /\ 1 \in Int
  BY LenProperties
<1>2. \A k \in 1 .. Len(a) : a[k] \in R
  BY ElementOfSeq
<1>3. /\ left \in Seq(R) /\ Len(left) = at
      /\ \A k \in 1 .. at : left[k] = a[k]
  <2>1. \A k \in 1 .. at : a[k] \in R
    BY <1>1, <1>2
  <2>2. /\ left \in Seq(R) /\ Len(left) = IF 1 <= at THEN at - 1 + 1 ELSE 0
        /\ \A k \in 1 .. at - 1 + 1 : left[k] = a[1 + k - 1]
    BY <1>1, <2>1, SubSeqProperties
  <2> QED
    BY <1>1, <2>2
<1>4. /\ right \in Seq(R) /\ Len(right) = Len(a) - at
      /\ \A k \in 1 .. Len(a) - at : right[k] = a[at + k]
  <2>1. \A k \in at + 1 .. Len(a) : a[k] \in R
    BY <1>1, <1>2
  <2>2. /\ right \in Seq(R)
        /\ Len(right) = IF at + 1 <= Len(a) THEN Len(a) - (at + 1) + 1 ELSE 0
        /\ \A k \in 1 .. Len(a) - (at + 1) + 1 : right[k] = a[(at + 1) + k - 1]
    BY <1>1, <2>1, SubSeqProperties
  <2> QED
    BY <1>1, <2>2
<1>5. /\ most \in Seq(R) /\ Len(most) = at + Len(b)
      /\ \A k \in 1 .. at + Len(b) : most[k] = IF k <= at THEN left[k] ELSE b[k - at]
  BY <1>3, ConcatProperties
<1>6. /\ most \o right \in Seq(R) /\ Len(most \o right) = Len(a) + Len(b)
      /\ \A k \in 1 .. Len(a) + Len(b) :
             (most \o right)[k] = IF k <= at + Len(b) THEN most[k] ELSE right[k - (at + Len(b))]
  <2>1. (at + Len(b)) + (Len(a) - at) = Len(a) + Len(b)
    BY <1>1
  <2>2. /\ most \o right \in Seq(R) /\ Len(most \o right) = Len(most) + Len(right)
        /\ \A k \in 1 .. Len(most) + Len(right) :
               (most \o right)[k] = IF k <= Len(most) THEN most[k] ELSE right[k - Len(most)]
    BY <1>4, <1>5, ConcatProperties
  <2> QED
    BY <1>4, <1>5, <2>1, <2>2
<1>7. Spliced(a, at, b) = most \o right
  BY DEF Spliced
<1> HIDE DEF left, right, most
<1>8. \A k \in 1 .. at : (most \o right)[k] = a[k]
  BY <1>1, <1>3, <1>5, <1>6
<1>9. \A k \in 1 .. Len(b) : (most \o right)[at + k] = b[k]
  <2> TAKE k \in 1 .. Len(b)
  <2>1. /\ at + k \in 1 .. at + Len(b) /\ at + k \in 1 .. Len(a) + Len(b)
        /\ ~(at + k <= at) /\ at + k <= at + Len(b) /\ (at + k) - at = k
    BY <1>1
  <2> QED
    BY <1>5, <1>6, <2>1
<1>10. \A k \in at + 1 .. Len(a) : (most \o right)[k + Len(b)] = a[k]
  <2> TAKE k \in at + 1 .. Len(a)
  <2>1. /\ k + Len(b) \in 1 .. Len(a) + Len(b) /\ ~(k + Len(b) <= at + Len(b))
        /\ (k + Len(b)) - (at + Len(b)) = k - at
        /\ k - at \in 1 .. Len(a) - at /\ at + (k - at) = k
    BY <1>1
  <2>2. right[k - at] = a[at + (k - at)]
    BY <1>4, <2>1
  <2> QED
    BY <1>6, <2>1, <2>2
<1> QED
  BY <1>6, <1>7, <1>8, <1>9, <1>10

SplicedAt(R, s, a, at, b) ==
    /\ s \in Seq(R) /\ Len(s) = Len(a) + Len(b)
    /\ \A k \in 1 .. at : s[k] = a[k]
    /\ \A k \in 1 .. Len(b) : s[at + k] = b[k]

LEMMA SplicingAt ==
    ASSUME NEW R, NEW a \in Seq(R), NEW b \in Seq(R), NEW at \in 0 .. Len(a)
    PROVE  SplicedAt(R, Spliced(a, at, b), a, at, b)
<1> DEFINE s == Spliced(a, at, b)
<1>1. /\ s \in Seq(R) /\ Len(s) = Len(a) + Len(b)
      /\ \A k \in 1 .. at : s[k] = a[k]
      /\ \A k \in 1 .. Len(b) : s[at + k] = b[k]
  <2>1. LET x == Spliced(a, at, b)
        IN  /\ x \in Seq(R) /\ Len(x) = Len(a) + Len(b)
            /\ \A k \in 1 .. at : x[k] = a[k]
            /\ \A k \in 1 .. Len(b) : x[at + k] = b[k]
            /\ \A k \in at + 1 .. Len(a) : x[k + Len(b)] = a[k]
    BY Splicing
  <2> QED
    BY <2>1, Zenon
<1> HIDE DEF s
<1>2. SplicedAt(R, s, a, at, b)
  BY <1>1 DEF SplicedAt
<1> QED
  BY <1>2 DEF s

\* The rows that are left when some are removed.
Left(q, removed) == PickRows(q, RowsOf(q) \ removed)

LeftOf(R, p, q, removed, i) ==
    LET at == i - Before(removed, i)
    IN  /\ p \in Seq(R) /\ Len(p) = Cardinality(RowsOf(q) \ removed)
        /\ Len(p) \in 0 .. Len(q)
        /\ Before(RowsOf(q) \ removed, i) = at /\ at \in 0 .. Len(p)
        /\ i \in RowsOf(q) \ removed => at \in RowsOf(p) /\ p[at + 1] = q[i + 1]

LEMMA Removal ==
    ASSUME NEW R, NEW q \in Seq(R), NEW removed, \A x \in removed : x \in RowsOf(q),
           NEW i \in 0 .. Len(q)
    PROVE  LeftOf(R, Left(q, removed), q, removed, i)
<1> DEFINE n == Len(q)
           S == RowsOf(q) \ removed
           p == Left(q, removed)
<1>1. n \in Nat /\ n \in Int /\ i \in Int /\ (\A x \in S : x \in 0 .. n - 1)
      /\ (\A x \in S : x \in RowsOf(q)) /\ (\A x \in removed : x \in 0 .. n - 1)
      /\ n >= n /\ S = (0 .. n - 1) \ removed
  BY LenProperties DEF RowsOf
<1>2. /\ p \in Seq(R) /\ Len(p) = Cardinality(S) /\ Len(p) \in Nat
      /\ \A k \in S : Before(S, k) \in RowsOf(p) /\ p[Before(S, k) + 1] = q[k + 1]
  BY <1>1, Picked DEF Left
<1>3. Before(S, i) = i - Before(removed, i)
  BY <1>1, BeforeComplement
<1>4. Before(S, n) = n - Before(removed, n)
  <2>1. n \in 0 .. n
    BY <1>1
  <2> QED
    BY <1>1, <2>1, BeforeComplement
<1>5. Before(S, n) = Cardinality(S) /\ Before(removed, n) \in 0 .. Cardinality(removed)
  BY <1>1, BeforeIsFinite
<1>6. Before(S, i) \in 0 .. Cardinality(S)
  BY <1>1, BeforeIsFinite
<1>7. Cardinality(removed) \in Nat
  BY <1>1, BeforeIsFinite
<1>8. Len(p) \in 0 .. Len(q)
  BY <1>1, <1>2, <1>4, <1>5, <1>7
<1>9. i - Before(removed, i) \in 0 .. Len(p)
  BY <1>2, <1>3, <1>6
<1>10. ASSUME i \in S
       PROVE  /\ Before(S, i) \in RowsOf(p)
              /\ p[Before(S, i) + 1] = q[i + 1]
  BY <1>2, <1>10
<1>11. i \in S => /\ i - Before(removed, i) \in RowsOf(p)
                 /\ p[i - Before(removed, i) + 1] = q[i + 1]
  BY <1>3, <1>10
<1> HIDE DEF p
<1> QED
  BY <1>2, <1>3, <1>8, <1>9, <1>11 DEF LeftOf, p

\* The queue after moveRows().
Moved(q, moved, at) == Spliced(Left(q, moved), at, PickRows(q, moved))

LEMMA Moving ==
    ASSUME NEW R, queue \in Seq(R), queueIndex \in -1 .. Len(queue) - 1,
           NEW moved, \A x \in moved : x \in RowsOf(queue), NEW destination \in 0 .. Len(queue)
    PROVE  LET at == destination - Before(moved, destination)
               q  == Moved(queue, moved, at)
               i  == CurrentAfterMove(moved, at)
           IN  /\ q \in Seq(R) /\ Len(q) = Len(queue)
               /\ i \in -1 .. Len(q) - 1
               /\ i >= 0 => queueIndex >= 0 /\ q[i + 1] = queue[queueIndex + 1]
<1> DEFINE n == Len(queue)
           at == destination - Before(moved, destination)
           left == Left(queue, moved)
           picked == PickRows(queue, moved)
           m == Cardinality(moved)
           q == Moved(queue, moved, at)
           i == CurrentAfterMove(moved, at)
<1>1. /\ n \in Nat /\ n \in Int /\ n >= n /\ (\A x \in moved : x \in 0 .. n - 1) /\ n \in 0 .. n
      /\ RowsOf(queue) = 0 .. n - 1
  BY LenProperties DEF RowsOf
<1>a. LeftOf(R, left, queue, moved, destination)
  BY Removal
<1>b. LeftOf(R, left, queue, moved, n)
  BY <1>1, Removal
<1>2. left \in Seq(R) /\ Len(left) \in Nat /\ at \in 0 .. Len(left)
  BY <1>a, <1>1 DEF LeftOf
<1>3. Len(left) = n - m
  <2>1. Before(RowsOf(queue) \ moved, n) = n - Before(moved, n)
        /\ Len(left) = Cardinality(RowsOf(queue) \ moved)
    BY <1>b DEF LeftOf
  <2>2. Before(moved, n) = m
    BY <1>1, BeforeIsFinite
  <2>3. \A x \in RowsOf(queue) \ moved : x \in 0 .. n - 1
    BY <1>1
  <2>4. Before(RowsOf(queue) \ moved, n) = Cardinality(RowsOf(queue) \ moved)
    BY <1>1, <2>3, BeforeIsFinite
  <2> QED
    BY <2>1, <2>2, <2>4
<1>4. /\ picked \in Seq(R) /\ Len(picked) = m /\ m \in Nat
      /\ \A k \in moved : Before(moved, k) \in RowsOf(picked)
                          /\ picked[Before(moved, k) + 1] = queue[k + 1]
  BY Picked
<1>5. /\ q \in Seq(R) /\ Len(q) = Len(left) + Len(picked)
      /\ \A k \in 1 .. at : q[k] = left[k]
      /\ \A k \in 1 .. Len(picked) : q[at + k] = picked[k]
      /\ \A k \in at + 1 .. Len(left) : q[k + Len(picked)] = left[k]
  BY <1>2, <1>4, Splicing DEF Moved
<1>6. ASSUME queueIndex \in moved, queueIndex >= 0
      PROVE  i \in 0 .. n - 1 /\ q[i + 1] = queue[queueIndex + 1]
  <2>1. Before(moved, queueIndex) \in 0 .. m - 1
        /\ picked[Before(moved, queueIndex) + 1] = queue[queueIndex + 1]
    BY <1>4, <1>6 DEF RowsOf
  <2>2. i = at + Before(moved, queueIndex)
    BY <1>6, <1>1 DEF CurrentAfterMove
  <2> HIDE DEF i, at, q, left, picked, m
  <2> DEFINE b == Before(moved, queueIndex)
  <2>a. b \in 0 .. m - 1 /\ i = at + b /\ at \in Int /\ m \in Nat /\ Len(picked) = m
        /\ Len(left) \in Nat /\ at <= Len(left) /\ at >= 0 /\ Len(left) = n - m
        /\ picked[b + 1] = queue[queueIndex + 1]
    BY <1>2, <1>3, <1>4, <2>1, <2>2
  <2> HIDE DEF b
  <2>b. q[at + (b + 1)] = picked[b + 1] /\ picked[b + 1] = queue[queueIndex + 1]
    <3>1. b + 1 \in 1 .. Len(picked)
      BY <2>a
    <3> QED
      BY <1>5, <2>a, <3>1
  <2>3. at + (b + 1) = i + 1 /\ i \in 0 .. n - 1
    <3>1. n \in Int
      BY <1>1
    <3>2. b \in Int /\ b >= 0 /\ b < m /\ at + b <= n - m + b
      BY <3>1, <2>a
    <3> QED
      BY <3>1, <3>2, <2>a
  <2> QED
    BY <2>b, <2>3
<1>7. ASSUME queueIndex \notin moved, queueIndex >= 0
      PROVE  i \in 0 .. n - 1 /\ q[i + 1] = queue[queueIndex + 1]
  <2> DEFINE behind == queueIndex - Before(moved, queueIndex)
  <2>0. queueIndex \in 0 .. Len(queue) /\ queueIndex \in RowsOf(queue) \ moved
    BY <1>1, <1>7
  <2>1. behind \in RowsOf(left) /\ left[behind + 1] = queue[queueIndex + 1]
    <3>1. LeftOf(R, left, queue, moved, queueIndex)
      BY <2>0, Removal
    <3> QED
      BY <2>0, <3>1 DEF LeftOf
  <2>2. i = IF at <= behind THEN behind + m ELSE behind
    BY <1>1, <1>7 DEF CurrentAfterMove
  <2> HIDE DEF i, at, q, left, picked, m, behind
  <2>3. behind \in 0 .. Len(left) - 1
    BY <2>1 DEF RowsOf
  <2>4. CASE at <= behind
    <3>1. behind + 1 \in at + 1 .. Len(left) /\ i + 1 = (behind + 1) + Len(picked)
      BY <1>2, <1>4, <2>2, <2>3, <2>4
    <3>2. q[(behind + 1) + Len(picked)] = left[behind + 1]
      BY <1>5, <3>1
    <3>3. i \in 0 .. n - 1
      BY <1>1, <1>2, <1>3, <1>4, <2>2, <2>3, <2>4
    <3> QED
      BY <2>1, <3>1, <3>2, <3>3
  <2>5. CASE ~(at <= behind)
    <3>1. behind + 1 \in 1 .. at /\ i = behind
      BY <1>2, <2>2, <2>3, <2>5
    <3>2. q[behind + 1] = left[behind + 1]
      BY <1>5, <3>1
    <3>3. i \in 0 .. n - 1
      BY <1>1, <1>2, <1>3, <1>4, <2>3, <3>1
    <3> QED
      BY <2>1, <3>1, <3>2, <3>3
  <2> QED
    BY <2>4, <2>5
<1>8. queueIndex < 0 => i = -1
  BY DEF CurrentAfterMove
<1>9. Len(q) = n
  <2>1. Len(q) = Len(left) + Len(picked)
    BY <1>5
  <2> HIDE DEF q, left, picked, m
  <2> QED
    BY <1>1, <1>3, <1>4, <2>1
<1>10. queueIndex >= 0 => i \in 0 .. n - 1 /\ q[i + 1] = queue[queueIndex + 1]
  BY <1>6, <1>7
<1> HIDE DEF q, i
<1>11. /\ q \in Seq(R) /\ Len(q) = Len(queue) /\ i \in -1 .. Len(q) - 1
       /\ i >= 0 => queueIndex >= 0 /\ q[i + 1] = queue[queueIndex + 1]
  BY <1>1, <1>5, <1>8, <1>9, <1>10
<1> QED
  BY <1>11 DEF q, i

----------------------------------------------------------------------------
(* The types, part by part, and the invariants. *)

QueueRows == [track : Tracks, asked : BOOLEAN]
Choice == [index : Int, injected : OptTrack]

RowsOK ==
    /\ queue \in Seq(QueueRows) /\ Len(queue) =< MaxQueue
    /\ queueIndex \in -1 .. Len(queue) - 1
    /\ playNextInsertIndex \in -1 .. Len(queue)
TrailOK ==
    /\ visited \subseteq RowsOf(queue)
    /\ history \in Seq(RowsOf(queue)) /\ forward \in Seq(RowsOf(queue))
ModesOK ==
    /\ repeatMode \in RepeatModes /\ shuffleMode \in ShuffleModes
    /\ radioActive \in BOOLEAN
ShownOK ==
    /\ currentTrack \in OptTrack /\ pendingStagedStart \in OptTrack
    /\ announced \in OptTrack /\ silent \in BOOLEAN
PromptOK ==
    /\ dsdPending \in [track : OptTrack, notify : BOOLEAN]
    /\ skipDsdBlock \in BOOLEAN
    /\ skipping \in 0 .. MaxQueue + 2
OfferOK ==
    /\ preparedNext \in Choice /\ prepared \in OptTrack
    /\ stopPending \in BOOLEAN
SoundOK ==
    /\ source \in OptTrack /\ armed \in OptTrack
    /\ state \in {"Stopped", "Playing", "Paused", "Error"}
    /\ started \in BOOLEAN
TimerOK == stopAfter \in Deadline .. MaxStop

Types == RowsOK /\ TrailOK /\ ModesOK /\ ShownOK /\ PromptOK /\ OfferOK /\ SoundOK /\ TimerOK

LEMMA TypesAreTypes == Types => TypeOK
BY DEF Types, RowsOK, TrailOK, ModesOK, ShownOK, PromptOK, OfferOK, SoundOK, TimerOK,
       TypeOK, QueueRows, Choice

\* A takeover prompt is about a DSD track.
PromptInv == dsdPending.track \in DsdTracks \union {NoTrack}

\* What is handed over, or may be.
OfferInv == PreparedIsNextRow /\ LastCountedNeverHandsOver /\ NoPreloadAcrossDsd

\* The row shown is the one that is loaded, or (when an abandoned takeover prompt was
\* accepted) at least the current one of the queue.
ShownInv ==
    Stable /\ source # NoTrack =>
        \/ currentTrack = source
        \/ queueIndex >= 0 => TrackAt(queue, queueIndex) = currentTrack

\* The loaded row was announced, or is staged and will be when it is resumed.
Staged ==
    /\ state = "Paused" /\ pendingStagedStart = source /\ currentTrack = source
    /\ queueIndex >= 0 => TrackAt(queue, queueIndex) = source
HeardInv == Stable /\ source # NoTrack /\ ~silent => announced = source \/ Staged

\* What is staged is what is loaded, and to be announced.
StagedInv == source # NoTrack /\ pendingStagedStart # NoTrack
                 => pendingStagedStart = source /\ ~silent

\* Only what is loaded plays, and only what is armed is started.
LoudInv == (state = "Playing" => source # NoTrack) /\ (started => armed # NoTrack)

IInv == Types /\ PromptInv /\ OfferInv /\ ShownInv /\ StagedInv /\ HeardInv /\ LoudInv

LEMMA Consts ==
    /\ NoTrack \notin Tracks /\ NoTrack \notin DsdTracks /\ NoTrack \notin Unresolvable
    /\ Unresolvable \subseteq Tracks /\ DsdTracks \subseteq Tracks
    /\ MaxStop \in Nat /\ MaxQueue \in Nat \ {0}
    /\ Deadline = -1
BY CoreAssumption DEF Deadline

LEMMA RowFacts ==
    ASSUME NEW q \in Seq(QueueRows)
    PROVE  /\ Len(q) \in Nat /\ RowsOf(q) = 0 .. Len(q) - 1
           /\ \A i \in RowsOf(q) : TrackAt(q, i) \in Tracks /\ q[i + 1] \in QueueRows
<1>1. Len(q) \in Nat
  BY LenProperties
<1>2. ASSUME NEW i \in RowsOf(q)
      PROVE  TrackAt(q, i) \in Tracks /\ q[i + 1] \in QueueRows
  <2>1. i + 1 \in 1 .. Len(q)
    BY <1>1 DEF RowsOf
  <2>2. q[i + 1] \in QueueRows
    BY <2>1, ElementOfSeq
  <2> QED
    BY <2>2 DEF QueueRows, TrackAt
<1> QED
  BY <1>1, <1>2 DEF RowsOf

----------------------------------------------------------------------------
(* What plays next. *)

\* A choice is a row of the queue, none, or a track pulled into a queue that has room.
LEMMA Decided ==
    ASSUME NEW p, NEW vis,
           p.queue \in Seq(QueueRows), p.index \in -1 .. Len(p.queue) - 1,
           p.forward \in Seq(RowsOf(p.queue)), vis \subseteq RowsOf(p.queue),
           NEW c \in DecideAutoNext(p, vis)
    PROVE  /\ c.next \in Choice /\ c.visited \subseteq RowsOf(p.queue)
           /\ c.next.injected # NoTrack
                  => c.next.injected \in Tracks /\ Len(p.queue) < MaxQueue
<1> DEFINE Fine(x) == /\ x.next \in Choice /\ x.visited \subseteq RowsOf(p.queue)
                      /\ x.next.injected # NoTrack
                             => x.next.injected \in Tracks /\ Len(p.queue) < MaxQueue
           Mark(i, v) == [next |-> NextRow(i), visited |-> v]
<1>1. Len(p.queue) \in Nat /\ RowsOf(p.queue) = 0 .. Len(p.queue) - 1
  BY RowFacts
<1>2. ASSUME NEW i \in Int, NEW v, v \subseteq RowsOf(p.queue) PROVE Fine(Mark(i, v))
  BY <1>2 DEF NextRow, Choice, OptTrack
<1>3. ASSUME NEW t \in Pulls(p.queue)
      PROVE  Fine([next |-> [index |-> -1, injected |-> t], visited |-> vis])
  <2>1. t \in Tracks /\ Len(p.queue) < MaxQueue
    BY DEF Pulls
  <2> QED
    BY <2>1 DEF Choice, OptTrack
<1>4. NoNext = NextRow(-1)
  BY DEF NoNext, NextRow
<1>5. ASSUME NEW f, f = p.forward[Len(p.forward)], p.forward # <<>>
      PROVE  Clamp(f, 0, Len(p.queue) - 1) \in Int
  <2>1. Len(p.forward) \in 1 .. Len(p.forward)
    BY <1>5, EmptySeq, LenProperties
  <2>2. f \in RowsOf(p.queue)
    BY <1>5, <2>1, ElementOfSeq
  <2> QED
    BY <1>1, <2>2 DEF Clamp
<1>6. ASSUME NEW x \in PickShuffle(p, vis), p.index >= 0 PROVE Fine(x)
  <2>1. \E i \in Int, v \in SUBSET RowsOf(p.queue) : x = Mark(i, v)
    <3>1. {p.index} \subseteq RowsOf(p.queue) /\ p.index \in Int /\ RowsOf(p.queue) \subseteq Int
      BY <1>1, <1>6
    <3> QED
      BY <1>6, <3>1 DEF PickShuffle
  <2> QED
    BY <1>2, <2>1
<1> HIDE DEF Fine
<1>7. CASE p.queue = <<>> \/ p.index < 0
  <2>1. c = Mark(-1, vis)
    BY <1>7, <1>4 DEF DecideAutoNext
  <2> QED
    BY <1>2, <2>1 DEF Fine
<1>8. CASE p.queue # <<>> /\ p.index >= 0
  <2>1. \/ \E i \in Int : c = Mark(i, vis)
        \/ c \in PickShuffle(p, vis)
        \/ \E t \in Pulls(p.queue) : c = [next |-> [index |-> -1, injected |-> t], visited |-> vis]
    <3>1. p.index + 1 \in Int /\ -1 \in Int /\ 0 \in Int
      BY <1>1
    <3>2. CASE p.shuffle # "Off" /\ p.forward # <<>>
      BY <1>8, <3>2, <1>5 DEF DecideAutoNext
    <3>3. CASE ~(p.shuffle # "Off" /\ p.forward # <<>>)
      BY <1>8, <3>1, <3>3, <1>4 DEF DecideAutoNext
    <3> QED
      BY <3>2, <3>3
  <2> QED
    BY <1>2, <1>3, <1>6, <1>8, <2>1 DEF Fine
<1> QED
  BY <1>7, <1>8, <1>1

----------------------------------------------------------------------------
(* What the pieces of the handlers do. *)

\* What is offered to the backend while the track now is current.
Offered(now) ==
    /\ stopPending' = (stopAfter' = 1)
    /\ prepared' # NoTrack =>
           /\ stopAfter' # 1
           /\ preparedNext'.index \in RowsOf(queue')
           /\ TrackAt(queue', preparedNext'.index) = prepared'
           /\ now \notin DsdTracks /\ prepared' \notin DsdTracks

LEMMA Preparing ==
    ASSUME NEW now, NEW vis,
           RowsOK', forward' \in Seq(RowsOf(queue')), vis \subseteq RowsOf(queue'),
           PrepareNext(vis, now)
    PROVE  Offered(now) /\ OfferOK' /\ visited' \subseteq RowsOf(queue')
<1> DEFINE choices == IF queueIndex' < 0 \/ repeatMode' = "One"
                      THEN {[next |-> NoNext, visited |-> vis]}
                      ELSE DecideAutoNext(Policy', vis)
<1>1. PICK c \in choices :
          /\ preparedNext' = c.next
          /\ visited' = IF shuffleMode' = "Off" THEN {} ELSE c.visited
          /\ stopPending' = (stopAfter' = 1)
          /\ prepared' = IF stopAfter' # 1 /\ Gapless(queue', c.next, now)
                         THEN TrackAt(queue', c.next.index) ELSE NoTrack
  BY DEF PrepareNext
<1>2. c.next \in Choice /\ c.visited \subseteq RowsOf(queue')
  <2>1. CASE queueIndex' < 0 \/ repeatMode' = "One"
    BY <2>1 DEF NoNext, Choice, OptTrack
  <2>2. CASE ~(queueIndex' < 0 \/ repeatMode' = "One")
    <3>1. /\ Policy'.queue = queue' /\ Policy'.index = queueIndex' /\ Policy'.forward = forward'
      BY DEF Policy
    <3>2. c \in DecideAutoNext(Policy', vis)
      BY <2>2
    <3>3. /\ Policy'.queue \in Seq(QueueRows) /\ Policy'.index \in -1 .. Len(Policy'.queue) - 1
          /\ Policy'.forward \in Seq(RowsOf(Policy'.queue)) /\ vis \subseteq RowsOf(Policy'.queue)
      BY <3>1 DEF RowsOK
    <3> HIDE DEF choices
    <3>4. c.next \in Choice /\ c.visited \subseteq RowsOf(Policy'.queue)
      BY <3>2, <3>3, Decided
    <3> QED
      BY <3>1, <3>4
  <2> QED
    BY <2>1, <2>2
<1> HIDE DEF choices
<1>3. /\ prepared' # NoTrack =>
             /\ stopAfter' # 1
             /\ preparedNext'.index \in RowsOf(queue')
             /\ TrackAt(queue', preparedNext'.index) = prepared'
             /\ now \notin DsdTracks /\ prepared' \notin DsdTracks
  BY <1>1 DEF Gapless
<1>4. prepared' \in OptTrack
  <2>1. \A i \in RowsOf(queue') : TrackAt(queue', i) \in Tracks
    BY RowFacts DEF RowsOK
  <2> QED
    BY <1>1, <2>1 DEF Gapless, OptTrack
<1>5. stopPending' \in BOOLEAN /\ preparedNext' \in Choice /\ visited' \subseteq RowsOf(queue')
  BY <1>1, <1>2
<1> QED
  BY <1>1, <1>3, <1>4, <1>5 DEF Offered, OfferOK

\* The track t is loaded anew, and announced or not.
Begun(t, notify) ==
    /\ t # NoTrack /\ source' = t /\ currentTrack' = t /\ armed' = NoTrack /\ ~started'
    /\ pendingStagedStart' = NoTrack /\ skipping' = 0
    /\ announced' = (IF notify THEN t ELSE announced) /\ silent' = ~notify
    /\ Offered(t)

RowBegun == \E notify \in BOOLEAN :
    queueIndex' \in RowsOf(queue') /\ Begun(TrackAt(queue', queueIndex'), notify)

\* Another round of the skipping loop is due: there are rows that may be skipped.
Skipped ==
    /\ skipping' # 0 /\ pendingStagedStart' = NoTrack
    /\ UNCHANGED <<source, state, armed, started>>
    /\ Unresolvable \union DsdTracks # {} \/ dsdPending.track # NoTrack

\* Nothing is loaded, and nothing handed over.
Halted ==
    /\ source' = NoTrack /\ prepared' = NoTrack /\ armed' = NoTrack
    /\ skipping' \in {skipping, 0}
    /\ state' = "Playing" => state = "Playing" /\ source = NoTrack
    /\ started' => started /\ armed = NoTrack

PromptKept == dsdPending'.track \in {dsdPending.track, NoTrack} \union DsdTracks

\* What is typed by what a start of a row does.
StartOK == ShownOK' /\ PromptOK' /\ OfferOK' /\ SoundOK' /\ visited' \subseteq RowsOf(queue')

LEMMA Starting ==
    ASSUME NEW t \in Tracks, NEW notify \in BOOLEAN, NEW paused \in BOOLEAN, NEW vis,
           Types, RowsOK', forward' \in Seq(RowsOf(queue')), vis \subseteq RowsOf(queue'),
           skipDsdBlock' \in BOOLEAN, StartTrack(t, notify, paused, vis)
    PROVE  Begun(t, notify) /\ StartOK /\ PromptKept
<1>1. vis \union ({queueIndex'} \intersect RowsOf(queue')) \subseteq RowsOf(queue')
  OBVIOUS
<1>2. Offered(t) /\ OfferOK' /\ visited' \subseteq RowsOf(queue')
  BY <1>1, Preparing DEF StartTrack
<1>3. Begun(t, notify)
  BY <1>2, Consts DEF StartTrack, Load, Begun
<1>4. ShownOK'
  BY DEF StartTrack, ShownOK, OptTrack, Types
<1>5. SoundOK'
  BY DEF StartTrack, Load, SoundOK, OptTrack
<1>6. PromptOK' /\ PromptKept
  BY Consts DEF StartTrack, PromptOK, NoPrompt, OptTrack, PromptKept
<1> QED
  BY <1>2, <1>3, <1>4, <1>5, <1>6 DEF StartOK

LEMMA SkippingOn ==
    ASSUME NEW vis, NEW rounds \in 1 .. MaxQueue + 2,
           Types, vis \subseteq RowsOf(queue'), skipDsdBlock' \in BOOLEAN, Skip(rounds, vis),
           Unresolvable \union DsdTracks # {} \/ dsdPending.track # NoTrack
    PROVE  Skipped /\ StartOK /\ PromptKept
<1>1. Skipped
  BY DEF Skip, Skipped
<1>2. ShownOK' /\ OfferOK' /\ visited' \subseteq RowsOf(queue')
  BY DEF Skip, ShownOK, OfferOK, Types, NoNext, Choice, OptTrack, report
<1>3. PromptOK' /\ PromptKept
  BY Consts DEF Skip, PromptOK, NoPrompt, OptTrack, PromptKept
<1>4. SoundOK'
  BY DEF Skip, SoundOK, Types
<1> QED
  BY <1>1, <1>2, <1>3, <1>4 DEF StartOK

\* Playing the current row starts it, skips it, or asks first.
LEMMA PlayingCurrent ==
    ASSUME NEW notify \in BOOLEAN, NEW paused \in BOOLEAN, NEW vis,
           NEW rounds \in 1 .. MaxQueue + 2,
           Types, RowsOK', forward' \in Seq(RowsOf(queue')), vis \subseteq RowsOf(queue'),
           queueIndex' \in RowsOf(queue'), PlayCurrent(notify, paused, vis, rounds)
    PROVE  StartOK /\ PromptKept /\ (RowBegun \/ Skipped \/ Halted)
<1> DEFINE t == TrackAt(queue', queueIndex')
<1>1. t \in Tracks
  BY RowFacts DEF RowsOK
<1>2. CASE /\ StartTrack(t, notify, paused, vis)
           /\ skipDsdBlock' = (skipDsdBlock /\ paused)
  <2>1. skipDsdBlock' \in BOOLEAN
    BY <1>2
  <2> HIDE DEF t
  <2>2. Begun(t, notify) /\ StartOK /\ PromptKept
    BY <1>1, <1>2, <2>1, Starting
  <2> QED
    BY <2>2 DEF RowBegun, t
<1>3. CASE /\ t \in Unresolvable \union DsdTracks
           /\ Skip(rounds, vis) /\ UNCHANGED skipDsdBlock
  <2>1. skipDsdBlock' \in BOOLEAN /\ Unresolvable \union DsdTracks # {}
    BY <1>3 DEF Types, PromptOK
  <2> QED
    BY <1>3, <2>1, SkippingOn
<1>4. CASE /\ t \in DsdTracks /\ BackendStop
           /\ dsdPending' = [track |-> t, notify |-> notify]
           /\ pendingStagedStart' = NoTrack
           /\ skipping' = 0 /\ visited' = vis
           /\ UNCHANGED <<skipDsdBlock, stopPending, preparedNext, currentTrack, report>>
  <2>1. Halted /\ PromptKept
    BY <1>4 DEF BackendStop, Halted, PromptKept
  <2> HIDE DEF t
  <2>2. ShownOK' /\ OfferOK' /\ visited' \subseteq RowsOf(queue')
    BY <1>4 DEF BackendStop, ShownOK, OfferOK, OptTrack, Types, report
  <2>3. PromptOK'
    BY <1>1, <1>4, Consts DEF PromptOK, OptTrack, Types
  <2>4. SoundOK'
    BY <1>4 DEF BackendStop, SoundOK, OptTrack
  <2> QED
    BY <2>1, <2>2, <2>3, <2>4 DEF StartOK
<1>5. \/ /\ StartTrack(t, notify, paused, vis)
         /\ skipDsdBlock' = (skipDsdBlock /\ paused)
      \/ /\ t \in Unresolvable \union DsdTracks
         /\ Skip(rounds, vis) /\ UNCHANGED skipDsdBlock
      \/ /\ t \in DsdTracks /\ BackendStop
         /\ dsdPending' = [track |-> t, notify |-> notify]
         /\ pendingStagedStart' = NoTrack
         /\ skipping' = 0 /\ visited' = vis
         /\ UNCHANGED <<skipDsdBlock, stopPending, preparedNext, currentTrack, report>>
  BY Zenon DEF PlayCurrent
<1> QED
  BY <1>2, <1>3, <1>4, <1>5

\* playAt() of a row, in a queue that may have grown.
Played == StartOK /\ PromptKept /\ (RowBegun \/ Skipped \/ Halted)

LEMMA PlayingAt ==
    ASSUME NEW i \in RowsOf(queue'), NEW pni \in Int, NEW vis,
           NEW rounds \in 1 .. MaxQueue + 2,
           Types, queue' \in Seq(QueueRows), Len(queue') =< MaxQueue,
           forward' \in Seq(RowsOf(queue')), vis \subseteq RowsOf(queue'),
           PlayAt(i, pni, vis, rounds)
    PROVE  RowsOK' /\ Played
<1>1. Len(queue') \in Nat /\ i \in 0 .. Len(queue') - 1
  BY RowFacts
<1>2. queueIndex' = i /\ playNextInsertIndex' = Collapse(pni, i, Len(queue'))
      /\ PlayCurrent(TRUE, FALSE, vis, rounds)
  BY DEF PlayAt
<1>3. RowsOK'
  BY <1>1, <1>2 DEF RowsOK, Collapse
<1>4. queueIndex' \in RowsOf(queue')
  BY <1>2
<1> QED
  BY <1>2, <1>3, <1>4, PlayingCurrent DEF Played

\* The trail keeps to the rows when the queue does not shrink.
Grows == RowsOf(queue) \subseteq RowsOf(queue')

LEMMA RowsGrow ==
    ASSUME NEW S, NEW T, S \subseteq T, NEW s \in Seq(S)
    PROVE  s \in Seq(T)
BY SeqMonotonic

LEMMA TrailGrows ==
    ASSUME Types, Grows
    PROVE  /\ visited \subseteq RowsOf(queue')
           /\ history \in Seq(RowsOf(queue')) /\ forward \in Seq(RowsOf(queue'))
<1>1. history \in Seq(RowsOf(queue)) /\ forward \in Seq(RowsOf(queue)) /\ visited \subseteq RowsOf(queue)
  BY DEF Types, TrailOK
<1>2. RowsOf(queue) \subseteq RowsOf(queue')
  BY DEF Grows
<1> QED
  BY <1>1, <1>2, RowsGrow

LEMMA Pushing ==
    ASSUME Types, Grows, NEW i, PushHistory(i)
    PROVE  history' \in Seq(RowsOf(queue'))
<1>1. history \in Seq(RowsOf(queue')) /\ RowsOf(queue) \subseteq RowsOf(queue')
  BY TrailGrows DEF Grows
<1>2. CASE history' = history
  BY <1>1, <1>2
<1>3. CASE i \in RowsOf(queue) /\ history' = Append(history, i)
  <2>1. i \in RowsOf(queue')
    BY <1>1, <1>3
  <2> QED
    BY <1>1, <1>3, <2>1, AppendProperties
<1> QED
  BY <1>2, <1>3 DEF PushHistory

LEMMA Shortened ==
    ASSUME NEW S, NEW s \in Seq(S), NEW n \in Int, n <= Len(s)
    PROVE  SubSeq(s, 1, n) \in Seq(S)
<1>1. \A k \in 1 .. n : s[k] \in S
  <2> TAKE k \in 1 .. n
  <2>1. k \in 1 .. Len(s)
    BY LenProperties
  <2> QED
    BY <2>1, ElementOfSeq
<1> QED
  BY <1>1, SubSeqProperties

LEMMA Forwarding ==
    ASSUME Types, Grows, NEW from, NEW to, RecordForwardStep(from, to)
    PROVE  history' \in Seq(RowsOf(queue')) /\ forward' \in Seq(RowsOf(queue'))
<1>1. forward \in Seq(RowsOf(queue'))
  BY TrailGrows
<1>2. history' \in Seq(RowsOf(queue'))
  BY Pushing DEF RecordForwardStep
<1>3. SubSeq(forward, 1, Len(forward) - 1) \in Seq(RowsOf(queue'))
  <2>1. Len(forward) - 1 \in Int /\ Len(forward) - 1 <= Len(forward)
    BY <1>1, LenProperties
  <2> QED
    BY <1>1, <2>1, Shortened
<1>4. forward' \in Seq(RowsOf(queue'))
  BY <1>3, EmptySeq DEF RecordForwardStep
<1> QED
  BY <1>2, <1>4

LEMMA NoTrail == \A S : <<>> \in Seq(S)
BY EmptySeq

\* A queue with a row appended, when there is room.
LEMMA Appended ==
    ASSUME Types, NEW t \in Tracks, Len(queue) < MaxQueue,
           queue' = Append(queue, [track |-> t, asked |-> FALSE])
    PROVE  /\ queue' \in Seq(QueueRows) /\ Len(queue') =< MaxQueue /\ Grows
           /\ Len(queue) \in RowsOf(queue')
           /\ \A i \in RowsOf(queue) : queue'[i + 1] = queue[i + 1]
<1>1. [track |-> t, asked |-> FALSE] \in QueueRows
  BY DEF QueueRows
<1>2. queue \in Seq(QueueRows) /\ Len(queue) \in Nat
  BY RowFacts DEF Types, RowsOK
<1>3. /\ queue' \in Seq(QueueRows) /\ Len(queue') = Len(queue) + 1
      /\ \A k \in 1 .. Len(queue) : queue'[k] = queue[k]
  BY <1>1, <1>2, AppendProperties
<1> QED
  BY <1>2, <1>3, Consts DEF Grows, RowsOf

----------------------------------------------------------------------------
(* The kinds of steps: what each does to the row shown, to what is heard and *)
(* to what is offered.                                                       *)

\* The track of an accepted takeover prompt is loaded.
Resolved == \E notify \in BOOLEAN :
    dsdPending.track # NoTrack /\ Begun(dsdPending.track, notify)

\* The queue or a mode was changed under the loaded row, and what is offered chosen anew.
RowKept ==
    queueIndex' >= 0 =>
        \/ TrackAt(queue', queueIndex') = currentTrack
        \/ queueIndex >= 0 /\ TrackAt(queue', queueIndex') = TrackAt(queue, queueIndex)
ShownKept ==
 /\ pendingStagedStart' \in {pendingStagedStart, NoTrack}
 /\ \/ /\ currentTrack' = currentTrack
       /\ \/ pendingStagedStart' = pendingStagedStart /\ silent' = silent
          \/ pendingStagedStart' = NoTrack /\ silent'
    \/ /\ queueIndex >= 0 /\ currentTrack' = TrackAt(queue, queueIndex)
       /\ queueIndex' >= 0 /\ currentTrack' = TrackAt(queue', queueIndex')
       /\ silent' = silent
       /\ \/ pendingStagedStart' = pendingStagedStart
          \/ ~(pendingStagedStart = currentTrack /\ currentTrack = TrackAt(queue, queueIndex))
Redecided ==
    /\ ~started /\ UNCHANGED <<source, state, announced, skipping>>
    /\ armed' = NoTrack /\ ~started' /\ Offered(currentTrack)
    /\ source # NoTrack => RowKept /\ ShownKept

\* A row that is loaded already becomes current.
Landed ==
    /\ queueIndex' \in RowsOf(queue') /\ currentTrack' = TrackAt(queue', queueIndex')
    /\ source' \in {currentTrack', NoTrack} /\ currentTrack' # NoTrack
    /\ source' = NoTrack => started /\ armed = NoTrack
    /\ ~started'
    /\ armed' = NoTrack /\ skipping' = skipping /\ Offered(currentTrack')
    /\ announced' = currentTrack' \/ (state' = "Paused" /\ pendingStagedStart' = currentTrack')
    /\ pendingStagedStart' \in {currentTrack', NoTrack} /\ ~silent'

\* The backend goes on by itself, or is paused, or nothing happens to it.
Carried ==
    /\ UNCHANGED <<queue, queueIndex, currentTrack, pendingStagedStart, source, preparedNext,
                   announced, silent, skipping>>
    /\ {prepared', armed'} \subseteq {prepared, armed, NoTrack}
    /\ stopAfter' = 1 => stopAfter = 1 /\ stopPending' = stopPending
    /\ started => started'
    /\ started' => armed' # NoTrack \/ (started /\ armed' = armed)
    /\ state' = "Playing" => state = "Playing"
    /\ state = "Paused" => state' = "Paused"

\* What is loaded is resumed.
Resumed ==
    /\ source # NoTrack
    /\ UNCHANGED <<queue, queueIndex, currentTrack, source, preparedNext, prepared, armed,
                   started, stopPending, stopAfter, skipping>>
    /\ ConsumePendingStagedStart

Kind == \/ RowBegun \/ Resolved \/ Skipped \/ Halted
        \/ Redecided \/ Landed \/ Carried \/ Resumed

Step == Types' /\ PromptKept /\ Kind

LEMMA RoundsOK ==
    ASSUME queue' \in Seq(QueueRows), Len(queue') =< MaxQueue
    PROVE  Rounds \in 1 .. MaxQueue + 2 /\ Len(queue') + 2 \in 1 .. MaxQueue + 2
<1>1. Len(queue') \in Nat
  BY RowFacts
<1> QED
  BY <1>1, Consts DEF Rounds

LEMMA PlayedStep ==
    ASSUME Types, RowsOK', Played, ModesOK', TimerOK',
           history' \in Seq(RowsOf(queue')), forward' \in Seq(RowsOf(queue'))
    PROVE  Step
<1>1. Types'
  BY DEF Types, Played, StartOK, TrailOK
<1> QED
  BY <1>1 DEF Played, Step, Kind

LEMMA SameModes == ASSUME Types, UNCHANGED <<modes, stopAfter>> PROVE ModesOK' /\ TimerOK'
BY DEF Types, ModesOK, TimerOK, modes

LEMMA SameQueue ==
    ASSUME Types, queue' = queue
    PROVE  /\ queue' \in Seq(QueueRows) /\ Len(queue') =< MaxQueue /\ Grows
           /\ RowsOf(queue') = RowsOf(queue)
BY DEF Types, RowsOK, Grows

LEMMA Jumping ==
    ASSUME Types, NEW i \in RowsOf(queue'), queue' \in Seq(QueueRows), Len(queue') =< MaxQueue,
           Grows, UNCHANGED <<modes, stopAfter>>, Jump(i)
    PROVE  Step
<1> DEFINE vis == IF shuffleMode = "Off" THEN visited ELSE {i}
<1>1. vis \subseteq RowsOf(queue')
  BY TrailGrows
<1>2. forward' \in Seq(RowsOf(queue'))
  BY NoTrail DEF Jump
<1>3. history' \in Seq(RowsOf(queue'))
  BY TrailGrows, Pushing DEF Jump
<1>4. -1 \in Int /\ PlayAt(i, -1, vis, Rounds)
  BY DEF Jump
<1> HIDE DEF vis
<1>5. RowsOK' /\ Played
  BY <1>1, <1>2, <1>4, RoundsOK, PlayingAt
<1> QED
  BY <1>2, <1>3, <1>5, SameModes, PlayedStep

LEMMA PickRowStep == ASSUME Types, PickRow PROVE Step
<1>1. PICK i \in RowsOf(queue) : Jump(i)
  BY DEF PickRow
<1>2. queue' = queue /\ UNCHANGED <<modes, stopAfter>>
  BY DEF PickRow
<1> QED
  BY <1>1, <1>2, SameQueue, Jumping

\* A move that keeps the trail, to a row of a queue that may have grown.
LEMMA PlainMove ==
    ASSUME Types, queue' \in Seq(QueueRows), Len(queue') =< MaxQueue, Grows,
           ModesOK', TimerOK', NEW i \in RowsOf(queue'), NEW pni \in Int,
           NEW vis, vis \subseteq RowsOf(queue'), NEW rounds \in 1 .. MaxQueue + 2,
           history' \in Seq(RowsOf(queue')), forward' \in Seq(RowsOf(queue')),
           PlayAt(i, pni, vis, rounds)
    PROVE  Step
BY PlayingAt, PlayedStep

LEMMA PniIsInt == Types => playNextInsertIndex \in Int /\ queueIndex \in Int
<1> SUFFICES ASSUME Types PROVE playNextInsertIndex \in Int /\ queueIndex \in Int
  OBVIOUS
<1>1. Len(queue) \in Nat
  BY RowFacts DEF Types, RowsOK
<1> QED
  BY <1>1 DEF Types, RowsOK

LEMMA PolicyFacts ==
    ASSUME Types, NEW c \in DecideAutoNext(Policy, visited)
    PROVE  /\ c.next \in Choice /\ c.visited \subseteq RowsOf(queue)
           /\ c.next.injected # NoTrack
                  => c.next.injected \in Tracks /\ Len(queue) < MaxQueue
<1>1. Policy.queue = queue /\ Policy.index = queueIndex /\ Policy.forward = forward
  BY DEF Policy
<1>2. /\ Policy.queue \in Seq(QueueRows) /\ Policy.index \in -1 .. Len(Policy.queue) - 1
      /\ Policy.forward \in Seq(RowsOf(Policy.queue)) /\ visited \subseteq RowsOf(Policy.queue)
  BY <1>1 DEF Types, RowsOK, TrailOK
<1> HIDE DEF Policy
<1>3. /\ c.next \in Choice /\ c.visited \subseteq RowsOf(Policy.queue)
      /\ c.next.injected # NoTrack
             => c.next.injected \in Tracks /\ Len(Policy.queue) < MaxQueue
  BY <1>2, Decided
<1> QED
  BY <1>1, <1>3

LEMMA Applying ==
    ASSUME Types, NEW c \in DecideAutoNext(Policy, visited),
           ApplyAutoNext(c.next, c.visited), ModesOK', TimerOK'
    PROVE  Step
<1> DEFINE next == c.next
           vis == c.visited
<1>1. /\ next \in Choice /\ vis \subseteq RowsOf(queue)
      /\ next.injected # NoTrack => next.injected \in Tracks /\ Len(queue) < MaxQueue
  BY PolicyFacts
<1>a. playNextInsertIndex \in Int /\ -1 \in Int
  BY PniIsInt
<1>2. CASE /\ next.injected # NoTrack
           /\ queue' = Append(queue, [track |-> next.injected, asked |-> FALSE])
           /\ PushHistory(queueIndex) /\ forward' = <<>>
           /\ PlayAt(Len(queue), playNextInsertIndex, vis, Rounds)
  <2>1. /\ queue' \in Seq(QueueRows) /\ Len(queue') =< MaxQueue /\ Grows
        /\ Len(queue) \in RowsOf(queue')
    BY <1>1, <1>2, Appended
  <2>2. history' \in Seq(RowsOf(queue')) /\ forward' \in Seq(RowsOf(queue'))
    BY <1>2, <2>1, Pushing, NoTrail
  <2>3. vis \subseteq RowsOf(queue')
    BY <1>1, <2>1 DEF Grows
  <2> HIDE DEF vis, next
  <2> QED
    BY <1>a, <1>2, <2>1, <2>2, <2>3, RoundsOK, PlainMove
<1>3. CASE /\ next.index \in RowsOf(queue)
           /\ queue' = queue
           /\ RecordForwardStep(queueIndex, next.index)
           /\ PlayAt(next.index, IF LinearConsume(next.index) THEN playNextInsertIndex ELSE -1,
                     vis, Rounds)
  <2>1. /\ queue' \in Seq(QueueRows) /\ Len(queue') =< MaxQueue /\ Grows
        /\ RowsOf(queue') = RowsOf(queue)
    BY <1>3, SameQueue
  <2>2. history' \in Seq(RowsOf(queue')) /\ forward' \in Seq(RowsOf(queue'))
    BY <1>3, <2>1, Forwarding
  <2> DEFINE pni == IF LinearConsume(next.index) THEN playNextInsertIndex ELSE -1
  <2>3. pni \in Int
    BY <1>a
  <2> HIDE DEF vis, next, pni
  <2>4. vis \subseteq RowsOf(queue') /\ next.index \in RowsOf(queue')
        /\ PlayAt(next.index, pni, vis, Rounds)
    BY <1>1, <1>3, <2>1 DEF pni
  <2> QED
    BY <2>1, <2>2, <2>3, <2>4, RoundsOK, PlainMove
<1> QED
  BY <1>2, <1>3 DEF ApplyAutoNext

LEMMA PlayNextStep == ASSUME Types, PlayNext PROVE Step
<1>1. UNCHANGED <<modes, stopAfter>> /\ ModesOK' /\ TimerOK'
  BY SameModes DEF PlayNext
<1>2. ASSUME NEW c \in DecideAutoNext(Policy, visited), ApplyAutoNext(c.next, c.visited)
      PROVE  Step
  BY <1>1, <1>2, Applying
<1>3. CASE /\ queueIndex + 1 < Len(queue)
           /\ queue' = queue /\ KeepTrail
           /\ PlayAt(queueIndex + 1, playNextInsertIndex, visited, Rounds)
  <2>1. queueIndex + 1 \in RowsOf(queue)
    BY <1>3, RowFacts, PniIsInt DEF Types, RowsOK
  <2>2. playNextInsertIndex \in Int
    BY PniIsInt
  <2>3. /\ queue' \in Seq(QueueRows) /\ Len(queue') =< MaxQueue /\ Grows
        /\ RowsOf(queue') = RowsOf(queue)
    BY <1>3, SameQueue
  <2>4. /\ visited \subseteq RowsOf(queue')
        /\ history' \in Seq(RowsOf(queue')) /\ forward' \in Seq(RowsOf(queue'))
    BY <1>3, <2>3, TrailGrows DEF KeepTrail
  <2> QED
    BY <1>1, <1>3, <2>1, <2>2, <2>3, <2>4, RoundsOK, PlainMove
<1> QED
  BY <1>2, <1>3 DEF PlayNext

\* A move to a row of the same queue.
LEMMA MoveInQueue ==
    ASSUME Types, queue' = queue, ModesOK', TimerOK', NEW i \in RowsOf(queue), NEW pni \in Int,
           history' \in Seq(RowsOf(queue)), forward' \in Seq(RowsOf(queue)),
           NEW vis, vis \subseteq RowsOf(queue), NEW rounds \in 1 .. MaxQueue + 2,
           PlayAt(i, pni, vis, rounds)
    PROVE  Step
<1>1. /\ queue' \in Seq(QueueRows) /\ Len(queue') =< MaxQueue /\ Grows
      /\ RowsOf(queue') = RowsOf(queue)
  BY SameQueue
<1> QED
  BY <1>1, PlainMove

LEMMA TypesParts ==
    ASSUME Types
    PROVE  /\ queue \in Seq(QueueRows) /\ Len(queue) \in Nat /\ RowsOf(queue) = 0 .. Len(queue) - 1
           /\ Len(queue) =< MaxQueue /\ queueIndex \in -1 .. Len(queue) - 1
           /\ visited \subseteq RowsOf(queue)
           /\ history \in Seq(RowsOf(queue)) /\ forward \in Seq(RowsOf(queue))
BY RowFacts DEF Types, RowsOK, TrailOK

LEMMA NotEmpty == ASSUME Types, queue # <<>> PROVE 0 \in RowsOf(queue) /\ Len(queue) >= 1
<1>1. queue \in Seq(QueueRows) /\ RowsOf(queue) = 0 .. Len(queue) - 1 /\ Len(queue) \in Nat
  BY TypesParts
<1>2. Len(queue) \in Nat \ {0}
  BY <1>1, EmptySeq
<1> QED
  BY <1>1, <1>2

LEMMA LastOf ==
    ASSUME NEW S, NEW s \in Seq(S), s # <<>>
    PROVE  s[Len(s)] \in S /\ Len(s) \in Nat \ {0}
<1>1. Len(s) \in Nat \ {0}
  BY EmptySeq
<1>2. Len(s) \in 1 .. Len(s)
  BY <1>1
<1> QED
  BY <1>1, <1>2, ElementOfSeq

LEMMA PreviousStep == ASSUME Types, Previous PROVE Step
<1>1. UNCHANGED <<modes, stopAfter>> /\ ModesOK' /\ TimerOK' /\ queue' = queue
  BY SameModes DEF Previous
<1>2. 0 \in RowsOf(queue) /\ -1 \in Int /\ RowsOf(queue) = 0 .. Len(queue) - 1
      /\ queueIndex \in -1 .. Len(queue) - 1 /\ Len(queue) \in Nat
  BY NotEmpty, TypesParts DEF Previous
<1>3. Rounds \in 1 .. MaxQueue + 2
  BY <1>1, SameQueue, RoundsOK
<1>4. visited \subseteq RowsOf(queue)
  BY TypesParts
<1>5. CASE shuffleMode # "Off" /\ history # <<>>
  <2> DEFINE i == Clamp(history[Len(history)], 0, Len(queue) - 1)
  <2>1. /\ history' = SubSeq(history, 1, Len(history) - 1)
        /\ RememberRow(queueIndex)
        /\ PlayAt(i, -1, visited, Rounds)
    BY <1>5 DEF Previous
  <2>2. history[Len(history)] \in RowsOf(queue) /\ Len(history) \in Nat
    BY <1>5, LastOf, TypesParts
  <2>3. i \in RowsOf(queue)
    BY <1>2, <2>2 DEF Clamp
  <2>4. history' \in Seq(RowsOf(queue))
    <3>1. Len(history) - 1 \in Int /\ Len(history) - 1 <= Len(history)
      BY <2>2
    <3> QED
      BY <2>1, <3>1, Shortened, TypesParts
  <2>5. forward' \in Seq(RowsOf(queue))
    BY <2>1, TypesParts, AppendProperties DEF RememberRow
  <2> HIDE DEF i
  <2> QED
    BY <1>1, <1>2, <1>3, <1>4, <2>1, <2>3, <2>4, <2>5, MoveInQueue
<1>6. CASE ~(shuffleMode # "Off" /\ history # <<>>)
  <2> DEFINE i == IF queueIndex > 0 THEN queueIndex - 1 ELSE 0
  <2>1. KeepTrail /\ PlayAt(i, -1, visited, Rounds)
    BY <1>6 DEF Previous
  <2>2. i \in RowsOf(queue)
    BY <1>2
  <2>3. history' \in Seq(RowsOf(queue)) /\ forward' \in Seq(RowsOf(queue))
    BY <2>1, TypesParts DEF KeepTrail
  <2> HIDE DEF i
  <2> QED
    BY <1>1, <1>2, <1>3, <1>4, <2>1, <2>2, <2>3, MoveInQueue
<1> QED
  BY <1>5, <1>6

\* What a step that leaves the rows, the trail and the modes alone keeps of the types.
Still == UNCHANGED <<rows, modes, trail>>

LEMMA StillOK == ASSUME Types, Still PROVE RowsOK' /\ TrailOK' /\ ModesOK'
BY DEF Types, RowsOK, TrailOK, ModesOK, Still, rows, modes, trail

LEMMA PlayStep == ASSUME Types, Play PROVE Step
<1>1. CASE /\ source # NoTrack /\ ConsumePendingStagedStart
           /\ state' = "Playing" /\ skipDsdBlock' = FALSE
           /\ UNCHANGED <<rows, modes, trail, dsdPending, currentTrack, preparedNext,
                          stopAfter, skipping, source, prepared, armed, started, stopPending>>
  <2>1. RowsOK' /\ TrailOK' /\ ModesOK'
    BY <1>1, StillOK DEF Still
  <2>2. ShownOK'
    BY <1>1 DEF Types, ShownOK, ConsumePendingStagedStart, OptTrack, report
  <2>3. PromptOK' /\ OfferOK' /\ SoundOK' /\ TimerOK'
    BY <1>1 DEF Types, PromptOK, OfferOK, SoundOK, TimerOK
  <2>4. PromptKept /\ Resumed
    BY <1>1 DEF PromptKept, Resumed, rows
  <2> QED
    BY <2>1, <2>2, <2>3, <2>4 DEF Step, Types, Kind
<1>2. CASE /\ IF state = "Error" THEN queueIndex \in RowsOf(queue) ELSE queue # <<>>
           /\ queue' = queue /\ KeepTrail
           /\ PlayAt(IF queueIndex >= 0 THEN queueIndex ELSE 0, playNextInsertIndex,
                     visited, Rounds)
  <2> DEFINE i == IF queueIndex >= 0 THEN queueIndex ELSE 0
  <2>1. ModesOK' /\ TimerOK' /\ playNextInsertIndex \in Int
    BY SameModes, PniIsInt DEF Play
  <2>2. i \in RowsOf(queue)
    BY <1>2, NotEmpty, TypesParts
  <2>3. Rounds \in 1 .. MaxQueue + 2
    BY <1>2, SameQueue, RoundsOK
  <2>4. history' \in Seq(RowsOf(queue)) /\ forward' \in Seq(RowsOf(queue))
        /\ visited \subseteq RowsOf(queue)
    BY <1>2, TypesParts DEF KeepTrail
  <2>5. queue' = queue /\ PlayAt(i, playNextInsertIndex, visited, Rounds)
    BY <1>2
  <2> HIDE DEF i
  <2> QED
    BY <2>1, <2>2, <2>3, <2>4, <2>5, MoveInQueue
<1> QED
  BY <1>1, <1>2 DEF Play

LEMMA PauseStep == ASSUME Types, Pause PROVE Step
<1> USE DEF Pause, PauseBackend
<1>1. RowsOK' /\ TrailOK' /\ ModesOK'
  BY StillOK DEF Still
<1>2. ShownOK' /\ PromptOK' /\ TimerOK' /\ PromptKept
  BY DEF Types, ShownOK, PromptOK, TimerOK, report, prompt, PromptKept
<1>3. OfferOK' /\ SoundOK'
  BY DEF Types, OfferOK, SoundOK, OptTrack
<1>4. Carried
  BY DEF Carried, rows, report, Stable
<1> QED
  BY <1>1, <1>2, <1>3, <1>4 DEF Step, Types, Kind

LEMMA DeadlineStep == ASSUME Types, DeadlinePasses PROVE Step
<1> USE DEF DeadlinePasses, PauseBackend
<1>1. RowsOK' /\ TrailOK' /\ ModesOK'
  BY StillOK DEF Still
<1>2. ShownOK' /\ PromptOK' /\ TimerOK' /\ PromptKept
  BY Consts DEF Types, ShownOK, PromptOK, TimerOK, report, prompt, PromptKept
<1>3. OfferOK' /\ SoundOK'
  BY DEF Types, OfferOK, SoundOK, OptTrack
<1>4. Carried
  BY DEF Carried, rows, report, Stable
<1> QED
  BY <1>1, <1>2, <1>3, <1>4 DEF Step, Types, Kind

\* What is left typed by giving up.
LEMMA GivingUp ==
    ASSUME Types, GiveUp, skipping' \in {skipping, 0}
    PROVE  /\ Halted /\ SoundOK' /\ TimerOK' /\ prepared' \in OptTrack /\ stopPending' \in BOOLEAN
           /\ pendingStagedStart' \in OptTrack
<1>1. 0 \in Deadline .. MaxStop
  BY Consts
<1> QED
  BY <1>1 DEF GiveUp, BackendStop, Halted, SoundOK, TimerOK, OptTrack

\* Stopping, with the rows left alone.
LEMMA StopsStill ==
    ASSUME Types, GiveUp, skipping' \in {skipping, 0},
           UNCHANGED <<rows, modes, trail, prompt, report, currentTrack, preparedNext>>
    PROVE  Step
<1>1. RowsOK' /\ TrailOK' /\ ModesOK'
  BY StillOK DEF Still
<1>2. /\ Halted /\ SoundOK' /\ TimerOK' /\ prepared' \in OptTrack /\ stopPending' \in BOOLEAN
      /\ pendingStagedStart' \in OptTrack
  BY GivingUp
<1>3. ShownOK' /\ OfferOK'
  BY <1>2 DEF Types, ShownOK, OfferOK, report
<1>4. PromptOK' /\ PromptKept
  BY Consts DEF Types, PromptOK, prompt, PromptKept
<1> QED
  BY <1>1, <1>2, <1>3, <1>4 DEF Step, Types, Kind

LEMMA StopStep == ASSUME Types, Stop PROVE Step
BY StopsStill DEF Stop

\* A choice made anew for the loaded row, with the rows typed.
LEMMA Redeciding ==
    ASSUME Types, RowsOK', ModesOK', TimerOK', ShownOK',
           history' \in Seq(RowsOf(queue')), forward' \in Seq(RowsOf(queue')),
           ~started, KeepBackend, announced' = announced, UNCHANGED <<prompt, skipping>>,
           NEW vis, vis \subseteq RowsOf(queue'), PrepareNext(vis, currentTrack),
           source # NoTrack => RowKept /\ ShownKept
    PROVE  Step
<1>1. Offered(currentTrack) /\ OfferOK' /\ visited' \subseteq RowsOf(queue')
  BY Preparing
<1>2. SoundOK' /\ PromptOK' /\ PromptKept
  BY DEF Types, SoundOK, PromptOK, KeepBackend, OptTrack, prompt, PromptKept
<1>3. Redecided
  BY <1>1 DEF Redecided, KeepBackend
<1> QED
  BY <1>1, <1>2, <1>3 DEF Step, Types, TrailOK, Kind

LEMMA SetStopAfterStep ==
    ASSUME Types, NEW n \in Deadline .. MaxStop, SetStopAfter(n)
    PROVE  Step
<1>0. /\ ~started /\ stopAfter' = n /\ KeepBackend /\ KeepTrail
      /\ UNCHANGED <<rows, modes, prompt, report, currentTrack, pendingStagedStart, skipping>>
  BY DEF SetStopAfter, Stable
<1>1. queue' = queue /\ RowsOK' /\ ModesOK' /\ TimerOK' /\ ShownOK'
  BY <1>0 DEF Types, RowsOK, ModesOK, TimerOK, ShownOK, rows, modes, report
<1>2. history' \in Seq(RowsOf(queue')) /\ forward' \in Seq(RowsOf(queue'))
      /\ visited \subseteq RowsOf(queue')
  BY <1>0, <1>1, TypesParts DEF KeepTrail
<1>3. announced' = announced /\ RowKept /\ ShownKept
  BY <1>0, <1>1 DEF RowKept, ShownKept, report, rows
<1>4. CASE n = 1
  <2>1. prepared' = NoTrack /\ stopPending' = TRUE /\ UNCHANGED <<preparedNext, visited>>
    BY <1>4 DEF SetStopAfter
  <2>2. Offered(currentTrack)
    BY <1>0, <1>4, <2>1 DEF Offered
  <2>3. SoundOK' /\ PromptOK' /\ PromptKept
    BY <1>0 DEF Types, SoundOK, PromptOK, KeepBackend, OptTrack, prompt, PromptKept
  <2>4. OfferOK' /\ TrailOK'
    BY <1>2, <2>1 DEF Types, OfferOK, OptTrack, TrailOK
  <2>5. Redecided
    BY <1>0, <1>3, <2>2 DEF Redecided, KeepBackend
  <2> QED
    BY <1>1, <2>3, <2>4, <2>5 DEF Step, Types, Kind
<1>5. CASE n # 1
  <2>1. PrepareNext(visited, currentTrack)
    BY <1>5 DEF SetStopAfter
  <2> QED
    BY <1>0, <1>1, <1>2, <1>3, <2>1, Redeciding
<1> QED
  BY <1>4, <1>5

LEMMA TimerStep == ASSUME Types, Timer PROVE Step
<1>1. CASE ArmStopAfter
  <2>1. PICK n \in {Deadline} \union 1 .. MaxStop : SetStopAfter(n)
    BY <1>1 DEF ArmStopAfter
  <2>2. n \in Deadline .. MaxStop
    BY Consts
  <2> QED
    BY <2>1, <2>2, SetStopAfterStep
<1>2. CASE CancelStopAfter
  <2>1. 0 \in Deadline .. MaxStop
    BY Consts
  <2> QED
    BY <1>2, <2>1, SetStopAfterStep DEF CancelStopAfter
<1> QED
  BY <1>1, <1>2, DeadlineStep DEF Timer

LEMMA TransportStep == ASSUME Types, Transport PROVE Step
BY PickRowStep, PlayNextStep, PreviousStep, PlayStep, PauseStep, StopStep DEF Transport

----------------------------------------------------------------------------
(* Queue mutations. *)

LEMMA ListFacts ==
    ASSUME NEW list \in Lists
    PROVE  /\ list \in Seq(Tracks) /\ Len(list) \in Nat \ {0} /\ Len(list) =< MaxQueue
           /\ RowsOf(list) = 0 .. Len(list) - 1 /\ DOMAIN list = 1 .. Len(list)
           /\ \A k \in 1 .. Len(list) : list[k] \in Tracks
<1>1. list \in Seq(Tracks) /\ list # <<>> /\ Len(list) =< MaxQueue
  BY CoreAssumption
<1>2. Len(list) \in Nat \ {0} /\ DOMAIN list = 1 .. Len(list)
  BY <1>1, EmptySeq, LenProperties
<1>3. \A k \in 1 .. Len(list) : list[k] \in Tracks
  BY <1>1, ElementOfSeq
<1> QED
  BY <1>1, <1>2, <1>3 DEF RowsOf

LEMMA SeqOfRows ==
    ASSUME NEW S, NEW n \in Nat, NEW s \in [1 .. n -> S]
    PROVE  s \in Seq(S) /\ Len(s) = n
BY SeqDef, LenProperties

LEMMA RowsFromList ==
    ASSUME NEW list \in Lists, NEW asked \in BOOLEAN
    PROVE  LET q == AsRows(list, asked)
           IN  /\ q \in Seq(QueueRows) /\ Len(q) = Len(list)
               /\ \A k \in 1 .. Len(list) : q[k].track = list[k] /\ q[k].asked = asked
<1> DEFINE q == AsRows(list, asked)
<1>1. q = [k \in 1 .. Len(list) |-> [track |-> list[k], asked |-> asked]]
  BY ListFacts DEF AsRows
<1>2. \A k \in 1 .. Len(list) : [track |-> list[k], asked |-> asked] \in QueueRows
  BY ListFacts DEF QueueRows
<1>3. q \in [1 .. Len(list) -> QueueRows] /\ Len(list) \in Nat
  BY <1>1, <1>2, ListFacts
<1>4. q \in Seq(QueueRows) /\ Len(q) = Len(list)
  <2> HIDE DEF q
  <2> QED
    BY <1>3, SeqOfRows
<1> QED
  BY <1>1, <1>4

LEMMA Enlarged ==
    ASSUME Types, NEW list \in Lists, Len(queue) + Len(list) =< MaxQueue,
           queue' = queue \o AsRows(list, FALSE)
    PROVE  /\ queue' \in Seq(QueueRows) /\ Len(queue') = Len(queue) + Len(list)
           /\ Len(queue') =< MaxQueue /\ Grows
           /\ Len(queue) \in RowsOf(queue')
           /\ \A k \in 1 .. Len(queue) : queue'[k] = queue[k]
<1> DEFINE new == AsRows(list, FALSE)
           n == Len(queue)
           m == Len(list)
<1>1. queue \in Seq(QueueRows) /\ n \in Nat /\ RowsOf(queue) = 0 .. n - 1
  BY TypesParts
<1>2. m \in Nat \ {0}
  BY ListFacts
<1>3. new \in Seq(QueueRows) /\ Len(new) = m /\ queue' = queue \o new
  BY RowsFromList
<1> HIDE DEF new, n, m
<1>4. /\ queue' \in Seq(QueueRows) /\ Len(queue') = n + m
      /\ \A k \in 1 .. n + m : queue'[k] = IF k <= n THEN queue[k] ELSE new[k - n]
  <2>1. Len(queue) = n
    BY DEF n
  <2>2. /\ queue \o new \in Seq(QueueRows) /\ Len(queue \o new) = Len(queue) + Len(new)
        /\ \A k \in 1 .. Len(queue) + Len(new) :
              (queue \o new)[k] = IF k <= Len(queue) THEN queue[k] ELSE new[k - Len(queue)]
    BY <1>1, <1>3, ConcatProperties
  <2> QED
    BY <1>3, <2>1, <2>2
<1>5. \A k \in 1 .. n : queue'[k] = queue[k]
  <2> TAKE k \in 1 .. n
  <2>1. k \in 1 .. n + m /\ k <= n
    BY <1>1, <1>2
  <2> QED
    BY <1>4, <2>1
<1>6. RowsOf(queue') = 0 .. (n + m) - 1
  BY <1>1, <1>2, <1>4 DEF RowsOf
<1>7. n \in RowsOf(queue') /\ Grows
  <2>1. n \in 0 .. (n + m) - 1 /\ 0 .. n - 1 \subseteq 0 .. (n + m) - 1
    BY <1>1, <1>2
  <2> QED
    BY <1>1, <1>6, <2>1 DEF Grows
<1> QED
  BY <1>4, <1>5, <1>7 DEF n, m

\* What is presented stays as it is.
LEMMA PresentedOK ==
    ASSUME Types, Presented
    PROVE  /\ ShownOK' /\ announced' = announced /\ UNCHANGED <<prompt, skipping>>
           /\ currentTrack' = currentTrack /\ ShownKept
BY DEF Types, ShownOK, Presented, ShownKept, report

\* What a mutation that shifts rows shares: the trail is reset, a new choice is made.
LEMMA Shifting ==
    ASSUME Types, RowsOK', UNCHANGED <<modes, stopAfter>>, ShownOK',
           history' = <<>>, forward' = <<>>,
           ~started, KeepBackend, announced' = announced, UNCHANGED <<prompt, skipping>>,
           PrepareNext(ResetVisited, currentTrack),
           source # NoTrack => RowKept /\ ShownKept
    PROVE  Step
<1>1. history' \in Seq(RowsOf(queue')) /\ forward' \in Seq(RowsOf(queue'))
  BY NoTrail
<1> DEFINE vis == ResetVisited
<1>2. vis \subseteq RowsOf(queue') /\ PrepareNext(vis, currentTrack)
  BY DEF ResetVisited
<1> HIDE DEF vis
<1> QED
  BY <1>1, <1>2, SameModes, Redeciding

\* The place of the rows to play next.
InsertAt == IF playNextInsertIndex <= queueIndex \/ playNextInsertIndex > Len(queue)
            THEN queueIndex + 1 ELSE playNextInsertIndex

LEMMA Inserted ==
    ASSUME Types, NEW list \in Lists, Len(queue) + Len(list) =< MaxQueue, queueIndex >= 0,
           queue' = Spliced(queue, InsertAt, AsRows(list, TRUE)), queueIndex' = queueIndex,
           playNextInsertIndex' = InsertAt + Len(list)
    PROVE  /\ RowsOK' /\ RowKept /\ InsertAt \in queueIndex + 1 .. Len(queue)
           /\ Len(queue') = Len(queue) + Len(list)
           /\ \A k \in 1 .. InsertAt : queue'[k] = queue[k]
           /\ \A k \in 1 .. Len(list) : queue'[InsertAt + k].asked
<1>1. /\ queue \in Seq(QueueRows) /\ Len(queue) \in Nat /\ queueIndex \in 0 .. Len(queue) - 1
      /\ playNextInsertIndex \in Int
  BY TypesParts, PniIsInt
<1>2. Len(list) \in Nat \ {0}
  BY ListFacts
<1>3. InsertAt \in queueIndex + 1 .. Len(queue) /\ InsertAt \in 0 .. Len(queue)
  BY <1>1 DEF InsertAt
<1> DEFINE new == AsRows(list, TRUE)
<1>4. new \in Seq(QueueRows) /\ Len(new) = Len(list) /\ \A k \in 1 .. Len(list) : new[k].asked
  BY RowsFromList
<1> HIDE DEF new
<1>5. SplicedAt(QueueRows, queue', queue, InsertAt, new)
  <2>1. queue' = Spliced(queue, InsertAt, new)
    BY DEF new
  <2> QED
    BY <1>1, <1>3, <1>4, <2>1, SplicingAt
<1>6. RowsOK'
  <2> DEFINE at == InsertAt
  <2>1. Len(queue') = Len(queue) + Len(list) /\ queue' \in Seq(QueueRows)
    BY <1>4, <1>5 DEF SplicedAt
  <2>2. at \in queueIndex + 1 .. Len(queue) /\ playNextInsertIndex' = at + Len(list)
    BY <1>3
  <2> DEFINE n == Len(queue)
             m == Len(list)
             size == Len(queue')
  <2>a. n \in Nat /\ m \in Nat /\ size = n + m /\ queueIndex \in 0 .. n - 1
        /\ at \in queueIndex + 1 .. n /\ playNextInsertIndex' = at + m
    BY <1>1, <1>2, <2>1, <2>2
  <2> HIDE DEF at, n, m, size
  <2>b. at \in Int /\ at >= 0 /\ at <= n
    BY <2>a
  <2>3. playNextInsertIndex' \in -1 .. size
    BY <2>a, <2>b
  <2>4. queueIndex' \in -1 .. size - 1
    BY <2>a
  <2> USE DEF size
  <2> QED
    BY <2>1, <2>3, <2>4 DEF RowsOK
<1>7. queue'[queueIndex' + 1] = queue[queueIndex + 1]
  <2>1. queueIndex + 1 \in 1 .. InsertAt
    BY <1>1, <1>3
  <2> QED
    BY <1>5, <2>1 DEF SplicedAt
<1>8. RowKept
  BY <1>1, <1>7 DEF RowKept, TrackAt
<1>9. \A k \in 1 .. Len(list) : queue'[InsertAt + k].asked
  BY <1>4, <1>5 DEF SplicedAt
<1> QED
  BY <1>3, <1>4, <1>5, <1>6, <1>8, <1>9 DEF SplicedAt

LEMMA PlayTracksNextStep == ASSUME Types, PlayTracksNext PROVE Step
<1>1. ~started
  BY DEF PlayTracksNext, Stable
<1>2. PICK list \in Lists :
          /\ Len(queue) + Len(list) =< MaxQueue
          /\ IF queueIndex < 0
             THEN /\ queue' = queue \o AsRows(list, FALSE)
                  /\ KeepTrail
                  /\ UNCHANGED <<modes, stopAfter>>
                  /\ PlayAt(Len(queue), playNextInsertIndex, visited, Rounds)
             ELSE /\ ShiftRows(SubSeq(queue, 1, InsertAt) \o AsRows(list, TRUE)
                                 \o SubSeq(queue, InsertAt + 1, Len(queue)),
                               queueIndex, InsertAt + Len(list))
                  /\ KeepBackend /\ Presented /\ UNCHANGED stopAfter
                  /\ PrepareNext(ResetVisited, currentTrack)
  BY DEF PlayTracksNext, InsertAt
<1>3. CASE queueIndex < 0
  <2>1. /\ queue' \in Seq(QueueRows) /\ Len(queue') =< MaxQueue /\ Grows
        /\ Len(queue) \in RowsOf(queue')
    BY <1>2, <1>3, Enlarged
  <2>2. ModesOK' /\ TimerOK' /\ playNextInsertIndex \in Int
    BY <1>2, <1>3, SameModes, PniIsInt
  <2>3. history' \in Seq(RowsOf(queue')) /\ forward' \in Seq(RowsOf(queue'))
        /\ visited \subseteq RowsOf(queue')
    BY <1>2, <1>3, <2>1, TrailGrows DEF KeepTrail
  <2> QED
    BY <1>2, <1>3, <2>1, <2>2, <2>3, RoundsOK, PlainMove
<1>4. CASE ~(queueIndex < 0)
  <2>1. /\ ShiftRows(Spliced(queue, InsertAt, AsRows(list, TRUE)), queueIndex, InsertAt + Len(list))
        /\ KeepBackend /\ Presented /\ UNCHANGED stopAfter
        /\ PrepareNext(ResetVisited, currentTrack)
    BY <1>2, <1>4 DEF Spliced
  <2>2. /\ queue' = Spliced(queue, InsertAt, AsRows(list, TRUE)) /\ queueIndex' = queueIndex
        /\ playNextInsertIndex' = InsertAt + Len(list) /\ UNCHANGED <<modes, stopAfter>>
        /\ history' = <<>> /\ forward' = <<>>
    BY <2>1 DEF ShiftRows
  <2>3. queueIndex >= 0
    BY <1>4, PniIsInt
  <2>4. RowsOK' /\ RowKept
    BY <1>2, <2>2, <2>3, Inserted
  <2> QED
    BY <1>1, <2>1, <2>2, <2>4, PresentedOK, Shifting
<1> QED
  BY <1>3, <1>4

LEMMA AppendTracksStep == ASSUME Types, AppendTracks PROVE Step
<1>1. PICK list \in Lists :
          /\ Len(queue) + Len(list) =< MaxQueue
          /\ queue' = queue \o AsRows(list, FALSE)
          /\ playNextInsertIndex' = Collapse(playNextInsertIndex, queueIndex, Len(queue'))
          /\ KeepBackend /\ KeepTrail /\ Presented
          /\ UNCHANGED <<modes, queueIndex, stopAfter>>
          /\ PrepareNext(visited, currentTrack)
  BY DEF AppendTracks
<1>2. /\ queue' \in Seq(QueueRows) /\ Len(queue') =< MaxQueue /\ Grows
      /\ Len(queue') = Len(queue) + Len(list)
      /\ \A k \in 1 .. Len(queue) : queue'[k] = queue[k]
  BY <1>1, Enlarged
<1>3. /\ Len(queue) \in Nat /\ queueIndex \in -1 .. Len(queue) - 1 /\ playNextInsertIndex \in Int
      /\ Len(list) \in Nat
  BY TypesParts, PniIsInt, ListFacts
<1>4. queueIndex' = queueIndex /\ playNextInsertIndex' \in -1 .. Len(queue')
  <2> DEFINE size == Len(queue')
  <2>1. size \in Nat /\ queueIndex \in -1 .. size - 1
    BY <1>2, <1>3
  <2>2. playNextInsertIndex' = Collapse(playNextInsertIndex, queueIndex, size)
    BY <1>1
  <2> HIDE DEF size
  <2>3. playNextInsertIndex' \in -1 .. size
    BY <1>3, <2>1, <2>2 DEF Collapse
  <2> QED
    BY <1>1, <2>3 DEF size
<1>5. RowsOK'
  BY <1>2, <1>3, <1>4 DEF RowsOK
<1>6. RowKept
  <2>1. queueIndex >= 0 => queueIndex + 1 \in 1 .. Len(queue)
    BY <1>3
  <2> QED
    BY <1>2, <1>3, <1>4, <2>1 DEF RowKept, TrackAt
<1>7. history' \in Seq(RowsOf(queue')) /\ forward' \in Seq(RowsOf(queue'))
      /\ visited \subseteq RowsOf(queue')
  BY <1>1, <1>2, TrailGrows DEF KeepTrail
<1>8. ~started
  BY DEF AppendTracks, Stable
<1> QED
  BY <1>1, <1>5, <1>6, <1>7, <1>8, SameModes, PresentedOK, Redeciding

LEMMA Smallest ==
    ASSUME NEW n \in Nat, NEW S, \A x \in S : x \in 0 .. n - 1, S # {}
    PROVE  \E i \in S : \A j \in S : i <= j
<1>1. 0 \in Int
  OBVIOUS
<1>2. IsFiniteSet(S) /\ Cardinality(S) \in Nat
  BY <1>1, BeforeIsFinite
<1>3. Cardinality(S) # 0
  BY <1>2, FS_EmptySet
<1>4. 0 \in 0 .. Cardinality(S) - 1
  BY <1>2, <1>3
<1>5. PICK i \in S : Before(S, i) = 0
  BY <1>4, RankIsTaken
<1>6. IsFiniteSet({j \in S : j < i}) /\ i \in Int
  BY BeforeIsFinite
<1>7. {j \in S : j < i} = {}
  BY <1>5, <1>6, FS_EmptySet DEF Before
<1>8. \A j \in S : ~(j < i) /\ j \in Int
  BY <1>7
<1> QED
  BY <1>6, <1>8

LEMMA FirstRow ==
    ASSUME NEW q \in Seq(QueueRows), NEW t \in TracksOf(q)
    PROVE  \E i \in RowsOf(q) : /\ TrackAt(q, i) = t
                                /\ \A j \in 0 .. i - 1 : TrackAt(q, j) # t
<1> DEFINE S == {i \in RowsOf(q) : TrackAt(q, i) = t}
<1>1. Len(q) \in Nat /\ RowsOf(q) = 0 .. Len(q) - 1 /\ DOMAIN q = 1 .. Len(q)
  BY RowFacts, LenProperties
<1>2. PICK k \in 1 .. Len(q) : q[k].track = t
  BY <1>1 DEF TracksOf
<1>3. k - 1 \in S
  <2>1. k - 1 \in RowsOf(q) /\ (k - 1) + 1 = k
    BY <1>1
  <2> QED
    BY <1>2, <2>1 DEF TrackAt
<1>4. (\A x \in S : x \in 0 .. Len(q) - 1) /\ S # {}
  BY <1>1, <1>3
<1> HIDE DEF S
<1>5. PICK i \in S : \A j \in S : i <= j
  BY <1>1, <1>4, Smallest
<1>6. i \in 0 .. Len(q) - 1
  BY <1>4
<1>7. \A j \in 0 .. i - 1 : j \in RowsOf(q) /\ ~(i <= j)
  BY <1>1, <1>6
<1> QED
  BY <1>5, <1>7 DEF S

LEMMA AppendAndPlayStep == ASSUME Types, AppendAndPlay PROVE Step
<1>1. UNCHANGED <<modes, stopAfter>>
  BY DEF AppendAndPlay
<1>2. PICK t \in Tracks :
          \/ /\ t \in TracksOf(queue) /\ queue' = queue
             /\ Jump(CHOOSE i \in RowsOf(queue) : /\ TrackAt(queue, i) = t
                                                  /\ \A j \in 0 .. i - 1 : TrackAt(queue, j) # t)
          \/ /\ Len(queue) < MaxQueue
             /\ queue' = Append(queue, [track |-> t, asked |-> FALSE])
             /\ Jump(Len(queue))
  BY DEF AppendAndPlay
<1>3. CASE /\ t \in TracksOf(queue) /\ queue' = queue
           /\ Jump(CHOOSE i \in RowsOf(queue) : /\ TrackAt(queue, i) = t
                                                /\ \A j \in 0 .. i - 1 : TrackAt(queue, j) # t)
  <2> DEFINE first == CHOOSE i \in RowsOf(queue) :
                          /\ TrackAt(queue, i) = t
                          /\ \A j \in 0 .. i - 1 : TrackAt(queue, j) # t
  <2>1. first \in RowsOf(queue)
    BY <1>3, FirstRow, TypesParts
  <2>2. Jump(first)
    BY <1>3
  <2> HIDE DEF first
  <2> QED
    BY <1>1, <1>3, <2>1, <2>2, SameQueue, Jumping
<1>4. CASE /\ Len(queue) < MaxQueue
           /\ queue' = Append(queue, [track |-> t, asked |-> FALSE])
           /\ Jump(Len(queue))
  BY <1>1, <1>4, Appended, Jumping
<1> QED
  BY <1>2, <1>3, <1>4

\* What moveRows() makes of the queue and of the current row.
MovedAs(q, i) ==
    /\ q \in Seq(QueueRows) /\ Len(q) = Len(queue) /\ i \in -1 .. Len(q) - 1
    /\ i >= 0 => queueIndex >= 0 /\ q[i + 1] = queue[queueIndex + 1]

LEMMA MovedRows ==
    ASSUME Types, NEW moved, \A x \in moved : x \in RowsOf(queue),
           NEW destination \in 0 .. Len(queue), NEW at, at = destination - Before(moved, destination)
    PROVE  MovedAs(Moved(queue, moved, at), CurrentAfterMove(moved, at))
<1>1. queue \in Seq(QueueRows) /\ queueIndex \in -1 .. Len(queue) - 1
  BY TypesParts
<1>2. LET to == destination - Before(moved, destination)
          q  == Moved(queue, moved, to)
          i  == CurrentAfterMove(moved, to)
      IN  /\ q \in Seq(QueueRows) /\ Len(q) = Len(queue)
          /\ i \in -1 .. Len(q) - 1
          /\ i >= 0 => queueIndex >= 0 /\ q[i + 1] = queue[queueIndex + 1]
  BY <1>1, Moving
<1> QED
  BY <1>2, Zenon DEF MovedAs

LEMMA MoveRowsStep == ASSUME Types, MoveRows PROVE Step
<1>1. PICK moved \in (SUBSET RowsOf(queue)) \ {{}}, destination \in 0 .. Len(queue) :
          LET at     == destination - Before(moved, destination)
              rest   == PickRows(queue, RowsOf(queue) \ moved)
              index  == CurrentAfterMove(moved, at)
          IN ShiftRows(SubSeq(rest, 1, at) \o PickRows(queue, moved)
                         \o SubSeq(rest, at + 1, Len(rest)), index, index + 1)
  BY DEF MoveRows
<1> DEFINE at == destination - Before(moved, destination)
           q == Moved(queue, moved, at)
           index == CurrentAfterMove(moved, at)
<1>2. ShiftRows(q, index, index + 1)
  BY <1>1 DEF Moved, Spliced, Left
<1>3. MovedAs(q, index)
  BY MovedRows
<1> HIDE DEF at, q, index
<1>4. /\ queue' = q /\ queueIndex' = index /\ playNextInsertIndex' = index + 1
      /\ history' = <<>> /\ forward' = <<>> /\ UNCHANGED modes
  BY <1>2 DEF ShiftRows
<1>5. ~started /\ KeepBackend /\ Presented /\ UNCHANGED stopAfter
      /\ PrepareNext(ResetVisited, currentTrack)
  BY DEF MoveRows, Stable
<1>6. RowsOK'
  <2>1. Len(queue) \in Nat /\ Len(queue) =< MaxQueue
    BY TypesParts
  <2>2. queue' \in Seq(QueueRows) /\ Len(queue') = Len(queue) /\ index \in -1 .. Len(queue') - 1
    BY <1>3, <1>4 DEF MovedAs
  <2>3. index + 1 \in -1 .. Len(queue')
    BY <2>1, <2>2
  <2> QED
    BY <1>4, <2>1, <2>2, <2>3 DEF RowsOK
<1>7. RowKept
  BY <1>3, <1>4 DEF MovedAs, RowKept, TrackAt
<1> QED
  BY <1>4, <1>5, <1>6, <1>7, PresentedOK, Shifting

\* What removeRows() makes of the queue and of the current row.
RemovedAs(q, i, removed) ==
    /\ q \in Seq(QueueRows) /\ Len(q) \in 0 .. Len(queue) /\ i \in -1 .. Len(q) - 1
    /\ i >= 0 => queueIndex >= 0
    /\ i >= 0 /\ queueIndex \notin removed => q[i + 1] = queue[queueIndex + 1]

AfterRemoval(q, removed) == Clamp(queueIndex - Before(removed, queueIndex), -1, Len(q) - 1)

LEMMA RemovedRows ==
    ASSUME Types, NEW removed, \A x \in removed : x \in RowsOf(queue)
    PROVE  /\ RemovedAs(Left(queue, removed), AfterRemoval(Left(queue, removed), removed), removed)
           /\ RegionEnd(playNextInsertIndex, removed) \in Int
<1> DEFINE q == Left(queue, removed)
           i == AfterRemoval(q, removed)
           n == Len(queue)
<1>1. /\ queue \in Seq(QueueRows) /\ queueIndex \in -1 .. n - 1 /\ n \in Nat
      /\ RowsOf(queue) = 0 .. n - 1 /\ playNextInsertIndex \in Int
  BY TypesParts, PniIsInt
<1>2. \A x \in removed : x \in 0 .. n - 1
  BY <1>1
<1>3. RegionEnd(playNextInsertIndex, removed) \in Int
  <2>1. Before(removed, playNextInsertIndex) \in 0 .. Cardinality(removed)
    BY <1>1, <1>2, BeforeIsFinite
  <2>2. Cardinality(removed) \in Nat
    BY <1>1, <1>2, BeforeIsFinite
  <2> QED
    BY <1>1, <2>1, <2>2 DEF RegionEnd
<1>4. q \in Seq(QueueRows) /\ Len(q) \in 0 .. n
  <2>1. 0 \in 0 .. Len(queue)
    BY <1>1
  <2>2. LeftOf(QueueRows, q, queue, removed, 0)
    BY <1>1, <2>1, Removal
  <2> HIDE DEF q
  <2> QED
    BY <2>2 DEF LeftOf
<1>5. CASE queueIndex = -1
  <2>0. -1 \in Int /\ -1 < 0
    OBVIOUS
  <2>1. Before(removed, -1) = 0
    BY <1>1, <1>2, <2>0, BeforeIsFinite
  <2> HIDE DEF q
  <2>2. i = -1
    BY <1>1, <1>4, <1>5, <2>1 DEF AfterRemoval, Clamp
  <2> HIDE DEF i
  <2> QED
    BY <1>1, <1>3, <1>4, <2>2 DEF RemovedAs, q, i
<1>6. CASE queueIndex # -1
  <2> DEFINE to == queueIndex - Before(removed, queueIndex)
  <2>1. queueIndex \in 0 .. n /\ queueIndex \in RowsOf(queue)
    BY <1>1, <1>6
  <2>2. LeftOf(QueueRows, q, queue, removed, queueIndex)
    BY <1>1, <2>1, Removal
  <2> HIDE DEF q
  <2>3. /\ to \in 0 .. Len(q)
        /\ queueIndex \notin removed => to \in RowsOf(q) /\ q[to + 1] = queue[queueIndex + 1]
    BY <2>1, <2>2 DEF LeftOf
  <2>4. i = Clamp(to, -1, Len(q) - 1)
    BY DEF AfterRemoval
  <2> HIDE DEF i, to
  <2>5. Len(q) \in Nat
    BY <1>1, <1>4
  <2>6. i \in -1 .. Len(q) - 1
    BY <2>3, <2>4, <2>5 DEF Clamp
  <2>7. to \in RowsOf(q) => i = to
    BY <2>4, <2>5 DEF Clamp, RowsOf
  <2>8. i >= 0 => queueIndex >= 0
    BY <1>1, <2>1
  <2>9. queueIndex \notin removed => q[i + 1] = queue[queueIndex + 1]
    BY <2>3, <2>7
  <2>10. RemovedAs(q, i, removed)
    BY <1>4, <2>6, <2>8, <2>9 DEF RemovedAs
  <2> QED
    BY <1>3, <2>10 DEF q, i
<1> QED
  BY <1>5, <1>6

\* The queue is emptied, and the backend stopped.
LEMMA Emptied ==
    ASSUME Types, RowsOK', history' = <<>>, forward' = <<>>, UNCHANGED modes,
           GiveUp, currentTrack' = NoTrack, preparedNext' = NoNext, visited' = {},
           UNCHANGED <<prompt, report, skipping>>
    PROVE  Step
<1>1. /\ Halted /\ SoundOK' /\ TimerOK' /\ prepared' \in OptTrack /\ stopPending' \in BOOLEAN
      /\ pendingStagedStart' \in OptTrack
  BY GivingUp
<1>2. ShownOK' /\ OfferOK'
  BY <1>1 DEF Types, ShownOK, OfferOK, report, NoNext, Choice, OptTrack
<1>3. PromptOK' /\ PromptKept
  BY DEF Types, PromptOK, prompt, PromptKept
<1>4. TrailOK' /\ ModesOK'
  BY NoTrail DEF Types, TrailOK, ModesOK, modes
<1> QED
  BY <1>1, <1>2, <1>3, <1>4 DEF Step, Types, Kind

LEMMA RemoveRowsStep == ASSUME Types, RemoveRows PROVE Step
<1>1. PICK removed \in (SUBSET RowsOf(queue)) \ {{}} :
        LET q     == PickRows(queue, RowsOf(queue) \ removed)
            index == Clamp(queueIndex - Before(removed, queueIndex), -1, Len(q) - 1)
        IN /\ ShiftRows(q, index, Clamp(RegionEnd(playNextInsertIndex, removed), index + 1, Len(q)))
           /\ \/ /\ index >= 0 /\ queueIndex \in removed /\ source # NoTrack
                 /\ UNCHANGED stopAfter
                 /\ PlayCurrent(state = "Playing", state # "Playing", ResetVisited, Rounds)
              \/ /\ index >= 0 /\ (queueIndex \in removed => source = NoTrack)
                 /\ KeepBackend /\ UNCHANGED <<stopAfter, prompt, report, skipping>>
                 /\ PrepareNext(ResetVisited, currentTrack)
                 /\ IF queueIndex \notin removed /\ currentTrack = TrackAt(q, index)
                    THEN UNCHANGED <<currentTrack, pendingStagedStart>>
                    ELSE PresentTrack(TrackAt(q, index))
              \/ /\ index < 0
                 /\ GiveUp /\ currentTrack' = NoTrack
                 /\ preparedNext' = NoNext /\ visited' = {}
                 /\ UNCHANGED <<prompt, report, skipping>>
  BY DEF RemoveRows
<1> DEFINE q == Left(queue, removed)
           index == AfterRemoval(q, removed)
           pni == Clamp(RegionEnd(playNextInsertIndex, removed), index + 1, Len(q))
<1>a. ~started
  BY DEF RemoveRows, Stable
<1>2. /\ ShiftRows(q, index, pni)
      /\ \/ /\ index >= 0 /\ queueIndex \in removed /\ source # NoTrack
            /\ UNCHANGED stopAfter
            /\ PlayCurrent(state = "Playing", state # "Playing", ResetVisited, Rounds)
         \/ /\ index >= 0 /\ (queueIndex \in removed => source = NoTrack)
            /\ KeepBackend /\ UNCHANGED <<stopAfter, prompt, report, skipping>>
            /\ PrepareNext(ResetVisited, currentTrack)
            /\ IF queueIndex \notin removed /\ currentTrack = TrackAt(q, index)
               THEN UNCHANGED <<currentTrack, pendingStagedStart>>
               ELSE PresentTrack(TrackAt(q, index))
         \/ /\ index < 0
            /\ GiveUp /\ currentTrack' = NoTrack
            /\ preparedNext' = NoNext /\ visited' = {}
            /\ UNCHANGED <<prompt, report, skipping>>
  BY <1>1 DEF Left, AfterRemoval
<1>3. RemovedAs(q, index, removed) /\ RegionEnd(playNextInsertIndex, removed) \in Int
  BY RemovedRows
<1> HIDE DEF q, index
<1>4. Len(queue) \in Nat /\ Len(queue) =< MaxQueue
  BY TypesParts
<1>5. q \in Seq(QueueRows) /\ Len(q) \in 0 .. Len(queue) /\ index \in -1 .. Len(q) - 1
  BY <1>3 DEF RemovedAs
<1>6. pni \in -1 .. Len(q)
  <2> DEFINE end == RegionEnd(playNextInsertIndex, removed)
  <2>1. end \in Int /\ Len(q) \in Nat
    BY <1>3, <1>4, <1>5
  <2> HIDE DEF end
  <2> QED
    BY <1>5, <2>1 DEF Clamp, end
<1> HIDE DEF pni
<1>7. /\ queue' = q /\ queueIndex' = index /\ playNextInsertIndex' = pni
      /\ history' = <<>> /\ forward' = <<>> /\ UNCHANGED modes
  BY <1>2 DEF ShiftRows
<1>8. RowsOK'
  <2>1. Len(q) =< MaxQueue
    BY <1>4, <1>5, Consts
  <2> QED
    BY <1>5, <1>6, <1>7, <2>1 DEF RowsOK
<1>9. CASE /\ index >= 0 /\ UNCHANGED stopAfter
           /\ PlayCurrent(state = "Playing", state # "Playing", ResetVisited, Rounds)
  <2>1. history' \in Seq(RowsOf(queue')) /\ forward' \in Seq(RowsOf(queue'))
    BY <1>7, NoTrail
  <2>2. Rounds \in 1 .. MaxQueue + 2
    BY <1>8, RoundsOK DEF RowsOK
  <2>3. queueIndex' \in RowsOf(queue')
    BY <1>5, <1>7, <1>9 DEF RowsOf
  <2> DEFINE vis == ResetVisited
             notify == (state = "Playing")
             paused == (state # "Playing")
  <2>4. vis \subseteq RowsOf(queue') /\ notify \in BOOLEAN /\ paused \in BOOLEAN
        /\ PlayCurrent(notify, paused, vis, Rounds)
    BY <1>9 DEF ResetVisited
  <2> HIDE DEF vis, notify, paused
  <2>5. Played
    BY <1>8, <2>1, <2>2, <2>3, <2>4, PlayingCurrent DEF Played
  <2> QED
    BY <1>7, <1>8, <1>9, <2>1, <2>5, SameModes, PlayedStep
<1>10. CASE /\ index >= 0 /\ (queueIndex \in removed => source = NoTrack)
            /\ KeepBackend /\ UNCHANGED <<stopAfter, prompt, report, skipping>>
            /\ PrepareNext(ResetVisited, currentTrack)
            /\ IF queueIndex \notin removed /\ currentTrack = TrackAt(q, index)
               THEN UNCHANGED <<currentTrack, pendingStagedStart>>
               ELSE PresentTrack(TrackAt(q, index))
  <2>1. TrackAt(q, index) \in Tracks
    <3>1. index \in RowsOf(q)
      BY <1>5, <1>10 DEF RowsOf
    <3> QED
      BY <1>5, <3>1, RowFacts
  <2>2. ShownOK'
    BY <1>10, <2>1 DEF Types, ShownOK, PresentTrack, OptTrack, report
  <2>3. announced' = announced /\ silent' = silent
    BY <1>10 DEF report
  <2>4. source # NoTrack => queueIndex >= 0 /\ TrackAt(q, index) = TrackAt(queue, queueIndex)
    BY <1>3, <1>10 DEF RemovedAs, TrackAt
  <2>5. source # NoTrack => RowKept
    BY <1>7, <2>4 DEF RowKept
  <2>6. source # NoTrack => ShownKept
    <3>1. CASE UNCHANGED <<currentTrack, pendingStagedStart>>
      BY <2>3, <3>1 DEF ShownKept
    <3>2. CASE PresentTrack(TrackAt(q, index)) /\ (queueIndex \in removed \/ currentTrack # TrackAt(q, index))
      BY <1>7, <1>10, <2>3, <2>4, <3>2 DEF ShownKept, PresentTrack
    <3> QED
      BY <1>10, <3>1, <3>2
  <2> QED
    BY <1>a, <1>7, <1>8, <1>10, <2>2, <2>3, <2>5, <2>6, Shifting
<1>11. CASE /\ index < 0
            /\ GiveUp /\ currentTrack' = NoTrack
            /\ preparedNext' = NoNext /\ visited' = {}
            /\ UNCHANGED <<prompt, report, skipping>>
  BY <1>7, <1>8, <1>11, Emptied
<1> QED
  BY <1>2, <1>9, <1>10, <1>11

LEMMA ClearAllStep == ASSUME Types, ClearAll PROVE Step
<1>1. /\ queue' = <<>> /\ queueIndex' = -1 /\ playNextInsertIndex' = -1
      /\ history' = <<>> /\ forward' = <<>> /\ UNCHANGED modes
  BY DEF ClearAll, ShiftRows
<1>2. RowsOK'
  BY <1>1, EmptySeq, Consts DEF RowsOK
<1> QED
  BY <1>1, <1>2, Emptied DEF ClearAll

LEMMA ClearKeepingCurrentStep == ASSUME Types, ClearKeepingCurrent PROVE Step
<1> DEFINE row == queue[queueIndex + 1]
           t == TrackAt(queue, queueIndex)
<1>1. /\ ShiftRows(<<row>>, 0, 1)
      /\ KeepBackend /\ UNCHANGED <<stopAfter, prompt, report, skipping>>
      /\ PrepareNext(ResetVisited, currentTrack)
      /\ currentTrack' = t
      /\ pendingStagedStart' = IF source # NoTrack /\ currentTrack = t
                                  /\ pendingStagedStart = t
                               THEN t ELSE NoTrack
      /\ ~started /\ queueIndex >= 0
  BY DEF ClearKeepingCurrent, Stable
<1>2. queueIndex \in RowsOf(queue)
  BY <1>1, TypesParts
<1>3. row \in QueueRows /\ t \in Tracks /\ row.track = t
  BY <1>2, RowFacts, TypesParts DEF TrackAt
<1> HIDE DEF row, t
<1>4. /\ queue' = <<row>> /\ queueIndex' = 0 /\ playNextInsertIndex' = 1
      /\ history' = <<>> /\ forward' = <<>> /\ UNCHANGED modes
  BY <1>1 DEF ShiftRows
<1>5. queue' \in Seq(QueueRows) /\ Len(queue') = 1 /\ TrackAt(queue', 0) = t
  BY <1>3, <1>4 DEF TrackAt
<1>6. RowsOK'
  BY <1>4, <1>5, Consts DEF RowsOK
<1>7. ShownOK' /\ announced' = announced /\ silent' = silent
  BY <1>1, <1>3 DEF Types, ShownOK, OptTrack, report
<1>8. RowKept
  BY <1>1, <1>4, <1>5 DEF RowKept, t
<1>9. source # NoTrack => ShownKept
  BY <1>1, <1>4, <1>5, <1>7 DEF ShownKept, t
<1> QED
  BY <1>1, <1>4, <1>6, <1>7, <1>8, <1>9, Shifting

LEMMA CollapsePlayNextStep == ASSUME Types, CollapsePlayNext PROVE Step
<1> USE DEF CollapsePlayNext
<1>1. queue' = queue /\ queueIndex' = queueIndex /\ RowsOK'
  <2>1. playNextInsertIndex' \in -1 .. Len(queue)
    BY TypesParts
  <2> QED
    BY <2>1 DEF Types, RowsOK
<1>2. TrailOK' /\ ModesOK'
  BY DEF Types, TrailOK, ModesOK, trail, modes
<1>3. ShownOK' /\ PromptOK' /\ TimerOK' /\ PromptKept
  BY DEF Types, ShownOK, PromptOK, TimerOK, report, prompt, PromptKept
<1>4. OfferOK' /\ SoundOK'
  BY DEF Types, OfferOK, SoundOK, backend
<1>5. Carried
  BY DEF Carried, report, backend
<1> QED
  BY <1>1, <1>2, <1>3, <1>4, <1>5 DEF Step, Types, Kind

LEMMA ReplaceQueueStep == ASSUME Types, ReplaceQueue PROVE Step
<1>0. PICK list \in Lists : \E start \in RowsOf(list) :
          /\ queue' = AsRows(list, FALSE)
          /\ history' = <<>> /\ forward' = <<>>
          /\ PlayAt(start, -1, {}, Rounds)
  BY DEF ReplaceQueue
<1>1. PICK start \in RowsOf(list) :
          /\ queue' = AsRows(list, FALSE)
          /\ history' = <<>> /\ forward' = <<>>
          /\ PlayAt(start, -1, {}, Rounds)
  BY <1>0
<1>2. queue' \in Seq(QueueRows) /\ Len(queue') = Len(list) /\ Len(queue') =< MaxQueue
  BY <1>1, RowsFromList, ListFacts
<1>3. start \in RowsOf(queue')
  BY <1>2 DEF RowsOf
<1>4. history' \in Seq(RowsOf(queue')) /\ forward' \in Seq(RowsOf(queue'))
  BY <1>1, NoTrail
<1>5. -1 \in Int /\ {} \subseteq RowsOf(queue')
  OBVIOUS
<1>6. RowsOK' /\ Played
  <2>1. Rounds \in 1 .. MaxQueue + 2
    BY <1>2, RoundsOK
  <2> DEFINE vis == {}
  <2>2. vis \subseteq RowsOf(queue') /\ PlayAt(start, -1, vis, Rounds)
    BY <1>1
  <2> HIDE DEF vis
  <2> QED
    BY <1>2, <1>3, <1>4, <1>5, <2>1, <2>2, PlayingAt
<1> QED
  BY <1>4, <1>6, SameModes, PlayedStep DEF ReplaceQueue

LEMMA SyncQueueStep == ASSUME Types, SyncQueue PROVE Step
<1>1. PICK list \in Lists :
        LET found == {i \in RowsOf(list) : list[i + 1] = currentTrack}
            index == IF found = {} THEN -1 ELSE CHOOSE i \in found : \A j \in found : i <= j
        IN /\ ShiftRows(AsRows(list, FALSE), index, IF index < 0 THEN -1 ELSE index + 1)
           /\ pendingStagedStart' = IF index >= 0 THEN pendingStagedStart ELSE NoTrack
           /\ silent' = (silent \/ pendingStagedStart # pendingStagedStart')
  BY DEF SyncQueue
<1> DEFINE found == {i \in RowsOf(list) : list[i + 1] = currentTrack}
           index == IF found = {} THEN -1 ELSE CHOOSE i \in found : \A j \in found : i <= j
<1>2. /\ ShiftRows(AsRows(list, FALSE), index, IF index < 0 THEN -1 ELSE index + 1)
      /\ pendingStagedStart' = IF index >= 0 THEN pendingStagedStart ELSE NoTrack
      /\ silent' = (silent \/ pendingStagedStart # pendingStagedStart')
  BY <1>1
<1>3. ~started /\ KeepBackend /\ UNCHANGED <<prompt, announced, currentTrack, stopAfter, skipping>>
      /\ PrepareNext(ResetVisited, currentTrack)
  BY DEF SyncQueue, Stable
<1>4. index = -1 \/ (index \in RowsOf(list) /\ list[index + 1] = currentTrack)
  <2>1. CASE found = {}
    BY <2>1
  <2>2. CASE found # {}
    <3>1. Len(list) \in Nat /\ \A x \in found : x \in 0 .. Len(list) - 1
      BY ListFacts
    <3> HIDE DEF found
    <3>2. \E i \in found : \A j \in found : i <= j
      BY <2>2, <3>1, Smallest
    <3>3. index \in found
      BY <2>2, <3>2
    <3> QED
      BY <3>3 DEF found
  <2> QED
    BY <2>1, <2>2
<1> HIDE DEF found, index
<1>5. /\ queue' = AsRows(list, FALSE) /\ queueIndex' = index
      /\ playNextInsertIndex' = (IF index < 0 THEN -1 ELSE index + 1)
      /\ history' = <<>> /\ forward' = <<>> /\ UNCHANGED modes
  BY <1>2 DEF ShiftRows
<1>6. /\ queue' \in Seq(QueueRows) /\ Len(queue') = Len(list) /\ Len(queue') =< MaxQueue
      /\ \A k \in 1 .. Len(list) : queue'[k].track = list[k]
  BY <1>5, RowsFromList, ListFacts
<1>7. RowsOK'
  <2>1. Len(list) \in Nat /\ (index = -1 \/ index \in 0 .. Len(list) - 1)
    BY <1>4, ListFacts
  <2> DEFINE n == Len(list)
  <2>a. n \in Nat /\ index \in -1 .. n - 1 /\ Len(queue') = n
    BY <1>6, <2>1
  <2> HIDE DEF n
  <2>b. (IF index < 0 THEN -1 ELSE index + 1) \in -1 .. n
    BY <2>a
  <2>2. queueIndex' \in -1 .. Len(queue') - 1 /\ playNextInsertIndex' \in -1 .. Len(queue')
    BY <1>5, <2>a, <2>b
  <2> QED
    BY <1>6, <2>2 DEF RowsOK
<1>8. ShownOK'
  BY <1>2, <1>3 DEF Types, ShownOK, OptTrack
<1>9. RowKept
  <2>1. ASSUME index \in RowsOf(list) PROVE TrackAt(queue', index) = list[index + 1]
    <3>1. index + 1 \in 1 .. Len(list)
      BY <2>1, ListFacts
    <3> QED
      BY <1>6, <3>1 DEF TrackAt
  <2>2. index = -1 => ~(queueIndex' >= 0)
    BY <1>5
  <2> QED
    BY <1>3, <1>4, <1>5, <2>1, <2>2 DEF RowKept
<1>10. ShownKept
  BY <1>2, <1>3 DEF Types, ShownOK, ShownKept
<1> QED
  BY <1>3, <1>5, <1>7, <1>8, <1>9, <1>10, Shifting

LEMMA RestoreQueueStep == ASSUME Types, OfferInv, RestoreQueue PROVE Step
<1>a. PICK list \in Lists : \E i \in RowsOf(list) : \E end \in i + 1 .. Len(list) :
        /\ ShiftRows([k \in DOMAIN list |->
                        [track |-> list[k], asked |-> k - 1 \in i + 1 .. end - 1]], i, end)
        /\ PresentTrack(list[i + 1])
  BY DEF RestoreQueue
<1>b. PICK i \in RowsOf(list) : \E end \in i + 1 .. Len(list) :
        /\ ShiftRows([k \in DOMAIN list |->
                        [track |-> list[k], asked |-> k - 1 \in i + 1 .. end - 1]], i, end)
        /\ PresentTrack(list[i + 1])
  BY <1>a
<1>1. PICK end \in i + 1 .. Len(list) :
        /\ ShiftRows([k \in DOMAIN list |->
                        [track |-> list[k], asked |-> k - 1 \in i + 1 .. end - 1]], i, end)
        /\ PresentTrack(list[i + 1])
  BY <1>b
<1> DEFINE q == [k \in DOMAIN list |-> [track |-> list[k], asked |-> k - 1 \in i + 1 .. end - 1]]
<1>2. Len(list) \in Nat /\ Len(list) =< MaxQueue /\ i \in 0 .. Len(list) - 1
      /\ end \in i + 1 .. Len(list) /\ list[i + 1] \in Tracks
  <2>1. i \in 0 .. Len(list) - 1 /\ Len(list) \in Nat /\ Len(list) =< MaxQueue
    BY ListFacts
  <2>2. i + 1 \in 1 .. Len(list)
    BY <2>1
  <2> QED
    BY <2>1, <2>2, ListFacts
<1>3. q \in Seq(QueueRows) /\ Len(q) = Len(list)
  <2>1. q \in [1 .. Len(list) -> QueueRows]
    BY ListFacts DEF QueueRows
  <2> HIDE DEF q
  <2> QED
    BY <1>2, <2>1, SeqOfRows
<1>4. ShiftRows(q, i, end)
  BY <1>1
<1> HIDE DEF q
<1>5. /\ queue' = q /\ queueIndex' = i /\ playNextInsertIndex' = end
      /\ history' = <<>> /\ forward' = <<>> /\ UNCHANGED modes
  BY <1>4 DEF ShiftRows
<1>6. RowsOK'
  <2>1. end \in -1 .. Len(list) /\ i \in -1 .. Len(list) - 1
    BY <1>2
  <2> QED
    BY <1>2, <1>3, <1>5, <2>1 DEF RowsOK
<1>7. /\ visited' = ResetVisited /\ queue = <<>> /\ source = NoTrack /\ Ready
      /\ UNCHANGED <<prompt, backend, report, preparedNext, stopAfter, skipping>>
  BY DEF RestoreQueue
<1>8. TrailOK'
  BY <1>5, <1>7, NoTrail DEF TrailOK, ResetVisited
<1>9. ShownOK'
  BY <1>1, <1>2, <1>7 DEF Types, ShownOK, PresentTrack, OptTrack, report
<1>10. ModesOK' /\ PromptOK' /\ OfferOK' /\ SoundOK' /\ TimerOK' /\ PromptKept
  BY <1>5, <1>7 DEF Types, ModesOK, modes, PromptOK, prompt, OfferOK, SoundOK, backend, TimerOK, PromptKept
<1>11. Halted
  <2>1. RowsOf(queue) = {}
    BY <1>7, EmptySeq DEF RowsOf
  <2>2. {prepared, armed} \ {NoTrack} = {}
    BY <1>7, <2>1 DEF OfferInv, PreparedIsNextRow
  <2> QED
    BY <1>7, <2>2 DEF Halted, backend
<1> QED
  BY <1>6, <1>8, <1>9, <1>10, <1>11 DEF Step, Types, Kind

LEMMA MutationStep == ASSUME Types, OfferInv, Mutation PROVE Step
BY PlayTracksNextStep, AppendTracksStep, AppendAndPlayStep, MoveRowsStep, RemoveRowsStep,
   ClearAllStep, ClearKeepingCurrentStep, CollapsePlayNextStep, ReplaceQueueStep,
   SyncQueueStep, RestoreQueueStep DEF Mutation

----------------------------------------------------------------------------
(* Policy, the backend, the skipping loop and the takeover prompt. *)

LEMMA ModeStep ==
    ASSUME Types, ModesOK', ~started, NEW vis, vis \subseteq RowsOf(queue), Prepared(vis),
           history' \in Seq(RowsOf(queue)), forward' \in Seq(RowsOf(queue))
    PROVE  Step
<1>1. /\ KeepBackend /\ Presented /\ UNCHANGED <<rows, stopAfter>>
      /\ PrepareNext(vis, currentTrack)
  BY DEF Prepared
<1>2. queue' = queue /\ queueIndex' = queueIndex /\ RowsOK' /\ TimerOK'
  BY <1>1 DEF Types, RowsOK, TimerOK, rows
<1>3. RowKept
  BY <1>2 DEF RowKept
<1> QED
  BY <1>1, <1>2, <1>3, PresentedOK, Redeciding

LEMMA SetRepeatModeStep == ASSUME Types, SetRepeatMode PROVE Step
<1>1. ModesOK'
  BY DEF SetRepeatMode, Types, ModesOK
<1>2. history' \in Seq(RowsOf(queue)) /\ forward' \in Seq(RowsOf(queue)) /\ visited \subseteq RowsOf(queue)
  BY TypesParts DEF SetRepeatMode, KeepTrail
<1> QED
  BY <1>1, <1>2, ModeStep DEF SetRepeatMode, Stable

LEMMA SetShuffleModeStep == ASSUME Types, SetShuffleMode PROVE Step
<1>1. ModesOK'
  BY DEF SetShuffleMode, Types, ModesOK
<1>2. history' \in Seq(RowsOf(queue)) /\ forward' \in Seq(RowsOf(queue))
  BY NoTrail DEF SetShuffleMode
<1> DEFINE vis == {queueIndex} \intersect RowsOf(queue)
<1>3. vis \subseteq RowsOf(queue) /\ Prepared(vis) /\ ~started
  BY DEF SetShuffleMode, Stable
<1> HIDE DEF vis
<1> QED
  BY <1>1, <1>2, <1>3, ModeStep

LEMMA SetRadioActiveStep == ASSUME Types, SetRadioActive PROVE Step
<1> USE DEF SetRadioActive
<1>1. RowsOK' /\ TrailOK' /\ ModesOK'
  BY DEF Types, RowsOK, TrailOK, ModesOK, rows, trail
<1>2. ShownOK' /\ PromptOK' /\ TimerOK' /\ PromptKept
  BY DEF Types, ShownOK, PromptOK, TimerOK, report, prompt, PromptKept
<1>3. OfferOK' /\ SoundOK'
  BY DEF Types, OfferOK, SoundOK, backend
<1>4. Carried
  BY DEF Carried, rows, report, backend
<1> QED
  BY <1>1, <1>2, <1>3, <1>4 DEF Step, Types, Kind

LEMMA SetPolicyStep == ASSUME Types, SetPolicy PROVE Step
BY SetRepeatModeStep, SetShuffleModeStep, SetRadioActiveStep DEF SetPolicy

LEMMA ArmHandoffStep == ASSUME Types, ArmHandoff PROVE Step
<1> USE DEF ArmHandoff
<1>1. RowsOK' /\ TrailOK' /\ ModesOK'
  BY StillOK DEF Still
<1>2. ShownOK' /\ PromptOK' /\ TimerOK' /\ PromptKept
  BY DEF Types, ShownOK, PromptOK, TimerOK, report, prompt, PromptKept
<1>3. OfferOK' /\ SoundOK'
  BY DEF Types, OfferOK, SoundOK, OptTrack
<1>4. Carried
  BY DEF Carried, rows, report
<1> QED
  BY <1>1, <1>2, <1>3, <1>4 DEF Step, Types, Kind

LEMMA StartHandoffStep == ASSUME Types, StartHandoff PROVE Step
<1> USE DEF StartHandoff
<1>1. RowsOK' /\ TrailOK' /\ ModesOK'
  BY StillOK DEF Still
<1>2. ShownOK' /\ PromptOK' /\ TimerOK' /\ PromptKept
  BY DEF Types, ShownOK, PromptOK, TimerOK, report, prompt, PromptKept
<1>3. OfferOK' /\ SoundOK'
  BY DEF Types, OfferOK, SoundOK
<1>4. Carried
  BY DEF Carried, rows, report
<1> QED
  BY <1>1, <1>2, <1>3, <1>4 DEF Step, Types, Kind

LEMMA FailStep == ASSUME Types, Fail PROVE Step
<1> USE DEF Fail
<1>1. RowsOK' /\ TrailOK' /\ ModesOK'
  BY StillOK DEF Still
<1>2. ShownOK' /\ PromptOK' /\ TimerOK' /\ PromptKept
  BY DEF Types, ShownOK, PromptOK, TimerOK, report, prompt, PromptKept
<1>3. OfferOK' /\ SoundOK'
  BY DEF Types, OfferOK, SoundOK
<1>4. Carried
  BY DEF Carried, rows, report
<1> QED
  BY <1>1, <1>2, <1>3, <1>4 DEF Step, Types, Kind

\* What the row a hand-off lands on leaves typed.
LEMMA Advancing ==
    ASSUME Types, NEW i \in RowsOf(queue), Advance(i)
    PROVE  /\ RowsOK' /\ TrailOK' /\ ModesOK' /\ OfferOK' /\ Offered(currentTrack')
           /\ queueIndex' \in RowsOf(queue') /\ currentTrack' = TrackAt(queue', queueIndex')
           /\ currentTrack' = TrackAt(queue, i) /\ currentTrack' \in Tracks
<1>1. /\ queue' = queue /\ queueIndex' = i /\ UNCHANGED modes
      /\ playNextInsertIndex' = IF LinearConsume(i) THEN Collapse(playNextInsertIndex, i, Len(queue))
                                ELSE i + 1
      /\ RecordForwardStep(queueIndex, i)
      /\ currentTrack' = TrackAt(queue, i)
      /\ PrepareNext(visited \union {i}, TrackAt(queue, i))
  BY DEF Advance
<1>2. /\ queue \in Seq(QueueRows) /\ Len(queue) \in Nat /\ i \in 0 .. Len(queue) - 1
      /\ Len(queue) =< MaxQueue /\ visited \subseteq RowsOf(queue) /\ playNextInsertIndex \in Int
  BY TypesParts, PniIsInt
<1>3. playNextInsertIndex' \in -1 .. Len(queue)
  BY <1>1, <1>2 DEF Collapse
<1>4. RowsOK'
  BY <1>1, <1>2, <1>3 DEF RowsOK
<1>5. history' \in Seq(RowsOf(queue')) /\ forward' \in Seq(RowsOf(queue'))
  BY <1>1, SameQueue, Forwarding
<1> DEFINE vis == visited \union {i}
           now == TrackAt(queue, i)
<1>6. vis \subseteq RowsOf(queue') /\ PrepareNext(vis, now) /\ currentTrack' = now
  BY <1>1, <1>2
<1>7. now \in Tracks
  BY <1>2, RowFacts
<1> HIDE DEF vis, now
<1>8. Offered(now) /\ OfferOK' /\ visited' \subseteq RowsOf(queue')
  BY <1>4, <1>5, <1>6, Preparing
<1>9. Offered(currentTrack')
  BY <1>6, <1>8 DEF Offered
<1>10. TrailOK' /\ ModesOK'
  BY <1>1, <1>5, <1>8 DEF Types, TrailOK, ModesOK, modes
<1> QED
  BY <1>1, <1>4, <1>6, <1>7, <1>8, <1>9, <1>10 DEF now

LEMMA CountedDown == Types => CountDown \in Deadline .. MaxStop
BY Consts DEF Types, TimerOK, CountDown

LEMMA CommitStep == ASSUME Types, OfferInv, Commit PROVE Step
<1> DEFINE i == preparedNext.index
<1>1. /\ i \in RowsOf(queue) /\ Ready /\ started /\ Advance(i)
      /\ source' = armed /\ armed' = NoTrack /\ started' = FALSE
      /\ stopAfter' = (IF stopAfter = 1 THEN 0 ELSE CountDown)
      /\ state' = (IF stopAfter = 1 THEN "Paused" ELSE state)
      /\ pendingStagedStart' = (IF stopAfter = 1 THEN currentTrack' ELSE NoTrack)
      /\ announced' = (IF stopAfter = 1 THEN announced ELSE currentTrack')
      /\ silent' = FALSE
      /\ UNCHANGED <<prompt, skipping>>
  BY DEF Commit
<1>2. armed # NoTrack => TrackAt(queue, i) = armed
  BY <1>1 DEF OfferInv, PreparedIsNextRow
<1> HIDE DEF i
<1>3. /\ RowsOK' /\ TrailOK' /\ ModesOK' /\ OfferOK' /\ Offered(currentTrack')
      /\ queueIndex' \in RowsOf(queue') /\ currentTrack' = TrackAt(queue', queueIndex')
      /\ currentTrack' = TrackAt(queue, i) /\ currentTrack' \in Tracks
  BY <1>1, Advancing
<1>4. ShownOK' /\ SoundOK'
  BY <1>1, <1>3 DEF Types, ShownOK, SoundOK, OptTrack
<1>5. PromptOK' /\ PromptKept /\ TimerOK'
  BY <1>1, CountedDown, Consts DEF Types, PromptOK, prompt, PromptKept, TimerOK
<1>6. Landed
  <2>1. source' \in {currentTrack', NoTrack}
    BY <1>1, <1>2, <1>3
  <2>2. announced' = currentTrack' \/ (state' = "Paused" /\ pendingStagedStart' = currentTrack')
    BY <1>1
  <2> QED
    BY <1>1, <1>3, <2>1, <2>2, Consts DEF Landed
<1> QED
  BY <1>3, <1>4, <1>5, <1>6 DEF Step, Types, Kind

LEMMA FinishedCountedStep == ASSUME Types, FinishedCounted PROVE Step
<1>1. PICK next : Stage(next)
  BY DEF FinishedCounted
<1>2. CASE /\ next.index \in RowsOf(queue)
           /\ stopAfter' = 0
           /\ Load(TrackAt(queue, next.index), TRUE)
           /\ Advance(next.index)
           /\ pendingStagedStart' = currentTrack'
           /\ silent' = FALSE
           /\ UNCHANGED <<prompt, announced, skipping>>
  <2> DEFINE i == next.index
  <2>1. /\ i \in RowsOf(queue) /\ Advance(i) /\ stopAfter' = 0
        /\ Load(TrackAt(queue, i), TRUE) /\ pendingStagedStart' = currentTrack'
        /\ silent' = FALSE /\ UNCHANGED <<prompt, announced, skipping>>
    BY <1>2
  <2> HIDE DEF i
  <2>3. /\ RowsOK' /\ TrailOK' /\ ModesOK' /\ OfferOK' /\ Offered(currentTrack')
        /\ queueIndex' \in RowsOf(queue') /\ currentTrack' = TrackAt(queue', queueIndex')
        /\ currentTrack' = TrackAt(queue, i) /\ currentTrack' \in Tracks
    BY <2>1, Advancing
  <2>4. ShownOK' /\ SoundOK'
    BY <2>1, <2>3 DEF Types, ShownOK, SoundOK, OptTrack, Load
  <2>5. PromptOK' /\ PromptKept /\ TimerOK'
    BY <2>1, Consts DEF Types, PromptOK, prompt, PromptKept, TimerOK
  <2>6. Landed
    BY <2>1, <2>3, Consts DEF Landed, Load
  <2> QED
    BY <2>3, <2>4, <2>5, <2>6 DEF Step, Types, Kind
<1>3. CASE GiveUp /\ UNCHANGED <<rows, modes, trail, prompt, report, currentTrack,
                                 preparedNext, skipping>>
  BY <1>3, StopsStill
<1> QED
  BY <1>1, <1>2, <1>3 DEF Stage

LEMMA FinishedStep == ASSUME Types, Finished PROVE Step
<1>1. CASE FinishedRepeatOne
  <2>1. /\ queue' = queue /\ KeepTrail /\ queueIndex >= 0
        /\ stopAfter' = CountDown /\ UNCHANGED modes
        /\ PlayAt(queueIndex, playNextInsertIndex, visited, Rounds)
    BY <1>1 DEF FinishedRepeatOne
  <2>2. ModesOK' /\ TimerOK'
    BY <2>1, CountedDown DEF Types, ModesOK, modes, TimerOK
  <2>3. queueIndex \in RowsOf(queue) /\ playNextInsertIndex \in Int
    BY <2>1, TypesParts, PniIsInt
  <2>4. history' \in Seq(RowsOf(queue)) /\ forward' \in Seq(RowsOf(queue))
        /\ visited \subseteq RowsOf(queue)
    BY <2>1, TypesParts DEF KeepTrail
  <2>5. Rounds \in 1 .. MaxQueue + 2
    BY <2>1, SameQueue, RoundsOK
  <2> QED
    BY <2>1, <2>2, <2>3, <2>4, <2>5, MoveInQueue
<1>2. CASE FinishedDecides
  <2>1. PICK choice \in DecideAutoNext(Policy, visited) :
        \/ /\ stopAfter' = CountDown /\ UNCHANGED modes
           /\ ApplyAutoNext(choice.next, choice.visited)
        \/ /\ choice.next = NoNext
           /\ GiveUp
           /\ UNCHANGED <<rows, modes, trail, prompt, report, currentTrack, preparedNext,
                          skipping>>
    BY <1>2 DEF FinishedDecides
  <2>2. ASSUME stopAfter' = CountDown, UNCHANGED modes PROVE ModesOK' /\ TimerOK'
    BY <2>2, CountedDown DEF Types, ModesOK, modes, TimerOK
  <2> QED
    BY <2>1, <2>2, Applying, StopsStill
<1>3. CASE FinishedNowhere
  BY <1>3, StopsStill DEF FinishedNowhere
<1> QED
  BY <1>1, <1>2, <1>3, FinishedCountedStep DEF Finished

LEMMA BackendStep == ASSUME Types, OfferInv, Backend PROVE Step
BY ArmHandoffStep, StartHandoffStep, CommitStep, FinishedStep, FailStep DEF Backend

LEMMA SkippingStep == ASSUME Types, Skipping PROVE Step
<1>1. CASE SkipRound
  <2>1. PICK choice \in DecideAutoNext(Policy, visited) :
        \/ /\ choice.next.injected # NoTrack
           /\ queue' = Append(queue, [track |-> choice.next.injected, asked |-> FALSE])
           /\ KeepTrail /\ UNCHANGED <<modes, stopAfter>>
           /\ PlayAt(Len(queue), playNextInsertIndex, choice.visited, skipping - 1)
        \/ /\ choice.next.index \in RowsOf(queue)
           /\ queue' = queue /\ KeepTrail /\ UNCHANGED <<modes, stopAfter>>
           /\ PlayAt(choice.next.index, playNextInsertIndex, choice.visited, skipping - 1)
        \/ /\ choice.next = NoNext
           /\ GiveUp /\ skipping' = 0
           /\ UNCHANGED <<rows, modes, trail, prompt, report, currentTrack, preparedNext>>
    BY <1>1 DEF SkipRound
  <2> DEFINE next == choice.next
             vis == choice.visited
             rounds == skipping - 1
  <2>2. /\ next \in Choice /\ vis \subseteq RowsOf(queue)
        /\ next.injected # NoTrack => next.injected \in Tracks /\ Len(queue) < MaxQueue
    BY PolicyFacts
  <2>3. rounds \in 1 .. MaxQueue + 2 /\ playNextInsertIndex \in Int
    BY <1>1, Consts, PniIsInt DEF Types, PromptOK, SkipRound
  <2>4. CASE /\ next.injected # NoTrack
             /\ queue' = Append(queue, [track |-> next.injected, asked |-> FALSE])
             /\ KeepTrail /\ UNCHANGED <<modes, stopAfter>>
             /\ PlayAt(Len(queue), playNextInsertIndex, vis, rounds)
    <3> HIDE DEF next, vis, rounds
    <3>1. /\ queue' \in Seq(QueueRows) /\ Len(queue') =< MaxQueue /\ Grows
          /\ Len(queue) \in RowsOf(queue')
      BY <2>2, <2>4, Appended
    <3>2. /\ history' \in Seq(RowsOf(queue')) /\ forward' \in Seq(RowsOf(queue'))
          /\ vis \subseteq RowsOf(queue')
      BY <2>2, <2>4, <3>1, TrailGrows DEF KeepTrail, Grows
    <3>3. ModesOK' /\ TimerOK'
      BY <2>4, SameModes
    <3> QED
      BY <2>3, <2>4, <3>1, <3>2, <3>3, PlainMove
  <2>5. CASE /\ next.index \in RowsOf(queue)
             /\ queue' = queue /\ KeepTrail /\ UNCHANGED <<modes, stopAfter>>
             /\ PlayAt(next.index, playNextInsertIndex, vis, rounds)
    <3> HIDE DEF next, vis, rounds
    <3>1. history' \in Seq(RowsOf(queue)) /\ forward' \in Seq(RowsOf(queue))
      BY <2>5, TypesParts DEF KeepTrail
    <3>2. ModesOK' /\ TimerOK'
      BY <2>5, SameModes
    <3> QED
      BY <2>2, <2>3, <2>5, <3>1, <3>2, MoveInQueue
  <2>6. CASE /\ GiveUp /\ skipping' = 0
             /\ UNCHANGED <<rows, modes, trail, prompt, report, currentTrack, preparedNext>>
    BY <2>6, StopsStill
  <2> QED
    BY <2>1, <2>4, <2>5, <2>6
<1>2. CASE SkipExhausted
  BY <1>2, StopsStill DEF SkipExhausted
<1> QED
  BY <1>1, <1>2 DEF Skipping

LEMMA ResolveDsdTakeoverStep == ASSUME Types, ResolveDsdTakeover PROVE Step
<1>1. /\ UNCHANGED <<rows, modes, stopAfter>> /\ KeepTrail /\ dsdPending.track # NoTrack
      /\ \/ /\ StartTrack(dsdPending.track, dsdPending.notify, ~dsdPending.notify, visited)
            /\ skipDsdBlock' = (skipDsdBlock /\ ~dsdPending.notify)
         \/ /\ Skip(Len(queue) + 2, visited)
            /\ skipDsdBlock' = TRUE
  BY DEF ResolveDsdTakeover
<1>2. queue' = queue /\ RowsOK' /\ ModesOK' /\ TimerOK'
  BY <1>1, SameModes DEF Types, RowsOK, rows
<1>3. /\ history' \in Seq(RowsOf(queue')) /\ forward' \in Seq(RowsOf(queue'))
      /\ visited \subseteq RowsOf(queue')
  BY <1>1, <1>2, TypesParts DEF KeepTrail
<1>4. dsdPending.track \in Tracks /\ dsdPending.notify \in BOOLEAN
  BY <1>1 DEF Types, PromptOK, OptTrack
<1>5. CASE /\ StartTrack(dsdPending.track, dsdPending.notify, ~dsdPending.notify, visited)
           /\ skipDsdBlock' = (skipDsdBlock /\ ~dsdPending.notify)
  <2> DEFINE t == dsdPending.track
             notify == dsdPending.notify
             paused == ~dsdPending.notify
  <2>1. t \in Tracks /\ notify \in BOOLEAN /\ paused \in BOOLEAN /\ skipDsdBlock' \in BOOLEAN
        /\ StartTrack(t, notify, paused, visited)
    BY <1>4, <1>5
  <2> HIDE DEF t, notify, paused
  <2>2. Begun(t, notify) /\ StartOK /\ PromptKept
    BY <1>2, <1>3, <2>1, Starting
  <2>3. Types'
    BY <1>2, <1>3, <2>2 DEF Types, StartOK, TrailOK
  <2>4. Resolved
    BY <1>1, <2>1, <2>2 DEF Resolved, t
  <2> QED
    BY <2>2, <2>3, <2>4 DEF Step, Kind
<1>6. CASE Skip(Len(queue) + 2, visited) /\ skipDsdBlock' = TRUE
  <2> DEFINE rounds == Len(queue) + 2
  <2>1. rounds \in 1 .. MaxQueue + 2
    BY TypesParts, Consts
  <2>2. Skip(rounds, visited) /\ skipDsdBlock' \in BOOLEAN
    BY <1>6
  <2> HIDE DEF rounds
  <2>3. Skipped /\ StartOK /\ PromptKept
    BY <1>1, <1>3, <2>1, <2>2, SkippingOn
  <2>4. Types'
    BY <1>2, <1>3, <2>3 DEF Types, StartOK, TrailOK
  <2> QED
    BY <2>3, <2>4 DEF Step, Kind
<1> QED
  BY <1>1, <1>5, <1>6

LEMMA StutterStep == ASSUME Types, UNCHANGED vars PROVE Step
<1> USE DEF vars
<1>1. RowsOK' /\ TrailOK' /\ ModesOK'
  BY StillOK DEF Still
<1>2. ShownOK' /\ PromptOK' /\ TimerOK' /\ PromptKept
  BY DEF Types, ShownOK, PromptOK, TimerOK, report, prompt, PromptKept
<1>3. OfferOK' /\ SoundOK'
  BY DEF Types, OfferOK, SoundOK, backend
<1>4. Carried
  BY DEF Carried, rows, report, backend
<1> QED
  BY <1>1, <1>2, <1>3, <1>4 DEF Step, Types, Kind

\* Every step keeps the types and is of one of the kinds.
LEMMA EveryStep == ASSUME Types, OfferInv, [Next]_vars PROVE Step
BY TransportStep, TimerStep, MutationStep, SetPolicyStep, BackendStep, SkippingStep,
   ResolveDsdTakeoverStep, StutterStep DEF Next

----------------------------------------------------------------------------
(* The invariant: it holds at the start, and every kind of step keeps it. *)

LEMMA InitInv == ASSUME Init PROVE IInv
<1> USE DEF Init
<1>1. Types
  <2>1. RowsOK /\ TrailOK
    BY Consts, NoTrail, EmptySeq DEF RowsOK, TrailOK
  <2>2. ModesOK
    BY CoreAssumption DEF ModesOK
  <2>a. 0 \in 0 .. MaxQueue + 2 /\ 0 \in Deadline .. MaxStop /\ -1 \in Int /\ NoTrack \in OptTrack
    BY Consts DEF OptTrack
  <2>3. ShownOK /\ PromptOK /\ TimerOK
    BY <2>a DEF ShownOK, PromptOK, TimerOK, NoPrompt
  <2>4. OfferOK /\ SoundOK
    BY <2>a DEF OfferOK, SoundOK, NoNext, Choice
  <2> QED
    BY <2>1, <2>2, <2>3, <2>4 DEF Types
<1>2. PromptInv /\ ShownInv /\ StagedInv /\ HeardInv /\ LoudInv
  BY DEF PromptInv, ShownInv, StagedInv, HeardInv, LoudInv, NoPrompt
<1>3. OfferInv
  BY DEF OfferInv, PreparedIsNextRow, LastCountedNeverHandsOver, NoPreloadAcrossDsd
<1> QED
  BY <1>1, <1>2, <1>3 DEF IInv

\* An offer just made is sound.
LEMMA OfferedInv ==
    ASSUME NEW now, Offered(now), armed' = NoTrack,
           source' # NoTrack /\ source' = currentTrack' /\ now \notin DsdTracks
               => source' \notin DsdTracks
    PROVE  OfferInv'
<1>1. PreparedIsNextRow'
  BY DEF Offered, PreparedIsNextRow
<1>2. LastCountedNeverHandsOver'
  BY DEF Offered, LastCountedNeverHandsOver
<1>3. NoPreloadAcrossDsd'
  <2>1. prepared' = NoTrack => {prepared', armed'} = {NoTrack}
    OBVIOUS
  <2>2. CASE prepared' # NoTrack
    BY <2>2, Consts DEF Offered, NoPreloadAcrossDsd
  <2> QED
    BY <2>1, <2>2 DEF NoPreloadAcrossDsd
<1> QED
  BY <1>1, <1>2, <1>3 DEF OfferInv

LEMMA SkippedInv ==
    ASSUME Skipped
    PROVE  OfferInv' /\ ShownInv' /\ StagedInv' /\ HeardInv'
<1>1. ~Ready' /\ ~Stable' /\ pendingStagedStart' = NoTrack
  BY DEF Skipped, Ready, Stable
<1> QED
  BY <1>1 DEF OfferInv, PreparedIsNextRow, LastCountedNeverHandsOver, NoPreloadAcrossDsd,
              ShownInv, StagedInv, HeardInv

LEMMA HaltedInv ==
    ASSUME Halted
    PROVE  OfferInv' /\ ShownInv' /\ StagedInv' /\ HeardInv'
BY DEF Halted, OfferInv, PreparedIsNextRow, LastCountedNeverHandsOver, NoPreloadAcrossDsd,
       ShownInv, StagedInv, HeardInv

LEMMA BegunInv ==
    ASSUME NEW t, NEW notify \in BOOLEAN, Begun(t, notify)
    PROVE  OfferInv' /\ ShownInv' /\ StagedInv' /\ HeardInv'
<1>1. OfferInv'
  BY OfferedInv DEF Begun
<1>2. ShownInv' /\ StagedInv' /\ HeardInv'
  BY DEF Begun, ShownInv, StagedInv, HeardInv
<1> QED
  BY <1>1, <1>2

LEMMA LandedInv ==
    ASSUME Landed
    PROVE  OfferInv' /\ ShownInv' /\ StagedInv' /\ HeardInv'
<1>1. OfferInv'
  <2> DEFINE now == currentTrack'
  <2>1. Offered(now) /\ armed' = NoTrack
        /\ (source' = currentTrack' /\ now \notin DsdTracks => source' \notin DsdTracks)
    BY DEF Landed
  <2> HIDE DEF now
  <2> QED
    BY <2>1, OfferedInv
<1>2. ShownInv' /\ StagedInv'
  BY DEF Landed, ShownInv, StagedInv
<1>3. HeardInv'
  BY DEF Landed, HeardInv, Staged
<1> QED
  BY <1>1, <1>2, <1>3

LEMMA RedecidedInv ==
    ASSUME IInv, Redecided
    PROVE  OfferInv' /\ ShownInv' /\ StagedInv' /\ HeardInv'
<1>1. /\ ~started /\ UNCHANGED <<source, state, announced, skipping>>
      /\ armed' = NoTrack /\ Offered(currentTrack)
      /\ source # NoTrack => RowKept /\ ShownKept
  BY DEF Redecided
<1>2. CASE source = NoTrack
  <2>1. OfferInv'
    BY <1>1, <1>2, OfferedInv
  <2> QED
    BY <1>1, <1>2, <2>1 DEF ShownInv, StagedInv, HeardInv
<1>3. CASE ~Ready'
  <2>1. OfferInv'
    BY <1>3 DEF OfferInv, PreparedIsNextRow, LastCountedNeverHandsOver, NoPreloadAcrossDsd
  <2>2. StagedInv'
    <3>1. source # NoTrack => ShownKept
      BY <1>1
    <3> QED
      BY <1>1, <3>1 DEF IInv, StagedInv, ShownKept
  <2> QED
    BY <1>3, <2>1, <2>2 DEF ShownInv, HeardInv, Stable
<1>4. CASE source # NoTrack /\ Ready'
  <2>1. Stable /\ RowKept /\ ShownKept
    BY <1>1, <1>4 DEF Stable, Ready
  <2>2. \/ currentTrack = source
        \/ queueIndex >= 0 => TrackAt(queue, queueIndex) = currentTrack
    BY <1>4, <2>1 DEF IInv, ShownInv
  <2>3. source' = currentTrack' => source' = currentTrack
    BY <1>1, <2>1, <2>2 DEF ShownKept
  <2>4. OfferInv'
    BY <1>1, <2>3, OfferedInv
  <2>5. ShownInv'
    BY <1>1, <2>1, <2>2 DEF ShownInv, RowKept, ShownKept
  <2>6. StagedInv'
    BY <1>1, <1>4, <2>1 DEF IInv, StagedInv, ShownKept
  <2>7. HeardInv'
    <3>1. SUFFICES ASSUME ~silent' PROVE announced' = source' \/ Staged'
      BY DEF HeardInv
    <3>2. ~silent
      BY <2>1, <3>1 DEF ShownKept
    <3>3. announced = source \/ Staged
      BY <1>4, <2>1, <3>2 DEF IInv, HeardInv
    <3>4. CASE Staged
      <4>1. pendingStagedStart' = source /\ currentTrack' = source
        BY <1>4, <2>1, <3>1, <3>4 DEF Staged, ShownKept
      <4>2. queueIndex' >= 0 => TrackAt(queue', queueIndex') = source
        BY <2>1, <3>4 DEF Staged, RowKept
      <4> QED
        BY <1>1, <3>4, <4>1, <4>2 DEF Staged
    <3> QED
      BY <1>1, <3>3, <3>4
  <2> QED
    BY <2>4, <2>5, <2>6, <2>7
<1> QED
  BY <1>2, <1>3, <1>4

LEMMA CarriedInv ==
    ASSUME IInv, Carried
    PROVE  OfferInv' /\ ShownInv' /\ StagedInv' /\ HeardInv'
<1>1. /\ UNCHANGED <<queue, queueIndex, currentTrack, pendingStagedStart, source, preparedNext,
                     announced, silent, skipping>>
      /\ {prepared', armed'} \subseteq {prepared, armed, NoTrack}
      /\ stopAfter' = 1 => stopAfter = 1 /\ stopPending' = stopPending
      /\ started => started'
      /\ state = "Paused" => state' = "Paused"
  BY DEF Carried
<1>2. PreparedIsNextRow'
  BY <1>1 DEF IInv, OfferInv, PreparedIsNextRow, Ready
<1>3. LastCountedNeverHandsOver'
  BY <1>1 DEF IInv, OfferInv, LastCountedNeverHandsOver, Ready
<1>4. NoPreloadAcrossDsd'
  <2>1. {prepared', armed'} # {NoTrack} => {prepared, armed} # {NoTrack}
    BY <1>1
  <2>2. {source, prepared, armed} \intersect DsdTracks = {}
            => {source', prepared', armed'} \intersect DsdTracks = {}
    BY <1>1, Consts
  <2> QED
    BY <1>1, <2>1, <2>2 DEF IInv, OfferInv, NoPreloadAcrossDsd, Ready
<1>5. Stable' => Stable
  BY <1>1 DEF Stable, Ready
<1>6. ShownInv' /\ StagedInv'
  BY <1>1, <1>5 DEF IInv, ShownInv, StagedInv
<1>7. HeardInv'
  BY <1>1, <1>5 DEF IInv, HeardInv, Staged
<1> QED
  BY <1>2, <1>3, <1>4, <1>6, <1>7 DEF OfferInv

LEMMA ResumedInv ==
    ASSUME IInv, Resumed
    PROVE  OfferInv' /\ ShownInv' /\ StagedInv' /\ HeardInv'
<1>1. /\ UNCHANGED <<queue, queueIndex, currentTrack, source, preparedNext, prepared, armed,
                     started, stopPending, stopAfter, skipping>>
      /\ ConsumePendingStagedStart
  BY DEF Resumed
<1>2. OfferInv'
  BY <1>1 DEF IInv, OfferInv, PreparedIsNextRow, LastCountedNeverHandsOver, NoPreloadAcrossDsd, Ready
<1>3. ShownInv' /\ (Stable' => Stable)
  BY <1>1 DEF IInv, ShownInv, Stable, Ready
<1>4. CASE pendingStagedStart # NoTrack /\ pendingStagedStart = currentTrack
  <2>1. pendingStagedStart' = NoTrack /\ announced' = currentTrack
    BY <1>1, <1>4 DEF ConsumePendingStagedStart
  <2>2. source # NoTrack => currentTrack = source
    BY <1>4 DEF IInv, StagedInv
  <2>3. StagedInv' /\ HeardInv'
    BY <1>1, <2>1, <2>2 DEF StagedInv, HeardInv
  <2> QED
    BY <1>2, <1>3, <2>3
<1>5. CASE ~(pendingStagedStart # NoTrack /\ pendingStagedStart = currentTrack)
  <2>1. UNCHANGED <<pendingStagedStart, announced, silent>>
    BY <1>1, <1>5 DEF ConsumePendingStagedStart, report
  <2>2. StagedInv'
    BY <1>1, <2>1 DEF IInv, StagedInv
  <2>3. HeardInv'
    BY <1>1, <1>3, <1>5, <2>1 DEF IInv, HeardInv, Staged
  <2> QED
    BY <1>2, <1>3, <2>2, <2>3
<1> QED
  BY <1>4, <1>5

LEMMA LoudKept == ASSUME LoudInv, Kind PROVE LoudInv'
<1>1. CASE RowBegun \/ Resolved
  <2>1. source' # NoTrack /\ ~started'
    BY <1>1 DEF RowBegun, Resolved, Begun
  <2> QED
    BY <2>1 DEF LoudInv
<1>2. CASE Skipped
  BY <1>2 DEF Skipped, LoudInv
<1>3. CASE Halted
  BY <1>3 DEF Halted, LoudInv
<1>4. CASE Redecided
  BY <1>4 DEF Redecided, LoudInv
<1>5. CASE Landed
  BY <1>5 DEF Landed, LoudInv
<1>6. CASE Carried
  BY <1>6 DEF Carried, LoudInv
<1>7. CASE Resumed
  BY <1>7 DEF Resumed, LoudInv
<1> QED
  BY <1>1, <1>2, <1>3, <1>4, <1>5, <1>6, <1>7 DEF Kind

LEMMA StepInv == ASSUME IInv, [Next]_vars PROVE IInv'
<1>1. Step
  BY EveryStep DEF IInv
<1>2. Types' /\ PromptInv'
  BY <1>1 DEF Step, PromptKept, IInv, PromptInv
<1>3. OfferInv' /\ ShownInv' /\ StagedInv' /\ HeardInv'
  BY <1>1, BegunInv, SkippedInv, HaltedInv, RedecidedInv, LandedInv, CarriedInv, ResumedInv
     DEF Step, Kind, RowBegun, Resolved
<1>4. LoudInv'
  BY <1>1, LoudKept DEF Step, IInv
<1> QED
  BY <1>2, <1>3, <1>4 DEF IInv

\* The inductive invariant: the types, and what is offered, shown, staged and heard.
THEOREM Invariant == Spec => []IInv
<1>1. Init => IInv
  BY InitInv
<1>2. IInv /\ [Next]_vars => IInv'
  BY StepInv
<1> QED
  BY <1>1, <1>2, PTL DEF Spec

\* Every handler leaves the queue, its indices, the shuffle trail, the modes and the
\* requests made of the backend within their types (PlayerCore's members).
THEOREM TypeCorrect == Spec => []TypeOK
<1>1. IInv => TypeOK
  BY TypesAreTypes DEF IInv
<1> QED
  BY <1>1, Invariant, PTL

\* Whatever is done to the queue and the modes, the uri the backend was given or has
\* armed is that of the row a commit lands on (prepareNext, stabilizeGaplessHandoff).
THEOREM PreparedRow == Spec => []PreparedIsNextRow
<1>1. IInv => PreparedIsNextRow
  BY DEF IInv, OfferInv
<1> QED
  BY <1>1, Invariant, PTL

\* On its last counted completion the backend is offered nothing, and may arm nothing
\* (setGaplessStopPending).
THEOREM LastCounted == Spec => []LastCountedNeverHandsOver
<1>1. IInv => LastCountedNeverHandsOver
  BY DEF IInv, OfferInv
<1> QED
  BY <1>1, Invariant, PTL

\* Nothing is preloaded across a DSD boundary (prepareNext).
THEOREM DsdBoundary == Spec => []NoPreloadAcrossDsd
<1>1. IInv => NoPreloadAcrossDsd
  BY DEF IInv, OfferInv
<1> QED
  BY <1>1, Invariant, PTL

\* What is heard, and was not loaded silently, was announced to the scrobblers
\* (presentTrack, consumePendingStagedStart).
THEOREM Heard == Spec => []HeardIsAnnounced
<1>1. IInv => HeardIsAnnounced
  <2>1. SUFFICES ASSUME IInv, Stable, state = "Playing", ~silent PROVE announced = source
    BY DEF HeardIsAnnounced
  <2>2. ~Staged /\ source # NoTrack
    BY <2>1 DEF Staged, IInv, LoudInv
  <2> QED
    BY <2>1, <2>2 DEF IInv, HeardInv
<1> QED
  BY <1>1, Invariant, PTL

----------------------------------------------------------------------------
(* Without DSD tracks, the row shown is the one that is loaded. *)

LEMMA CurrentRowKept ==
    ASSUME DsdTracks = {}, IInv, CurrentIsSource, [Next]_vars
    PROVE  CurrentIsSource'
<1>1. Kind
  BY EveryStep DEF IInv, Step
<1>2. dsdPending.track = NoTrack
  BY DEF IInv, PromptInv
<1>3. CASE RowBegun \/ Resolved
  BY <1>2, <1>3 DEF RowBegun, Resolved, Begun, CurrentIsSource
<1>4. CASE Skipped
  BY <1>4 DEF Skipped, CurrentIsSource, Stable, Ready
<1>5. CASE Halted
  BY <1>5 DEF Halted, CurrentIsSource
<1>6. CASE Redecided
  <2>1. SUFFICES ASSUME Stable', source' # NoTrack
                 PROVE  /\ currentTrack' = source'
                        /\ queueIndex' >= 0 => TrackAt(queue', queueIndex') = source'
    BY DEF CurrentIsSource
  <2>2. source' = source /\ Stable /\ RowKept /\ ShownKept
    BY <1>6, <2>1 DEF Redecided, Stable, Ready
  <2>3. currentTrack = source /\ (queueIndex >= 0 => TrackAt(queue, queueIndex) = source)
    BY <2>1, <2>2 DEF CurrentIsSource
  <2> QED
    BY <2>2, <2>3 DEF RowKept, ShownKept
<1>7. CASE Landed
  BY <1>7 DEF Landed, CurrentIsSource
<1>8. CASE Carried \/ Resumed
  <2>1. /\ UNCHANGED <<queue, queueIndex, currentTrack, source>>
        /\ Stable' => Stable
    BY <1>8 DEF Carried, Resumed, Stable, Ready
  <2> QED
    BY <2>1 DEF CurrentIsSource
<1> QED
  BY <1>1, <1>3, <1>4, <1>5, <1>6, <1>7, <1>8 DEF Kind

\* Without DSD tracks, the row shown as current and the current track are what is
\* loaded, with no commit due (m_queueIndex and m_currentTrack).
THEOREM CurrentRow == ASSUME DsdTracks = {} PROVE Spec => []CurrentIsSource
<1>1. Init => CurrentIsSource
  BY DEF Init, CurrentIsSource
<1>2. IInv /\ CurrentIsSource /\ [Next]_vars => CurrentIsSource'
  BY CurrentRowKept
<1> QED
  BY <1>1, <1>2, Invariant, PTL DEF Spec

----------------------------------------------------------------------------
(* Without rows to skip, the play-next region holds only rows asked for. *)

LEMMA NothingSkipped ==
    ASSUME Unresolvable = {}, DsdTracks = {}, IInv, skipping = 0, [Next]_vars
    PROVE  skipping' = 0
<1>1. Kind
  BY EveryStep DEF IInv, Step
<1>2. dsdPending.track = NoTrack
  BY DEF IInv, PromptInv
<1> QED
  BY <1>1, <1>2 DEF Kind, RowBegun, Resolved, Begun, Skipped, Halted, Redecided, Landed,
                    Carried, Resumed

LEMMA RegionIs ==
    ASSUME \A i \in Int : i >= 0 /\ i > queueIndex' /\ i < playNextInsertIndex' => queue'[i + 1].asked
    PROVE  NoSpuriousBadge'
<1>1. \A i \in RowsOf(queue') : i \in Int /\ i >= 0
  BY DEF RowsOf
<1>2. \A i \in RowsOf(queue') : i > queueIndex' /\ i < playNextInsertIndex' => queue'[i + 1].asked
  BY <1>1
<1> QED
  BY <1>2, Zenon DEF NoSpuriousBadge

\* The region is empty, or the rows are as they were.
LEMMA NoRegion ==
    ASSUME queueIndex' \in Int, playNextInsertIndex' \in Int, playNextInsertIndex' <= queueIndex' + 1
    PROVE  NoSpuriousBadge'
<1> DEFINE from == queueIndex'
           end == playNextInsertIndex'
<1>a. from \in Int /\ end \in Int /\ end <= from + 1
  OBVIOUS
<1> HIDE DEF from, end
<1>1. \A i \in Int : ~(i > from /\ i < end)
  BY <1>a
<1> USE DEF from, end
<1> QED
  BY <1>1, RegionIs

LEMMA SameRegion == ASSUME NoSpuriousBadge, UNCHANGED rows PROVE NoSpuriousBadge'
BY DEF NoSpuriousBadge, rows

\* A move to a row behind the end of the region, or along it.
LEMMA FarMove ==
    ASSUME NEW i \in Int, NEW pni \in Int, pni <= i, 0 <= i, NEW vis, NEW rounds,
           PlayAt(i, pni, vis, rounds)
    PROVE  NoSpuriousBadge'
<1>1. queueIndex' = i /\ playNextInsertIndex' = Collapse(pni, i, Len(queue'))
  BY DEF PlayAt
<1>2. playNextInsertIndex' = i + 1
  BY <1>1 DEF Collapse
<1> QED
  BY <1>1, <1>2, NoRegion

LEMMA NearMove ==
    ASSUME Types, NoSpuriousBadge, queue' = queue, NEW i \in RowsOf(queue), i >= queueIndex,
           NEW vis, NEW rounds, PlayAt(i, playNextInsertIndex, vis, rounds)
    PROVE  NoSpuriousBadge'
<1>1. /\ queueIndex' = i /\ i \in Int /\ 0 <= i /\ queueIndex \in Int /\ playNextInsertIndex \in Int
      /\ playNextInsertIndex' = Collapse(playNextInsertIndex, i, Len(queue'))
  BY TypesParts, PniIsInt DEF PlayAt
<1>2. playNextInsertIndex' = i + 1 \/ playNextInsertIndex' = playNextInsertIndex
  BY <1>1 DEF Collapse
<1>3. CASE playNextInsertIndex' = i + 1
  BY <1>1, <1>3, NoRegion
<1>4. CASE playNextInsertIndex' = playNextInsertIndex
  BY <1>1, <1>4 DEF NoSpuriousBadge, RowsOf
<1> QED
  BY <1>2, <1>3, <1>4

LEMMA JumpRegion == ASSUME NEW i \in Int, 0 <= i, Jump(i) PROVE NoSpuriousBadge'
<1> DEFINE vis == IF shuffleMode = "Off" THEN visited ELSE {i}
<1>1. PlayAt(i, -1, vis, Rounds) /\ -1 \in Int /\ -1 <= i
  BY DEF Jump
<1> HIDE DEF vis
<1> QED
  BY <1>1, FarMove

LEMMA ApplyRegion ==
    ASSUME Types, NoSpuriousBadge, NEW c, ApplyAutoNext(c.next, c.visited)
    PROVE  NoSpuriousBadge'
<1> DEFINE next == c.next
           vis == c.visited
           pni == IF LinearConsume(next.index) THEN playNextInsertIndex ELSE -1
<1>0. /\ Len(queue) \in Nat /\ playNextInsertIndex \in -1 .. Len(queue) /\ playNextInsertIndex \in Int
      /\ queueIndex \in Int /\ RowsOf(queue) = 0 .. Len(queue) - 1
  BY TypesParts, PniIsInt DEF Types, RowsOK
<1>1. CASE PlayAt(Len(queue), playNextInsertIndex, vis, Rounds)
  <2>1. Len(queue) \in Int /\ 0 <= Len(queue) /\ playNextInsertIndex <= Len(queue)
    BY <1>0
  <2> HIDE DEF vis
  <2> QED
    BY <1>0, <1>1, <2>1, FarMove
<1>2. CASE next.index \in RowsOf(queue) /\ queue' = queue /\ PlayAt(next.index, pni, vis, Rounds)
  <2>1. next.index \in Int /\ 0 <= next.index
    BY <1>0, <1>2
  <2>2. CASE LinearConsume(next.index)
    <3>1. next.index >= queueIndex /\ pni = playNextInsertIndex
      BY <1>0, <2>2 DEF LinearConsume
    <3> HIDE DEF vis, next, pni
    <3> QED
      BY <1>2, <3>1, NearMove
  <2>3. CASE ~LinearConsume(next.index)
    <3>1. pni = -1
      BY <2>3
    <3> HIDE DEF vis, next, pni
    <3>2. pni \in Int /\ pni <= next.index
      BY <2>1, <3>1
    <3> QED
      BY <1>2, <2>1, <3>2, FarMove
  <2> QED
    BY <2>2, <2>3
<1> QED
  BY <1>1, <1>2 DEF ApplyAutoNext

LEMMA TransportRegion == ASSUME Types, NoSpuriousBadge, Transport PROVE NoSpuriousBadge'
<1>0. /\ Len(queue) \in Nat /\ queueIndex \in -1 .. Len(queue) - 1 /\ playNextInsertIndex \in Int
      /\ RowsOf(queue) = 0 .. Len(queue) - 1
  BY TypesParts, PniIsInt
<1>1. CASE PickRow
  <2>1. PICK i \in RowsOf(queue) : Jump(i)
    BY <1>1 DEF PickRow
  <2>2. i \in Int /\ 0 <= i
    BY <1>0
  <2> QED
    BY <2>1, <2>2, JumpRegion
<1>2. CASE PlayNext
  <2>1. ASSUME queueIndex + 1 < Len(queue), queue' = queue,
               PlayAt(queueIndex + 1, playNextInsertIndex, visited, Rounds)
        PROVE  NoSpuriousBadge'
    <3>1. queueIndex + 1 \in RowsOf(queue) /\ queueIndex + 1 >= queueIndex
      BY <1>0, <2>1
    <3> QED
      BY <2>1, <3>1, NearMove
  <2> QED
    BY <1>2, <2>1, ApplyRegion DEF PlayNext
<1>3. CASE Previous
  <2>1. PICK i \in {IF queueIndex > 0 THEN queueIndex - 1 ELSE 0,
                    Clamp(history[Len(history)], 0, Len(queue) - 1)} :
            PlayAt(i, -1, visited, Rounds) /\ (shuffleMode # "Off" /\ history # <<>>
                => i = Clamp(history[Len(history)], 0, Len(queue) - 1))
                /\ (~(shuffleMode # "Off" /\ history # <<>>)
                => i = IF queueIndex > 0 THEN queueIndex - 1 ELSE 0)
    BY <1>3 DEF Previous
  <2>2. ASSUME shuffleMode # "Off", history # <<>> PROVE i \in Int /\ 0 <= i
    <3>1. history[Len(history)] \in RowsOf(queue)
      BY <2>2, LastOf, TypesParts
    <3>2. Len(queue) - 1 \in Int /\ Len(queue) - 1 >= 0
      BY <1>0, <3>1
    <3> QED
      BY <1>0, <2>1, <2>2, <3>1, <3>2 DEF Clamp
  <2>3. i \in Int /\ 0 <= i
    BY <1>0, <2>1, <2>2
  <2>4. -1 \in Int /\ -1 <= i
    BY <2>3
  <2> QED
    BY <2>1, <2>3, <2>4, FarMove
<1>4. CASE Play
  <2> DEFINE i == IF queueIndex >= 0 THEN queueIndex ELSE 0
  <2>1. CASE UNCHANGED rows
    BY <2>1, SameRegion
  <2>2. CASE /\ IF state = "Error" THEN queueIndex \in RowsOf(queue) ELSE queue # <<>>
             /\ queue' = queue /\ PlayAt(i, playNextInsertIndex, visited, Rounds)
    <3>1. i \in RowsOf(queue) /\ i >= queueIndex
      BY <1>0, <2>2, NotEmpty
    <3> HIDE DEF i
    <3> QED
      BY <2>2, <3>1, NearMove
  <2> QED
    BY <1>4, <2>1, <2>2 DEF Play
<1>5. CASE Pause \/ Stop
  BY <1>5, SameRegion DEF Pause, Stop
<1> QED
  BY <1>1, <1>2, <1>3, <1>4, <1>5 DEF Transport

LEMMA StillRegion ==
    ASSUME NoSpuriousBadge, Timer \/ SetPolicy \/ ArmHandoff \/ StartHandoff \/ Fail
                                \/ FinishedNowhere \/ ResolveDsdTakeover \/ UNCHANGED vars
    PROVE  NoSpuriousBadge'
<1>1. UNCHANGED rows
  BY DEF Timer, ArmStopAfter, CancelStopAfter, SetStopAfter, DeadlinePasses, SetPolicy,
         SetRepeatMode, SetShuffleMode, SetRadioActive, Prepared, ArmHandoff, StartHandoff,
         Fail, FinishedNowhere, ResolveDsdTakeover, vars
<1> QED
  BY <1>1, SameRegion

LEMMA AdvanceRegion ==
    ASSUME Types, NoSpuriousBadge, NEW i \in RowsOf(queue), Advance(i)
    PROVE  NoSpuriousBadge'
<1>1. /\ queue' = queue /\ queueIndex' = i
      /\ playNextInsertIndex' = IF LinearConsume(i) THEN Collapse(playNextInsertIndex, i, Len(queue))
                                ELSE i + 1
  BY DEF Advance
<1>2. i \in Int /\ 0 <= i /\ queueIndex \in Int /\ playNextInsertIndex \in Int
  BY TypesParts, PniIsInt
<1>3. \/ playNextInsertIndex' = i + 1
      \/ playNextInsertIndex' = playNextInsertIndex /\ i = queueIndex + 1
  BY <1>1, <1>2 DEF Collapse, LinearConsume
<1>4. CASE playNextInsertIndex' = i + 1
  BY <1>1, <1>2, <1>4, NoRegion
<1>5. CASE playNextInsertIndex' = playNextInsertIndex /\ i = queueIndex + 1
  BY <1>1, <1>2, <1>5 DEF NoSpuriousBadge, RowsOf
<1> QED
  BY <1>3, <1>4, <1>5

LEMMA BackendRegion == ASSUME Types, NoSpuriousBadge, Backend PROVE NoSpuriousBadge'
<1>1. CASE Commit
  BY <1>1, AdvanceRegion DEF Commit
<1>2. CASE FinishedCounted
  <2>1. PICK next : Stage(next)
    BY <1>2 DEF FinishedCounted
  <2> DEFINE i == next.index
  <2>2. (i \in RowsOf(queue) /\ Advance(i)) \/ UNCHANGED rows
    BY <2>1 DEF Stage
  <2> HIDE DEF i
  <2> QED
    BY <2>2, AdvanceRegion, SameRegion
<1>3. CASE FinishedRepeatOne
  <2>1. queueIndex \in RowsOf(queue) /\ queueIndex >= queueIndex
    BY <1>3, TypesParts DEF FinishedRepeatOne
  <2> QED
    BY <1>3, <2>1, NearMove DEF FinishedRepeatOne
<1>4. CASE FinishedDecides
  <2>1. PICK c : ApplyAutoNext(c.next, c.visited) \/ UNCHANGED rows
    BY <1>4 DEF FinishedDecides
  <2> QED
    BY <2>1, ApplyRegion, SameRegion
<1> QED
  BY <1>1, <1>2, <1>3, <1>4, StillRegion DEF Backend, Finished

\* Rows put in at the end of the region belong to it.
LEMMA PlayTracksNextRegion == ASSUME Types, NoSpuriousBadge, PlayTracksNext PROVE NoSpuriousBadge'
<1>0. /\ Len(queue) \in Nat /\ queueIndex \in -1 .. Len(queue) - 1 /\ playNextInsertIndex \in Int
      /\ playNextInsertIndex <= Len(queue) /\ RowsOf(queue) = 0 .. Len(queue) - 1
  BY TypesParts, PniIsInt DEF Types, RowsOK
<1>1. PICK list \in Lists :
          /\ Len(queue) + Len(list) =< MaxQueue
          /\ IF queueIndex < 0
             THEN PlayAt(Len(queue), playNextInsertIndex, visited, Rounds)
             ELSE ShiftRows(SubSeq(queue, 1, InsertAt) \o AsRows(list, TRUE)
                              \o SubSeq(queue, InsertAt + 1, Len(queue)),
                            queueIndex, InsertAt + Len(list))
  BY DEF PlayTracksNext, InsertAt
<1>2. CASE queueIndex < 0
  <2>1. Len(queue) \in Int /\ 0 <= Len(queue)
    BY <1>0
  <2> QED
    BY <1>0, <1>1, <1>2, <2>1, FarMove
<1>3. CASE ~(queueIndex < 0)
  <2>0. ShiftRows(Spliced(queue, InsertAt, AsRows(list, TRUE)), queueIndex, InsertAt + Len(list))
    BY <1>1, <1>3 DEF Spliced
  <2>1. /\ queue' = Spliced(queue, InsertAt, AsRows(list, TRUE)) /\ queueIndex' = queueIndex
        /\ playNextInsertIndex' = InsertAt + Len(list) /\ queueIndex >= 0
    <3>1. queueIndex >= 0
      BY <1>0, <1>3
    <3> QED
      BY <2>0, <3>1 DEF ShiftRows
  <2>2. /\ InsertAt \in queueIndex + 1 .. Len(queue)
        /\ \A k \in 1 .. InsertAt : queue'[k] = queue[k]
        /\ \A k \in 1 .. Len(list) : queue'[InsertAt + k].asked
    BY <1>1, <2>1, Inserted
  <2>3. Len(list) \in Nat
    BY ListFacts
  <2>4. InsertAt = queueIndex + 1 \/ InsertAt = playNextInsertIndex
    BY DEF InsertAt
  <2> DEFINE at == InsertAt
             n == Len(list)
  <2>5. /\ at \in queueIndex + 1 .. Len(queue) /\ n \in Nat
        /\ \A k \in 1 .. at : queue'[k] = queue[k]
        /\ \A k \in 1 .. n : queue'[at + k].asked
        /\ at = queueIndex + 1 \/ at = playNextInsertIndex
        /\ playNextInsertIndex' = at + n
    BY <2>1, <2>2, <2>3, <2>4
  <2> HIDE DEF at, n
  <2>6. ASSUME NEW k \in Int, k > queueIndex, k < at + n PROVE queue'[k + 1].asked
    <3>1. CASE k < at
      <4>1. k + 1 \in 1 .. at /\ k \in RowsOf(queue) /\ k < playNextInsertIndex
        BY <1>0, <2>1, <2>5, <2>6, <3>1
      <4> QED
        BY <2>5, <2>6, <4>1 DEF NoSpuriousBadge
    <3>2. CASE ~(k < at)
      <4> DEFINE j == k - at + 1
      <4>1. j \in 1 .. n /\ at + j = k + 1
        BY <1>0, <2>5, <2>6, <3>2
      <4> HIDE DEF j
      <4>2. queue'[at + j].asked
        BY <2>5, <4>1
      <4> QED
        BY <4>1, <4>2
    <3> QED
      BY <3>1, <3>2
  <2>7. \A k \in Int : k >= 0 /\ k > queueIndex' /\ k < playNextInsertIndex' => queue'[k + 1].asked
    BY <2>1, <2>5, <2>6
  <2> QED
    BY <2>7, RegionIs
<1> QED
  BY <1>2, <1>3

LEMMA AppendTracksRegion == ASSUME Types, NoSpuriousBadge, AppendTracks PROVE NoSpuriousBadge'
<1>0. /\ Len(queue) \in Nat /\ queueIndex \in -1 .. Len(queue) - 1 /\ playNextInsertIndex \in Int
      /\ playNextInsertIndex <= Len(queue) /\ RowsOf(queue) = 0 .. Len(queue) - 1
  BY TypesParts, PniIsInt DEF Types, RowsOK
<1>1. PICK list \in Lists :
          /\ Len(queue) + Len(list) =< MaxQueue
          /\ queue' = queue \o AsRows(list, FALSE)
          /\ playNextInsertIndex' = Collapse(playNextInsertIndex, queueIndex, Len(queue'))
          /\ queueIndex' = queueIndex
  BY DEF AppendTracks
<1>2. \A k \in 1 .. Len(queue) : queue'[k] = queue[k]
  BY <1>1, Enlarged
<1>3. playNextInsertIndex' \in {-1, queueIndex + 1, playNextInsertIndex}
  BY <1>1 DEF Collapse
<1>4. CASE playNextInsertIndex' \in {-1, queueIndex + 1}
  <2>a. queueIndex \in Int /\ -1 <= queueIndex + 1
    BY <1>0
  <2>b. -1 \in Int /\ queueIndex + 1 \in Int /\ queueIndex + 1 <= queueIndex + 1
    BY <2>a
  <2>c. queueIndex' = queueIndex /\ (playNextInsertIndex' = -1 \/ playNextInsertIndex' = queueIndex + 1)
    BY <1>1, <1>4
  <2>1. playNextInsertIndex' \in Int /\ playNextInsertIndex' <= queueIndex' + 1 /\ queueIndex' \in Int
    BY <2>a, <2>b, <2>c
  <2> QED
    BY <2>1, NoRegion
<1>5. CASE playNextInsertIndex' = playNextInsertIndex
  <2>1. ASSUME NEW k \in Int, k >= 0, k > queueIndex, k < playNextInsertIndex
        PROVE  queue'[k + 1].asked
    <3>1. k + 1 \in 1 .. Len(queue) /\ k \in RowsOf(queue)
      BY <1>0, <2>1
    <3> QED
      BY <1>2, <2>1, <3>1 DEF NoSpuriousBadge
  <2> QED
    BY <1>1, <1>5, <2>1, RegionIs
<1> QED
  BY <1>3, <1>4, <1>5

\* A row left in the region after a removal was in it before.
LEMMA RemoveRowsRegion == ASSUME Types, NoSpuriousBadge, RemoveRows PROVE NoSpuriousBadge'
<1>1. PICK removed \in (SUBSET RowsOf(queue)) \ {{}} :
        LET q     == PickRows(queue, RowsOf(queue) \ removed)
            index == Clamp(queueIndex - Before(removed, queueIndex), -1, Len(q) - 1)
        IN ShiftRows(q, index, Clamp(RegionEnd(playNextInsertIndex, removed), index + 1, Len(q)))
  BY DEF RemoveRows
<1> DEFINE S == RowsOf(queue) \ removed
           q == Left(queue, removed)
           to == queueIndex - Before(removed, queueIndex)
           index == AfterRemoval(q, removed)
           end == RegionEnd(playNextInsertIndex, removed)
           n == Len(queue)
<1>2. /\ queue' = q /\ queueIndex' = index
      /\ playNextInsertIndex' = Clamp(end, index + 1, Len(q))
  BY <1>1 DEF Left, AfterRemoval, ShiftRows
<1>3. /\ n \in Nat /\ queueIndex \in -1 .. n - 1 /\ playNextInsertIndex \in -1 .. n
      /\ RowsOf(queue) = 0 .. n - 1 /\ queue \in Seq(QueueRows)
  BY TypesParts DEF Types, RowsOK
<1>4. /\ \A x \in removed : x \in 0 .. n - 1
      /\ \A x \in S : x \in 0 .. n - 1
      /\ S = (0 .. n - 1) \ removed
  BY <1>3
<1>5. /\ RemovedAs(q, index, removed) /\ end \in Int
  BY RemovedRows
<1>6. Len(q) \in Nat /\ index \in -1 .. Len(q) - 1
  BY <1>3, <1>5 DEF RemovedAs
<1>7. /\ \A k \in S : Before(S, k) \in RowsOf(q) /\ q[Before(S, k) + 1] = queue[k + 1]
      /\ \A r \in RowsOf(q) : \E k \in S : Before(S, k) = r
  <2>1. \A x \in S : x \in RowsOf(queue)
    OBVIOUS
  <2> HIDE DEF S
  <2>2. LET p == PickRows(queue, S)
        IN  /\ p \in Seq(QueueRows) /\ Len(p) = Cardinality(S) /\ Len(p) \in Nat
            /\ \A k \in S : Before(S, k) \in RowsOf(p) /\ p[Before(S, k) + 1] = queue[k + 1]
            /\ \A r \in RowsOf(p) : \E k \in S : Before(S, k) = r
    BY <1>3, <2>1, Picked
  <2>3. q = PickRows(queue, S)
    BY DEF Left, S
  <2> HIDE DEF q
  <2> QED
    BY <2>2, <2>3
<1>8. playNextInsertIndex >= 0 => end = Before(S, playNextInsertIndex)
  <2>1. playNextInsertIndex >= 0 => playNextInsertIndex \in 0 .. n
    BY <1>3
  <2> QED
    BY <1>3, <1>4, <2>1, BeforeComplement DEF RegionEnd
<1>9. queueIndex >= 0 => to = Before(S, queueIndex)
  <2>1. queueIndex >= 0 => queueIndex \in 0 .. n
    BY <1>3
  <2> QED
    BY <1>3, <1>4, <2>1, BeforeComplement
<1>10. playNextInsertIndex < 0 => end < 0
  <2>1. playNextInsertIndex < 0 => playNextInsertIndex = -1
    BY <1>3
  <2>2. -1 \in Int /\ -1 < 0
    OBVIOUS
  <2>3. Before(removed, -1) = 0
    BY <1>3, <1>4, <2>2, BeforeIsFinite
  <2> QED
    BY <2>1, <2>3 DEF RegionEnd
<1>11. index = Clamp(to, -1, Len(q) - 1) /\ to \in Int
  <2>0. queueIndex \in Int
    BY <1>3
  <2>1. Before(removed, queueIndex) \in 0 .. Cardinality(removed) /\ Cardinality(removed) \in Nat
    BY <1>3, <1>4, <2>0, BeforeIsFinite
  <2> QED
    BY <2>0, <2>1 DEF AfterRemoval
<1> HIDE DEF S, q, to, index, end, n
<1>12. ASSUME NEW r \in RowsOf(q), r > index, r < playNextInsertIndex'
       PROVE  q[r + 1].asked
  <2>1. PICK k \in S : Before(S, k) = r
    BY <1>7
  <2>2. k \in 0 .. n - 1 /\ r \in 0 .. Len(q) - 1 /\ k \in RowsOf(queue) /\ k \in Int
    BY <1>3, <1>4, <1>6 DEF RowsOf
  <2>3. r < end
    BY <1>2, <1>5, <1>6, <1>12, <2>2 DEF Clamp
  <2>4. playNextInsertIndex >= 0 /\ playNextInsertIndex \in Int
    BY <1>3, <1>5, <1>10, <2>2, <2>3
  <2>5. k < playNextInsertIndex
    <3>1. SUFFICES ASSUME playNextInsertIndex <= k PROVE FALSE
      BY <2>2, <2>4
    <3>2. Before(S, playNextInsertIndex) <= Before(S, k)
      BY <1>3, <1>4, <2>2, <2>4, <3>1, BeforeGrows
    <3> QED
      BY <1>5, <1>8, <2>1, <2>2, <2>3, <2>4, <3>2
  <2>6. k > queueIndex
    <3>1. SUFFICES ASSUME k <= queueIndex, queueIndex >= 0, queueIndex \in Int PROVE FALSE
      BY <1>3, <2>2
    <3>2. Before(S, k) <= Before(S, queueIndex)
      BY <1>3, <1>4, <2>2, <3>1, BeforeGrows
    <3>3. r <= to
      BY <1>9, <2>1, <3>1, <3>2
    <3> QED
      BY <1>6, <1>11, <1>12, <2>2, <3>3 DEF Clamp
  <2>7. q[r + 1] = queue[k + 1]
    BY <1>7, <2>1
  <2> QED
    BY <2>2, <2>5, <2>6, <2>7 DEF NoSpuriousBadge
<1> QED
  BY <1>2, <1>12 DEF NoSpuriousBadge

LEMMA RestoreQueueRegion == ASSUME RestoreQueue PROVE NoSpuriousBadge'
<1>1. PICK list \in Lists : \E i \in RowsOf(list) : \E end \in i + 1 .. Len(list) :
        ShiftRows([k \in DOMAIN list |->
                     [track |-> list[k], asked |-> k - 1 \in i + 1 .. end - 1]], i, end)
  BY DEF RestoreQueue
<1>2. PICK i \in RowsOf(list) : \E end \in i + 1 .. Len(list) :
        ShiftRows([k \in DOMAIN list |->
                     [track |-> list[k], asked |-> k - 1 \in i + 1 .. end - 1]], i, end)
  BY <1>1
<1>3. PICK end \in i + 1 .. Len(list) :
        ShiftRows([k \in DOMAIN list |->
                     [track |-> list[k], asked |-> k - 1 \in i + 1 .. end - 1]], i, end)
  BY <1>2
<1>4. /\ queue' = [k \in 1 .. Len(list) |-> [track |-> list[k], asked |-> k - 1 \in i + 1 .. end - 1]]
      /\ queueIndex' = i /\ playNextInsertIndex' = end
  BY <1>3, ListFacts DEF ShiftRows
<1>5. Len(list) \in Nat /\ i \in 0 .. Len(list) - 1 /\ end \in i + 1 .. Len(list)
  BY ListFacts
<1>6. ASSUME NEW r \in Int, r > i, r < end PROVE queue'[r + 1].asked
  <2>1. r + 1 \in 1 .. Len(list) /\ (r + 1) - 1 \in i + 1 .. end - 1
    BY <1>5, <1>6
  <2> QED
    BY <1>4, <2>1
<1> QED
  BY <1>4, <1>6, RegionIs

\* The other mutations leave an empty region.
LEMMA MutationRegion == ASSUME Types, NoSpuriousBadge, Mutation PROVE NoSpuriousBadge'
<1>0. Len(queue) \in Nat /\ queueIndex \in -1 .. Len(queue) - 1 /\ RowsOf(queue) = 0 .. Len(queue) - 1
  BY TypesParts
<1>1. CASE AppendAndPlay
  <2>1. PICK t \in Tracks :
          \/ /\ t \in TracksOf(queue)
             /\ Jump(CHOOSE i \in RowsOf(queue) : /\ TrackAt(queue, i) = t
                                                  /\ \A j \in 0 .. i - 1 : TrackAt(queue, j) # t)
          \/ Jump(Len(queue))
    BY <1>1 DEF AppendAndPlay
  <2>2. CASE Jump(Len(queue))
    BY <1>0, <2>2, JumpRegion
  <2>3. CASE /\ t \in TracksOf(queue)
             /\ Jump(CHOOSE i \in RowsOf(queue) : /\ TrackAt(queue, i) = t
                                                  /\ \A j \in 0 .. i - 1 : TrackAt(queue, j) # t)
    <3> DEFINE first == CHOOSE i \in RowsOf(queue) :
                            /\ TrackAt(queue, i) = t
                            /\ \A j \in 0 .. i - 1 : TrackAt(queue, j) # t
    <3>1. first \in RowsOf(queue)
      BY <2>3, FirstRow, TypesParts
    <3>2. Jump(first)
      BY <2>3
    <3> HIDE DEF first
    <3>3. first \in Int /\ 0 <= first
      BY <1>0, <3>1
    <3> QED
      BY <3>2, <3>3, JumpRegion
  <2> QED
    BY <2>1, <2>2, <2>3
<1>2. CASE MoveRows
  <2>1. Step
    BY <1>2, MoveRowsStep
  <2>2. playNextInsertIndex' = queueIndex' + 1
    BY <1>2 DEF MoveRows, ShiftRows
  <2>3. queueIndex' \in Int /\ playNextInsertIndex' \in Int
    <3>1. Len(queue') \in Nat /\ queueIndex' \in -1 .. Len(queue') - 1
      BY <2>1, RowFacts DEF Step, Types, RowsOK
    <3> QED
      BY <2>2, <3>1
  <2> DEFINE i == queueIndex'
  <2>a. i \in Int /\ playNextInsertIndex' = i + 1
    BY <2>2, <2>3
  <2> HIDE DEF i
  <2>b. i + 1 <= i + 1
    BY <2>a
  <2>4. playNextInsertIndex' <= queueIndex' + 1
    BY <2>a, <2>b DEF i
  <2> QED
    BY <2>3, <2>4, NoRegion
<1>3. CASE ClearAll \/ ClearKeepingCurrent \/ CollapsePlayNext
  <2>1. queueIndex' \in Int /\ playNextInsertIndex' \in Int /\ playNextInsertIndex' <= queueIndex' + 1
    BY <1>0, <1>3 DEF ClearAll, ClearKeepingCurrent, CollapsePlayNext, ShiftRows
  <2> QED
    BY <2>1, NoRegion
<1>4. CASE ReplaceQueue
  <2>1. PICK list \in Lists : \E start \in RowsOf(list) : PlayAt(start, -1, {}, Rounds)
    BY <1>4 DEF ReplaceQueue
  <2>2. PICK start \in RowsOf(list) : PlayAt(start, -1, {}, Rounds)
    BY <2>1
  <2> DEFINE vis == {}
  <2>3. start \in Int /\ 0 <= start /\ -1 \in Int /\ -1 <= start /\ PlayAt(start, -1, vis, Rounds)
    BY <2>2, ListFacts
  <2> HIDE DEF vis
  <2> QED
    BY <2>3, FarMove
<1>5. CASE SyncQueue
  <2>1. Step
    BY <1>5, SyncQueueStep
  <2>2. playNextInsertIndex' = IF queueIndex' < 0 THEN -1 ELSE queueIndex' + 1
    BY <1>5 DEF SyncQueue, ShiftRows
  <2>3. Len(queue') \in Nat /\ queueIndex' \in -1 .. Len(queue') - 1
    BY <2>1, RowFacts DEF Step, Types, RowsOK
  <2> DEFINE i == queueIndex'
  <2>a. i \in Int /\ i >= -1
    BY <2>3
  <2> HIDE DEF i
  <2>b. LET p == IF i < 0 THEN -1 ELSE i + 1 IN p \in Int /\ p <= i + 1
    BY <2>a
  <2>4. queueIndex' \in Int /\ playNextInsertIndex' \in Int /\ playNextInsertIndex' <= queueIndex' + 1
    BY <2>2, <2>a, <2>b DEF i
  <2> QED
    BY <2>4, NoRegion
<1> QED
  BY <1>1, <1>2, <1>3, <1>4, <1>5, PlayTracksNextRegion, AppendTracksRegion, RemoveRowsRegion,
     RestoreQueueRegion DEF Mutation

LEMMA RegionKept ==
    ASSUME Unresolvable = {}, DsdTracks = {}, IInv, skipping = 0, NoSpuriousBadge, [Next]_vars
    PROVE  NoSpuriousBadge'
<1>1. ~Skipping
  BY DEF Skipping, SkipRound, SkipExhausted
<1> QED
  BY <1>1, TransportRegion, MutationRegion, BackendRegion, StillRegion DEF Next, IInv

\* When every row can be played, only rows asked for with playTracksNext are in the
\* play-next region, however rows are added, moved and removed and the current row moves
\* (m_playNextInsertIndex, collapsePlayNextIfStale).
THEOREM RegionIsAsked ==
    ASSUME Unresolvable = {}, DsdTracks = {}
    PROVE  Spec => []NoSpuriousBadge
<1> DEFINE Asked == skipping = 0 /\ NoSpuriousBadge
<1>1. Init => Asked
  BY EmptySeq DEF Init, NoSpuriousBadge, RowsOf
<1>2. IInv /\ Asked /\ [Next]_vars => Asked'
  BY NothingSkipped, RegionKept
<1>3. Asked => NoSpuriousBadge
  OBVIOUS
<1> HIDE DEF Asked
<1> QED
  BY <1>1, <1>2, <1>3, Invariant, PTL DEF Spec

----------------------------------------------------------------------------
(* The trail, and the row that is to come.                                   *)

\* What is to come is decided by the step, for the queue as the step leaves it.
Prepares == \E vis, now : PrepareNext(vis, now)

\* Nothing that the decision is about has changed.
Unmoved == UNCHANGED <<queue, queueIndex, repeatMode, shuffleMode, visited, history, forward,
                       preparedNext, source, skipping>>

\* Whenever a row is loaded, and no row is being skipped, what is to come is decided.
Renewed ==
    /\ Prepares \/ Unmoved \/ source' = NoTrack \/ skipping' # 0
    /\ started' => source' # NoTrack \/ UNCHANGED <<source, started>>

\* Only a queue with a current row has a trail.
Placed ==
    \/ history' = <<>> /\ forward' = <<>>
    \/ queueIndex' >= 0
    \/ UNCHANGED <<history, forward, queueIndex>>

\* The loop over rows that cannot be played begins with more rounds than there are rows.
Begins == skipping' \in {0, Len(queue') + 2}

Decides == Renewed /\ Placed /\ (skipping = 0 => Begins)

LEMMA CurrentPlayed ==
    ASSUME NEW notify, NEW paused, NEW vis, NEW rounds, rounds # 0,
           PlayCurrent(notify, paused, vis, rounds)
    PROVE  Renewed /\ skipping' \in {0, rounds}
<1> DEFINE t == TrackAt(queue', queueIndex')
<1>1. CASE StartTrack(t, notify, paused, vis)
  <2>1. Prepares /\ skipping' = 0 /\ ~started'
    BY <1>1 DEF StartTrack, Prepares, Load
  <2> QED
    BY <2>1 DEF Renewed
<1>2. CASE Skip(rounds, vis)
  BY <1>2 DEF Skip, Renewed
<1>3. CASE BackendStop /\ skipping' = 0
  BY <1>3 DEF BackendStop, Renewed
<1>4. StartTrack(t, notify, paused, vis) \/ Skip(rounds, vis) \/ (BackendStop /\ skipping' = 0)
  BY Zenon DEF PlayCurrent
<1> QED
  BY <1>1, <1>2, <1>3, <1>4

LEMMA RowPlayed ==
    ASSUME Types', NEW i \in RowsOf(queue'), NEW pni, NEW vis, PlayAt(i, pni, vis, Rounds)
    PROVE  Decides
<1>1. Len(queue') \in Nat /\ RowsOf(queue') = 0 .. Len(queue') - 1
  BY RowFacts DEF Types, RowsOK
<1>2. Rounds = Len(queue') + 2 /\ Rounds # 0
  BY <1>1 DEF Rounds
<1>3. queueIndex' = i /\ PlayCurrent(TRUE, FALSE, vis, Rounds)
  BY DEF PlayAt
<1>4. Renewed /\ skipping' \in {0, Rounds}
  BY <1>2, <1>3, CurrentPlayed
<1> QED
  BY <1>1, <1>2, <1>3, <1>4 DEF Decides, Placed, Begins

\* Steps that leave the backend's source alone.
LEMMA PreparedAnew ==
    ASSUME Types', NEW vis, NEW now, PrepareNext(vis, now), skipping' = skipping,
           started' => source' # NoTrack \/ UNCHANGED <<source, started>>, Placed
    PROVE  Decides
BY DEF Decides, Renewed, Prepares, Begins

LEMMA GivenUp ==
    ASSUME GiveUp, skipping' = skipping \/ skipping' = 0, Placed
    PROVE  Decides
BY DEF GiveUp, BackendStop, Decides, Renewed, Begins

LEMMA NothingMoved ==
    ASSUME Unmoved, started' => source' # NoTrack \/ UNCHANGED <<source, started>>
    PROVE  Decides
BY DEF Unmoved, Decides, Renewed, Placed, Begins

LEMMA JumpDecides ==
    ASSUME Types', NEW i \in RowsOf(queue'), Jump(i)
    PROVE  Decides
BY RowPlayed DEF Jump

LEMMA ApplyDecides ==
    ASSUME Types, Types', NEW next, NEW vis, ApplyAutoNext(next, vis)
    PROVE  Decides
<1>1. ASSUME queue' = Append(queue, [track |-> next.injected, asked |-> FALSE])
      PROVE  Len(queue) \in RowsOf(queue')
  <2>1. Len(queue) \in Nat /\ Len(queue') = Len(queue) + 1
    <3>1. queue \in Seq(QueueRows) /\ queue' \in Seq(QueueRows)
      BY DEF Types, RowsOK
    <3>2. Len(queue) \in Nat
      BY <3>1
    <3>3. Len(queue') = Len(queue) + 1
      BY <1>1, <3>1
    <3> QED
      BY <3>2, <3>3
  <2> QED
    BY <2>1 DEF RowsOf
<1> QED
  BY <1>1, RowPlayed DEF ApplyAutoNext

LEMMA TransportDecides ==
    ASSUME Types, Types', Transport
    PROVE  Decides
<1>1. CASE PickRow
  <2>1. PICK i \in RowsOf(queue) : queue' = queue /\ Jump(i)
    BY <1>1 DEF PickRow
  <2> QED
    BY <2>1, JumpDecides
<1>2. CASE PlayNext
  <2>1. ASSUME queueIndex + 1 < Len(queue), queue' = queue
        PROVE  queueIndex + 1 \in RowsOf(queue')
    BY <2>1, TypesParts
  <2> QED
    BY <1>2, <2>1, RowPlayed, ApplyDecides DEF PlayNext
<1>3. CASE Previous
  <2>1. queue' = queue /\ RowsOf(queue) = 0 .. Len(queue) - 1 /\ 0 \in RowsOf(queue)
        /\ queueIndex \in -1 .. Len(queue) - 1 /\ Len(queue) \in Nat
    BY <1>3, NotEmpty, TypesParts DEF Previous
  <2>2. CASE shuffleMode # "Off" /\ history # <<>>
    <3> DEFINE i == Clamp(history[Len(history)], 0, Len(queue) - 1)
    <3>1. history[Len(history)] \in RowsOf(queue)
      BY <2>2, LastOf, TypesParts
    <3>2. i \in RowsOf(queue')
      BY <2>1, <3>1 DEF Clamp
    <3>3. PlayAt(i, -1, visited, Rounds)
      BY <1>3, <2>2 DEF Previous
    <3> HIDE DEF i
    <3> QED
      BY <3>2, <3>3, RowPlayed
  <2>3. CASE ~(shuffleMode # "Off" /\ history # <<>>)
    <3> DEFINE i == IF queueIndex > 0 THEN queueIndex - 1 ELSE 0
    <3>1. i \in RowsOf(queue')
      BY <2>1
    <3>2. PlayAt(i, -1, visited, Rounds)
      BY <1>3, <2>3 DEF Previous
    <3> HIDE DEF i
    <3> QED
      BY <3>1, <3>2, RowPlayed
  <2> QED
    BY <2>2, <2>3
<1>4. CASE Play
  <2>1. CASE /\ source # NoTrack
             /\ UNCHANGED <<rows, modes, trail, preparedNext, skipping, source, started>>
    BY <2>1, NothingMoved DEF Unmoved, rows, modes, trail
  <2>2. CASE /\ IF state = "Error" THEN queueIndex \in RowsOf(queue) ELSE queue # <<>>
             /\ queue' = queue
             /\ PlayAt(IF queueIndex >= 0 THEN queueIndex ELSE 0, playNextInsertIndex, visited, Rounds)
    <3> DEFINE i == IF queueIndex >= 0 THEN queueIndex ELSE 0
    <3>1. i \in RowsOf(queue')
      BY <2>2, NotEmpty, TypesParts
    <3>2. PlayAt(i, playNextInsertIndex, visited, Rounds)
      BY <2>2
    <3> HIDE DEF i
    <3> QED
      BY <3>1, <3>2, RowPlayed
  <2> QED
    BY <1>4, <2>1, <2>2 DEF Play
<1>5. CASE Pause
  BY <1>5, NothingMoved DEF Pause, PauseBackend, Unmoved, rows, modes, trail
<1>6. CASE Stop
  BY <1>6, GivenUp DEF Stop, Placed, rows, trail
<1> QED
  BY <1>1, <1>2, <1>3, <1>4, <1>5, <1>6 DEF Transport

LEMMA TimerDecides ==
    ASSUME Types, Types', Timer
    PROVE  Decides
<1>1. ASSUME NEW n, SetStopAfter(n)
      PROVE  Decides
  <2>1. ~started' /\ skipping' = skipping /\ Placed
    BY <1>1 DEF SetStopAfter, Stable, KeepBackend, KeepTrail, Placed, rows
  <2>2. CASE n = 1
    <3>1. Unmoved
      BY <1>1, <2>2 DEF SetStopAfter, KeepBackend, KeepTrail, Unmoved, rows, modes
    <3> QED
      BY <2>1, <3>1, NothingMoved
  <2>3. CASE n # 1
    <3>1. PrepareNext(visited, currentTrack)
      BY <1>1, <2>3 DEF SetStopAfter
    <3> QED
      BY <2>1, <3>1, PreparedAnew
  <2> QED
    BY <2>2, <2>3
<1>2. CASE DeadlinePasses
  BY <1>2, NothingMoved DEF DeadlinePasses, PauseBackend, Unmoved, rows, modes, trail
<1> QED
  BY <1>1, <1>2 DEF Timer, ArmStopAfter, CancelStopAfter

\* A list is added, or moved about, under the row that is loaded.
LEMMA ShiftDecides ==
    ASSUME Types', NEW vis, NEW now, PrepareNext(vis, now), skipping' = skipping, ~started',
           history' = <<>> /\ forward' = <<>>
    PROVE  Decides
BY PreparedAnew DEF Placed

LEMMA InsertDecides ==
    ASSUME Types, Types', PlayTracksNext \/ AppendTracks
    PROVE  Decides
<1>1. CASE PlayTracksNext
  <2>1. PICK list \in Lists :
            LET at == IF playNextInsertIndex <= queueIndex \/ playNextInsertIndex > Len(queue)
                      THEN queueIndex + 1 ELSE playNextInsertIndex
            IN IF queueIndex < 0
               THEN /\ queue' = queue \o AsRows(list, FALSE)
                    /\ PlayAt(Len(queue), playNextInsertIndex, visited, Rounds)
               ELSE /\ ShiftRows(SubSeq(queue, 1, at) \o AsRows(list, TRUE)
                                   \o SubSeq(queue, at + 1, Len(queue)),
                                 queueIndex, at + Len(list))
                    /\ KeepBackend /\ Presented
                    /\ PrepareNext(ResetVisited, currentTrack)
    BY <1>1 DEF PlayTracksNext
  <2>2. CASE queueIndex < 0
    <3>1. queue' = queue \o AsRows(list, FALSE) /\ PlayAt(Len(queue), playNextInsertIndex, visited, Rounds)
      BY <2>1, <2>2
    <3>2. Len(queue) \in RowsOf(queue')
      <4>1. AsRows(list, FALSE) \in Seq(QueueRows) /\ Len(AsRows(list, FALSE)) = Len(list)
            /\ Len(list) \in Nat \ {0}
        BY RowsFromList, ListFacts
      <4>2. queue \in Seq(QueueRows) /\ Len(queue) \in Nat
        BY TypesParts
      <4>3. Len(queue') = Len(queue) + Len(list)
        BY <3>1, <4>1, <4>2, ConcatProperties
      <4> QED
        BY <4>1, <4>2, <4>3 DEF RowsOf
    <3> QED
      BY <3>1, <3>2, RowPlayed
  <2>3. CASE ~(queueIndex < 0)
    <3>1. /\ history' = <<>> /\ forward' = <<>>
          /\ KeepBackend /\ Presented /\ PrepareNext(ResetVisited, currentTrack)
      BY <2>1, <2>3 DEF ShiftRows
    <3>2. ~started' /\ skipping' = skipping
      BY <1>1, <3>1 DEF KeepBackend, Presented, PlayTracksNext, Stable
    <3> QED
      BY <3>1, <3>2, ShiftDecides
  <2> QED
    BY <2>2, <2>3
<1>2. CASE AppendTracks
  <2>1. /\ PrepareNext(visited, currentTrack) /\ skipping' = skipping /\ ~started'
        /\ UNCHANGED <<queueIndex, history, forward>>
    BY <1>2 DEF AppendTracks, Stable, KeepBackend, KeepTrail, Presented
  <2> QED
    BY <2>1, PreparedAnew DEF Placed
<1> QED
  BY <1>1, <1>2

LEMMA MutationDecides ==
    ASSUME Types, Types', Mutation
    PROVE  Decides
<1>1. CASE AppendAndPlay
  <2>1. PICK t \in Tracks :
            IF t \in TracksOf(queue)
            THEN /\ queue' = queue
                 /\ Jump(CHOOSE i \in RowsOf(queue) : /\ TrackAt(queue, i) = t
                                                      /\ \A j \in 0 .. i - 1 : TrackAt(queue, j) # t)
            ELSE /\ queue' = Append(queue, [track |-> t, asked |-> FALSE]) /\ Len(queue) < MaxQueue
                 /\ Jump(Len(queue))
    BY <1>1 DEF AppendAndPlay
  <2>2. CASE t \in TracksOf(queue)
    <3> DEFINE i == CHOOSE i \in RowsOf(queue) : /\ TrackAt(queue, i) = t
                                                 /\ \A j \in 0 .. i - 1 : TrackAt(queue, j) # t
    <3>1. i \in RowsOf(queue)
      BY <2>2, FirstRow, TypesParts
    <3>2. queue' = queue /\ Jump(i)
      BY <2>1, <2>2
    <3> HIDE DEF i
    <3> QED
      BY <3>1, <3>2, JumpDecides
  <2>3. CASE t \notin TracksOf(queue)
    <3>1. Len(queue) \in RowsOf(queue')
      BY <2>1, <2>3, Appended
    <3> QED
      BY <2>1, <2>3, <3>1, JumpDecides
  <2> QED
    BY <2>2, <2>3
<1>2. CASE MoveRows
  <2>1. /\ history' = <<>> /\ forward' = <<>> /\ skipping' = skipping /\ ~started'
        /\ PrepareNext(ResetVisited, currentTrack)
    BY <1>2 DEF MoveRows, ShiftRows, Stable, KeepBackend, Presented
  <2> QED
    BY <2>1, ShiftDecides
<1>3. CASE RemoveRows
  <2>1. /\ history' = <<>> /\ forward' = <<>>
        /\ \/ PlayCurrent(state = "Playing", state # "Playing", ResetVisited, Rounds)
           \/ KeepBackend /\ skipping' = skipping /\ PrepareNext(ResetVisited, currentTrack)
           \/ GiveUp /\ skipping' = skipping
    BY <1>3 DEF RemoveRows, ShiftRows
  <2>2. ~started /\ skipping = 0
    BY <1>3 DEF RemoveRows, Stable, Ready
  <2>3. Rounds = Len(queue') + 2 /\ Rounds # 0
    BY RowFacts DEF Types, RowsOK, Rounds
  <2>4. CASE PlayCurrent(state = "Playing", state # "Playing", ResetVisited, Rounds)
    BY <2>1, <2>2, <2>3, <2>4, CurrentPlayed DEF Decides, Placed, Begins
  <2>5. CASE KeepBackend /\ skipping' = skipping /\ PrepareNext(ResetVisited, currentTrack)
    BY <2>1, <2>2, <2>5, ShiftDecides DEF KeepBackend
  <2>6. CASE GiveUp /\ skipping' = skipping
    BY <2>1, <2>2, <2>6, GivenUp DEF Placed
  <2> QED
    BY <2>1, <2>4, <2>5, <2>6
<1>4. CASE ClearAll
  BY <1>4, GivenUp DEF ClearAll, ShiftRows, Placed
<1>5. CASE ClearKeepingCurrent
  <2>1. /\ history' = <<>> /\ forward' = <<>> /\ skipping' = skipping /\ ~started'
        /\ PrepareNext(ResetVisited, currentTrack)
    BY <1>5 DEF ClearKeepingCurrent, ShiftRows, Stable, KeepBackend
  <2> QED
    BY <2>1, ShiftDecides
<1>6. CASE CollapsePlayNext
  BY <1>6, NothingMoved DEF CollapsePlayNext, Unmoved, modes, trail, backend
<1>7. CASE ReplaceQueue
  <2>1. PICK list \in Lists : \E start \in RowsOf(list) :
            queue' = AsRows(list, FALSE) /\ PlayAt(start, -1, {}, Rounds)
    BY <1>7 DEF ReplaceQueue
  <2>2. PICK start \in RowsOf(list) : PlayAt(start, -1, {}, Rounds)
    BY <2>1
  <2>3. start \in RowsOf(queue')
    <3>1. Len(AsRows(list, FALSE)) = Len(list)
      BY RowsFromList
    <3> QED
      BY <2>1, <3>1 DEF RowsOf
  <2> QED
    BY <2>2, <2>3, RowPlayed
<1>8. CASE SyncQueue
  <2>1. /\ history' = <<>> /\ forward' = <<>> /\ skipping' = skipping /\ ~started'
        /\ PrepareNext(ResetVisited, currentTrack)
    BY <1>8 DEF SyncQueue, ShiftRows, Stable, KeepBackend
  <2> QED
    BY <2>1, ShiftDecides
<1>9. CASE RestoreQueue
  <2>1. /\ history' = <<>> /\ forward' = <<>> /\ source' = NoTrack /\ skipping' = skipping
        /\ UNCHANGED <<started, source>>
    BY <1>9 DEF RestoreQueue, ShiftRows, backend
  <2> QED
    BY <2>1 DEF Decides, Renewed, Placed, Begins
<1> QED
  BY <1>1, <1>2, <1>3, <1>4, <1>5, <1>6, <1>7, <1>8, <1>9, InsertDecides DEF Mutation

LEMMA PolicyDecides ==
    ASSUME Types, Types', SetPolicy
    PROVE  Decides
<1>1. ASSUME NEW vis, Stable, Prepared(vis), UNCHANGED <<history, forward>> \/ (history' = <<>> /\ forward' = <<>>)
      PROVE  Decides
  <2>1. /\ PrepareNext(vis, currentTrack) /\ skipping' = skipping /\ ~started' /\ queueIndex' = queueIndex
    BY <1>1 DEF Prepared, Stable, KeepBackend, Presented, rows
  <2> QED
    BY <1>1, <2>1, PreparedAnew DEF Placed
<1>2. CASE SetRadioActive
  BY <1>2, NothingMoved DEF SetRadioActive, Unmoved, rows, trail, backend
<1> QED
  BY <1>1, <1>2 DEF SetPolicy, SetRepeatMode, SetShuffleMode, KeepTrail

LEMMA AdvanceDecides ==
    ASSUME Types, Types', NEW i \in RowsOf(queue), Advance(i), skipping' = skipping, ~started'
    PROVE  Decides
<1>1. queueIndex' = i /\ PrepareNext(visited \union {i}, TrackAt(queue, i)) /\ i >= 0
  BY TypesParts DEF Advance
<1> QED
  BY <1>1, PreparedAnew DEF Placed

LEMMA StageDecides ==
    ASSUME Types, Types', NEW next, Ready, Stage(next)
    PROVE  Decides
<1>1. CASE /\ next.index \in RowsOf(queue)
           /\ Load(TrackAt(queue, next.index), TRUE)
           /\ Advance(next.index)
           /\ UNCHANGED skipping
  BY <1>1, AdvanceDecides DEF Load
<1>2. CASE GiveUp /\ UNCHANGED <<rows, trail, skipping>>
  BY <1>2, GivenUp DEF Placed, rows, trail
<1> QED
  BY <1>1, <1>2, Zenon DEF Stage

LEMMA BackendDecides ==
    ASSUME Types, Types', LoudInv, Backend
    PROVE  Decides
<1>1. CASE ArmHandoff
  BY <1>1, NothingMoved DEF ArmHandoff, Unmoved, rows, modes, trail
<1>2. CASE StartHandoff
  <2>1. Unmoved /\ source # NoTrack
    BY <1>2 DEF StartHandoff, Unmoved, rows, modes, trail, LoudInv
  <2> QED
    BY <2>1, NothingMoved DEF Unmoved
<1>3. CASE Commit
  BY <1>3, AdvanceDecides DEF Commit
<1>4. CASE FinishedCounted
  BY <1>4, StageDecides DEF FinishedCounted, Ended, Stable
<1>5. CASE FinishedRepeatOne
  <2>1. queueIndex \in RowsOf(queue') /\ PlayAt(queueIndex, playNextInsertIndex, visited, Rounds)
    BY <1>5, TypesParts DEF FinishedRepeatOne
  <2> QED
    BY <2>1, RowPlayed
<1>6. CASE FinishedDecides
  <2>1. \/ \E choice \in DecideAutoNext(Policy, visited) : ApplyAutoNext(choice.next, choice.visited)
        \/ GiveUp /\ UNCHANGED <<rows, trail, skipping>>
    BY <1>6 DEF FinishedDecides
  <2>2. CASE GiveUp /\ UNCHANGED <<rows, trail, skipping>>
    BY <2>2, GivenUp DEF Placed, rows, trail
  <2> QED
    BY <2>1, <2>2, ApplyDecides
<1>7. CASE FinishedNowhere
  BY <1>7, GivenUp DEF FinishedNowhere, Placed, rows, trail
<1>8. CASE Fail
  BY <1>8, NothingMoved DEF Fail, Unmoved, rows, modes, trail, Stable
<1> QED
  BY <1>1, <1>2, <1>3, <1>4, <1>5, <1>6, <1>7, <1>8 DEF Backend, Finished

\* The answer to the takeover prompt.
LEMMA ResolveDecides ==
    ASSUME Types, Types', ResolveDsdTakeover
    PROVE  Decides
<1>1. UNCHANGED <<rows, history, forward>> /\ skipping = 0
  BY DEF ResolveDsdTakeover, KeepTrail, Ready
<1>2. queue' = queue /\ Placed /\ Len(queue) \in Nat
  BY <1>1, TypesParts DEF rows, Placed
<1>3. CASE StartTrack(dsdPending.track, dsdPending.notify, ~dsdPending.notify, visited)
  <2>1. Prepares /\ skipping' = 0 /\ ~started'
    BY <1>3 DEF StartTrack, Prepares, Load
  <2> QED
    BY <1>2, <2>1 DEF Decides, Renewed, Begins
<1>4. CASE Skip(Len(queue) + 2, visited)
  BY <1>2, <1>4 DEF Skip, Decides, Renewed, Begins
<1> QED
  BY <1>3, <1>4 DEF ResolveDsdTakeover

\* A round of the loop goes to a row, or finds none.
Rounded(choice) ==
    \/ /\ choice.next.injected # NoTrack
       /\ queue' = Append(queue, [track |-> choice.next.injected, asked |-> FALSE])
       /\ PlayAt(Len(queue), playNextInsertIndex, choice.visited, skipping - 1)
    \/ /\ choice.next.index \in RowsOf(queue) /\ queue' = queue
       /\ PlayAt(choice.next.index, playNextInsertIndex, choice.visited, skipping - 1)
    \/ /\ choice.next = NoNext /\ GiveUp /\ skipping' = 0
       /\ UNCHANGED <<rows, trail>>

LEMMA SkipDecides ==
    ASSUME Types, Types', Skipping
    PROVE  Decides
<1>0. Len(queue) \in Nat /\ RowsOf(queue) = 0 .. Len(queue) - 1
  BY TypesParts
<1>1. CASE SkipExhausted
  BY <1>1, GivenUp DEF SkipExhausted, Placed, rows, trail
<1>2. CASE SkipRound
  <2>1. skipping > 1 /\ skipping \in Nat /\ skipping - 1 # 0 /\ skipping # 0
    BY <1>2 DEF SkipRound, Types, PromptOK
  <2>2. PICK choice \in DecideAutoNext(Policy, visited) : Rounded(choice)
    BY <1>2 DEF SkipRound, Rounded
  <2>3. ASSUME NEW i, i >= 0, PlayAt(i, playNextInsertIndex, choice.visited, skipping - 1)
        PROVE  Decides
    <3>1. queueIndex' = i /\ PlayCurrent(TRUE, FALSE, choice.visited, skipping - 1)
      BY <2>3 DEF PlayAt
    <3>2. Renewed
      BY <2>1, <3>1, CurrentPlayed
    <3> QED
      BY <2>1, <2>3, <3>1, <3>2 DEF Decides, Placed
  <2>4. CASE GiveUp /\ skipping' = 0 /\ UNCHANGED <<rows, trail>>
    BY <2>4, GivenUp DEF Placed, rows, trail
  <2> QED
    BY <1>0, <2>2, <2>3, <2>4 DEF Rounded
<1> QED
  BY <1>1, <1>2 DEF Skipping

LEMMA EveryDecides ==
    ASSUME IInv, [Next]_vars
    PROVE  Decides
<1>1. Types /\ OfferInv /\ LoudInv
  BY DEF IInv
<1>2. Types'
  BY <1>1, EveryStep DEF Step
<1>3. CASE UNCHANGED vars
  BY <1>3, NothingMoved DEF vars, Unmoved, rows, modes, trail, backend
<1> QED
  BY <1>1, <1>2, <1>3, TransportDecides, TimerDecides, MutationDecides, PolicyDecides, BackendDecides,
     SkipDecides, ResolveDecides DEF Next

\* The trail has a current row at its end, and what is to come on it is its next row; with nothing
\* remembered it is a row not heard in this cycle.
TrailPlaced == history # <<>> \/ forward # <<>> => queueIndex >= 0
StartedLoaded == started => source # NoTrack
TrailAhead ==
    Ready /\ source # NoTrack /\ shuffleMode # "Off" /\ forward # <<>> =>
        preparedNext = IF repeatMode = "One" THEN NoNext ELSE NextRow(forward[Len(forward)])
FreshAhead ==
    Ready /\ source # NoTrack /\ shuffleMode # "Off" /\ forward = <<>> /\ repeatMode = "Off"
          /\ ~radioActive => preparedNext.index \notin visited

\* With a trail ahead the choice is its last row.
LEMMA DecidedAhead ==
    ASSUME NEW p, NEW vis, p.queue \in Seq(QueueRows), p.index \in 0 .. Len(p.queue) - 1,
           p.forward \in Seq(RowsOf(p.queue)), p.forward # <<>>, p.shuffle # "Off",
           NEW c \in DecideAutoNext(p, vis)
    PROVE  c.next = NextRow(p.forward[Len(p.forward)]) /\ c.visited = vis
           /\ p.forward[Len(p.forward)] \in RowsOf(p.queue)
<1> DEFINE f == p.forward[Len(p.forward)]
<1>1. Len(p.queue) \in Nat /\ RowsOf(p.queue) = 0 .. Len(p.queue) - 1
  BY RowFacts
<1>2. f \in RowsOf(p.queue)
  BY LastOf
<1>3. p.queue # <<>>
  BY <1>1, EmptySeq
<1>4. Clamp(f, 0, Len(p.queue) - 1) = f
  BY <1>1, <1>2 DEF Clamp
<1>5. c = [next |-> NextRow(f), visited |-> vis]
  BY <1>3, <1>4 DEF DecideAutoNext
<1> QED
  BY <1>2, <1>5

\* Without a trail, and without Repeat All or a radio session, it is none or a row not heard.
LEMMA DecidedFresh ==
    ASSUME NEW p, NEW vis, p.queue \in Seq(QueueRows), p.index \in -1 .. Len(p.queue) - 1,
           p.forward = <<>> \/ p.index < 0, p.shuffle # "Off", p.repeat # "All", ~p.radio,
           NEW c \in DecideAutoNext(p, vis)
    PROVE  /\ c.visited = vis
           /\ c.next.index \in (RowsOf(p.queue) \ vis) \union {-1}
<1>1. Len(p.queue) \in Nat /\ RowsOf(p.queue) = 0 .. Len(p.queue) - 1
  BY RowFacts
<1>2. CASE p.queue = <<>> \/ p.index < 0
  BY <1>1, <1>2 DEF DecideAutoNext, NoNext
<1>3. CASE p.queue # <<>> /\ p.index >= 0
  <2>1. \/ c \in PickShuffle(p, vis)
        \/ \E t \in Pulls(p.queue) : c = [next |-> [index |-> -1, injected |-> t], visited |-> vis]
    BY <1>3 DEF DecideAutoNext
  <2>2. CASE c \in PickShuffle(p, vis)
    <3> DEFINE others == RowsOf(p.queue) \ {p.index}
               fresh == others \ vis
    <3>1. \E i \in fresh \union {-1} : c = [next |-> NextRow(i), visited |-> vis]
      BY <2>2 DEF PickShuffle
    <3> QED
      BY <1>1, <3>1 DEF NextRow
  <2>3. CASE \E t \in Pulls(p.queue) : c = [next |-> [index |-> -1, injected |-> t], visited |-> vis]
    BY <1>1, <2>3
  <2> QED
    BY <2>1, <2>2, <2>3
<1> QED
  BY <1>2, <1>3, <1>1

LEMMA PreparedAhead ==
    ASSUME Types', TrailPlaced', Prepares
    PROVE  TrailAhead' /\ FreshAhead'
<1>1. PICK vis, now : PrepareNext(vis, now)
  BY DEF Prepares
<1> DEFINE choices == IF queueIndex' < 0 \/ repeatMode' = "One"
                      THEN {[next |-> NoNext, visited |-> vis]}
                      ELSE DecideAutoNext(Policy', vis)
<1>2. PICK c \in choices :
          /\ preparedNext' = c.next
          /\ visited' = IF shuffleMode' = "Off" THEN {} ELSE c.visited
  BY <1>1 DEF PrepareNext
<1>3. /\ Policy'.queue = queue' /\ Policy'.index = queueIndex' /\ Policy'.forward = forward'
      /\ Policy'.repeat = repeatMode' /\ Policy'.shuffle = shuffleMode' /\ Policy'.radio = radioActive'
  BY DEF Policy
<1>4. /\ queue' \in Seq(QueueRows) /\ queueIndex' \in -1 .. Len(queue') - 1
      /\ forward' \in Seq(RowsOf(queue')) /\ visited' \subseteq RowsOf(queue')
      /\ Len(queue') \in Nat /\ RowsOf(queue') = 0 .. Len(queue') - 1
  BY RowFacts DEF Types, RowsOK, TrailOK
<1>5. TrailAhead'
  <2> SUFFICES ASSUME shuffleMode' # "Off", forward' # <<>>
               PROVE  preparedNext' = IF repeatMode' = "One" THEN NoNext
                                      ELSE NextRow(forward'[Len(forward')])
    BY DEF TrailAhead
  <2>1. queueIndex' >= 0
    BY DEF TrailPlaced
  <2>2. CASE repeatMode' = "One"
    BY <1>2, <2>2
  <2>3. CASE repeatMode' # "One"
    <3>1. c \in DecideAutoNext(Policy', vis)
      BY <2>1, <2>3, <1>4
    <3>2. Policy'.index \in 0 .. Len(Policy'.queue) - 1
      BY <2>1, <1>3, <1>4
    <3> HIDE DEF choices
    <3>3. c.next = NextRow(Policy'.forward[Len(Policy'.forward)])
      BY <1>3, <1>4, <3>1, <3>2, DecidedAhead
    <3> QED
      BY <1>2, <1>3, <2>3, <3>3
  <2> QED
    BY <2>2, <2>3
<1>6. FreshAhead'
  <2> SUFFICES ASSUME shuffleMode' # "Off", forward' = <<>>, repeatMode' = "Off", ~radioActive'
               PROVE  preparedNext'.index \notin visited'
    BY DEF FreshAhead
  <2>1. CASE queueIndex' < 0
    <3>1. preparedNext' = NoNext
      BY <1>2, <2>1
    <3> QED
      BY <3>1, <1>4 DEF NoNext
  <2>2. CASE ~(queueIndex' < 0)
    <3>1. c \in DecideAutoNext(Policy', vis) /\ visited' = c.visited /\ preparedNext' = c.next
      BY <1>2, <2>2
    <3> HIDE DEF choices
    <3>2. c.visited = vis /\ c.next.index \in (RowsOf(queue') \ vis) \union {-1}
      BY <1>3, <1>4, <3>1, DecidedFresh
    <3>3. -1 \notin visited'
      BY <1>4
    <3> QED
      BY <3>1, <3>2, <3>3
  <2> QED
    BY <2>1, <2>2
<1> QED
  BY <1>5, <1>6

LEMMA AheadStep ==
    ASSUME IInv, TrailPlaced, StartedLoaded, TrailAhead, [Next]_vars
    PROVE  /\ TrailPlaced' /\ StartedLoaded' /\ TrailAhead'
           /\ FreshAhead /\ radioActive' = radioActive => FreshAhead'
<1>1. Decides /\ Types'
  BY EveryDecides, EveryStep DEF IInv, Step
<1>2. TrailPlaced'
  BY <1>1 DEF Decides, Placed, TrailPlaced
<1>3. StartedLoaded'
  BY <1>1 DEF Decides, Renewed, StartedLoaded
<1>4. CASE Prepares
  BY <1>1, <1>2, <1>3, <1>4, PreparedAhead
<1>5. CASE Unmoved
  BY <1>2, <1>3, <1>5 DEF Unmoved, TrailAhead, FreshAhead, Ready
<1>6. CASE source' = NoTrack \/ skipping' # 0
  BY <1>2, <1>3, <1>6 DEF TrailAhead, FreshAhead, Ready
<1> QED
  BY <1>1, <1>4, <1>5, <1>6 DEF Decides, Renewed

\* Nobody but setRadioActive() switches the radio.
LEMMA RadioKept ==
    ASSUME ~MayRadio, [Next]_vars
    PROVE  radioActive' = radioActive
<1>1. CASE Transport
  BY <1>1 DEF Transport, PickRow, PlayNext, Previous, Play, Pause, Stop, modes
<1>2. CASE Timer
  BY <1>2 DEF Timer, ArmStopAfter, CancelStopAfter, SetStopAfter, DeadlinePasses, modes
<1>3. CASE Mutation
  BY <1>3 DEF Mutation, PlayTracksNext, AppendTracks, AppendAndPlay, MoveRows, RemoveRows, ClearAll,
       ClearKeepingCurrent, CollapsePlayNext, ReplaceQueue, SyncQueue, RestoreQueue, ShiftRows, modes
<1>4. CASE SetPolicy
  BY <1>4 DEF SetPolicy, SetRepeatMode, SetShuffleMode, SetRadioActive
<1>5. CASE Backend
  BY <1>5 DEF Backend, ArmHandoff, StartHandoff, Commit, Advance, Finished, FinishedCounted, Stage,
       FinishedRepeatOne, FinishedDecides, FinishedNowhere, Fail, modes
<1>6. CASE Skipping
  BY <1>6 DEF Skipping, SkipRound, SkipExhausted, modes
<1>7. CASE ResolveDsdTakeover
  BY <1>7 DEF ResolveDsdTakeover, modes
<1>8. CASE UNCHANGED vars
  BY <1>8 DEF vars, modes
<1> QED
  BY <1>1, <1>2, <1>3, <1>4, <1>5, <1>6, <1>7, <1>8 DEF Next

AheadInv == IInv /\ TrailPlaced /\ StartedLoaded /\ TrailAhead

LEMMA AheadInit == ASSUME Init PROVE AheadInv /\ FreshAhead /\ ~radioActive
BY InitInv DEF Init, AheadInv, TrailPlaced, StartedLoaded, TrailAhead, FreshAhead

LEMMA AheadInvariant == Spec => []AheadInv
<1>1. Init => AheadInv
  BY AheadInit
<1>2. AheadInv /\ [Next]_vars => AheadInv'
  BY AheadStep, StepInv DEF AheadInv
<1> QED
  BY <1>1, <1>2, PTL DEF Spec

----------------------------------------------------------------------------
(* The trail is one sequence of rows. *)

TrailOf(h, q, f) == h \o <<q>> \o [k \in DOMAIN f |-> f[Len(f) + 1 - k]]

HasRows(t, S, h, q, f) ==
    /\ t \in Seq(S) /\ Len(t) = Len(h) + 1 + Len(f)
    /\ \A k \in 1 .. Len(h) : t[k] = h[k]
    /\ t[Len(h) + 1] = q
    /\ \A k \in Len(h) + 2 .. Len(h) + 1 + Len(f) : t[k] = f[Len(f) + 1 - (k - (Len(h) + 1))]

LEMMA TrailRows ==
    ASSUME NEW S, NEW h \in Seq(S), NEW q \in S, NEW f \in Seq(S)
    PROVE  HasRows(TrailOf(h, q, f), S, h, q, f)
<1> DEFINE back == [k \in DOMAIN f |-> f[Len(f) + 1 - k]]
           most == h \o <<q>>
<1>1. Len(h) \in Nat /\ Len(f) \in Nat /\ DOMAIN f = 1 .. Len(f)
  BY LenProperties
<1>2. back \in Seq(S) /\ Len(back) = Len(f) /\ \A k \in 1 .. Len(f) : back[k] = f[Len(f) + 1 - k]
  <2>1. \A k \in 1 .. Len(f) : f[Len(f) + 1 - k] \in S
    <3> TAKE k \in 1 .. Len(f)
    <3>1. Len(f) + 1 - k \in 1 .. Len(f)
      BY <1>1
    <3> QED
      BY <3>1, ElementOfSeq
  <2>2. back \in [1 .. Len(f) -> S]
    BY <1>1, <2>1
  <2>3. \A k \in 1 .. Len(f) : back[k] = f[Len(f) + 1 - k]
    BY <1>1
  <2> HIDE DEF back
  <2> QED
    BY <1>1, <2>2, <2>3, SeqOfRows
<1>3. <<q>> \in Seq(S) /\ Len(<<q>>) = 1 /\ <<q>>[1] = q
  OBVIOUS
<1>4. /\ most \in Seq(S) /\ Len(most) = Len(h) + 1
      /\ \A k \in 1 .. Len(h) + 1 : most[k] = IF k <= Len(h) THEN h[k] ELSE <<q>>[k - Len(h)]
  BY <1>3, ConcatProperties
<1>5. most[Len(h) + 1] = q /\ \A k \in 1 .. Len(h) : most[k] = h[k]
  <2> HIDE DEF most
  <2>1. Len(h) + 1 \in 1 .. Len(h) + 1 /\ Len(h) + 1 - Len(h) = 1 /\ ~(Len(h) + 1 <= Len(h))
    BY <1>1
  <2> QED
    BY <1>1, <1>3, <1>4, <2>1
<1> HIDE DEF back, most
<1>6. /\ most \o back \in Seq(S) /\ Len(most \o back) = Len(h) + 1 + Len(f)
      /\ \A k \in 1 .. Len(h) + 1 + Len(f) : (most \o back)[k] =
             IF k <= Len(h) + 1 THEN most[k] ELSE back[k - (Len(h) + 1)]
  <2>1. /\ most \o back \in Seq(S) /\ Len(most \o back) = Len(most) + Len(back)
        /\ \A k \in 1 .. Len(most) + Len(back) : (most \o back)[k] =
               IF k <= Len(most) THEN most[k] ELSE back[k - Len(most)]
    <3>1. most \in Seq(S) /\ back \in Seq(S)
      BY <1>2, <1>4
    <3> QED
      BY ONLY <3>1, ConcatProperties
  <2>2. Len(most) = Len(h) + 1 /\ Len(back) = Len(f)
    BY <1>2, <1>4
  <2> QED
    BY <2>1, <2>2
<1>7. TrailOf(h, q, f) = most \o back
  BY DEF TrailOf, most, back
<1>8. \A k \in Len(h) + 2 .. Len(h) + 1 + Len(f) :
          (most \o back)[k] = f[Len(f) + 1 - (k - (Len(h) + 1))]
  <2> TAKE k \in Len(h) + 2 .. Len(h) + 1 + Len(f)
  <2>1. k \in 1 .. Len(h) + 1 + Len(f) /\ ~(k <= Len(h) + 1) /\ k - (Len(h) + 1) \in 1 .. Len(f)
    BY <1>1
  <2> QED
    BY <1>2, <1>6, <2>1
<1>9. \A k \in 1 .. Len(h) + 1 : (most \o back)[k] = most[k]
  <2> TAKE k \in 1 .. Len(h) + 1
  <2>1. k \in 1 .. Len(h) + 1 + Len(f) /\ k <= Len(h) + 1
    BY <1>1
  <2> QED
    BY <1>6, <2>1
<1>10. Len(h) + 1 \in 1 .. Len(h) + 1 /\ \A k \in 1 .. Len(h) : k \in 1 .. Len(h) + 1
  BY <1>1
<1>11. (most \o back)[Len(h) + 1] = q /\ \A k \in 1 .. Len(h) : (most \o back)[k] = h[k]
  BY <1>5, <1>9, <1>10
<1> DEFINE t == most \o back
<1>12. t = TrailOf(h, q, f) /\ t \in Seq(S) /\ Len(t) = Len(h) + 1 + Len(f)
  BY <1>6, <1>7
<1>13. \A k \in Len(h) + 2 .. Len(h) + 1 + Len(f) : t[k] = f[Len(f) + 1 - (k - (Len(h) + 1))]
  BY <1>8
<1>14. t[Len(h) + 1] = q /\ \A k \in 1 .. Len(h) : t[k] = h[k]
  BY <1>11
<1> HIDE DEF t
<1> QED
  BY <1>12, <1>13, <1>14 DEF HasRows

\* What a sequence is without its last row.
LEMMA Front ==
    ASSUME NEW S, NEW s \in Seq(S), s # <<>>
    PROVE  /\ SubSeq(s, 1, Len(s) - 1) \in Seq(S) /\ Len(SubSeq(s, 1, Len(s) - 1)) = Len(s) - 1
           /\ \A k \in 1 .. Len(s) - 1 : SubSeq(s, 1, Len(s) - 1)[k] = s[k]
<1>1. Len(s) \in Nat \ {0} /\ \A k \in 1 .. Len(s) - 1 : s[k] \in S
  BY EmptySeq, ElementOfSeq
<1>2. /\ SubSeq(s, 1, Len(s) - 1) \in Seq(S)
      /\ Len(SubSeq(s, 1, Len(s) - 1)) = IF 1 <= Len(s) - 1 THEN Len(s) - 1 - 1 + 1 ELSE 0
      /\ \A k \in 1 .. Len(s) - 1 - 1 + 1 : SubSeq(s, 1, Len(s) - 1)[k] = s[1 + k - 1]
  BY <1>1, SubSeqProperties
<1>3. \A k \in 1 .. Len(s) - 1 : k \in 1 .. Len(s) - 1 - 1 + 1 /\ 1 + k - 1 = k
  BY <1>1
<1>4. \A k \in 1 .. Len(s) - 1 : SubSeq(s, 1, Len(s) - 1)[k] = s[k]
  <2> TAKE k \in 1 .. Len(s) - 1
  <2>1. k \in 1 .. Len(s) - 1 - 1 + 1 /\ 1 + k - 1 = k
    BY <1>3
  <2>2. SubSeq(s, 1, Len(s) - 1)[k] = s[1 + k - 1]
    BY <1>2, <2>1, Zenon
  <2> QED
    BY <2>1, <2>2, Zenon
<1>5. (IF 1 <= Len(s) - 1 THEN Len(s) - 1 - 1 + 1 ELSE 0) = Len(s) - 1
  <2> DEFINE n == Len(s)
  <2>1. n \in Nat \ {0}
    BY <1>1
  <2> HIDE DEF n
  <2>2. (IF 1 <= n - 1 THEN n - 1 - 1 + 1 ELSE 0) = n - 1
    <3>1. CASE n = 1
      BY <3>1
    <3>2. CASE n # 1
      BY <2>1, <3>2
    <3> QED
      BY <3>1, <3>2
  <2> QED
    BY <2>2 DEF n
<1>6. Len(SubSeq(s, 1, Len(s) - 1)) = Len(s) - 1
  BY <1>2, <1>5
<1> QED
  BY <1>2, <1>4, <1>6, Zenon

\* A step forward takes the current row to what is behind, and the last of what is ahead as the current
\* one; a step back the other way round.  The trail is the same.
LEMMA StepForward ==
    ASSUME NEW S, NEW h \in Seq(S), NEW q \in S, NEW f \in Seq(S), f # <<>>
    PROVE  TrailOf(Append(h, q), f[Len(f)], SubSeq(f, 1, Len(f) - 1)) = TrailOf(h, q, f)
<1> DEFINE h2 == Append(h, q)
           q2 == f[Len(f)]
           f2 == SubSeq(f, 1, Len(f) - 1)
           s == TrailOf(h2, q2, f2)
           t == TrailOf(h, q, f)
<1>1. Len(h) \in Nat /\ Len(f) \in Nat \ {0} /\ q2 \in S
  BY LastOf, LenProperties
<1>2. /\ h2 \in Seq(S) /\ Len(h2) = Len(h) + 1 /\ h2[Len(h) + 1] = q
      /\ \A k \in 1 .. Len(h) : h2[k] = h[k]
  BY AppendProperties
<1>3. /\ f2 \in Seq(S) /\ Len(f2) = Len(f) - 1
      /\ \A k \in 1 .. Len(f) - 1 : f2[k] = f[k]
  BY Front
<1> HIDE DEF h2, f2
<1>4. /\ s \in Seq(S) /\ Len(s) = Len(h2) + 1 + Len(f2)
      /\ \A k \in 1 .. Len(h2) : s[k] = h2[k]
      /\ s[Len(h2) + 1] = q2
      /\ \A k \in Len(h2) + 2 .. Len(h2) + 1 + Len(f2) : s[k] = f2[Len(f2) + 1 - (k - (Len(h2) + 1))]
  <2>1. HasRows(s, S, h2, q2, f2)
    BY <1>1, <1>2, <1>3, TrailRows
  <2> HIDE DEF s
  <2> QED
    BY <2>1 DEF HasRows
<1>5. /\ t \in Seq(S) /\ Len(t) = Len(h) + 1 + Len(f)
      /\ \A k \in 1 .. Len(h) : t[k] = h[k]
      /\ t[Len(h) + 1] = q
      /\ \A k \in Len(h) + 2 .. Len(h) + 1 + Len(f) : t[k] = f[Len(f) + 1 - (k - (Len(h) + 1))]
  <2>1. HasRows(t, S, h, q, f)
    BY TrailRows
  <2> HIDE DEF t
  <2> QED
    BY <2>1 DEF HasRows
<1> HIDE DEF s, t
<1>6. Len(s) = Len(t)
  BY <1>1, <1>2, <1>3, <1>4, <1>5
<1>7. ASSUME NEW k \in 1 .. Len(t)
      PROVE  s[k] = t[k]
  <2>1. CASE k \in 1 .. Len(h)
    BY <1>1, <1>2, <1>4, <1>5, <2>1
  <2>2. CASE k = Len(h) + 1
    <3>1. k \in 1 .. Len(h2)
      BY <1>1, <1>2, <2>2
    <3> QED
      BY <1>2, <1>4, <1>5, <2>2, <3>1
  <2>3. CASE k = Len(h) + 2
    <3>1. t[k] = f[Len(f) + 1 - (k - (Len(h) + 1))] /\ Len(f) + 1 - (k - (Len(h) + 1)) = Len(f)
      BY <1>1, <1>5, <2>3
    <3>2. k = Len(h2) + 1
      BY <1>1, <1>2, <2>3
    <3> QED
      BY <1>4, <3>1, <3>2 DEF q2
  <2>4. CASE k \in Len(h) + 3 .. Len(h) + 1 + Len(f)
    <3>1. /\ k \in Len(h2) + 2 .. Len(h2) + 1 + Len(f2) /\ k \in Len(h) + 2 .. Len(h) + 1 + Len(f)
          /\ Len(f2) + 1 - (k - (Len(h2) + 1)) = Len(f) + 1 - (k - (Len(h) + 1))
          /\ Len(f) + 1 - (k - (Len(h) + 1)) \in 1 .. Len(f) - 1
      BY <1>1, <1>2, <1>3, <2>4
    <3> QED
      BY <1>3, <1>4, <1>5, <3>1
  <2> QED
    BY <1>1, <1>5, <2>1, <2>2, <2>3, <2>4
<1>8. s = t
  BY <1>4, <1>5, <1>6, <1>7, SeqEqual
<1> QED
  BY <1>8 DEF s, t, h2, f2

LEMMA StepBack ==
    ASSUME NEW S, NEW h \in Seq(S), NEW q \in S, NEW f \in Seq(S), h # <<>>
    PROVE  TrailOf(SubSeq(h, 1, Len(h) - 1), h[Len(h)], Append(f, q)) = TrailOf(h, q, f)
<1> DEFINE h2 == SubSeq(h, 1, Len(h) - 1)
           q2 == h[Len(h)]
           f2 == Append(f, q)
<1>1. /\ h2 \in Seq(S) /\ q2 \in S /\ Len(h) \in Nat \ {0} /\ Len(h2) = Len(h) - 1
      /\ \A k \in 1 .. Len(h) - 1 : h2[k] = h[k]
  BY Front, LastOf
<1>2. /\ f2 \in Seq(S) /\ f2 # <<>> /\ Len(f2) = Len(f) + 1 /\ f2[Len(f2)] = q /\ Len(f) \in Nat
      /\ \A k \in 1 .. Len(f) : f2[k] = f[k]
  BY AppendProperties
<1> HIDE DEF h2, q2, f2
<1>3. TrailOf(Append(h2, q2), f2[Len(f2)], SubSeq(f2, 1, Len(f2) - 1)) = TrailOf(h2, q2, f2)
  BY <1>1, <1>2, StepForward
<1>4. Append(h2, q2) = h
  <2>1. /\ Append(h2, q2) \in Seq(S) /\ Len(Append(h2, q2)) = Len(h)
        /\ Append(h2, q2)[Len(h)] = q2 /\ \A k \in 1 .. Len(h) - 1 : Append(h2, q2)[k] = h[k]
    <3>1. /\ Append(h2, q2) \in Seq(S) /\ Len(Append(h2, q2)) = Len(h2) + 1
          /\ \A k \in 1 .. Len(h2) : Append(h2, q2)[k] = h2[k]
          /\ Append(h2, q2)[Len(h2) + 1] = q2
      BY <1>1, AppendProperties
    <3> QED
      BY <1>1, <3>1
  <2>2. \A k \in 1 .. Len(h) : Append(h2, q2)[k] = h[k]
    BY <1>1, <2>1 DEF q2
  <2> QED
    BY <2>1, <2>2, SeqEqual
<1>5. SubSeq(f2, 1, Len(f2) - 1) = f
  <2>1. /\ SubSeq(f2, 1, Len(f2) - 1) \in Seq(S) /\ Len(SubSeq(f2, 1, Len(f2) - 1)) = Len(f2) - 1
        /\ \A k \in 1 .. Len(f2) - 1 : SubSeq(f2, 1, Len(f2) - 1)[k] = f2[k]
    BY <1>2, Front
  <2>2. Len(f2) - 1 = Len(f)
    BY <1>2
  <2> QED
    BY <1>2, <2>1, <2>2, SeqEqual
<1> QED
  BY <1>2, <1>3, <1>4, <1>5 DEF h2, q2, f2

LEMMA SteppedForward ==
    ASSUME Types, shuffleMode # "Off", forward # <<>>, queueIndex >= 0,
           queueIndex' = forward[Len(forward)], RecordForwardStep(queueIndex, forward[Len(forward)])
    PROVE  Trail' = Trail
<1> DEFINE to == forward[Len(forward)]
<1>1. /\ history \in Seq(RowsOf(queue)) /\ forward \in Seq(RowsOf(queue))
      /\ queueIndex \in RowsOf(queue) /\ Len(queue) \in Nat /\ RowsOf(queue) = 0 .. Len(queue) - 1
  BY TypesParts
<1>2. to \in RowsOf(queue)
  BY <1>1, LastOf
<1>3. Clamp(to, 0, Len(queue) - 1) = to
  BY <1>1, <1>2 DEF Clamp
<1>4. history' = Append(history, queueIndex)
  BY <1>1 DEF RecordForwardStep, PushHistory
<1>5. forward' = SubSeq(forward, 1, Len(forward) - 1)
  BY <1>3 DEF RecordForwardStep
<1>6. TrailOf(history', queueIndex', forward') = TrailOf(history, queueIndex, forward)
  BY <1>1, <1>4, <1>5, StepForward
<1> QED
  BY <1>6 DEF Trail, TrailOf

LEMMA SteppedBack ==
    ASSUME Types, TrailPlaced, shuffleMode # "Off", history # <<>>, Previous
    PROVE  Trail' = Trail
<1> DEFINE to == history[Len(history)]
<1>1. /\ history \in Seq(RowsOf(queue)) /\ forward \in Seq(RowsOf(queue))
      /\ queueIndex \in RowsOf(queue) /\ Len(queue) \in Nat /\ RowsOf(queue) = 0 .. Len(queue) - 1
  BY TypesParts DEF TrailPlaced
<1>2. to \in RowsOf(queue)
  BY <1>1, LastOf
<1>3. Clamp(to, 0, Len(queue) - 1) = to
  BY <1>1, <1>2 DEF Clamp
<1>4. /\ history' = SubSeq(history, 1, Len(history) - 1) /\ forward' = Append(forward, queueIndex)
      /\ queueIndex' = to
  BY <1>1, <1>3 DEF Previous, RememberRow, PlayAt
<1>5. TrailOf(history', queueIndex', forward') = TrailOf(history, queueIndex, forward)
  BY <1>1, <1>4, StepBack
<1> QED
  BY <1>5 DEF Trail, TrailOf

\* With a trail ahead, what a mode decides on is its next row.
LEMMA DecidesAlong ==
    ASSUME Types, TrailPlaced, shuffleMode # "Off", forward # <<>>,
           NEW choice \in DecideAutoNext(Policy, visited)
    PROVE  /\ choice.next = NextRow(forward[Len(forward)]) /\ forward[Len(forward)] \in RowsOf(queue)
           /\ choice.next # NoNext
           /\ ApplyAutoNext(choice.next, choice.visited) => Trail' = Trail
<1> DEFINE to == forward[Len(forward)]
<1>1. /\ Policy.queue = queue /\ Policy.index = queueIndex /\ Policy.forward = forward
      /\ Policy.shuffle = shuffleMode
  BY DEF Policy
<1>2. /\ queue \in Seq(QueueRows) /\ queueIndex \in 0 .. Len(queue) - 1
      /\ forward \in Seq(RowsOf(queue)) /\ RowsOf(queue) = 0 .. Len(queue) - 1
      /\ Len(queue) \in Nat
  BY TypesParts DEF TrailPlaced
<1>3. choice.next = NextRow(to) /\ to \in RowsOf(queue)
  BY <1>1, <1>2, DecidedAhead
<1>4. choice.next.index = to /\ choice.next.injected = NoTrack /\ choice.next # NoNext
  BY <1>2, <1>3 DEF NextRow, NoNext
<1>5. ASSUME ApplyAutoNext(choice.next, choice.visited)
      PROVE  Trail' = Trail
  <2>1. RecordForwardStep(queueIndex, to) /\ queueIndex' = to
    BY <1>4, <1>5 DEF ApplyAutoNext, PlayAt
  <2> QED
    BY <1>2, <2>1, SteppedForward
<1> QED
  BY <1>3, <1>4, <1>5

\* Trail depends on the rows and what is remembered only.
LEMMA TrailUnmoved == ASSUME UNCHANGED <<rows, trail>> PROVE Trail' = Trail
BY DEF rows, trail, Trail

LEMMA AdvancesAlong ==
    ASSUME AheadInv, shuffleMode # "Off", forward # <<>>, Advances, ~Restages
    PROVE  Trail' = Trail
<1> DEFINE to == forward[Len(forward)]
<1>1. Types /\ TrailPlaced /\ TrailAhead /\ StartedLoaded
  BY DEF AheadInv, IInv
<1>2. /\ queueIndex >= 0 /\ to \in RowsOf(queue) /\ RowsOf(queue) = 0 .. Len(queue) - 1
      /\ queueIndex \in -1 .. Len(queue) - 1 /\ Len(queue) \in Nat
  BY <1>1, TypesParts, LastOf DEF TrailPlaced
<1>3. CASE PlayNext
  <2>1. PICK choice \in DecideAutoNext(Policy, visited) : ApplyAutoNext(choice.next, choice.visited)
    BY <1>3 DEF PlayNext
  <2> QED
    BY <1>1, <2>1, DecidesAlong
<1>4. CASE FinishedCounted
  <2>1. repeatMode # "One" /\ Ready /\ source # NoTrack /\ Stage(preparedNext)
    BY <1>4 DEF FinishedCounted, Restages, Ended, Stable
  <2>2. preparedNext.index = to
    BY <1>1, <2>1 DEF TrailAhead, NextRow
  <2>3. CASE Advance(to)
    BY <1>1, <1>2, <2>3, SteppedForward DEF Advance
  <2>4. CASE UNCHANGED <<rows, trail>>
    BY <2>4, TrailUnmoved
  <2> QED
    BY <2>1, <2>2, <2>3, <2>4, Zenon DEF Stage
<1>5. CASE FinishedRepeatOne
  <2>1. UNCHANGED <<queueIndex, history, forward>>
    BY <1>5 DEF FinishedRepeatOne, KeepTrail, PlayAt
  <2> QED
    BY <2>1 DEF Trail
<1>6. CASE FinishedDecides
  <2>1. PICK choice \in DecideAutoNext(Policy, visited) :
            ApplyAutoNext(choice.next, choice.visited) \/ choice.next = NoNext
    BY <1>6 DEF FinishedDecides
  <2> QED
    BY <1>1, <2>1, DecidesAlong
<1>7. CASE FinishedNowhere
  BY <1>7, TrailUnmoved DEF FinishedNowhere
<1>8. CASE Commit
  <2>1. Ready /\ source # NoTrack /\ preparedNext.index \in RowsOf(queue) /\ Advance(preparedNext.index)
    BY <1>1, <1>8 DEF Commit, StartedLoaded
  <2>2. repeatMode # "One"
    BY <1>1, <1>2, <2>1 DEF TrailAhead, NoNext
  <2>3. preparedNext.index = to
    BY <1>1, <2>1, <2>2 DEF TrailAhead, NextRow
  <2> QED
    BY <1>1, <1>2, <2>1, <2>3, SteppedForward DEF Advance
<1> QED
  BY <1>3, <1>4, <1>5, <1>6, <1>7, <1>8 DEF Advances, Finished

\* Previous and the way forward again retrace one trail (TrailIsRetraced): what prepareNext() chose, and what
\* decideAutoNext() chooses, is the last row of m_shuffleForward for as long as there is one.
THEOREM TrailKept == Spec => TrailIsRetraced
<1>1. AheadInv /\ [Next]_vars =>
        [ shuffleMode # "Off"
            /\ ((Previous /\ history # <<>>) \/ (Advances /\ ~Restages /\ forward # <<>>))
          => Trail' = Trail ]_vars
  BY SteppedBack, AdvancesAlong DEF AheadInv, IInv
<1> QED
  BY <1>1, AheadInvariant, PTL DEF Spec, TrailIsRetraced

----------------------------------------------------------------------------
(* A shuffle pick is a row not heard. *)

FreshInv == AheadInv /\ FreshAhead /\ ~radioActive

LEMMA DecidesFresh ==
    ASSUME Types, shuffleMode # "Off", repeatMode = "Off", ~radioActive, forward = <<>>,
           NEW choice \in DecideAutoNext(Policy, visited), ApplyAutoNext(choice.next, choice.visited),
           queue' = queue
    PROVE  queueIndex' \notin visited
<1>1. /\ Policy.queue = queue /\ Policy.index = queueIndex /\ Policy.forward = forward
      /\ Policy.shuffle = shuffleMode /\ Policy.repeat = repeatMode /\ Policy.radio = radioActive
  BY DEF Policy
<1>2. /\ queue \in Seq(QueueRows) /\ queueIndex \in -1 .. Len(queue) - 1
      /\ Len(queue) \in Nat /\ RowsOf(queue) = 0 .. Len(queue) - 1 /\ visited \subseteq RowsOf(queue)
  BY TypesParts
<1>3. choice.next.index \in (RowsOf(queue) \ visited) \union {-1}
  BY <1>1, <1>2, DecidedFresh
<1>4. CASE choice.next.index \in RowsOf(queue) /\ queueIndex' = choice.next.index
  BY <1>2, <1>3, <1>4
<1>5. CASE choice.next.injected # NoTrack
           /\ queue' = Append(queue, [track |-> choice.next.injected, asked |-> FALSE])
           /\ queueIndex' = Len(queue)
  BY <1>2, <1>5
<1> QED
  BY <1>4, <1>5 DEF ApplyAutoNext, PlayAt

LEMMA AdvancesFresh ==
    ASSUME FreshInv, shuffleMode # "Off", repeatMode = "Off", forward = <<>>, Advances,
           queue' = queue, queueIndex' # queueIndex
    PROVE  queueIndex' \notin visited
<1>1. Types /\ FreshAhead /\ StartedLoaded /\ ~radioActive
  BY DEF FreshInv, AheadInv, IInv
<1>2. CASE PlayNext
  <2>1. PICK choice \in DecideAutoNext(Policy, visited) : ApplyAutoNext(choice.next, choice.visited)
    BY <1>2 DEF PlayNext
  <2> QED
    BY <1>1, <2>1, DecidesFresh
<1>3. CASE FinishedCounted
  <2>1. Ready /\ source # NoTrack /\ Stage(preparedNext)
    BY <1>3 DEF FinishedCounted, Ended, Stable
  <2>2. preparedNext.index \notin visited
    BY <1>1, <2>1 DEF FreshAhead
  <2>3. queueIndex' = preparedNext.index
    BY <2>1, Zenon DEF Stage, Advance, rows
  <2> QED
    BY <2>2, <2>3
<1>4. CASE FinishedDecides
  <2>1. PICK choice \in DecideAutoNext(Policy, visited) : ApplyAutoNext(choice.next, choice.visited)
    BY <1>4 DEF FinishedDecides, rows
  <2> QED
    BY <1>1, <2>1, DecidesFresh
<1>5. CASE Commit
  <2>1. Ready /\ source # NoTrack /\ queueIndex' = preparedNext.index
    BY <1>1, <1>5 DEF Commit, Advance, StartedLoaded
  <2> QED
    BY <1>1, <2>1 DEF FreshAhead
<1>6. ~FinishedRepeatOne /\ ~FinishedNowhere
  BY DEF FinishedRepeatOne, FinishedNowhere, rows
<1> QED
  BY <1>2, <1>3, <1>4, <1>5, <1>6 DEF Advances, Finished

\* A shuffle pick that follows no trail is a row not heard in this cycle, also when prepareNext() made it
\* and it is committed later (PickIsUnheard).  Where no radio session is switched on and off:
\* setRadioActive() keeps the row that was prepared for the session.
THEOREM PickKept == ASSUME ~MayRadio PROVE Spec => PickIsUnheard
<1>1. Init => FreshInv
  BY AheadInit DEF FreshInv
<1>2. FreshInv /\ [Next]_vars => FreshInv'
  <2> SUFFICES ASSUME FreshInv, [Next]_vars PROVE FreshInv'
    OBVIOUS
  <2>1. radioActive' = radioActive
    BY RadioKept
  <2> QED
    BY <2>1, AheadStep, StepInv DEF FreshInv, AheadInv
<1>3. FreshInv /\ [Next]_vars =>
        [ shuffleMode # "Off" /\ repeatMode = "Off" /\ ~radioActive /\ forward = <<>>
            /\ Advances /\ queue' = queue /\ queueIndex' # queueIndex
          => queueIndex' \notin visited ]_vars
  BY AdvancesFresh
<1> QED
  BY <1>1, <1>2, <1>3, PTL DEF Spec, PickIsUnheard

----------------------------------------------------------------------------
(* The loop over rows that cannot be played. *)

\* How many rows behind the q-th of n the i-th is, the first one following the last.
Behind(n, q, i) == IF i <= q THEN q - i ELSE q + n - i

\* Rounds are left for every row ahead; with Repeat All, where every row is ahead, each round has
\* found one that cannot be played.
Tried ==
    skipping > 0 /\ shuffleMode = "Off" /\ ~radioActive /\ queueIndex >= 0 =>
        /\ repeatMode # "All" => skipping >= Len(queue) - queueIndex + 2
        /\ repeatMode = "All" =>
             \A i \in RowsOf(queue) :
                Behind(Len(queue), queueIndex, i) < Len(queue) + 2 - skipping => i \notin Playable(queue)

LEMMA BehindMoves ==
    ASSUME NEW n \in Nat \ {0}, NEW q \in 0 .. n - 1, NEW i \in 0 .. n - 1
    PROVE  LET next == IF q + 1 < n THEN q + 1 ELSE 0
           IN  /\ Behind(n, q, i) \in 0 .. n - 1
               /\ i # next => Behind(n, next, i) = Behind(n, q, i) + 1
BY DEF Behind

\* Without shuffle and a radio session, the choice is the row that follows.
LEMMA DecidesLinear ==
    ASSUME Types, shuffleMode = "Off", ~radioActive, NEW choice \in DecideAutoNext(Policy, visited)
    PROVE  /\ queueIndex < 0 => choice.next = NoNext
           /\ queueIndex >= 0 =>
                choice.next = IF queueIndex + 1 < Len(queue) THEN NextRow(queueIndex + 1)
                              ELSE IF repeatMode = "All" THEN NextRow(0) ELSE NoNext
<1>1. /\ Policy.queue = queue /\ Policy.index = queueIndex /\ Policy.forward = forward
      /\ Policy.shuffle = shuffleMode /\ Policy.repeat = repeatMode /\ Policy.radio = radioActive
  BY DEF Policy
<1>2. /\ queue \in Seq(QueueRows) /\ queueIndex \in -1 .. Len(queue) - 1
      /\ Len(queue) \in Nat
  BY TypesParts
<1>3. CASE queueIndex < 0
  BY <1>1, <1>2, <1>3 DEF DecideAutoNext
<1>4. CASE queueIndex >= 0
  <2>1. queue # <<>>
    BY <1>2, <1>4
  <2> QED
    BY <1>1, <1>2, <1>4, <2>1 DEF DecideAutoNext
<1> QED
  BY <1>2, <1>3, <1>4

\* A round that goes to a row plays it, asks to play it, or leaves it as one that cannot be played.
LEMMA RoundPlayed ==
    ASSUME Types, Types', NEW i \in RowsOf(queue'), NEW vis, NEW rounds, rounds # 0,
           PlayAt(i, playNextInsertIndex, vis, rounds)
    PROVE  /\ queueIndex' = i
           /\ \/ skipping' = 0 /\ (source' # NoTrack \/ dsdPending' # NoPrompt)
              \/ skipping' = rounds /\ i \notin Playable(queue')
<1> DEFINE t == TrackAt(queue', i)
<1>1. queueIndex' = i /\ PlayCurrent(TRUE, FALSE, vis, rounds)
  BY DEF PlayAt
<1>2. t \in Tracks /\ t # NoTrack
  BY RowFacts, Consts DEF Types, RowsOK
<1>3. CASE StartTrack(t, TRUE, FALSE, vis)
  BY <1>1, <1>2, <1>3 DEF StartTrack, Load
<1>4. CASE t \in Unresolvable \union DsdTracks /\ Skip(rounds, vis)
  BY <1>1, <1>4 DEF Skip, Playable
<1>5. CASE dsdPending' = [track |-> t, notify |-> TRUE] /\ skipping' = 0
  BY <1>1, <1>2, <1>5 DEF NoPrompt
<1> QED
  BY <1>1, <1>3, <1>4, <1>5, Zenon DEF PlayCurrent

\* While rows are tried nothing else is done.
LEMMA OnlySkipping == ASSUME Types, skipping > 0, Next PROVE Skipping
<1>1. ~Ready /\ ~Stable
  BY DEF Types, PromptOK, Ready, Stable
<1>2. ~Transport /\ ~Timer
  BY <1>1 DEF Transport, PickRow, PlayNext, Previous, Play, Pause, Stop,
       Timer, ArmStopAfter, CancelStopAfter, SetStopAfter, DeadlinePasses
<1>3. ~Mutation
  BY <1>1 DEF Mutation, PlayTracksNext, AppendTracks, AppendAndPlay, MoveRows, RemoveRows, ClearAll,
       ClearKeepingCurrent, CollapsePlayNext, ReplaceQueue, SyncQueue, RestoreQueue
<1>4. ~SetPolicy /\ ~ResolveDsdTakeover
  BY <1>1 DEF SetPolicy, SetRepeatMode, SetShuffleMode, SetRadioActive, ResolveDsdTakeover
<1>5. ~Backend
  BY <1>1 DEF Backend, ArmHandoff, StartHandoff, Commit, Finished, FinishedCounted, FinishedRepeatOne,
       FinishedDecides, FinishedNowhere, Ended, Fail
<1> QED
  BY <1>2, <1>3, <1>4, <1>5 DEF Next

\* What a round does when rows are taken in their order.
LinearRound ==
    \/ /\ queue' = queue /\ UNCHANGED modes
       /\ queueIndex' = IF queueIndex + 1 < Len(queue) THEN queueIndex + 1 ELSE 0
       /\ queueIndex + 1 < Len(queue) \/ repeatMode = "All"
       /\ \/ skipping' = 0 /\ (source' # NoTrack \/ dsdPending' # NoPrompt)
          \/ skipping' = skipping - 1 /\ queueIndex' \notin Playable(queue)
    \/ /\ skipping' = 0
       /\ queueIndex >= 0 => queueIndex + 1 >= Len(queue) /\ repeatMode # "All"

LEMMA RoundIsLinear ==
    ASSUME Types, Types', SkipRound, shuffleMode = "Off", ~radioActive
    PROVE  LinearRound
<1>1. skipping > 1 /\ skipping \in Nat /\ skipping - 1 # 0
  BY DEF SkipRound, Types, PromptOK
<1>2. /\ queueIndex \in -1 .. Len(queue) - 1 /\ Len(queue) \in Nat
      /\ RowsOf(queue) = 0 .. Len(queue) - 1
  BY TypesParts
<1>3. PICK choice \in DecideAutoNext(Policy, visited) :
        \/ choice.next.injected # NoTrack
        \/ /\ choice.next.index \in RowsOf(queue)
           /\ queue' = queue /\ UNCHANGED modes
           /\ PlayAt(choice.next.index, playNextInsertIndex, choice.visited, skipping - 1)
        \/ choice.next = NoNext /\ skipping' = 0
  BY DEF SkipRound
<1>4. /\ queueIndex < 0 => choice.next = NoNext
      /\ queueIndex >= 0 =>
           choice.next = IF queueIndex + 1 < Len(queue) THEN NextRow(queueIndex + 1)
                         ELSE IF repeatMode = "All" THEN NextRow(0) ELSE NoNext
  BY DecidesLinear
<1>5. choice.next.injected = NoTrack
  BY <1>2, <1>4 DEF NextRow, NoNext
<1>6. CASE /\ choice.next.index \in RowsOf(queue)
           /\ queue' = queue /\ UNCHANGED modes
           /\ PlayAt(choice.next.index, playNextInsertIndex, choice.visited, skipping - 1)
  <2> DEFINE i == choice.next.index
  <2>1. /\ queueIndex >= 0
        /\ i = IF queueIndex + 1 < Len(queue) THEN queueIndex + 1 ELSE 0
        /\ queueIndex + 1 < Len(queue) \/ repeatMode = "All"
    BY <1>2, <1>4, <1>6 DEF NextRow, NoNext
  <2>2. i \in RowsOf(queue') /\ PlayAt(i, playNextInsertIndex, choice.visited, skipping - 1)
    BY <1>6
  <2> HIDE DEF i
  <2>3. /\ queueIndex' = i
        /\ \/ skipping' = 0 /\ (source' # NoTrack \/ dsdPending' # NoPrompt)
           \/ skipping' = skipping - 1 /\ i \notin Playable(queue')
    BY <1>1, <2>2, RoundPlayed
  <2> QED
    BY <1>6, <2>1, <2>3 DEF LinearRound
<1>7. CASE choice.next = NoNext /\ skipping' = 0
  BY <1>2, <1>4, <1>7 DEF NextRow, NoNext, LinearRound
<1> QED
  BY <1>3, <1>5, <1>6, <1>7

LEMMA TriedStep ==
    ASSUME IInv, Tried, [Next]_vars
    PROVE  Tried'
<1>1. Types /\ Types' /\ Decides
  BY EveryStep, EveryDecides DEF IInv, Step
<1>2. /\ queueIndex \in -1 .. Len(queue) - 1 /\ Len(queue) \in Nat
      /\ RowsOf(queue) = 0 .. Len(queue) - 1 /\ skipping \in Nat
  BY <1>1, TypesParts DEF Types, PromptOK
<1>3. /\ queueIndex' \in -1 .. Len(queue') - 1 /\ Len(queue') \in Nat
      /\ RowsOf(queue') = 0 .. Len(queue') - 1
  BY <1>1, RowFacts DEF Types, RowsOK
<1>4. CASE UNCHANGED vars
  <2>1. UNCHANGED <<queue, queueIndex, skipping, shuffleMode, radioActive, repeatMode>>
    BY <1>4 DEF vars, rows, modes
  <2> QED
    BY <2>1 DEF Tried, Playable
<1>5. CASE skipping = 0
  <2> SUFFICES ASSUME skipping' > 0, queueIndex' >= 0
               PROVE  /\ skipping' >= Len(queue') - queueIndex' + 2
                      /\ \A i \in RowsOf(queue') :
                           ~(Behind(Len(queue'), queueIndex', i) < Len(queue') + 2 - skipping')
    BY DEF Tried
  <2>1. skipping' = Len(queue') + 2
    BY <1>1, <1>5 DEF Decides, Begins
  <2>2. \A i \in RowsOf(queue') : Behind(Len(queue'), queueIndex', i) \in Nat
    <3> TAKE i \in RowsOf(queue')
    <3>1. /\ Len(queue') \in Nat \ {0} /\ queueIndex' \in 0 .. Len(queue') - 1
          /\ i \in 0 .. Len(queue') - 1
      BY <1>3
    <3> QED
      BY <3>1, BehindMoves
  <2> QED
    BY <1>3, <2>1, <2>2
<1>6. CASE skipping > 0 /\ Next
  <2>1. CASE SkipExhausted
    BY <2>1 DEF SkipExhausted, Tried
  <2>2. CASE SkipRound
    <3> SUFFICES ASSUME skipping' > 0, shuffleMode' = "Off", ~radioActive', queueIndex' >= 0
                 PROVE  Tried'
      BY DEF Tried
    <3>1. UNCHANGED modes
      BY <2>2 DEF SkipRound
    <3>2. shuffleMode = "Off" /\ ~radioActive /\ repeatMode' = repeatMode
      BY <3>1 DEF modes
    <3>3. LinearRound
      BY <1>1, <2>2, <3>2, RoundIsLinear
    <3>4. /\ queue' = queue
          /\ queueIndex' = IF queueIndex + 1 < Len(queue) THEN queueIndex + 1 ELSE 0
          /\ queueIndex + 1 < Len(queue) \/ repeatMode = "All"
          /\ skipping' = skipping - 1 /\ queueIndex' \notin Playable(queue)
      BY <3>3 DEF LinearRound
    <3>5. queueIndex >= 0
      <4>1. CASE queueIndex = -1
        <5>1. PICK choice \in DecideAutoNext(Policy, visited) :
                \/ choice.next.injected # NoTrack
                \/ choice.next.index \in RowsOf(queue)
                \/ skipping' = 0
          BY <2>2 DEF SkipRound
        <5>2. choice.next = NoNext
          BY <1>1, <3>2, <4>1, DecidesLinear
        <5> QED
          BY <1>2, <5>1, <5>2 DEF NoNext
      <4> QED
        BY <1>2, <4>1
    <3>6. CASE repeatMode # "All"
      <4>1. skipping >= Len(queue) - queueIndex + 2
        BY <1>6, <3>2, <3>5, <3>6 DEF Tried
      <4>2. skipping' >= Len(queue') - queueIndex' + 2
        BY <1>2, <3>4, <3>6, <4>1
      <4> QED
        BY <3>2, <3>6, <4>2 DEF Tried
    <3>7. CASE repeatMode = "All"
      <4>1. \A i \in RowsOf(queue) :
              Behind(Len(queue), queueIndex, i) < Len(queue) + 2 - skipping => i \notin Playable(queue)
        BY <1>6, <3>2, <3>5, <3>7 DEF Tried
      <4>2. ASSUME NEW i \in RowsOf(queue),
                   Behind(Len(queue), queueIndex', i) < Len(queue) + 2 - skipping'
            PROVE  i \notin Playable(queue)
        <5>1. CASE i = queueIndex'
          BY <3>4, <5>1
        <5>2. CASE i # queueIndex'
          <6>1. /\ Len(queue) \in Nat \ {0} /\ queueIndex \in 0 .. Len(queue) - 1
                /\ i \in 0 .. Len(queue) - 1
            BY <1>2, <3>5
          <6>2. /\ Behind(Len(queue), queueIndex, i) \in 0 .. Len(queue) - 1
                /\ Behind(Len(queue), queueIndex', i) = Behind(Len(queue), queueIndex, i) + 1
            BY <3>4, <5>2, <6>1, BehindMoves
          <6>3. Behind(Len(queue), queueIndex, i) < Len(queue) + 2 - skipping
            BY <1>2, <3>4, <4>2, <6>2
          <6> QED
            BY <4>1, <6>3
        <5> QED
          BY <5>1, <5>2
      <4> QED
        BY <3>2, <3>4, <3>7, <4>2 DEF Tried
    <3> QED
      BY <3>6, <3>7
  <2> QED
    BY <1>1, <1>6, <2>1, <2>2, OnlySkipping DEF Skipping
<1> QED
  BY <1>2, <1>4, <1>5, <1>6

LEMMA GivesUpLast ==
    ASSUME IInv, Tried, Next, GivesUp, shuffleMode = "Off", ~radioActive, queueIndex >= 0
    PROVE  Playable(queue) \intersect Ahead = {}
<1>1. Types /\ Types'
  BY EveryStep DEF IInv, Step
<1>2. /\ queueIndex \in -1 .. Len(queue) - 1 /\ Len(queue) \in Nat
      /\ RowsOf(queue) = 0 .. Len(queue) - 1 /\ skipping \in Nat
  BY <1>1, TypesParts DEF Types, PromptOK
<1>3. CASE SkipRound
  <2>1. skipping > 1
    BY <1>3 DEF SkipRound
  <2>2. LinearRound /\ skipping' = 0 /\ source' = NoTrack /\ dsdPending' = NoPrompt
    BY <1>1, <1>3, RoundIsLinear DEF GivesUp
  <2>3. queueIndex + 1 >= Len(queue) /\ repeatMode # "All"
    BY <1>2, <2>1, <2>2 DEF LinearRound
  <2> QED
    BY <1>2, <2>3 DEF Ahead
<1>4. CASE SkipExhausted
  <2>1. skipping = 1
    BY <1>4 DEF SkipExhausted
  <2>2. repeatMode = "All"
    BY <1>2, <2>1 DEF Tried
  <2>3. \A i \in RowsOf(queue) : i \notin Playable(queue)
    <3> TAKE i \in RowsOf(queue)
    <3>1. /\ Len(queue) \in Nat \ {0} /\ queueIndex \in 0 .. Len(queue) - 1
          /\ i \in 0 .. Len(queue) - 1
      BY <1>2
    <3>2. Behind(Len(queue), queueIndex, i) < Len(queue) + 2 - skipping
      BY <2>1, <3>1, BehindMoves
    <3> QED
      BY <2>1, <2>2, <3>2 DEF Tried
  <2> QED
    BY <2>2, <2>3 DEF Ahead
<1> QED
  BY <1>3, <1>4 DEF GivesUp

\* Without shuffle, skipping on from a row stops only when no row ahead can be played
\* (LinearSkipFindsRow): the guard of skipCurrentTrack()'s loop never ends it early.
THEOREM SkipIsComplete == Spec => LinearSkipFindsRow
<1>1. Init => IInv /\ Tried
  <2>1. Init => skipping = 0 /\ queueIndex = -1
    BY DEF Init
  <2>2. skipping = 0 /\ queueIndex = -1 => Tried
    BY DEF Tried
  <2> QED
    BY <2>1, <2>2, InitInv
<1>2. IInv /\ Tried /\ [Next]_vars => IInv' /\ Tried'
  BY StepInv, TriedStep
<1>3. IInv /\ Tried /\ [Next]_vars =>
        [ GivesUp /\ shuffleMode = "Off" /\ ~radioActive /\ queueIndex >= 0
          => Playable(queue) \intersect Ahead = {} ]_vars
  BY GivesUpLast
<1> QED
  BY <1>1, <1>2, <1>3, PTL DEF Spec, LinearSkipFindsRow

=============================================================================
