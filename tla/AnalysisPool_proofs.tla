------------------------ MODULE AnalysisPool_proofs ------------------------
(***************************************************************************)
(* Proofs about AnalysisPool: its types, the staging budget, that nobody   *)
(* starves behind the bytes of later candidates, and that it implements    *)
(* WorkPool.                                                               *)
(*                                                                         *)
(* The inductive invariant has a part for each kind of thread and of       *)
(* shared state: readers, workers, bytes, queue and end.  The mutex, the   *)
(* sleepers and the gate do not occur in it: whoever is woken or parked,   *)
(* these properties hold.  The sum of the bytes is a recursive function;   *)
(* lemmas at the beginning say all that is used of it.                     *)
(***************************************************************************)
EXTENDS AnalysisPool, FiniteSets, FiniteSetTheorems, WellFoundedInduction, TLAPS

(***************************************************************************)
(* Sums.  Total(h) is defined by recursion over the candidates; what it    *)
(* satisfies is shown by looking at the least number where it would fail.  *)
(***************************************************************************)

\* A set of numbers that is not empty has a least one.
LEMMA Least ==
    ASSUME NEW T, T \subseteq Nat, T # {}
    PROVE \E x \in T : \A y \in T : x =< y
<1>1. PICK x \in T : \A y \in T : ~(<<y, x>> \in OpToRel(<, Nat))
  BY NatLessThanWellFounded, WFMin
<1>2. \A y \in T : ~(y < x)
  BY <1>1 DEF OpToRel
<1> QED
  BY <1>2

\* The equation that the partial sums of h satisfy, up to m.
IsSums(s, h, m) ==
    s = [n \in 0 .. m |-> IF n = 0 THEN 0 ELSE s[n - 1] + h[n - 1]]

\* The partial sums exist.
LEMMA SumsExist ==
    ASSUME NEW h
    PROVE \E s : IsSums(s, h, MaxCount)
<1> DEFINE T == {m \in Nat : ~\E s : IsSums(s, h, m)}
<1>1. SUFFICES ASSUME T # {}
               PROVE FALSE
  BY PoolAssumption
<1>2. PICK m \in T : \A y \in T : m =< y
  <2> HIDE DEF T
  <2>1. T \subseteq Nat
    BY DEF T
  <2> QED
    BY <1>1, <2>1, Least
<1>3. CASE m = 0
  <2> DEFINE s == [n \in 0 .. 0 |-> 0]
  <2>1. s = [n \in 0 .. 0 |-> IF n = 0 THEN 0 ELSE s[n - 1] + h[n - 1]]
    OBVIOUS
  <2>2. IsSums(s, h, 0)
    BY <2>1 DEF IsSums
  <2> QED
    BY <1>2, <1>3, <2>2
<1>4. CASE m # 0
  <2>1. m \in Nat /\ m - 1 \in Nat /\ m - 1 \notin T
    BY <1>2, <1>4
  <2>2. PICK s : IsSums(s, h, m - 1)
    BY <2>1
  <2> DEFINE t == [n \in 0 .. m |-> IF n < m THEN s[n] ELSE s[m - 1] + h[m - 1]]
  <2>3. \A n \in 0 .. m - 1 : s[n] = IF n = 0 THEN 0 ELSE s[n - 1] + h[n - 1]
    <3> HIDE DEF T
    <3> QED
      BY <2>2, Zenon DEF IsSums
  <2>4. \A n \in 0 .. m : t[n] = IF n = 0 THEN 0 ELSE t[n - 1] + h[n - 1]
    <3> SUFFICES ASSUME NEW n \in 0 .. m
                 PROVE t[n] = IF n = 0 THEN 0 ELSE t[n - 1] + h[n - 1]
      OBVIOUS
    <3>1. CASE n = 0
      BY <3>1, <2>1, <2>3, <1>4
    <3>2. CASE n # 0 /\ n < m
      <4>1. n \in 0 .. m - 1 /\ n - 1 \in 0 .. m /\ n - 1 < m
        BY <3>2, <2>1
      <4>2. t[n] = s[n] /\ t[n - 1] = s[n - 1]
        BY <4>1, <3>2
      <4> HIDE DEF t, T
      <4> QED
        BY <4>1, <4>2, <3>2, <2>3
    <3>3. CASE n = m
      <4>1. n - 1 \in 0 .. m /\ n - 1 < m
        BY <3>3, <2>1
      <4> QED
        BY <4>1, <3>3, <1>4
    <3> QED
      BY <3>1, <3>2, <3>3, <2>1
  <2>5. IsSums(t, h, m)
    <3> DEFINE u == [n \in 0 .. m |-> IF n = 0 THEN 0 ELSE t[n - 1] + h[n - 1]]
    <3>1. \A n \in 0 .. m : t[n] = u[n]
      <4> HIDE DEF t, T
      <4> QED
        BY <2>4
    <3>2. t = u
      BY <3>1, Zenon
    <3> HIDE DEF t, T
    <3> QED
      BY <3>2 DEF IsSums
  <2> QED
    BY <1>2, <2>5
<1> QED
  BY <1>3, <1>4

\* The partial sums, and the equation.
Sums(h) == CHOOSE s : IsSums(s, h, MaxCount)

LEMMA SumsDef ==
    ASSUME NEW h
    PROVE /\ Total(h) = Sums(h)[MaxCount]
          /\ Sums(h)[0] = 0
          /\ \A n \in 0 .. MaxCount - 1 : Sums(h)[n + 1] = Sums(h)[n] + h[n]
<1> DEFINE s == Sums(h)
<1>1. IsSums(s, h, MaxCount)
  BY SumsExist, Zenon DEF Sums
<1>2. Total(h) = s[MaxCount]
  BY Zenon DEF Total, Sums, IsSums
<1>3. \A n \in 0 .. MaxCount : s[n] = IF n = 0 THEN 0 ELSE s[n - 1] + h[n - 1]
  <2> HIDE DEF s
  <2> QED
    BY <1>1, Zenon DEF IsSums
<1>4. s[0] = 0
  <2> HIDE DEF s
  <2> QED
    BY <1>3, PoolAssumption
<1>5. \A n \in 0 .. MaxCount - 1 : s[n + 1] = s[n] + h[n]
  <2> HIDE DEF s
  <2> SUFFICES ASSUME NEW n \in 0 .. MaxCount - 1
               PROVE s[n + 1] = s[n] + h[n]
    OBVIOUS
  <2>1. n + 1 \in 0 .. MaxCount /\ n + 1 # 0 /\ (n + 1) - 1 = n
    BY PoolAssumption
  <2> QED
    BY <2>1, <1>3
<1> QED
  BY <1>2, <1>4, <1>5

\* What holds of the first partial sum, and of the next whenever of one, holds of all: stated for the
\* set of numbers where it fails.
LEMMA NoneFails ==
    ASSUME NEW T, T \subseteq 0 .. MaxCount, 0 \notin T,
           \A n \in 0 .. MaxCount - 1 : n + 1 \in T => n \in T
    PROVE T = {}
<1> SUFFICES ASSUME T # {}
             PROVE FALSE
  OBVIOUS
<1>1. PICK m \in T : \A y \in T : m =< y
  <2>1. T \subseteq Nat
    BY PoolAssumption
  <2> QED
    BY <2>1, Least
<1>2. m \in Nat /\ m # 0 /\ m =< MaxCount
  BY PoolAssumption
<1>3. m - 1 \in 0 .. MaxCount - 1 /\ (m - 1) + 1 = m
  BY <1>2, PoolAssumption
<1>4. m - 1 \in T
  BY <1>3
<1> QED
  BY <1>1, <1>2, <1>4

\* Partial sums of natural numbers are natural numbers, and no smaller than what they count.
LEMMA SumsBound ==
    ASSUME NEW h \in [Candidates -> Nat]
    PROVE \A n \in 0 .. MaxCount :
              /\ Sums(h)[n] \in Nat
              /\ \A i \in Candidates : i < n => h[i] =< Sums(h)[n]
<1> DEFINE s == Sums(h)
           P(n) == s[n] \in Nat /\ \A i \in Candidates : i < n => h[i] =< s[n]
           T == {n \in 0 .. MaxCount : ~P(n)}
<1>1. s[0] = 0 /\ \A n \in 0 .. MaxCount - 1 : s[n + 1] = s[n] + h[n]
  BY SumsDef
<1> HIDE DEF s
<1>2. P(0)
  BY <1>1 DEF Candidates
<1>3. ASSUME NEW n \in 0 .. MaxCount - 1, P(n)
      PROVE P(n + 1)
  <2>1. n \in Candidates /\ h[n] \in Nat /\ s[n + 1] = s[n] + h[n]
    BY <1>1 DEF Candidates
  <2>2. s[n + 1] \in Nat
    BY <2>1, <1>3
  <2>3. ASSUME NEW i \in Candidates, i < n + 1
        PROVE h[i] =< s[n + 1]
    <3>1. CASE i = n
      BY <3>1, <2>1, <1>3
    <3>2. CASE i < n
      <4>1. h[i] =< s[n] /\ h[i] \in Nat
        BY <3>2, <1>3
      <4> QED
        BY <4>1, <2>1, <1>3
    <3> QED
      BY <3>1, <3>2, <2>3 DEF Candidates
  <2> QED
    BY <2>2, <2>3
<1> HIDE DEF P
<1>4. T = {}
  <2>1. T \subseteq 0 .. MaxCount /\ 0 \notin T
    BY <1>2
  <2>2. \A n \in 0 .. MaxCount - 1 : n + 1 \in T => n \in T
    BY <1>3, PoolAssumption
  <2> HIDE DEF T
  <2> QED
    BY <2>1, <2>2, NoneFails
<1> QED
  BY <1>4 DEF P, s

\* A sum is a natural number, no smaller than a summand, and zero exactly if all summands are.
LEMMA TotalBound ==
    ASSUME NEW h \in [Candidates -> Nat]
    PROVE /\ Total(h) \in Nat
          /\ \A i \in Candidates : h[i] =< Total(h)
<1>1. MaxCount \in 0 .. MaxCount /\ \A i \in Candidates : i < MaxCount
  BY PoolAssumption DEF Candidates
<1> QED
  BY <1>1, SumsBound, SumsDef

LEMMA TotalZero ==
    ASSUME NEW h \in [Candidates -> Nat], \A i \in Candidates : h[i] = 0
    PROVE Total(h) = 0
<1> DEFINE s == Sums(h)
           T == {n \in 0 .. MaxCount : s[n] # 0}
<1>1. s[0] = 0 /\ \A n \in 0 .. MaxCount - 1 : s[n + 1] = s[n] + h[n]
  BY SumsDef
<1>2. Total(h) = s[MaxCount]
  BY SumsDef
<1> HIDE DEF s
<1>3. T = {}
  <2>1. T \subseteq 0 .. MaxCount /\ 0 \notin T
    BY <1>1
  <2>2. \A n \in 0 .. MaxCount - 1 : n + 1 \in T => n \in T
    <3> SUFFICES ASSUME NEW n \in 0 .. MaxCount - 1, s[n] = 0
                 PROVE s[n + 1] = 0
      BY PoolAssumption
    <3>1. n \in Candidates /\ s[n + 1] = s[n] + h[n]
      BY <1>1 DEF Candidates
    <3> QED
      BY <3>1
  <2> HIDE DEF T
  <2> QED
    BY <2>1, <2>2, NoneFails
<1> QED
  BY <1>2, <1>3, PoolAssumption

\* A sum in which one summand is another.
LEMMA TotalChange ==
    ASSUME NEW h \in [Candidates -> Nat], NEW i \in Candidates, NEW v \in Nat
    PROVE Total([h EXCEPT ![i] = v]) = Total(h) - h[i] + v
<1> DEFINE k == [h EXCEPT ![i] = v]
           s == Sums(h)
           t == Sums(k)
           P(n) == t[n] = IF i < n THEN s[n] - h[i] + v ELSE s[n]
           T == {n \in 0 .. MaxCount : ~P(n)}
<1>1. /\ s[0] = 0 /\ \A n \in 0 .. MaxCount - 1 : s[n + 1] = s[n] + h[n]
      /\ t[0] = 0 /\ \A n \in 0 .. MaxCount - 1 : t[n + 1] = t[n] + k[n]
      /\ Total(h) = s[MaxCount] /\ Total(k) = t[MaxCount]
  BY SumsDef
<1>2. \A n \in 0 .. MaxCount : s[n] \in Nat
  BY SumsBound
<1>k. \A n \in Candidates : k[n] = IF n = i THEN v ELSE h[n]
  OBVIOUS
<1> HIDE DEF s, t, k
<1>3. P(0)
  BY <1>1 DEF Candidates
<1>4. ASSUME NEW n \in 0 .. MaxCount - 1, P(n)
      PROVE P(n + 1)
  <2>1. /\ n \in Candidates /\ n \in 0 .. MaxCount /\ h[n] \in Nat /\ s[n] \in Nat
        /\ s[n + 1] = s[n] + h[n] /\ t[n + 1] = t[n] + k[n] /\ i \in Int /\ n \in Int /\ h[i] \in Nat
    BY <1>1, <1>2, PoolAssumption DEF Candidates
  <2>2. CASE i = n
    <3>1. k[n] = v /\ t[n] = s[n]
      BY <2>2, <2>1, <1>k, <1>4
    <3> QED
      BY <3>1, <2>1, <2>2
  <2>3. CASE i < n
    <3>1. k[n] = h[n] /\ t[n] = s[n] - h[i] + v
      BY <2>3, <2>1, <1>k, <1>4
    <3> QED
      BY <3>1, <2>1, <2>3
  <2>4. CASE i > n
    <3>1. k[n] = h[n] /\ t[n] = s[n]
      BY <2>4, <2>1, <1>k, <1>4
    <3> QED
      BY <3>1, <2>1, <2>4
  <2> QED
    BY <2>1, <2>2, <2>3, <2>4
<1>5. T = {}
  <2> HIDE DEF P
  <2>1. T \subseteq 0 .. MaxCount /\ 0 \notin T
    BY <1>3
  <2>2. \A n \in 0 .. MaxCount - 1 : n + 1 \in T => n \in T
    BY <1>4, PoolAssumption
  <2> HIDE DEF T
  <2> QED
    BY <2>1, <2>2, NoneFails
<1>6. P(MaxCount) /\ i < MaxCount
  <2>1. MaxCount \in 0 .. MaxCount /\ i < MaxCount
    BY PoolAssumption DEF Candidates
  <2> HIDE DEF P
  <2> QED
    BY <2>1, <1>5
<1> QED
  BY <1>1, <1>6 DEF k

\* Where a worker has a candidate, and where a reader has one.
Busy == {"await", "decode", "path", "retry", "push"}
Ahead == {"open", "acquire", "read"}

\* The readers: each has a candidate of its own; those whose ticket was served are read or ready, those
\* after have neither bytes nor grant.
ReaderInv ==
    /\ \A r \in Readers : rpc[r] \in Ahead =>
           /\ call.staging
           /\ rwork[r] \in 0 .. call.count - 1 /\ rwork[r] < nextStaged
           /\ \A q \in Readers : rpc[q] \in Ahead /\ rwork[q] = rwork[r] => q = r
           /\ rpc[r] = "read" => rwork[r] < nextTicket
           /\ rpc[r] # "read" => rwork[r] >= nextTicket
    /\ ~call.staging => nextTicket = 0 /\ \A r \in Readers : rpc[r] = "done"
    /\ nextTicket =< nextStaged
    /\ \A i \in Candidates :
           /\ input[i].ready => i < nextTicket /\ ~IsRead(i)
           /\ ~input[i].ready => input[i] = Unread
           /\ ~input[i].bytes => input[i].granted = 0

\* The workers: each has a candidate of its own, with bytes exactly where it decodes them, and a
\* candidate taken is with a worker until it is analysed, unless the worker left for a stop.
WorkerInv ==
    /\ \A w \in Workers :
           /\ pc[w] \in Busy <=> work[w] # None
           /\ pc[w] \in Busy =>
                  /\ work[w] < nextIndex /\ work[w] < call.count
                  /\ \A v \in Workers : work[v] = work[w] => v = w
                  /\ work[w] \in analysed <=> pc[w] = "push"
           /\ pc[w] \in {"await", "decode", "retry"} => call.staging
           /\ pc[w] = "decode" => input[work[w]].ready
           /\ pc[w] \in {"path", "retry", "push"} =>
                  /\ ~input[work[w]].bytes
                  /\ call.staging => input[work[w]].ready
           /\ pc[w] \in {"leave", "left", "done"} => stop \/ Exhausted
    /\ \A i \in analysed :
           /\ i < nextIndex /\ i < call.count
           /\ ~input[i].bytes
           /\ call.staging => input[i].ready
    /\ \A i \in Candidates : i < nextIndex /\ i < call.count =>
           i \in analysed \/ stop \/ \E w \in Workers : work[w] = i
    /\ running = Cardinality({w \in Workers : pc[w] \notin {"left", "done"}})

\* The bytes: what the buffer has granted is what is held.
BytesInv ==
    /\ staged = Total([i \in Candidates |-> Held(i)])
    /\ staged =< Budget \/ \E i \in Candidates : Holders = {i}

\* The queue: an analysis that was not delivered is with the worker that pushes it, in the queue, or
\* with the caller; and in one of these places once.
Queued == {completed[k] : k \in DOMAIN completed}
Pushed == {work[w] : w \in {v \in Workers : pc[v] = "push"}}
QueueInv ==
    /\ analysed = Pool!Given \union Queued \union ({taken} \ {None}) \union Pushed
    /\ Pool!Given \intersect (Queued \union {taken} \union Pushed) = {}
    /\ Queued \intersect ({taken} \union Pushed) = {}
    /\ taken \notin Pushed
    /\ \A k, m \in DOMAIN completed : completed[k] = completed[m] => k = m
    /\ taken # None <=> main = "complete"

\* The end: the caller goes on when the workers have left, and they leave nothing behind.
EndInv ==
    /\ main \in {"join", "close", "joinReaders", "finished"} =>
           completed = <<>> /\ \A w \in Workers : pc[w] \in {"left", "done"}
    /\ main \in {"close", "joinReaders", "finished"} => \A w \in Workers : pc[w] = "done"
    /\ main = "finished" => \A r \in Readers : rpc[r] = "done"

IInv == TypeOK /\ ReaderInv /\ WorkerInv /\ BytesInv /\ QueueInv /\ EndInv
(***************************************************************************)
(* The bytes that are held.                                                *)
(***************************************************************************)

LEMMA HeldType ==
    ASSUME TypeOK
    PROVE /\ \A i \in Candidates : Held(i) \in Nat
          /\ [i \in Candidates |-> Held(i)] \in [Candidates -> Nat]
<1>1. ASSUME NEW i \in Candidates
      PROVE Held(i) \in Nat
  <2>1. input[i].granted \in Nat /\ want[i] \in Nat
    BY DEF TypeOK, Input
  <2> QED
    BY <2>1 DEF Held
<1> QED
  BY <1>1

\* A candidate that is ready is not being read, and holds what its input was granted.
LEMMA HeldWhenReady ==
    ASSUME TypeOK, ReaderInv, NEW i \in Candidates, input[i].ready
    PROVE Held(i) = input[i].granted
<1>1. ~IsRead(i) /\ input[i].granted \in Nat
  BY DEF ReaderInv, TypeOK, Input
<1> QED
  BY <1>1 DEF Held

(***************************************************************************)
(* The types.                                                              *)
(***************************************************************************)

\* What a call is.
LEMMA CallFacts ==
    ASSUME TypeOK
    PROVE /\ call.count \in Nat \ {0} /\ call.count =< MaxCount
          /\ call.staging \in BOOLEAN /\ call.bounded \in BOOLEAN /\ call.wakeups \in Nat
          /\ \A i \in 0 .. call.count - 1 : i \in Candidates
          /\ \A i \in Candidates : i \in Nat
<1>1. call \in [count : 1 .. MaxCount, staging : BOOLEAN, bounded : BOOLEAN, wakeups : Nat]
  BY PoolAssumption DEF TypeOK
<1>2. call.count \in 1 .. MaxCount /\ call.staging \in BOOLEAN /\ call.bounded \in BOOLEAN
      /\ call.wakeups \in Nat
  BY <1>1
<1> QED
  BY <1>2, PoolAssumption DEF Candidates

\* The workers that have not left.
Remaining == {w \in Workers : pc[w] \notin {"left", "done"}}

LEMMA RemainingFacts ==
    ASSUME TypeOK
    PROVE /\ IsFiniteSet(Workers) /\ IsFiniteSet(Remaining)
          /\ Cardinality(Remaining) \in 0 .. Jobs
          /\ Cardinality(Remaining) = 0 => Remaining = {}
<1>1. IsFiniteSet(Workers) /\ Cardinality(Workers) = Jobs
  <2>1. 0 \in Int /\ Jobs - 1 \in Int
    BY PoolAssumption
  <2> QED
    BY <2>1, FS_Interval, PoolAssumption DEF Workers
<1>2. Remaining \subseteq Workers
  BY DEF Remaining
<1>3. IsFiniteSet(Remaining) /\ Cardinality(Remaining) =< Jobs
  BY <1>1, <1>2, FS_Subset
<1>4. Cardinality(Remaining) \in Nat /\ (Cardinality(Remaining) = 0 => Remaining = {})
  BY <1>3, FS_CardinalityType, FS_EmptySet
<1> QED
  BY <1>1, <1>3, <1>4, PoolAssumption

\* Of the call nothing changes, and no candidate is among the threads that are none.
LEMMA NoneIsNoCandidate == None \notin Candidates /\ Workers \subseteq Threads /\ Main \in Threads
  BY PoolAssumption DEF None, Candidates, Workers, Threads, Main

LEMMA TypeInit == Init => TypeOK
<1> SUFFICES ASSUME Init
             PROVE TypeOK
  OBVIOUS
<1>1. call \in [count : 1 .. MaxCount, staging : BOOLEAN, bounded : BOOLEAN, wakeups : Nat]
  BY PoolAssumption DEF Init
<1>2. call.count \in 1 .. MaxCount /\ call.wakeups \in Nat
  BY <1>1
<1>3. Jobs \in 0 .. Jobs /\ Jobs \in 1 .. Jobs /\ 0 \in 0 .. WindowSize - 1 /\ 0 \in 0 .. call.count
      /\ 0 \in 0 .. call.wakeups
  BY <1>2, PoolAssumption
<1>4. rpc \in [Readers -> {"top", "open", "acquire", "read", "done"}]
      /\ rwork \in [Readers -> Candidates \union {None}] /\ want \in [Candidates -> Nat]
  BY DEF Init
<1>5. input \in [Candidates -> Input]
  BY DEF Init, Input, Unread
<1>6. /\ pc \in [Workers -> {"top", "park", "claim", "await", "decode", "path", "retry", "push",
                            "pushed", "leave", "left", "done"}]
      /\ work \in [Workers -> Candidates \union {None}]
  BY DEF Init
<1>7. completed \in Seq(Candidates) /\ delivered \in Seq(Candidates)
  BY DEF Init
<1> QED
  BY <1>3, <1>4, <1>5, <1>6, <1>7 DEF Init, TypeOK

\* Each step keeps the types.
LEMMA TypeStep ==
    ASSUME IInv, [Next]_vars
    PROVE TypeOK'
<1> USE DEF IInv
<1> USE DEF workerVars, waitVars, mainVars, readerVars, stageVars
<1>0. TypeOK /\ None \notin Candidates /\ Workers \subseteq Threads /\ Main \in Threads
  BY NoneIsNoCandidate
<1>c. /\ call.count \in Nat \ {0} /\ call.count =< MaxCount /\ call.staging \in BOOLEAN
      /\ call.wakeups \in Nat
      /\ \A i \in 0 .. call.count - 1 : i \in Candidates
      /\ \A i \in Candidates : i \in Nat
  BY <1>0, CallFacts
<1>1. ASSUME NEW w \in Workers, Worker(w)
      PROVE TypeOK'
  <2>1. CASE Top(w)
    BY <2>1, <1>0 DEF Top, TypeOK, Goto
  <2>2. CASE Park(w)
    BY <2>2, <1>0 DEF Park, TypeOK, Goto, Doze
  <2>3. CASE Claim(w)
    <3>1. nextIndex' \in Nat
      BY <2>3, <1>0 DEF Claim, TypeOK
    <3>2. work' \in [Workers -> Candidates \union {None}]
      <4>1. CASE Exhausted
        BY <2>3, <4>1, <1>0 DEF Claim, TypeOK
      <4>2. CASE ~Exhausted
        <5>1. nextIndex \in Candidates
          BY <4>2, <1>0, <1>c DEF TypeOK, Exhausted
        <5> QED
          BY <2>3, <4>2, <5>1, <1>0 DEF Claim, TypeOK
      <4> QED
        BY <4>1, <4>2
    <3> QED
      BY <2>3, <3>1, <3>2, <1>0 DEF Claim, TypeOK, Goto
  <2>4. CASE Await(w)
    BY <2>4, <1>0 DEF Await, TypeOK, Goto
  <2>5. CASE DecodeStaged(w)
    <3>1. work[w] \in Candidates
      BY <2>5, <1>0, <1>1 DEF DecodeStaged, WorkerInv, Busy, TypeOK
    <3>2. input' \in [Candidates -> Input]
      <4>1. input[work[w]] \in Input
        BY <3>1, <1>0 DEF TypeOK
      <4>2. Consumed(work[w]) \in Input
        BY <4>1 DEF Consumed, Input
      <4> QED
        BY <4>2, <2>5, <1>0 DEF DecodeStaged, TypeOK
    <3>3. staged' \in Nat
      <4>1. [i \in Candidates |-> Held(i)] \in [Candidates -> Nat]
        BY <1>0, HeldType
      <4>2. Held(work[w]) =< staged
        BY <4>1, <3>1, TotalBound DEF BytesInv
      <4>3. Held(work[w]) = input[work[w]].granted
        BY <2>5, <3>1, <1>0, HeldWhenReady DEF DecodeStaged, WorkerInv, Busy
      <4>4. input[work[w]].granted \in Nat /\ staged \in Nat
        BY <3>1, <1>0 DEF TypeOK, Input
      <4> QED
        BY <4>2, <4>3, <4>4, <2>5 DEF DecodeStaged, Release
    <3> QED
      BY <2>5, <3>1, <3>2, <3>3, <1>0 DEF DecodeStaged, TypeOK, Goto
  <2>6. CASE DecodePath(w)
    <3>1. work[w] \in Candidates
      BY <2>6, <1>0, <1>1 DEF DecodePath, WorkerInv, Busy, TypeOK
    <3>2. fallbacks' \subseteq Formats
      BY <2>6, <3>1, <1>0 DEF DecodePath, TypeOK, Formats
    <3> QED
      BY <2>6, <3>1, <3>2, <1>0 DEF DecodePath, TypeOK, Goto
  <2>7. CASE Push(w)
    <3>1. work[w] \in Candidates
      BY <2>7, <1>0, <1>1 DEF Push, WorkerInv, Busy, TypeOK
    <3>2. completed' \in Seq(Candidates)
      <4>1. completed \in Seq(Candidates)
        BY <1>0 DEF TypeOK
      <4>2. Append(completed, work[w]) \in Seq(Candidates)
        BY <3>1, <4>1
      <4> QED
        BY <4>1, <4>2, <2>7 DEF Push
    <3> QED
      BY <2>7, <3>1, <3>2, <1>0 DEF Push, TypeOK, Goto, Doze
  <2>8. CASE Leave(w)
    <3>1. running \in Nat /\ running # 0
      <4>1. w \in Remaining
        BY <2>8 DEF Leave, Remaining
      <4> QED
        BY <4>1, <1>0, RemainingFacts DEF WorkerInv, Remaining
    <3>2. running' \in 0 .. Jobs
      <4>1. running \in 0 .. Jobs /\ running' = running - 1
        BY <2>8, <1>0 DEF Leave, TypeOK
      <4> QED
        BY <4>1, <3>1, PoolAssumption
    <3> QED
      BY <2>8, <3>2, <1>0 DEF Leave, TypeOK, Goto
  <2>9. CASE Notify(w)
    BY <2>9, <1>0 DEF Notify, TypeOK, Goto, NotifyAll
  <2>10. CASE Sleep(w)
    BY <2>10, <1>0 DEF Sleep, TypeOK
  <2> QED
    BY <1>1, <2>1, <2>2, <2>3, <2>4, <2>5, <2>6, <2>7, <2>8, <2>9, <2>10 DEF Worker
<1>2. CASE Caller
  <2>1. CASE Check
    <3>1. completed # <<>> => Head(completed) \in Candidates /\ Tail(completed) \in Seq(Candidates)
      BY <1>0 DEF TypeOK
    <3> QED
      BY <2>1, <3>1, <1>0 DEF Check, TypeOK, Doze, NotifyAll
  <2>2. CASE Complete
    <3>1. taken \in Candidates
      BY <2>2, <1>0 DEF Complete, QueueInv, TypeOK
    <3>2. target' \in 1 .. Jobs /\ window' \in 0 .. WindowSize - 1
          /\ main' \in {"check", "gate"}
      BY <2>2, <1>0, PoolAssumption DEF Complete, Record, TypeOK
    <3> QED
      BY <2>2, <3>1, <3>2, <1>0 DEF Complete, TypeOK
  <2>3. CASE NotifyGate
    BY <2>3, <1>0 DEF NotifyGate, TypeOK, NotifyAll
  <2>4. CASE Join
    BY <2>4, <1>0 DEF Join, TypeOK
  <2>5. CASE Close
    BY <2>5, <1>0 DEF Close, TypeOK
  <2>6. CASE JoinReaders
    BY <2>6, <1>0 DEF JoinReaders, TypeOK
  <2>7. CASE Sleep(Main)
    BY <2>7, <1>0 DEF Sleep, TypeOK
  <2> QED
    BY <1>2, <2>1, <2>2, <2>3, <2>4, <2>5, <2>6, <2>7 DEF Caller
<1>3. ASSUME NEW r \in Readers, Reader(r)
      PROVE TypeOK'
  <2>1. CASE ReaderTop(r)
    <3>1. nextStaged' \in Nat /\ rwork' \in [Readers -> Candidates \union {None}]
      <4>1. nextStaged \in Nat /\ rwork \in [Readers -> Candidates \union {None}]
        BY <1>0 DEF TypeOK
      <4>2. ~(nextStaged >= call.count) => nextStaged \in Candidates
        BY <4>1, <1>c
      <4>3. nextStaged' = nextStaged \/ nextStaged' = nextStaged + 1
        BY <2>1 DEF ReaderTop
      <4>4. \/ rwork' = rwork
            \/ ~(nextStaged >= call.count) /\ rwork' = [rwork EXCEPT ![r] = nextStaged]
        BY <2>1 DEF ReaderTop
      <4> QED
        BY <4>1, <4>2, <4>3, <4>4
    <3> QED
      BY <2>1, <3>1, <1>0 DEF ReaderTop, TypeOK
  <2>2. CASE Open(r)
    BY <2>2, <1>0, PoolAssumption DEF Open, TypeOK
  <2>3. CASE Acquire(r)
    <3>1. rwork[r] \in 0 .. call.count - 1
      BY <2>3, <1>3 DEF Acquire, ReaderInv, Ahead
    <3>2. staged' \in Nat /\ nextTicket' \in 0 .. call.count
      <4>1. staged \in Nat /\ nextTicket \in 0 .. call.count /\ want[rwork[r]] \in Nat
        BY <3>1, <1>0, <1>c DEF TypeOK
      <4>2. CASE staged' = staged + want[rwork[r]] /\ nextTicket' = nextTicket + 1
                 /\ rwork[r] = nextTicket
        BY <4>1, <4>2, <3>1, <1>c
      <4>3. CASE UNCHANGED <<staged, nextTicket>>
        BY <4>1, <4>3, <2>3 DEF Acquire
      <4> QED
        BY <2>3, <4>2, <4>3 DEF Acquire
    <3> QED
      BY <2>3, <3>2, <1>0 DEF Acquire, TypeOK
  <2>4. CASE Read(r)
    <3>1. rwork[r] \in Candidates /\ want[rwork[r]] \in Nat /\ input[rwork[r]] \in Input
      BY <2>4, <1>3, <1>c, <1>0 DEF Read, ReaderInv, Ahead, TypeOK
    <3>2. input' \in [Candidates -> Input]
      <4>1. [Consumed(rwork[r]) EXCEPT !.ready = TRUE] \in Input
        BY <3>1 DEF Consumed, Input
      <4>2. [ready |-> TRUE, bytes |-> TRUE, granted |-> want[rwork[r]]] \in Input
        BY <3>1 DEF Input
      <4> QED
        BY <2>4, <4>1, <4>2, <1>0 DEF Read, TypeOK
    <3>3. staged' \in Nat
      <4>1. [i \in Candidates |-> Held(i)] \in [Candidates -> Nat]
        BY <1>0, HeldType
      <4>2. Held(rwork[r]) =< staged
        BY <4>1, <3>1, TotalBound DEF BytesInv
      <4>3. Held(rwork[r]) = input[rwork[r]].granted + want[rwork[r]]
        BY <2>4, <1>3 DEF Read, Held, IsRead
      <4>4. input[rwork[r]].granted \in Nat /\ staged \in Nat
        BY <3>1, <1>0 DEF TypeOK, Input
      <4> QED
        BY <4>2, <4>3, <4>4, <3>1, <2>4 DEF Read, Release
    <3> QED
      BY <2>4, <3>2, <3>3, <1>0 DEF Read, TypeOK
  <2> QED
    BY <1>3, <2>1, <2>2, <2>3, <2>4 DEF Reader
<1>4. ASSUME NEW t \in Threads, SpuriousWakeup(t)
      PROVE TypeOK'
  BY <1>4, <1>0, <1>c DEF SpuriousWakeup, TypeOK
<1>5. CASE RequestStop
  BY <1>5, <1>0 DEF RequestStop, TypeOK
<1>6. CASE UNCHANGED vars
  BY <1>6, <1>0 DEF vars, TypeOK
<1> QED
  BY <1>1, <1>2, <1>3, <1>4, <1>5, <1>6 DEF Next

(***************************************************************************)
(* The readers.                                                            *)
(***************************************************************************)

readerState == <<call, nextStaged, rpc, rwork, nextTicket, input>>

\* What the invariant of the readers is about stays as it is in most steps.
LEMMA ReaderFrame ==
    ASSUME ReaderInv, UNCHANGED readerState
    PROVE ReaderInv'
BY DEF readerState, ReaderInv, IsRead

\* A reader's candidate, and its place, in one step of the reader's.
LEMMA ReaderActive ==
    ASSUME TypeOK, ReaderInv, NEW r \in Readers, rpc[r] \in Ahead
    PROVE /\ rwork[r] \in Candidates /\ rwork[r] < call.count /\ rwork[r] < nextStaged
          /\ rwork[r] \in Nat /\ call.staging
          /\ \A q \in Readers : rpc[q] \in Ahead /\ rwork[q] = rwork[r] => q = r
          /\ rpc[r] = "read" => rwork[r] < nextTicket
          /\ rpc[r] # "read" => rwork[r] >= nextTicket /\ input[rwork[r]] = Unread
<1>1. /\ call.count \in Nat /\ \A i \in 0 .. call.count - 1 : i \in Candidates
      /\ \A i \in Candidates : i \in Nat
  BY CallFacts
<1>2. rwork[r] \in 0 .. call.count - 1
  BY DEF ReaderInv
<1>3. rpc[r] # "read" => input[rwork[r]] = Unread
  <2>1. rwork[r] \in Candidates /\ rwork[r] \in Nat /\ nextTicket \in Nat
    BY <1>1, <1>2 DEF TypeOK
  <2>2. rpc[r] # "read" => ~(rwork[r] < nextTicket)
    BY <2>1 DEF ReaderInv
  <2> QED
    BY <2>1, <2>2 DEF ReaderInv
<1> QED
  BY <1>1, <1>2, <1>3 DEF ReaderInv

LEMMA ReaderInit == Init => ReaderInv
<1> SUFFICES ASSUME Init
             PROVE ReaderInv
  OBVIOUS
<1>1. \A i \in Candidates : input[i] = Unread
  BY DEF Init
<1>2. \A r \in Readers : rpc[r] \notin Ahead /\ (~call.staging => rpc[r] = "done")
  BY DEF Init, Ahead
<1> QED
  BY <1>1, <1>2 DEF Init, ReaderInv, Unread

LEMMA ReaderStep ==
    ASSUME IInv, [Next]_vars
    PROVE ReaderInv'
<1> USE DEF IInv
<1>0. TypeOK /\ ReaderInv
  OBVIOUS
<1>c. /\ call.count \in Nat \ {0} /\ call.staging \in BOOLEAN
      /\ \A i \in 0 .. call.count - 1 : i \in Candidates
      /\ \A i \in Candidates : i \in Nat
      /\ nextStaged \in Nat /\ nextTicket \in Nat
  BY <1>0, CallFacts DEF TypeOK
<1>1. ASSUME NEW w \in Workers, Worker(w)
      PROVE ReaderInv'
  <2>1. CASE DecodeStaged(w)
    <3> DEFINE i == work[w]
    <3>1. i \in Candidates /\ input[i] \in Input /\ input[i].ready
      BY <2>1, <1>0 DEF DecodeStaged, WorkerInv, Busy, TypeOK
    <3>2. UNCHANGED <<call, nextStaged, rpc, rwork, nextTicket>>
      BY <2>1 DEF DecodeStaged, readerVars
    <3>3. input' = [input EXCEPT ![i] = [input[i] EXCEPT !.bytes = FALSE, !.granted = 0]]
      BY <2>1 DEF DecodeStaged, Consumed
    <3>4. \A j \in Candidates : /\ input'[j].ready = input[j].ready
                                /\ j # i => input'[j] = input[j]
                                /\ j = i => input'[j].granted = 0
      BY <3>1, <3>3, <1>0 DEF TypeOK, Input
    <3>5. \A j \in Candidates : IsRead(j)' = IsRead(j)
      BY <3>2 DEF IsRead
    <3>6. \A j \in Candidates :
             /\ input'[j].ready => j < nextTicket' /\ ~IsRead(j)'
             /\ ~input'[j].ready => input'[j] = Unread
             /\ ~input'[j].bytes => input'[j].granted = 0
      BY <3>1, <3>2, <3>4, <3>5, <1>0 DEF ReaderInv
    <3> QED
      BY <3>2, <3>6, <1>0 DEF ReaderInv
  <2>2. CASE ~DecodeStaged(w)
    <3>1. UNCHANGED readerState
      BY <1>1, <2>2 DEF Worker, Top, Park, Claim, Await, DecodePath, Push, Leave, Notify, Sleep,
                        readerState, readerVars, stageVars
    <3> QED
      BY <3>1, <1>0, ReaderFrame
  <2> QED
    BY <2>1, <2>2
<1>2. CASE Caller
  <2>1. UNCHANGED readerState
    BY <1>2 DEF Caller, Check, Complete, NotifyGate, Join, Close, JoinReaders, Sleep, readerState,
                readerVars, stageVars
  <2> QED
    BY <2>1, <1>0, ReaderFrame
<1>3. ASSUME NEW r \in Readers, Reader(r)
      PROVE ReaderInv'
  <2>0. rpc \in [Readers -> {"top", "open", "acquire", "read", "done"}]
        /\ rwork \in [Readers -> Candidates \union {None}] /\ input \in [Candidates -> Input]
    BY <1>0 DEF TypeOK
  <2>f. \A q \in Readers : rpc[q] \in Ahead =>
            /\ rwork[q] \in 0 .. call.count - 1 /\ rwork[q] < nextStaged
            /\ \A p \in Readers : rpc[p] \in Ahead /\ rwork[p] = rwork[q] => p = q
            /\ rpc[q] = "read" => rwork[q] < nextTicket
            /\ rpc[q] # "read" => rwork[q] >= nextTicket
            /\ call.staging
    BY <1>0 DEF ReaderInv
  <2>1. CASE ReaderTop(r)
    <3>1. UNCHANGED <<call, nextTicket, input>>
      BY <2>1 DEF ReaderTop, stageVars
    <3>2. CASE rpc' = [rpc EXCEPT ![r] = "done"] /\ UNCHANGED rwork
      <4>1. nextStaged' \in Nat /\ nextStaged' >= nextStaged
        BY <2>1, <1>c DEF ReaderTop
      <4>2. \A q \in Readers : rpc'[q] \in Ahead => rpc[q] = rpc'[q] /\ rwork'[q] = rwork[q]
        BY <3>2, <2>0 DEF Ahead
      <4>3. \A j \in Candidates : IsRead(j)' => IsRead(j)
        BY <4>2 DEF IsRead, Ahead
      <4>4. ASSUME NEW q \in Readers, rpc'[q] \in Ahead
            PROVE /\ rwork'[q] \in 0 .. call.count - 1 /\ rwork'[q] < nextStaged'
                  /\ \A p \in Readers : rpc'[p] \in Ahead /\ rwork'[p] = rwork'[q] => p = q
                  /\ rpc'[q] = "read" => rwork'[q] < nextTicket
                  /\ rpc'[q] # "read" => rwork'[q] >= nextTicket
                  /\ call.staging
        BY <4>1, <4>2, <4>4, <2>f, <1>c
      <4>5. ~call.staging => nextTicket = 0 /\ \A q \in Readers : rpc'[q] = "done"
        BY <3>2, <2>0, <1>0 DEF ReaderInv
      <4>6. nextTicket =< nextStaged'
        BY <4>1, <1>c, <1>0 DEF ReaderInv
      <4> QED
        BY <4>3, <4>4, <4>5, <4>6, <3>1, <1>0 DEF ReaderInv
    <3>3. CASE /\ nextStaged < call.count /\ nextStaged' = nextStaged + 1
               /\ rpc' = [rpc EXCEPT ![r] = "open"] /\ rwork' = [rwork EXCEPT ![r] = nextStaged]
      <4>1. rpc[r] # "done" /\ call.staging
        BY <2>1, <1>0 DEF ReaderTop, ReaderInv
      <4>2. \A q \in Readers : q # r => rpc[q] = rpc'[q] /\ rwork'[q] = rwork[q]
        BY <3>3, <2>0
      <4>3. rpc'[r] = "open" /\ rwork'[r] = nextStaged
        BY <3>3, <2>0
      <4>4. \A j \in Candidates : IsRead(j)' => IsRead(j)
        BY <4>2, <4>3 DEF IsRead
      <4>5. ASSUME NEW q \in Readers, rpc'[q] \in Ahead
            PROVE /\ rwork'[q] \in 0 .. call.count - 1 /\ rwork'[q] < nextStaged'
                  /\ \A p \in Readers : rpc'[p] \in Ahead /\ rwork'[p] = rwork'[q] => p = q
                  /\ rpc'[q] = "read" => rwork'[q] < nextTicket
                  /\ rpc'[q] # "read" => rwork'[q] >= nextTicket
        <5>1. CASE q = r
          <6>1. \A p \in Readers : p # r /\ rpc'[p] \in Ahead => rwork'[p] # nextStaged
            BY <4>2, <2>f, <1>c
          <6>2. nextTicket =< nextStaged
            BY <1>0 DEF ReaderInv
          <6> QED
            BY <5>1, <6>1, <6>2, <4>3, <3>3, <1>c
        <5>2. CASE q # r
          <6>1. rwork'[q] \in 0 .. call.count - 1 /\ rwork'[q] < nextStaged
            BY <5>2, <4>5, <4>2, <2>f
          <6>2. \A p \in Readers : rpc'[p] \in Ahead /\ rwork'[p] = rwork'[q] => p = q
            BY <5>2, <6>1, <4>5, <4>2, <4>3, <2>f, <1>c
          <6> QED
            BY <5>2, <6>1, <6>2, <4>2, <4>5, <2>f, <3>3, <1>c
        <5> QED
          BY <5>1, <5>2
      <4>6. nextTicket =< nextStaged'
        BY <3>3, <1>c, <1>0 DEF ReaderInv
      <4> QED
        BY <4>1, <4>4, <4>5, <4>6, <3>1, <1>0 DEF ReaderInv
    <3> QED
      BY <2>1, <3>2, <3>3, <1>c DEF ReaderTop
  <2>2. CASE Open(r)
    <3>1. UNCHANGED <<call, nextStaged, rwork, nextTicket, input>>
      BY <2>2 DEF Open, stageVars
    <3>2. \A q \in Readers : /\ rpc'[q] \in Ahead <=> rpc[q] \in Ahead
                             /\ rpc'[q] = "read" <=> rpc[q] = "read"
                             /\ rpc'[q] = "done" <=> rpc[q] = "done"
      BY <2>2, <2>0 DEF Open, Ahead
    <3>3. \A j \in Candidates : IsRead(j)' = IsRead(j)
      BY <3>1, <3>2 DEF IsRead
    <3> QED
      BY <3>1, <3>2, <3>3, <1>0 DEF ReaderInv
  <2>3. CASE Acquire(r)
    <3>0. UNCHANGED <<call, nextStaged, rwork, input>>
      BY <2>3 DEF Acquire
    <3>1. CASE rpc' = [rpc EXCEPT ![r] = "done"] /\ UNCHANGED nextTicket
      <4>1. \A q \in Readers : rpc'[q] # "done" => rpc[q] = rpc'[q]
        BY <3>1, <2>0
      <4>2. \A q \in Readers : rpc[q] = "done" => rpc'[q] = "done"
        BY <3>1, <2>0
      <4>3. \A j \in Candidates : IsRead(j)' => IsRead(j)
        BY <4>1, <3>0 DEF IsRead
      <4> QED
        BY <3>0, <3>1, <4>1, <4>2, <4>3, <1>0 DEF ReaderInv, Ahead
    <3>2. CASE /\ rwork[r] = nextTicket /\ rpc' = [rpc EXCEPT ![r] = "read"]
               /\ nextTicket' = nextTicket + 1
      <4>1. rpc[r] = "acquire" /\ rpc[r] \in Ahead
        BY <2>3 DEF Acquire, Ahead
      <4>2. \A q \in Readers : (q # r => rpc[q] = rpc'[q]) /\ (rpc'[q] \in Ahead <=> rpc[q] \in Ahead)
        BY <3>2, <4>1, <2>0 DEF Ahead
      <4>3. rpc'[r] = "read" /\ call.staging
        BY <3>2, <2>0, <4>1, <2>f
      <4>4. \A j \in Candidates : IsRead(j)' => IsRead(j) \/ j = nextTicket
        BY <3>0, <3>2, <4>2, <4>3 DEF IsRead
      <4>5. ASSUME NEW q \in Readers, rpc'[q] \in Ahead
            PROVE /\ rwork[q] \in 0 .. call.count - 1 /\ rwork[q] < nextStaged
                  /\ \A p \in Readers : rpc'[p] \in Ahead /\ rwork[p] = rwork[q] => p = q
                  /\ rpc'[q] = "read" => rwork[q] < nextTicket'
                  /\ rpc'[q] # "read" => rwork[q] >= nextTicket'
        <5>1. /\ rwork[q] \in 0 .. call.count - 1 /\ rwork[q] < nextStaged
              /\ \A p \in Readers : rpc'[p] \in Ahead /\ rwork[p] = rwork[q] => p = q
          BY <4>5, <4>2, <2>f
        <5>2. rpc'[q] = "read" => rwork[q] < nextTicket'
          BY <5>1, <4>5, <4>2, <3>2, <2>f, <1>c
        <5>3. rpc'[q] # "read" => rwork[q] >= nextTicket'
          <6>1. SUFFICES ASSUME rpc'[q] # "read"
                         PROVE rwork[q] >= nextTicket + 1
            BY <3>2
          <6>2. q # r /\ rpc[q] # "read" /\ rpc[q] \in Ahead
            BY <6>1, <4>5, <4>3, <4>2
          <6>3. rwork[q] # rwork[r] /\ rwork[q] >= nextTicket
            BY <6>2, <4>1, <2>f
          <6> QED
            BY <6>3, <5>1, <3>2, <1>c
        <5> QED
          BY <5>1, <5>2, <5>3
      <4>6. nextTicket' =< nextStaged
        BY <4>1, <3>2, <2>f, <1>c
      <4>7. \A j \in Candidates : input[j].ready => j < nextTicket' /\ ~IsRead(j)'
        <5>1. \A j \in Candidates : input[j].ready => j < nextTicket /\ ~IsRead(j)
          BY <1>0 DEF ReaderInv
        <5> QED
          BY <5>1, <4>4, <3>2, <1>c
      <4> QED
        BY <3>0, <4>3, <4>5, <4>6, <4>7, <1>0 DEF ReaderInv
    <3> QED
      BY <2>3, <3>1, <3>2 DEF Acquire
  <2>4. CASE Read(r)
    <3> DEFINE i == rwork[r]
    <3>1. UNCHANGED <<call, nextStaged, nextTicket>>
      BY <2>4 DEF Read
    <3>2. /\ rpc[r] = "read" /\ rpc[r] \in Ahead /\ i \in Candidates /\ i < nextTicket
          /\ rpc' = [rpc EXCEPT ![r] = "top"]
      BY <2>4, <1>0, <1>c, <2>f DEF Read, Ahead
    <3>3. \A q \in Readers : /\ rpc'[q] \in Ahead => q # r /\ rpc'[q] = rpc[q]
                             /\ q # r => rpc'[q] = rpc[q] /\ rwork'[q] = rwork[q]
      BY <2>4, <3>2, <2>0 DEF Read, Ahead
    <3>4. \A j \in Candidates : IsRead(j)' => IsRead(j) /\ j # i
      BY <3>2, <3>3, <2>f DEF IsRead, Ahead
    <3>5. /\ \A j \in Candidates : j # i => input'[j] = input[j]
          /\ input'[i].ready
          /\ ~input'[i].bytes => input'[i].granted = 0
      <4>1. \/ input' = [input EXCEPT ![i] = [ready |-> TRUE, bytes |-> TRUE, granted |-> want[i]]]
            \/ input' = [input EXCEPT ![i] = [Consumed(i) EXCEPT !.ready = TRUE]]
        BY <2>4 DEF Read
      <4>2. input[i] \in Input
        BY <2>0, <3>2
      <4>3. /\ [Consumed(i) EXCEPT !.ready = TRUE].ready = TRUE
            /\ [Consumed(i) EXCEPT !.ready = TRUE].granted = 0
        <5> HIDE DEF i
        <5> QED
          BY <4>2 DEF Consumed, Input
      <4> DEFINE filled == [ready |-> TRUE, bytes |-> TRUE, granted |-> want[i]]
                 failed == [Consumed(i) EXCEPT !.ready = TRUE]
      <4>4. filled.ready = TRUE /\ filled.bytes = TRUE
        OBVIOUS
      <4>5. input' = [input EXCEPT ![i] = filled] \/ input' = [input EXCEPT ![i] = failed]
        BY <4>1
      <4> HIDE DEF i, filled, failed
      <4>6. CASE input' = [input EXCEPT ![i] = filled]
        BY <4>6, <4>4, <2>0, <3>2
      <4>7. CASE input' = [input EXCEPT ![i] = failed]
        BY <4>7, <4>3, <2>0, <3>2 DEF failed
      <4> QED
        BY <4>5, <4>6, <4>7
    <3>6. \A j \in Candidates :
             /\ input'[j].ready => j < nextTicket /\ ~IsRead(j)'
             /\ ~input'[j].ready => input'[j] = Unread
             /\ ~input'[j].bytes => input'[j].granted = 0
      BY <3>2, <3>4, <3>5, <1>0 DEF ReaderInv
    <3>7. call.staging
      BY <3>2, <2>f
    <3>8. \A q \in Readers : rpc'[q] \in Ahead =>
            /\ rwork'[q] \in 0 .. call.count - 1 /\ rwork'[q] < nextStaged
            /\ \A p \in Readers : rpc'[p] \in Ahead /\ rwork'[p] = rwork'[q] => p = q
            /\ rpc'[q] = "read" => rwork'[q] < nextTicket
            /\ rpc'[q] # "read" => rwork'[q] >= nextTicket
      BY <3>3, <2>f
    <3> QED
      BY <3>1, <3>6, <3>7, <3>8, <1>0 DEF ReaderInv
  <2> QED
    BY <1>3, <2>1, <2>2, <2>3, <2>4 DEF Reader
<1>4. CASE (\E t \in Threads : SpuriousWakeup(t)) \/ RequestStop \/ UNCHANGED vars
  <2>1. UNCHANGED readerState
    BY <1>4 DEF SpuriousWakeup, RequestStop, vars, readerState, readerVars, stageVars
  <2> QED
    BY <2>1, <1>0, ReaderFrame
<1> QED
  BY <1>1, <1>2, <1>3, <1>4 DEF Next

(***************************************************************************)
(* The workers.                                                            *)
(***************************************************************************)

workerState == <<call, stop, nextIndex, pc, work, running, analysed, input>>

LEMMA WorkerFrame ==
    ASSUME WorkerInv, UNCHANGED workerState
    PROVE WorkerInv'
BY DEF workerState, WorkerInv, Exhausted

\* A worker's candidate.
LEMMA WorkerBusy ==
    ASSUME TypeOK, WorkerInv, NEW w \in Workers, pc[w] \in Busy
    PROVE /\ work[w] \in Candidates /\ work[w] \in Nat
          /\ work[w] < nextIndex /\ work[w] < call.count
          /\ \A v \in Workers : work[v] = work[w] => v = w
          /\ work[w] \in analysed <=> pc[w] = "push"
<1>1. work[w] \in Candidates
  BY DEF WorkerInv, TypeOK
<1> QED
  BY <1>1, CallFacts DEF WorkerInv

LEMMA WorkerInit == Init => WorkerInv
<1> SUFFICES ASSUME Init
             PROVE WorkerInv
  OBVIOUS
<1>1. \A w \in Workers : pc[w] = "top" /\ work[w] = None
  BY DEF Init
<1>2. {w \in Workers : pc[w] \notin {"left", "done"}} = Workers
  BY <1>1
<1>3. Cardinality(Workers) = Jobs
  <2>1. 0 \in Int /\ Jobs - 1 \in Int
    BY PoolAssumption
  <2> QED
    BY <2>1, FS_Interval, PoolAssumption DEF Workers
<1>4. running = Cardinality({w \in Workers : pc[w] \notin {"left", "done"}})
  BY <1>2, <1>3 DEF Init
<1>5. nextIndex = 0 /\ analysed = {} /\ \A i \in Candidates : i \in Nat
  BY PoolAssumption DEF Init, Candidates
<1> QED
  BY <1>1, <1>4, <1>5 DEF WorkerInv, Busy

\* The invariant, one worker and one candidate at a time.
WorkerOK(w) ==
    /\ pc[w] \in Busy <=> work[w] # None
    /\ pc[w] \in Busy =>
           /\ work[w] < nextIndex /\ work[w] < call.count
           /\ \A v \in Workers : work[v] = work[w] => v = w
           /\ work[w] \in analysed <=> pc[w] = "push"
    /\ pc[w] \in {"await", "decode", "retry"} => call.staging
    /\ pc[w] = "decode" => input[work[w]].ready
    /\ pc[w] \in {"path", "retry", "push"} =>
           /\ ~input[work[w]].bytes
           /\ call.staging => input[work[w]].ready
    /\ pc[w] \in {"leave", "left", "done"} => stop \/ Exhausted
AnalysedOK ==
    \A i \in analysed :
        /\ i < nextIndex /\ i < call.count
        /\ ~input[i].bytes
        /\ call.staging => input[i].ready
TakenOK ==
    \A i \in Candidates : i < nextIndex /\ i < call.count =>
        i \in analysed \/ stop \/ \E w \in Workers : work[w] = i
RunningOK == running = Cardinality(Remaining)

LEMMA WorkerParts ==
    WorkerInv <=> (\A w \in Workers : WorkerOK(w)) /\ AnalysedOK /\ TakenOK /\ RunningOK
BY DEF WorkerInv, WorkerOK, AnalysedOK, TakenOK, RunningOK, Remaining

LEMMA WorkerPartsNext ==
    WorkerInv' <=> (\A w \in Workers : WorkerOK(w)') /\ AnalysedOK' /\ TakenOK' /\ RunningOK'
BY DEF WorkerInv, WorkerOK, AnalysedOK, TakenOK, RunningOK, Remaining

\* A step of one worker that keeps its candidate, and moves among the places before the analysis or
\* where it has none.
LEMMA WorkerMove ==
    ASSUME TypeOK, WorkerInv, NEW w \in Workers, WorkerOK(w)',
           UNCHANGED <<call, stop, nextIndex, running, analysed, input>>,
           \A v \in Workers : v # w => pc'[v] = pc[v] /\ work'[v] = work[v],
           pc'[w] \in {"left", "done"} <=> pc[w] \in {"left", "done"},
           work'[w] = work[w] \/ (work'[w] = None /\ (stop \/ work[w] \in analysed))
    PROVE WorkerInv'
<1>1. \A v \in Workers : v # w => pc'[v] = pc[v] /\ work'[v] = work[v]
  OBVIOUS
<1>2. \A v \in Workers : v # w => WorkerOK(v)'
  <2> SUFFICES ASSUME NEW v \in Workers, v # w
               PROVE WorkerOK(v)'
    OBVIOUS
  <2>1. WorkerOK(v) /\ pc'[v] = pc[v] /\ work'[v] = work[v]
    BY <1>1, WorkerParts
  <2>2. pc'[v] \in Busy => \A u \in Workers : work'[u] = work'[v] => u = v
    BY <2>1, <1>1 DEF WorkerOK
  <2> QED
    BY <2>1, <2>2 DEF WorkerOK, Exhausted
<1>3. AnalysedOK'
  BY WorkerParts DEF AnalysedOK
<1>4. TakenOK'
  BY <1>1, WorkerParts DEF TakenOK
<1>5. RunningOK'
  <2>1. Remaining' = Remaining
    BY <1>1 DEF Remaining
  <2> QED
    BY <2>1, WorkerParts DEF RunningOK
<1> QED
  BY <1>2, <1>3, <1>4, <1>5, WorkerPartsNext

LEMMA WorkerStep ==
    ASSUME IInv, [Next]_vars
    PROVE WorkerInv'
<1> USE DEF IInv
<1>0. TypeOK /\ ReaderInv /\ WorkerInv /\ \A w \in Workers : WorkerOK(w)
  BY WorkerParts
<1>c. /\ call.count \in Nat \ {0} /\ call.staging \in BOOLEAN
      /\ \A i \in 0 .. call.count - 1 : i \in Candidates
      /\ \A i \in Candidates : i \in Nat
      /\ nextIndex \in Nat /\ None \notin Candidates
  BY <1>0, CallFacts, NoneIsNoCandidate DEF TypeOK
<1>p. pc \in [Workers -> {"top", "park", "claim", "await", "decode", "path", "retry", "push",
                          "pushed", "leave", "left", "done"}]
      /\ work \in [Workers -> Candidates \union {None}]
      /\ analysed \subseteq Candidates /\ input \in [Candidates -> Input]
  BY <1>0 DEF TypeOK
<1>1. ASSUME NEW w \in Workers, Worker(w)
      PROVE WorkerInv'
  <2>w. WorkerOK(w) /\ work = [work EXCEPT ![w] = work[w]] /\ pc = [pc EXCEPT ![w] = pc[w]]
    BY <1>0, <1>p
  <2>1. CASE Top(w)
    <3>1. PICK place \in {"leave", "park", "claim"} :
              pc' = [pc EXCEPT ![w] = place] /\ (place = "leave" => stop)
      BY <2>1 DEF Top, Goto
    <3>2. UNCHANGED <<call, stop, nextIndex, running, analysed, input, work>> /\ pc[w] = "top"
      BY <2>1 DEF Top, stageVars
    <3>3. WorkerOK(w)'
      BY <3>1, <3>2, <2>w, <1>p DEF WorkerOK, Busy
    <3> QED
      BY <3>1, <3>2, <3>3, <1>p, <1>0, WorkerMove
  <2>2. CASE Park(w)
    <3>1. PICK place \in {"leave", "top", "park"} :
              pc' = [pc EXCEPT ![w] = place] /\ (place = "leave" => stop \/ Exhausted)
      BY <2>2, <2>w DEF Park, Goto
    <3>2. UNCHANGED <<call, stop, nextIndex, running, analysed, input, work>> /\ pc[w] = "park"
      BY <2>2 DEF Park, stageVars
    <3>3. WorkerOK(w)'
      BY <3>1, <3>2, <2>w, <1>p DEF WorkerOK, Busy, Exhausted
    <3> QED
      BY <3>1, <3>2, <3>3, <1>p, <1>0, WorkerMove
  <2>3. CASE Claim(w)
    <3>0. UNCHANGED <<call, stop, running, analysed, input>> /\ pc[w] = "claim" /\ nextIndex' = nextIndex + 1
          /\ work[w] = None
      BY <2>3, <2>w DEF Claim, stageVars, WorkerOK, Busy
    <3>1. PICK place \in {"leave", "await", "path"} : pc' = [pc EXCEPT ![w] = place]
      BY <2>3 DEF Claim, Goto
    <3>2. \A v \in Workers : v # w => pc'[v] = pc[v] /\ work'[v] = work[v]
      BY <2>3, <3>1, <1>p DEF Claim
    <3>3. RunningOK'
      <4>1. Remaining' = Remaining
        BY <3>0, <3>1, <3>2, <1>p DEF Remaining
      <4> QED
        BY <4>1, <3>0, <1>0, WorkerParts DEF RunningOK
    <3>4. AnalysedOK'
      <4>1. AnalysedOK
        BY <1>0, WorkerParts
      <4> QED
        BY <4>1, <3>0, <1>c, <1>p DEF AnalysedOK
    <3>5. CASE Exhausted
      <4>1. work' = work /\ pc'[w] = "leave" /\ Exhausted'
        BY <2>3, <3>0, <3>5, <1>p, <1>c DEF Claim, Goto, Exhausted
      <4>2. \A v \in Workers : WorkerOK(v)'
        <5> SUFFICES ASSUME NEW v \in Workers
                     PROVE WorkerOK(v)'
          OBVIOUS
        <5>1. CASE v = w
          BY <5>1, <4>1, <3>0 DEF WorkerOK, Busy
        <5>2. CASE v # w
          <6>1. WorkerOK(v) /\ pc'[v] = pc[v] /\ work' = work
            BY <5>2, <3>2, <4>1, <1>0
          <6>2. pc[v] \in Busy => work[v] \in Nat
            BY <1>0, WorkerBusy
          <6> QED
            BY <6>1, <6>2, <4>1, <3>0, <1>c DEF WorkerOK
        <5> QED
          BY <5>1, <5>2
      <4>3. TakenOK'
        <5>1. TakenOK
          BY <1>0, WorkerParts
        <5> QED
          BY <5>1, <4>1, <3>0, <3>5, <1>c DEF TakenOK, Exhausted
      <4> QED
        BY <3>3, <3>4, <4>2, <4>3, WorkerPartsNext
    <3>6. CASE ~Exhausted
      <4>1. /\ nextIndex \in Candidates /\ nextIndex < call.count
            /\ work' = [work EXCEPT ![w] = nextIndex] /\ work'[w] = nextIndex
            /\ pc'[w] = IF call.staging THEN "await" ELSE "path"
        BY <2>3, <3>6, <1>c, <1>p DEF Claim, Goto, Exhausted
      <4>2. \A v \in Workers : v # w => work[v] # nextIndex
        <5> SUFFICES ASSUME NEW v \in Workers, work[v] = nextIndex
                     PROVE FALSE
          OBVIOUS
        <5>1. WorkerOK(v) /\ work[v] # None
          BY <4>1, <1>c, <1>0
        <5> QED
          BY <5>1, <1>c DEF WorkerOK
      <4>3. nextIndex \notin analysed
        BY <1>0, <1>c, WorkerParts DEF AnalysedOK
      <4>4. ~call.staging => ~input[nextIndex].bytes
        <5>1. ASSUME ~call.staging
              PROVE ~input[nextIndex].ready
          BY <5>1, <4>1, <1>0, <1>c DEF ReaderInv
        <5>2. ~input[nextIndex].ready => input[nextIndex] = Unread
          BY <4>1, <1>0 DEF ReaderInv
        <5> QED
          BY <5>1, <5>2 DEF Unread
      <4>5. \A v \in Workers : WorkerOK(v)'
        <5> SUFFICES ASSUME NEW v \in Workers
                     PROVE WorkerOK(v)'
          OBVIOUS
        <5>1. CASE v = w
          <6>1. \A u \in Workers : work'[u] = nextIndex => u = w
            BY <4>2, <3>2
          <6> QED
            BY <5>1, <6>1, <4>1, <4>3, <4>4, <3>0, <1>c DEF WorkerOK, Busy
        <5>2. CASE v # w
          <6>1. WorkerOK(v) /\ pc'[v] = pc[v] /\ work'[v] = work[v]
            BY <5>2, <3>2, <1>0
          <6>2. pc[v] \in Busy => work[v] \in Nat
            BY <1>0, WorkerBusy
          <6>3. pc'[v] \in Busy => \A u \in Workers : work'[u] = work'[v] => u = v
            BY <6>1, <5>2, <4>1, <4>2, <3>2 DEF WorkerOK
          <6>4. pc[v] \in {"leave", "left", "done"} => stop \/ Exhausted'
            BY <6>1, <3>0, <1>c DEF WorkerOK, Exhausted
          <6> QED
            BY <6>1, <6>2, <6>3, <6>4, <3>0, <1>c DEF WorkerOK
        <5> QED
          BY <5>1, <5>2
      <4>6. TakenOK'
        <5>1. TakenOK
          BY <1>0, WorkerParts
        <5> SUFFICES ASSUME NEW i \in Candidates, i < nextIndex + 1, i < call.count
                     PROVE i \in analysed \/ stop \/ \E v \in Workers : work'[v] = i
          BY <3>0 DEF TakenOK
        <5>2. CASE i = nextIndex
          BY <5>2, <4>1
        <5>3. CASE i < nextIndex
          <6>1. i \in analysed \/ stop \/ \E v \in Workers : work[v] = i
            BY <5>1, <5>3 DEF TakenOK
          <6>2. i # None
            BY <1>c
          <6> QED
            BY <6>1, <6>2, <3>0, <3>2
        <5> QED
          BY <5>2, <5>3, <1>c
      <4> QED
        BY <3>3, <3>4, <4>5, <4>6, WorkerPartsNext
    <3> QED
      BY <3>5, <3>6
  <2>4. CASE Await(w)
    <3>1. UNCHANGED <<call, stop, nextIndex, running, analysed, input>> /\ pc[w] = "await"
      BY <2>4 DEF Await, stageVars
    <3>2. work[w] \in Candidates /\ work[w] # None
      BY <3>1, <1>0, <1>c, WorkerBusy DEF Busy
    <3>3. CASE ~input[work[w]].ready /\ stop /\ Goto(w, "leave") /\ work' = [work EXCEPT ![w] = None]
      <4>1. WorkerOK(w)'
        BY <3>3, <3>1, <1>p DEF WorkerOK, Goto, Busy
      <4> QED
        BY <4>1, <3>3, <3>1, <1>p, <1>0, WorkerMove DEF Goto
    <3>4. ASSUME NEW place \in {"decode", "path"}, input[work[w]].ready,
                 place = "path" => ~input[work[w]].bytes, pc' = [pc EXCEPT ![w] = place], UNCHANGED work
          PROVE WorkerInv'
      <4>1. WorkerOK(w)'
        BY <3>4, <3>1, <2>w, <1>p DEF WorkerOK, Busy
      <4> QED
        BY <4>1, <3>4, <3>1, <1>p, <1>0, WorkerMove
    <3> QED
      BY <2>4, <3>3, <3>4 DEF Await, Goto
  <2>5. CASE DecodeStaged(w)
    <3> DEFINE i == work[w]
    <3>1. i \in Candidates /\ input[i] \in Input /\ input[i].ready /\ i \notin analysed
          /\ pc[w] = "decode" /\ call.staging
      BY <2>5, <2>w, <1>0, <1>p, WorkerBusy DEF DecodeStaged, WorkerOK, Busy
    <3>2. UNCHANGED <<call, stop, nextIndex, work, running>>
      BY <2>5 DEF DecodeStaged
    <3>3. input' = [input EXCEPT ![i] = [input[i] EXCEPT !.bytes = FALSE, !.granted = 0]]
      BY <2>5 DEF DecodeStaged, Consumed
    <3>4. \A j \in Candidates : /\ input'[j].ready = input[j].ready
                                /\ j # i => input'[j] = input[j]
                                /\ j = i => ~input'[j].bytes
      BY <3>1, <3>3, <1>p DEF Input
    <3>5. PICK place \in {"push", "retry"} :
              /\ pc' = [pc EXCEPT ![w] = place]
              /\ analysed' = IF place = "push" THEN analysed \union {i} ELSE analysed
      BY <2>5, Zenon DEF DecodeStaged, Goto
    <3>6. \A v \in Workers : /\ v # w => pc'[v] = pc[v] /\ WorkerOK(v) /\ work[v] # i
                             /\ pc[v] \in Busy => work[v] \in Candidates
      BY <3>1, <3>5, <1>p, <1>0, WorkerBusy DEF Busy
    <3>7. \A v \in Workers : WorkerOK(v)'
      <4> SUFFICES ASSUME NEW v \in Workers
                   PROVE WorkerOK(v)'
        OBVIOUS
      <4>1. CASE v = w
        BY <4>1, <3>1, <3>2, <3>4, <3>5, <2>w, <1>p DEF WorkerOK, Busy
      <4>2. CASE v # w
        <5>1. WorkerOK(v) /\ pc'[v] = pc[v] /\ work[v] # i /\ (pc[v] \in Busy => work[v] \in Candidates)
          BY <4>2, <3>6
        <5>2. pc[v] \in Busy => (work[v] \in analysed' <=> work[v] \in analysed)
                                 /\ input'[work[v]] = input[work[v]]
          BY <5>1, <3>4, <3>5
        <5> HIDE DEF i
        <5> QED
          BY <5>1, <5>2, <3>2 DEF WorkerOK, Busy, Exhausted
      <4> QED
        BY <4>1, <4>2
    <3>8. AnalysedOK'
      <4>1. i < nextIndex /\ i < call.count
        BY <3>1, <1>0, WorkerBusy DEF Busy
      <4>2. AnalysedOK
        BY <1>0, WorkerParts
      <4> QED
        BY <4>1, <4>2, <3>1, <3>2, <3>4, <3>5, <1>p DEF AnalysedOK
    <3>9. TakenOK'
      <4>1. TakenOK
        BY <1>0, WorkerParts
      <4> QED
        BY <4>1, <3>2, <3>5 DEF TakenOK
    <3>10. RunningOK'
      <4>1. Remaining' = Remaining
        BY <3>1, <3>5, <3>6, <1>p DEF Remaining
      <4> QED
        BY <4>1, <3>2, <1>0, WorkerParts DEF RunningOK
    <3> QED
      BY <3>7, <3>8, <3>9, <3>10, WorkerPartsNext
  <2>6. CASE DecodePath(w)
    <3> DEFINE i == work[w]
    <3>1. i \in Candidates /\ i \notin analysed /\ pc[w] \in {"path", "retry"}
          /\ ~input[i].bytes /\ (call.staging => input[i].ready)
      BY <2>6, <2>w, <1>0, <1>p, WorkerBusy DEF DecodePath, WorkerOK, Busy
    <3>2. UNCHANGED <<call, stop, nextIndex, work, running, input>>
      BY <2>6 DEF DecodePath
    <3>3. pc' = [pc EXCEPT ![w] = "push"] /\ analysed' = analysed \union {i}
      BY <2>6 DEF DecodePath, Goto
    <3>4. \A v \in Workers : v # w => pc'[v] = pc[v] /\ WorkerOK(v) /\ work[v] # i
      BY <3>1, <3>3, <1>p, <1>0, WorkerBusy DEF Busy
    <3>5. \A v \in Workers : WorkerOK(v)'
      <4> SUFFICES ASSUME NEW v \in Workers
                   PROVE WorkerOK(v)'
        OBVIOUS
      <4>1. CASE v = w
        BY <4>1, <3>1, <3>2, <3>3, <2>w, <1>p DEF WorkerOK, Busy
      <4>2. CASE v # w
        <5>1. WorkerOK(v) /\ pc'[v] = pc[v] /\ work[v] # i
          BY <4>2, <3>4
        <5>2. work[v] \in analysed' <=> work[v] \in analysed
          BY <5>1, <3>3
        <5> HIDE DEF i
        <5> QED
          BY <5>1, <5>2, <3>2 DEF WorkerOK, Exhausted
      <4> QED
        BY <4>1, <4>2
    <3>6. AnalysedOK'
      <4>1. i < nextIndex /\ i < call.count
        BY <3>1, <1>0, WorkerBusy DEF Busy
      <4>2. AnalysedOK
        BY <1>0, WorkerParts
      <4> QED
        BY <4>1, <4>2, <3>1, <3>2, <3>3 DEF AnalysedOK
    <3>7. TakenOK'
      <4>1. TakenOK
        BY <1>0, WorkerParts
      <4> QED
        BY <4>1, <3>2, <3>3 DEF TakenOK
    <3>8. RunningOK'
      <4>1. Remaining' = Remaining
        BY <3>1, <3>3, <3>4, <1>p DEF Remaining
      <4> QED
        BY <4>1, <3>2, <1>0, WorkerParts DEF RunningOK
    <3> QED
      BY <3>5, <3>6, <3>7, <3>8, WorkerPartsNext
  <2>7. CASE Push(w)
    <3>1. UNCHANGED <<call, stop, nextIndex, running, analysed, input>> /\ pc[w] = "push"
      BY <2>7 DEF Push, stageVars
    <3>2. CASE UNCHANGED <<pc, work>>
      BY <3>1, <3>2, <1>0, WorkerFrame DEF workerState
    <3>3. CASE work' = [work EXCEPT ![w] = None] /\ Goto(w, "pushed")
      <4>1. WorkerOK(w)'
        BY <3>3, <3>1, <1>p DEF WorkerOK, Goto, Busy
      <4>2. work[w] \in analysed
        BY <3>1, <2>w DEF WorkerOK, Busy
      <4> QED
        BY <4>1, <4>2, <3>3, <3>1, <1>p, <1>0, WorkerMove DEF Goto
    <3> QED
      BY <2>7, <3>2, <3>3 DEF Push
  <2>8. CASE Leave(w)
    <3>1. UNCHANGED <<call, stop, nextIndex, work, analysed, input>> /\ pc[w] = "leave"
          /\ pc' = [pc EXCEPT ![w] = "left"] /\ running' = running - 1
      BY <2>8 DEF Leave, stageVars, Goto
    <3>2. \A v \in Workers : v # w => pc'[v] = pc[v]
      BY <3>1, <1>p
    <3>3. \A v \in Workers : WorkerOK(v)'
      <4> SUFFICES ASSUME NEW v \in Workers
                   PROVE WorkerOK(v)'
        OBVIOUS
      <4>1. CASE v = w
        BY <4>1, <3>1, <2>w, <1>p DEF WorkerOK, Busy, Exhausted
      <4>2. CASE v # w
        <5>1. WorkerOK(v) /\ pc'[v] = pc[v]
          BY <4>2, <3>2, <1>0
        <5> QED
          BY <5>1, <3>1 DEF WorkerOK, Exhausted
      <4> QED
        BY <4>1, <4>2
    <3>4. AnalysedOK' /\ TakenOK'
      BY <3>1, <1>0, WorkerParts DEF AnalysedOK, TakenOK
    <3>5. RunningOK'
      <4>1. Remaining' = Remaining \ {w} /\ w \in Remaining
        BY <3>1, <3>2, <1>p DEF Remaining
      <4>2. Cardinality(Remaining \ {w}) = Cardinality(Remaining) - 1
        BY <4>1, <1>0, RemainingFacts, FS_RemoveElement
      <4> QED
        BY <4>1, <4>2, <3>1, <1>0, WorkerParts DEF RunningOK
    <3> QED
      BY <3>3, <3>4, <3>5, WorkerPartsNext
  <2>9. CASE Notify(w)
    <3>1. UNCHANGED <<call, stop, nextIndex, running, analysed, input, work>>
      BY <2>9 DEF Notify, stageVars
    <3>2. PICK place \in {"top", "done"} :
              /\ pc' = [pc EXCEPT ![w] = place]
              /\ pc[w] = IF place = "top" THEN "pushed" ELSE "left"
      BY <2>9, Zenon DEF Notify, Goto
    <3>3. WorkerOK(w)'
      BY <3>1, <3>2, <2>w, <1>p DEF WorkerOK, Busy, Exhausted
    <3> QED
      BY <3>1, <3>2, <3>3, <1>p, <1>0, WorkerMove
  <2>10. CASE Sleep(w)
    <3>1. UNCHANGED workerState
      BY <2>10 DEF Sleep, workerState, workerVars, stageVars
    <3> QED
      BY <3>1, <1>0, WorkerFrame
  <2> QED
    BY <1>1, <2>1, <2>2, <2>3, <2>4, <2>5, <2>6, <2>7, <2>8, <2>9, <2>10 DEF Worker
<1>2. CASE Caller
  <2>1. UNCHANGED workerState
    BY <1>2 DEF Caller, Check, Complete, NotifyGate, Join, Close, JoinReaders, Sleep, workerState,
                workerVars, stageVars
  <2> QED
    BY <2>1, <1>0, WorkerFrame
<1>3. ASSUME NEW r \in Readers, Reader(r)
      PROVE WorkerInv'
  <2>1. CASE Read(r)
    <3> DEFINE i == rwork[r]
    <3>1. UNCHANGED <<call, stop, nextIndex, pc, work, running, analysed>>
      BY <2>1 DEF Read, workerVars
    <3>2. i \in Candidates /\ IsRead(i)
      BY <2>1, <1>0, ReaderActive DEF Read, Ahead, IsRead
    <3>3. \A j \in Candidates : j # i => input'[j] = input[j]
      BY <2>1, <1>p, <3>2 DEF Read
    <3>4. ~input[i].ready /\ call.staging
      BY <2>1, <3>2, <1>0, ReaderActive DEF ReaderInv, Read, Ahead
    <3>5. \A v \in Workers : WorkerOK(v)'
      <4> SUFFICES ASSUME NEW v \in Workers
                   PROVE WorkerOK(v)'
        OBVIOUS
      <4>1. WorkerOK(v)
        BY <1>0
      <4>2. pc[v] \in {"decode", "path", "retry", "push"} => input'[work[v]] = input[work[v]]
        <5> SUFFICES ASSUME pc[v] \in {"decode", "path", "retry", "push"}
                     PROVE input'[work[v]] = input[work[v]]
          OBVIOUS
        <5>1. work[v] \in Candidates
          BY <1>0, WorkerBusy DEF Busy
        <5>2. work[v] # i
          BY <4>1, <3>4 DEF WorkerOK
        <5> QED
          BY <5>1, <5>2, <3>3
      <4> HIDE DEF i
      <4> QED
        BY <4>1, <4>2, <3>1 DEF WorkerOK, Exhausted
    <3>6. AnalysedOK'
      <4>1. AnalysedOK
        BY <1>0, WorkerParts
      <4>2. i \notin analysed
        BY <4>1, <3>4 DEF AnalysedOK
      <4> HIDE DEF i
      <4> QED
        BY <4>1, <4>2, <3>1, <3>3, <1>p DEF AnalysedOK
    <3>7. TakenOK' /\ RunningOK'
      BY <3>1, <1>0, WorkerParts DEF TakenOK, RunningOK, Remaining
    <3> QED
      BY <3>5, <3>6, <3>7, WorkerPartsNext
  <2>2. CASE ~Read(r)
    <3>1. UNCHANGED workerState
      BY <1>3, <2>2 DEF Reader, ReaderTop, Open, Acquire, workerState, workerVars, stageVars
    <3> QED
      BY <3>1, <1>0, WorkerFrame
  <2> QED
    BY <2>1, <2>2
<1>4. CASE RequestStop
  <2>1. stop' = TRUE /\ UNCHANGED <<call, nextIndex, pc, work, running, analysed, input>>
    BY <1>4 DEF RequestStop, workerVars, stageVars
  <2>2. \A v \in Workers : WorkerOK(v)'
    <3> SUFFICES ASSUME NEW v \in Workers
                 PROVE WorkerOK(v)'
      OBVIOUS
    <3>1. WorkerOK(v)
      BY <1>0
    <3> QED
      BY <3>1, <2>1 DEF WorkerOK
  <2>3. AnalysedOK' /\ TakenOK' /\ RunningOK'
    BY <2>1, <1>0, WorkerParts DEF AnalysedOK, TakenOK, RunningOK, Remaining
  <2> QED
    BY <2>2, <2>3, WorkerPartsNext
<1>5. CASE (\E t \in Threads : SpuriousWakeup(t)) \/ UNCHANGED vars
  <2>1. UNCHANGED workerState
    BY <1>5 DEF SpuriousWakeup, vars, workerState, workerVars, stageVars
  <2> QED
    BY <2>1, <1>0, WorkerFrame
<1> QED
  BY <1>1, <1>2, <1>3, <1>4, <1>5 DEF Next

(***************************************************************************)
(* The bytes.                                                              *)
(***************************************************************************)

AllHeld == [i \in Candidates |-> Held(i)]

\* One candidate holds something else.
LEMMA HeldChange ==
    ASSUME TypeOK, TypeOK', NEW i \in Candidates,
           \A j \in Candidates : j # i => Held(j)' = Held(j)
    PROVE /\ Total(AllHeld)' = Total(AllHeld) - Held(i) + Held(i)'
          /\ Held(i) \in Nat /\ Held(i)' \in Nat /\ Total(AllHeld) \in Nat /\ Held(i) =< Total(AllHeld)
<1>1. AllHeld \in [Candidates -> Nat] /\ AllHeld' \in [Candidates -> Nat]
  <2>1. \A j \in Candidates : Held(j) \in Nat
    BY HeldType
  <2>2. \A j \in Candidates : Held(j)' \in Nat
    <3>1. \A j \in Candidates : input'[j].granted \in Nat /\ want'[j] \in Nat
      BY DEF TypeOK, Input
    <3> QED
      BY <3>1 DEF Held
  <2> QED
    BY <2>1, <2>2 DEF AllHeld
<1>2. \A j \in Candidates : AllHeld[j] = Held(j) /\ AllHeld'[j] = Held(j)'
  BY DEF AllHeld
<1>3. Held(i) \in Nat /\ Held(i)' \in Nat
  <2>1. AllHeld[i] \in Nat /\ AllHeld'[i] \in Nat
    BY <1>1
  <2> QED
    BY <2>1, <1>2
<1>4. AllHeld' = [AllHeld EXCEPT ![i] = Held(i)']
  <2> DEFINE h == AllHeld
             k == AllHeld'
             v == Held(i)'
  <2>1. h \in [Candidates -> Nat] /\ k \in [Candidates -> Nat]
        /\ \A j \in Candidates : k[j] = IF j = i THEN v ELSE h[j]
    BY <1>1, <1>2
  <2> HIDE DEF h, k, v
  <2>2. k = [h EXCEPT ![i] = v]
    BY <2>1
  <2> QED
    BY <2>2 DEF h, k, v
<1>5. Total(AllHeld') = Total(AllHeld) - AllHeld[i] + Held(i)'
  <2> DEFINE v == Held(i)'
  <2>1. v \in Nat /\ AllHeld' = [AllHeld EXCEPT ![i] = v]
    BY <1>3, <1>4
  <2> HIDE DEF v
  <2>2. Total([AllHeld EXCEPT ![i] = v]) = Total(AllHeld) - AllHeld[i] + v
    BY <2>1, <1>1, TotalChange
  <2> QED
    BY <2>1, <2>2 DEF v
<1>6. Total(AllHeld) \in Nat /\ AllHeld[i] =< Total(AllHeld)
  BY <1>1, TotalBound
<1> QED
  BY <1>2, <1>3, <1>5, <1>6

\* Nothing changes in what is held.
LEMMA BytesSame ==
    ASSUME BytesInv, UNCHANGED staged, \A j \in Candidates : Held(j)' = Held(j)
    PROVE BytesInv'
<1>1. [i \in Candidates |-> Held(i)]' = [i \in Candidates |-> Held(i)]
  OBVIOUS
<1>2. Holders' = Holders
  BY DEF Holders
<1> QED
  BY <1>1, <1>2 DEF BytesInv

\* One candidate gives back all it holds.
LEMMA BytesReleased ==
    ASSUME TypeOK, TypeOK', BytesInv, NEW i \in Candidates,
           \A j \in Candidates : j # i => Held(j)' = Held(j),
           Held(i)' = 0, staged' = staged - Held(i)
    PROVE BytesInv'
<1>1. /\ Total(AllHeld)' = Total(AllHeld) - Held(i) + Held(i)'
      /\ Held(i) \in Nat /\ Total(AllHeld) \in Nat /\ Held(i) =< Total(AllHeld)
  BY HeldChange
<1>2. staged = Total(AllHeld)
  BY DEF BytesInv, AllHeld
<1>3. staged' = Total(AllHeld)'
  BY <1>1, <1>2
<1>4. staged' =< Budget \/ \E j \in Candidates : Holders' = {j}
  <2>1. CASE staged =< Budget
    BY <2>1, <1>1, <1>2, PoolAssumption
  <2>2. ASSUME NEW j \in Candidates, Holders = {j}
        PROVE staged' =< Budget \/ Holders' = {j}
    <3>1. CASE j # i
      <4>1. Held(i) = 0
        BY <2>2, <3>1, <1>1 DEF Holders
      <4>2. Holders' = Holders
        BY <4>1 DEF Holders
      <4> QED
        BY <4>2, <2>2
    <3>2. CASE j = i
      <4>1. \A k \in Candidates : AllHeld'[k] = 0
        <5> SUFFICES ASSUME NEW k \in Candidates
                     PROVE Held(k)' = 0
          BY DEF AllHeld
        <5>1. k # i => ~(Held(k) > 0)
          BY <2>2, <3>2 DEF Holders
        <5>2. Held(k) \in Nat
          BY HeldType
        <5> QED
          BY <5>1, <5>2
      <4>2. AllHeld' \in [Candidates -> Nat]
        <5>1. \A k \in Candidates : AllHeld'[k] \in Nat
          BY <4>1
        <5> QED
          BY <5>1 DEF AllHeld
      <4>3. Total(AllHeld)' = 0
        <5> DEFINE h == AllHeld'
        <5>1. h \in [Candidates -> Nat] /\ \A k \in Candidates : h[k] = 0
          BY <4>1, <4>2
        <5> HIDE DEF h
        <5>2. Total(h) = 0
          BY <5>1, TotalZero
        <5> QED
          BY <5>2 DEF h
      <4> QED
        BY <4>3, <1>3, PoolAssumption
    <3> QED
      BY <3>1, <3>2
  <2> QED
    BY <2>1, <2>2 DEF BytesInv
<1> QED
  BY <1>3, <1>4 DEF BytesInv, AllHeld

\* One candidate that held nothing is granted bytes that fit.
LEMMA BytesGranted ==
    ASSUME TypeOK, TypeOK', BytesInv, NEW i \in Candidates,
           \A j \in Candidates : j # i => Held(j)' = Held(j),
           Held(i) = 0, staged' = staged + Held(i)', Fits(Held(i)')
    PROVE BytesInv'
<1>1. /\ Total(AllHeld)' = Total(AllHeld) - Held(i) + Held(i)'
      /\ Held(i)' \in Nat /\ Total(AllHeld) \in Nat
  BY HeldChange
<1>2. staged = Total(AllHeld)
  BY DEF BytesInv, AllHeld
<1>3. staged' = Total(AllHeld)'
  BY <1>1, <1>2
<1>4. staged' =< Budget \/ Holders' = {i}
  <2>1. CASE staged + Held(i)' =< Budget
    BY <2>1
  <2>2. CASE Held(i)' = 0 /\ staged = 0
    BY <2>2, PoolAssumption
  <2>3. CASE Held(i)' # 0 /\ staged = 0
    <3>1. \A j \in Candidates : Held(j) = 0
      <4>1. AllHeld \in [Candidates -> Nat]
        BY HeldType DEF AllHeld
      <4>2. \A j \in Candidates : AllHeld[j] =< 0 /\ AllHeld[j] \in Nat
        BY <4>1, <1>2, <2>3, TotalBound
      <4>3. \A j \in Candidates : AllHeld[j] = 0
        BY <4>2
      <4> QED
        BY <4>3 DEF AllHeld
    <3>2. \A j \in Candidates : Held(j)' > 0 <=> j = i
      BY <3>1, <2>3, <1>1
    <3> QED
      BY <3>2 DEF Holders
  <2> QED
    BY <2>1, <2>2, <2>3, <1>1 DEF Fits
<1> QED
  BY <1>3, <1>4 DEF BytesInv, AllHeld

LEMMA BytesInit == Init => BytesInv
<1> SUFFICES ASSUME Init
             PROVE BytesInv
  OBVIOUS
<1>1. \A i \in Candidates : Held(i) = 0
  BY DEF Init, Held, Unread
<1>2. [i \in Candidates |-> Held(i)] \in [Candidates -> Nat]
  BY <1>1
<1>3. Total([i \in Candidates |-> Held(i)]) = 0
  <2> DEFINE h == [i \in Candidates |-> Held(i)]
  <2>1. h \in [Candidates -> Nat] /\ \A i \in Candidates : h[i] = 0
    BY <1>1, <1>2
  <2> HIDE DEF h
  <2>2. Total(h) = 0
    BY <2>1, TotalZero
  <2> QED
    BY <2>2 DEF h
<1> QED
  BY <1>3, PoolAssumption DEF Init, BytesInv

LEMMA BytesStep ==
    ASSUME IInv, [Next]_vars
    PROVE BytesInv'
<1> USE DEF IInv
<1>0. TypeOK /\ TypeOK' /\ ReaderInv /\ WorkerInv /\ BytesInv
  BY TypeStep
<1>p. input \in [Candidates -> Input] /\ want \in [Candidates -> Nat]
      /\ rpc \in [Readers -> {"top", "open", "acquire", "read", "done"}]
      /\ rwork \in [Readers -> Candidates \union {None}]
  BY <1>0 DEF TypeOK
<1>1. ASSUME NEW w \in Workers, DecodeStaged(w)
      PROVE BytesInv'
  <2>0. PICK i \in Candidates : i = work[w]
    BY <1>1, <1>0, WorkerBusy DEF DecodeStaged, Busy
  <2>1. i \in Candidates /\ input[i].ready /\ pc[w] = "decode"
    BY <2>0, <1>1, <1>0, WorkerBusy DEF DecodeStaged, WorkerInv, Busy
  <2>2. /\ input' = [input EXCEPT ![i] = Consumed(i)] /\ staged' = staged - input[i].granted
        /\ UNCHANGED <<rpc, rwork, want>>
    BY <2>0, <1>1 DEF DecodeStaged, Release, readerVars
  <2>3. Consumed(i).granted = 0
    <3>1. input[i] \in Input
      BY <2>1, <1>p
    <3> QED
      BY <3>1 DEF Consumed, Input
  <2>4. \A j \in Candidates : IsRead(j)' = IsRead(j)
    BY <2>2 DEF IsRead
  <2>5. \A j \in Candidates : j # i => Held(j)' = Held(j)
    BY <2>1, <2>2, <2>4, <1>p DEF Held
  <2>6. Held(i) = input[i].granted
    BY <2>1, <1>0, HeldWhenReady
  <2>7. Held(i)' = 0
    <3>1. ~IsRead(i)' /\ input'[i].granted = 0
      BY <2>1, <2>2, <2>3, <2>4, <1>0, <1>p DEF ReaderInv
    <3> QED
      BY <3>1 DEF Held
  <2> QED
    BY <2>1, <2>2, <2>5, <2>6, <2>7, <1>0, BytesReleased
<1>2. ASSUME NEW r \in Readers, Open(r)
      PROVE BytesInv'
  <2>0. PICK i \in Candidates : i = rwork[r]
    BY <1>2, <1>0, ReaderActive DEF Open, Ahead
  <2>1. i \in Candidates /\ ~IsRead(i)
    BY <2>0, <1>2, <1>0, ReaderActive DEF Open, Ahead, IsRead
  <2>2. UNCHANGED <<rwork, input, staged>> /\ rpc[r] = "open" /\ rpc' = [rpc EXCEPT ![r] = "acquire"]
        /\ \A j \in Candidates : j # i => want'[j] = want[j]
    BY <2>0, <1>2, <2>1, <1>p DEF Open, stageVars
  <2>3. \A j \in Candidates : IsRead(j)' = IsRead(j)
    BY <2>2, <1>p DEF IsRead
  <2>4. \A j \in Candidates : Held(j)' = Held(j)
    BY <2>1, <2>2, <2>3 DEF Held
  <2> QED
    BY <2>2, <2>4, <1>0, BytesSame
<1>3. ASSUME NEW r \in Readers, Acquire(r)
      PROVE BytesInv'
  <2>0. PICK i \in Candidates : i = rwork[r]
    BY <1>3, <1>0, ReaderActive DEF Acquire, Ahead
  <2>1. i \in Candidates /\ ~IsRead(i) /\ input[i] = Unread /\ rpc[r] = "acquire"
    BY <2>0, <1>3, <1>0, ReaderActive DEF Acquire, Ahead, IsRead
  <2>2. UNCHANGED <<rwork, input, want>>
    BY <1>3 DEF Acquire
  <2>3. CASE rpc' = [rpc EXCEPT ![r] = "done"] /\ UNCHANGED staged
    <3>1. \A j \in Candidates : IsRead(j)' = IsRead(j)
      BY <2>1, <2>2, <2>3, <1>p DEF IsRead
    <3>2. \A j \in Candidates : Held(j)' = Held(j)
      BY <3>1, <2>2 DEF Held
    <3> QED
      BY <3>2, <2>3, <1>0, BytesSame
  <2>4. CASE Fits(want[i]) /\ staged' = staged + want[i] /\ rpc' = [rpc EXCEPT ![r] = "read"]
    <3>1. \A j \in Candidates : j # i => IsRead(j)' = IsRead(j)
      BY <2>0, <2>1, <2>2, <2>4, <1>p DEF IsRead
    <3>2. IsRead(i)'
      BY <2>0, <2>2, <2>4, <1>p DEF IsRead
    <3>3. \A j \in Candidates : j # i => Held(j)' = Held(j)
      BY <3>1, <2>2 DEF Held
    <3>4. Held(i) = 0 /\ Held(i)' = want[i]
      <4>1. input[i].granted = 0 /\ want[i] \in Nat
        BY <2>1, <1>p DEF Unread
      <4> QED
        BY <4>1, <2>1, <2>2, <3>2 DEF Held
    <3> QED
      BY <3>3, <3>4, <2>1, <2>4, <1>0, BytesGranted
  <2> QED
    BY <2>0, <1>3, <2>3, <2>4 DEF Acquire
<1>4. ASSUME NEW r \in Readers, Read(r)
      PROVE BytesInv'
  <2>0. PICK i \in Candidates : i = rwork[r]
    BY <1>4, <1>0, ReaderActive DEF Read, Ahead
  <2>1. i \in Candidates /\ IsRead(i) /\ rpc[r] = "read"
    BY <2>0, <1>4, <1>0, ReaderActive DEF Read, Ahead, IsRead
  <2>2. input[i] = Unread /\ want[i] \in Nat
    BY <2>1, <1>0, <1>p DEF ReaderInv
  <2>3. rpc' = [rpc EXCEPT ![r] = "top"] /\ rwork' = [rwork EXCEPT ![r] = None]
        /\ want' = [want EXCEPT ![i] = 0]
    BY <2>0, <1>4 DEF Read
  <2>4. \A q \in Readers : q # r => /\ rpc'[q] = rpc[q] /\ rwork'[q] = rwork[q]
                                    /\ rpc[q] = "read" => rwork[q] # i
    BY <2>0, <2>1, <2>3, <1>0, <1>p, ReaderActive DEF Ahead
  <2>5. ~IsRead(i)' /\ \A j \in Candidates : j # i => IsRead(j)' = IsRead(j)
    <3>1. \A q \in Readers : rpc'[q] = "read" => q # r /\ rpc[q] = "read" /\ rwork'[q] = rwork[q]
      BY <2>3, <2>4, <1>p
    <3>2. \A q \in Readers : rpc[q] = "read" /\ rwork[q] # i => rpc'[q] = "read" /\ rwork'[q] = rwork[q]
      BY <2>0, <2>4
    <3> QED
      BY <3>1, <3>2, <2>4 DEF IsRead
  <2>6. \A j \in Candidates : j # i => input'[j] = input[j] /\ want'[j] = want[j]
    BY <2>0, <1>4, <1>p DEF Read
  <2>7. Held(i) = want[i]
    BY <2>1, <2>2 DEF Held, Unread
  <2>8. CASE /\ input' = [input EXCEPT ![i] = [ready |-> TRUE, bytes |-> TRUE, granted |-> want[i]]]
             /\ UNCHANGED staged
    <3>1. input'[i].granted = want[i]
      <4> DEFINE filled == [ready |-> TRUE, bytes |-> TRUE, granted |-> want[i]]
      <4>1. filled.granted = want[i] /\ input' = [input EXCEPT ![i] = filled]
        BY <2>8
      <4> HIDE DEF filled
      <4> QED
        BY <4>1, <2>1, <1>p
    <3>2. Held(i)' = Held(i)
      BY <3>1, <2>2, <2>5, <2>7 DEF Held
    <3>3. \A j \in Candidates : Held(j)' = Held(j)
      BY <3>2, <2>5, <2>6 DEF Held
    <3> QED
      BY <3>3, <2>8, <1>0, BytesSame
  <2>9. CASE input' = [input EXCEPT ![i] = [Consumed(i) EXCEPT !.ready = TRUE]] /\ Release(want[i])
    <3>1. input'[i].granted = 0
      <4> DEFINE failed == [Consumed(i) EXCEPT !.ready = TRUE]
      <4>1. input' = [input EXCEPT ![i] = failed]
        BY <2>9
      <4>2. failed.granted = 0
        <5>1. input[i] \in Input
          BY <2>1, <1>p
        <5> QED
          BY <5>1 DEF Consumed, Input
      <4> HIDE DEF failed
      <4> QED
        BY <4>1, <4>2, <2>1, <1>p
    <3>2. Held(i)' = 0
      BY <3>1, <2>5 DEF Held
    <3>3. \A j \in Candidates : j # i => Held(j)' = Held(j)
      BY <2>5, <2>6 DEF Held
    <3> QED
      BY <3>2, <3>3, <2>1, <2>7, <2>9, <1>0, BytesReleased DEF Release
  <2> QED
    BY <2>0, <1>4, <2>8, <2>9 DEF Read
<1>5. ASSUME UNCHANGED <<rwork, want, input, staged>>,
             UNCHANGED rpc \/ \E r \in Readers : ReaderTop(r)
      PROVE BytesInv'
  <2>1. \A j \in Candidates : IsRead(j)' = IsRead(j)
    BY <1>5, <1>p DEF IsRead, ReaderTop
  <2>2. \A j \in Candidates : Held(j)' = Held(j)
    BY <2>1, <1>5 DEF Held
  <2> QED
    BY <2>2, <1>5, <1>0, BytesSame
<1>6. ASSUME NEW r \in Readers, ReaderTop(r)
      PROVE BytesInv'
  <2>1. UNCHANGED <<want, input, staged>>
    BY <1>6 DEF ReaderTop, stageVars
  <2>2. \A j \in Candidates : IsRead(j)' = IsRead(j)
    BY <1>6, <1>p DEF IsRead, ReaderTop
  <2>3. \A j \in Candidates : Held(j)' = Held(j)
    BY <2>1, <2>2 DEF Held
  <2> QED
    BY <2>1, <2>3, <1>0, BytesSame
<1>7. CASE UNCHANGED <<rpc, rwork, want, input, staged>>
  BY <1>5, <1>7
<1>8. ASSUME NEW w \in Workers, Worker(w), ~DecodeStaged(w)
      PROVE UNCHANGED <<rpc, rwork, want, input, staged>>
  BY <1>8 DEF Worker, Top, Park, Claim, Await, DecodePath, Push, Leave, Notify, Sleep, readerVars,
              stageVars
<1>9. ASSUME Caller \/ (\E t \in Threads : SpuriousWakeup(t)) \/ RequestStop \/ UNCHANGED vars
      PROVE UNCHANGED <<rpc, rwork, want, input, staged>>
  BY <1>9 DEF Caller, Check, Complete, NotifyGate, Join, Close, JoinReaders, Sleep, SpuriousWakeup,
              RequestStop, vars, readerVars, stageVars
<1> QED
  BY <1>1, <1>2, <1>3, <1>4, <1>6, <1>7, <1>8, <1>9 DEF Next, Reader

(***************************************************************************)
(* The queue.                                                              *)
(***************************************************************************)

Elements(s) == {s[k] : k \in DOMAIN s}
OneEach(s) == \A k, m \in DOMAIN s : s[k] = s[m] => k = m

LEMMA AppendElements ==
    ASSUME NEW S, NEW s \in Seq(S), NEW x \in S
    PROVE /\ Elements(Append(s, x)) = Elements(s) \union {x}
          /\ OneEach(s) /\ x \notin Elements(s) => OneEach(Append(s, x))
<1> DEFINE t == Append(s, x)
<1>1. /\ DOMAIN s = 1 .. Len(s) /\ Len(s) \in Nat /\ DOMAIN t = 1 .. Len(s) + 1
      /\ \A k \in 1 .. Len(s) : t[k] = s[k]
      /\ t[Len(s) + 1] = x
  OBVIOUS
<1> HIDE DEF t
<1>2. \A k \in DOMAIN t : (k \in DOMAIN s /\ t[k] = s[k]) \/ (k = Len(s) + 1 /\ t[k] = x)
  <2> SUFFICES ASSUME NEW k \in 1 .. Len(s) + 1
               PROVE (k \in 1 .. Len(s) /\ t[k] = s[k]) \/ (k = Len(s) + 1 /\ t[k] = x)
    BY <1>1
  <2>1. k \in 1 .. Len(s) \/ k = Len(s) + 1
    BY <1>1
  <2> QED
    BY <2>1, <1>1
<1>3. \A k \in DOMAIN s : k \in DOMAIN t /\ t[k] = s[k]
  BY <1>1
<1>4. Elements(t) = Elements(s) \union {x}
  BY <1>1, <1>2, <1>3 DEF Elements
<1>5. OneEach(s) /\ x \notin Elements(s) => OneEach(t)
  BY <1>2 DEF Elements, OneEach
<1> QED
  BY <1>4, <1>5 DEF t

LEMMA TailElements ==
    ASSUME NEW S, NEW s \in Seq(S), s # <<>>, OneEach(s)
    PROVE /\ Head(s) \in Elements(s)
          /\ Elements(Tail(s)) = Elements(s) \ {Head(s)}
          /\ OneEach(Tail(s))
<1> DEFINE t == Tail(s)
<1>1. /\ DOMAIN s = 1 .. Len(s) /\ Len(s) \in Nat /\ Len(s) # 0 /\ DOMAIN t = 1 .. Len(s) - 1
      /\ \A k \in 1 .. Len(s) - 1 : t[k] = s[k + 1]
      /\ Head(s) = s[1]
  OBVIOUS
<1> HIDE DEF t
<1>2. 1 \in DOMAIN s
  BY <1>1
<1>3. \A k \in DOMAIN t : k \in Int /\ k + 1 \in DOMAIN s /\ k + 1 # 1 /\ t[k] = s[k + 1]
  BY <1>1
<1>4. \A k \in DOMAIN s : k # 1 => k - 1 \in DOMAIN t /\ t[k - 1] = s[k]
  BY <1>1
<1>5. \A k \in DOMAIN t : t[k] # s[1]
  BY <1>2, <1>3 DEF OneEach
<1>6. Elements(t) = Elements(s) \ {Head(s)}
  <2>1. ASSUME NEW x \in Elements(t)
        PROVE x \in Elements(s) \ {Head(s)}
    BY <2>1, <1>1, <1>3, <1>5 DEF Elements
  <2>2. ASSUME NEW x \in Elements(s) \ {Head(s)}
        PROVE x \in Elements(t)
    <3>1. PICK k \in DOMAIN s : x = s[k]
      BY DEF Elements
    <3>2. k # 1
      BY <3>1, <1>1
    <3> QED
      BY <3>1, <3>2, <1>4 DEF Elements
  <2> QED
    BY <2>1, <2>2
<1>7. OneEach(t)
  <2> SUFFICES ASSUME NEW k \in DOMAIN t, NEW m \in DOMAIN t, t[k] = t[m]
               PROVE k = m
    BY DEF OneEach
  <2>1. k + 1 = m + 1
    BY <1>3 DEF OneEach
  <2> QED
    BY <2>1, <1>3
<1> QED
  BY <1>1, <1>2, <1>6, <1>7 DEF Elements, t

\* The invariant in terms of these.
LEMMA QueueParts ==
    /\ Pool!Given = Elements(delivered) /\ Queued = Elements(completed)
    /\ QueueInv <=>
        /\ analysed = Elements(delivered) \union Elements(completed) \union ({taken} \ {None})
                        \union Pushed
        /\ Elements(delivered) \intersect (Elements(completed) \union {taken} \union Pushed) = {}
        /\ Elements(completed) \intersect ({taken} \union Pushed) = {}
        /\ taken \notin Pushed
        /\ OneEach(completed)
        /\ taken # None <=> main = "complete"
BY DEF QueueInv, Queued, Elements, OneEach, Pool!Given

LEMMA QueuePartsNext ==
    /\ analysed' = Elements(delivered') \union Elements(completed') \union ({taken'} \ {None})
                    \union Pushed'
    /\ Elements(delivered') \intersect (Elements(completed') \union {taken'} \union Pushed') = {}
    /\ Elements(completed') \intersect ({taken'} \union Pushed') = {}
    /\ taken' \notin Pushed'
    /\ OneEach(completed')
    /\ taken' # None <=> main' = "complete"
    => QueueInv'
BY DEF QueueInv, Queued, Elements, OneEach, Pool!Given

\* What is pushed are candidates, and stays the same unless a worker comes to push or has pushed.
LEMMA PushedKept ==
    ASSUME \A v \in Workers : /\ pc'[v] = "push" <=> pc[v] = "push"
                              /\ pc[v] = "push" => work'[v] = work[v]
    PROVE Pushed' = Pushed
<1>1. {v \in Workers : pc'[v] = "push"} = {v \in Workers : pc[v] = "push"}
  OBVIOUS
<1>2. \A x : x \in Pushed' <=> \E v \in Workers : pc'[v] = "push" /\ work'[v] = x
  BY DEF Pushed
<1>3. \A x : x \in Pushed <=> \E v \in Workers : pc[v] = "push" /\ work[v] = x
  BY DEF Pushed
<1>4. \A x : x \in Pushed' <=> x \in Pushed
  BY <1>2, <1>3
<1> QED
  BY <1>4

\* A worker has finished an analysis.
LEMMA QueueAnalysed ==
    ASSUME TypeOK, WorkerInv, QueueInv, NEW w \in Workers, pc[w] \in Busy, pc[w] # "push",
           pc' = [pc EXCEPT ![w] = "push"], analysed' = analysed \union {work[w]},
           UNCHANGED <<work, completed, main, taken, delivered>>
    PROVE QueueInv'
<1>1. work[w] \in Candidates /\ work[w] \notin analysed /\ work[w] # None
  BY WorkerBusy, NoneIsNoCandidate
<1>2. Pushed' = Pushed \union {work[w]}
  <2>1. \A v \in Workers : pc'[v] = "push" <=> pc[v] = "push" \/ v = w
    BY DEF TypeOK
  <2>2. \A x : x \in Pushed' <=> \E v \in Workers : pc'[v] = "push" /\ work[v] = x
    BY DEF Pushed
  <2>3. \A x : x \in Pushed <=> \E v \in Workers : pc[v] = "push" /\ work[v] = x
    BY DEF Pushed
  <2>4. \A x : x \in Pushed' <=> x \in Pushed \/ x = work[w]
    BY <2>1, <2>2, <2>3
  <2> QED
    BY <2>4
<1>3. taken # work[w]
  BY <1>1, QueueParts
<1> QED
  BY <1>1, <1>2, <1>3, QueueParts, QueuePartsNext

LEMMA QueueInit == Init => QueueInv
<1> SUFFICES ASSUME Init
             PROVE QueueInv
  OBVIOUS
<1>1. Pushed = {}
  BY DEF Init, Pushed
<1>2. Elements(completed) = {} /\ Elements(delivered) = {} /\ OneEach(completed)
  BY DEF Init, Elements, OneEach
<1> QED
  BY <1>1, <1>2, QueueParts DEF Init

LEMMA QueueStep ==
    ASSUME IInv, [Next]_vars
    PROVE QueueInv'
<1> USE DEF IInv
<1>0. TypeOK /\ WorkerInv /\ QueueInv /\ EndInv
  OBVIOUS
<1>p. pc \in [Workers -> {"top", "park", "claim", "await", "decode", "path", "retry", "push",
                          "pushed", "leave", "left", "done"}]
      /\ work \in [Workers -> Candidates \union {None}] /\ None \notin Candidates
      /\ completed \in Seq(Candidates) /\ delivered \in Seq(Candidates)
  BY <1>0, NoneIsNoCandidate DEF TypeOK
<1>k. ASSUME UNCHANGED <<analysed, completed, main, taken, delivered>>,
             \A v \in Workers : /\ pc'[v] = "push" <=> pc[v] = "push"
                                /\ pc[v] = "push" => work'[v] = work[v]
      PROVE QueueInv'
  BY <1>k, <1>0, PushedKept, QueueParts, QueuePartsNext
<1>1. ASSUME NEW w \in Workers, Worker(w)
      PROVE QueueInv'
  <2>1. CASE Top(w) \/ Park(w) \/ Claim(w) \/ Leave(w) \/ Notify(w) \/ Sleep(w)
    <3>1. UNCHANGED <<analysed, completed, main, taken, delivered>>
      BY <2>1 DEF Top, Park, Claim, Leave, Notify, Sleep, mainVars, workerVars
    <3>2. \A v \in Workers : v # w => pc'[v] = pc[v] /\ work'[v] = work[v]
      BY <2>1, <1>p DEF Top, Park, Claim, Leave, Notify, Sleep, Goto, workerVars
    <3>3. (pc'[w] # "push" /\ pc[w] # "push") \/ (pc'[w] = pc[w] /\ work'[w] = work[w])
      <4>1. CASE Top(w) \/ Leave(w) \/ Notify(w)
        BY <4>1, <1>p DEF Top, Leave, Notify, Goto
      <4>2. CASE Park(w) \/ Sleep(w)
        BY <4>2, <1>p DEF Park, Sleep, Goto, workerVars
      <4>3. CASE Claim(w)
        BY <4>3, <1>p DEF Claim, Goto
      <4> QED
        BY <2>1, <4>1, <4>2, <4>3
    <3> QED
      BY <3>1, <3>2, <3>3, <1>k
  <2>2. CASE Await(w)
    <3>1. UNCHANGED <<analysed, completed, main, taken, delivered>> /\ pc[w] = "await"
      BY <2>2 DEF Await, mainVars
    <3>2. \A v \in Workers : v # w => pc'[v] = pc[v] /\ work'[v] = work[v]
      BY <2>2, <1>p DEF Await, Goto
    <3>3. pc'[w] # "push"
      BY <2>2, <1>p DEF Await, Goto
    <3> QED
      BY <3>1, <3>2, <3>3, <1>k
  <2>3. CASE DecodeStaged(w)
    <3>1. UNCHANGED <<work, completed, main, taken, delivered>> /\ pc[w] = "decode"
      BY <2>3 DEF DecodeStaged, mainVars
    <3>2. CASE pc' = [pc EXCEPT ![w] = "push"] /\ analysed' = analysed \union {work[w]}
      BY <3>1, <3>2, <1>0, QueueAnalysed DEF Busy
    <3>3. CASE pc' = [pc EXCEPT ![w] = "retry"] /\ UNCHANGED analysed
      BY <3>1, <3>3, <1>k, <1>p
    <3> QED
      BY <2>3, <3>2, <3>3 DEF DecodeStaged, Goto
  <2>4. CASE DecodePath(w)
    <3>1. UNCHANGED <<work, completed, main, taken, delivered>> /\ pc[w] \in {"path", "retry"}
          /\ pc' = [pc EXCEPT ![w] = "push"] /\ analysed' = analysed \union {work[w]}
      BY <2>4 DEF DecodePath, mainVars, Goto
    <3> QED
      BY <3>1, <1>0, QueueAnalysed DEF Busy
  <2>5. CASE Push(w)
    <3>1. UNCHANGED <<analysed, main, taken, delivered>> /\ pc[w] = "push"
      BY <2>5 DEF Push, mainVars
    <3>2. CASE UNCHANGED <<completed, pc, work>>
      BY <3>1, <3>2, <1>k
    <3>3. CASE /\ completed' = Append(completed, work[w])
               /\ work' = [work EXCEPT ![w] = None] /\ pc' = [pc EXCEPT ![w] = "pushed"]
      <4>1. work[w] \in Candidates /\ \A v \in Workers : work[v] = work[w] => v = w
        BY <3>1, <1>0, WorkerBusy DEF Busy
      <4>2. work[w] \in Pushed
        BY <3>1 DEF Pushed
      <4>3. Pushed' = Pushed \ {work[w]}
        <5>1. \A x : x \in Pushed' <=> \E v \in Workers : pc'[v] = "push" /\ work'[v] = x
          BY DEF Pushed
        <5>2. \A x : x \in Pushed <=> \E v \in Workers : pc[v] = "push" /\ work[v] = x
          BY DEF Pushed
        <5>3. /\ pc'[w] # "push"
              /\ \A v \in Workers : v # w => pc'[v] = pc[v] /\ work'[v] = work[v] /\ work[v] # work[w]
          BY <3>3, <4>1, <1>p
        <5>4. \A x : x \in Pushed' <=> x \in Pushed /\ x # work[w]
          BY <5>1, <5>2, <5>3
        <5> QED
          BY <5>4
      <4>4. /\ Elements(completed') = Elements(completed) \union {work[w]}
            /\ OneEach(completed')
        <5>1. work[w] \notin Elements(completed) /\ OneEach(completed)
          BY <4>2, <1>0, QueueParts
        <5> QED
          BY <5>1, <4>1, <3>3, <1>p, AppendElements
      <4> QED
        BY <3>1, <4>2, <4>3, <4>4, <1>0, QueueParts, QueuePartsNext
    <3> QED
      BY <2>5, <3>2, <3>3 DEF Push, Goto
  <2> QED
    BY <1>1, <2>1, <2>2, <2>3, <2>4, <2>5 DEF Worker
<1>2. CASE Caller
  <2>0. UNCHANGED <<pc, work, analysed>>
    BY <1>2 DEF Caller, Check, Complete, NotifyGate, Join, Close, JoinReaders, Sleep, workerVars
  <2>p. Pushed' = Pushed
    BY <2>0, PushedKept
  <2>1. CASE Check
    <3>0. delivered' = delivered /\ main = "check" /\ taken = None
      BY <2>1, <1>0, QueueParts DEF Check
    <3>1. CASE /\ completed # <<>> /\ taken' = Head(completed) /\ completed' = Tail(completed)
               /\ main' = "complete"
      <4>1. /\ Head(completed) \in Elements(completed)
            /\ Elements(completed') = Elements(completed) \ {Head(completed)}
            /\ OneEach(completed')
        BY <3>1, <1>p, <1>0, TailElements, QueueParts
      <4>2. taken' # None
        <5>1. Head(completed) \in Candidates
          BY <3>1, <1>p
        <5> QED
          BY <5>1, <3>1, <1>p
      <4> QED
        BY <2>0, <2>p, <3>0, <3>1, <4>1, <4>2, <1>0, QueueParts, QueuePartsNext
    <3>2. CASE UNCHANGED <<taken, completed>> /\ main' # "complete"
      BY <2>0, <2>p, <3>0, <3>2, <1>0, QueueParts, QueuePartsNext
    <3> QED
      BY <2>1, <3>0, <3>1, <3>2 DEF Check
  <2>2. CASE Complete
    <3>1. main = "complete" /\ taken # None /\ taken \in Candidates
      BY <2>2, <1>0, QueueParts DEF Complete, TypeOK
    <3>2. delivered' = Append(delivered, taken) /\ taken' = None /\ completed' = completed
          /\ main' # "complete"
      BY <2>2 DEF Complete, Record
    <3>3. Elements(delivered') = Elements(delivered) \union {taken}
      BY <3>1, <3>2, <1>p, AppendElements
    <3>4. None \notin Pushed /\ None \notin Elements(completed) /\ None \notin Elements(delivered)
      <4>1. None \notin Pushed
        BY <1>0, <1>p, WorkerBusy DEF Pushed, Busy
      <4>2. \A k \in DOMAIN completed : completed[k] \in Candidates
        BY <1>p
      <4>3. \A k \in DOMAIN delivered : delivered[k] \in Candidates
        BY <1>p
      <4> QED
        BY <4>1, <4>2, <4>3, <1>p DEF Elements
    <3> QED
      BY <2>0, <2>p, <3>1, <3>2, <3>3, <3>4, <1>0, QueueParts, QueuePartsNext
  <2>3. CASE NotifyGate \/ Join \/ Close \/ JoinReaders \/ Sleep(Main)
    <3>1. UNCHANGED <<completed, taken, delivered>>
          /\ (main' = main \/ (main # "complete" /\ main' # "complete"))
      <4>1. CASE NotifyGate \/ Close \/ JoinReaders
        BY <4>1 DEF NotifyGate, Close, JoinReaders
      <4>2. CASE Join
        BY <4>2 DEF Join
      <4>3. CASE Sleep(Main)
        BY <4>3 DEF Sleep, mainVars
      <4> QED
        BY <2>3, <4>1, <4>2, <4>3
    <3> QED
      BY <2>0, <2>p, <3>1, <1>0, QueueParts, QueuePartsNext
  <2> QED
    BY <1>2, <2>1, <2>2, <2>3 DEF Caller
<1>3. CASE (\E r \in Readers : Reader(r)) \/ (\E t \in Threads : SpuriousWakeup(t)) \/ RequestStop
           \/ UNCHANGED vars
  <2>1. UNCHANGED <<pc, work, analysed, completed, main, taken, delivered>>
    BY <1>3 DEF Reader, ReaderTop, Open, Acquire, Read, SpuriousWakeup, RequestStop, vars, workerVars,
                mainVars
  <2> QED
    BY <2>1, <1>k
<1> QED
  BY <1>1, <1>2, <1>3 DEF Next

(***************************************************************************)
(* The end.                                                                *)
(***************************************************************************)

LEMMA EndInit == Init => EndInv
BY DEF Init, EndInv

LEMMA EndStep ==
    ASSUME IInv, [Next]_vars
    PROVE EndInv'
<1> USE DEF IInv
<1>0. TypeOK /\ ReaderInv /\ WorkerInv /\ EndInv
  OBVIOUS
<1>p. pc \in [Workers -> {"top", "park", "claim", "await", "decode", "path", "retry", "push",
                          "pushed", "leave", "left", "done"}]
      /\ rpc \in [Readers -> {"top", "open", "acquire", "read", "done"}]
      /\ main \in {"check", "complete", "gate", "join", "close", "joinReaders", "finished"}
  BY <1>0 DEF TypeOK
<1>1. ASSUME NEW w \in Workers, Worker(w)
      PROVE EndInv'
  <2>1. UNCHANGED <<main, rpc>>
    BY <1>1 DEF Worker, Top, Park, Claim, Await, DecodeStaged, DecodePath, Push, Leave, Notify, Sleep,
                mainVars, readerVars
  <2>2. \A v \in Workers : v # w => pc'[v] = pc[v]
    BY <1>1, <1>p DEF Worker, Top, Park, Claim, Await, DecodeStaged, DecodePath, Push, Leave, Notify,
                      Sleep, Goto, workerVars
  <2>3. pc[w] = "done" => pc'[w] = "done" /\ completed' = completed
    BY <1>1, <1>p DEF Worker, Top, Park, Claim, Await, DecodeStaged, DecodePath, Push, Leave, Notify,
                      Sleep, workerVars
  <2>4. pc[w] = "left" => pc'[w] \in {"left", "done"} /\ completed' = completed
    BY <1>1, <1>p DEF Worker, Top, Park, Claim, Await, DecodeStaged, DecodePath, Push, Leave, Notify,
                      Sleep, Goto, workerVars
  <2> QED
    BY <2>1, <2>2, <2>3, <2>4, <1>0 DEF EndInv
<1>2. CASE Caller
  <2>0. UNCHANGED <<pc, rpc>>
    BY <1>2 DEF Caller, Check, Complete, NotifyGate, Join, Close, JoinReaders, Sleep, workerVars,
                readerVars
  <2>1. CASE Check
    <3>1. main = "check" /\ main' \in {"check", "complete", "join"}
          /\ (main' = "join" => completed' = <<>> /\ running = 0)
      BY <2>1 DEF Check
    <3>2. running = 0 => \A w \in Workers : pc[w] \in {"left", "done"}
      <4>1. running = Cardinality(Remaining)
        BY <1>0 DEF WorkerInv, Remaining
      <4>2. running = 0 => Remaining = {}
        BY <4>1, <1>0, RemainingFacts
      <4> QED
        BY <4>2 DEF Remaining
    <3> QED
      BY <3>1, <3>2, <2>0 DEF EndInv
  <2>2. CASE Complete \/ NotifyGate
    BY <2>2 DEF Complete, Record, NotifyGate, EndInv
  <2>3. CASE Join
    <3>1. main = "join" /\ completed' = completed /\ (\A w \in Workers : pc[w] = "done")
          /\ main' = IF call.staging THEN "close" ELSE "finished"
      BY <2>3 DEF Join
    <3>2. ~call.staging => \A r \in Readers : rpc[r] = "done"
      BY <1>0 DEF ReaderInv
    <3> QED
      BY <3>1, <3>2, <2>0, <1>0 DEF EndInv
  <2>4. CASE Close
    BY <2>4, <2>0, <1>0 DEF Close, EndInv
  <2>5. CASE JoinReaders
    BY <2>5, <2>0, <1>0 DEF JoinReaders, EndInv
  <2>6. CASE Sleep(Main)
    BY <2>6, <2>0, <1>0 DEF Sleep, mainVars, EndInv
  <2> QED
    BY <1>2, <2>1, <2>2, <2>3, <2>4, <2>5, <2>6 DEF Caller
<1>3. ASSUME NEW r \in Readers, Reader(r)
      PROVE EndInv'
  <2>1. UNCHANGED <<main, pc, completed>>
    BY <1>3 DEF Reader, ReaderTop, Open, Acquire, Read, mainVars, workerVars
  <2>2. rpc[r] # "done"
    BY <1>3 DEF Reader, ReaderTop, Open, Acquire, Read
  <2> QED
    BY <2>1, <2>2, <1>0 DEF EndInv
<1>4. CASE (\E t \in Threads : SpuriousWakeup(t)) \/ RequestStop \/ UNCHANGED vars
  <2>1. UNCHANGED <<main, pc, completed, rpc>>
    BY <1>4 DEF SpuriousWakeup, RequestStop, vars, mainVars, workerVars, readerVars
  <2> QED
    BY <2>1, <1>0 DEF EndInv
<1> QED
  BY <1>1, <1>2, <1>3, <1>4 DEF Next

(***************************************************************************)
(* The theorems.                                                           *)
(***************************************************************************)

LEMMA Invariance == Spec => []IInv
<1>1. Init => IInv
  BY TypeInit, ReaderInit, WorkerInit, BytesInit, QueueInit, EndInit DEF IInv
<1>2. IInv /\ [Next]_vars => IInv'
  BY TypeStep, ReaderStep, WorkerStep, BytesStep, QueueStep, EndStep DEF IInv
<1> QED
  BY <1>1, <1>2, PTL DEF Spec

\* Every variable keeps its type: among others the readers' tickets stay within the candidates, the
\* count of running workers within the workers, and the bytes granted are never negative.
THEOREM TypeCorrect == Spec => []TypeOK
<1>1. IInv => TypeOK
  BY DEF IInv
<1> QED
  BY <1>1, Invariance, PTL

\* The staging budget: what is granted is what is held, within the budget but for one file too large
\* for it, and all of it is back when a pool ends without a stop.
THEOREM WithinBudget == Spec => []StagedWithinBudget
<1>1. ASSUME IInv
      PROVE StagedWithinBudget
  <2>0. TypeOK /\ ReaderInv /\ WorkerInv /\ BytesInv /\ EndInv
    BY <1>1 DEF IInv
  <2>1. ASSUME main = "finished", ~stop
        PROVE staged = 0
    <3>1. \A w \in Workers : pc[w] = "done"
      BY <2>0, <2>1 DEF EndInv
    <3>2. nextIndex >= call.count
      <4>1. 0 \in Workers
        BY PoolAssumption DEF Workers
      <4> QED
        BY <4>1, <3>1, <2>0, <2>1 DEF WorkerInv, Exhausted
    <3>3. \A w \in Workers : work[w] = None
      BY <3>1, <2>0 DEF WorkerInv, Busy
    <3>4. \A r \in Readers : rpc[r] = "done"
      BY <2>0, <2>1 DEF EndInv
    <3>5. ASSUME NEW i \in Candidates
          PROVE Held(i) = 0
      <4>1. ~IsRead(i)
        BY <3>4 DEF IsRead
      <4>2. i \in Nat /\ nextIndex \in Nat /\ call.count \in Nat /\ nextTicket =< call.count
            /\ nextTicket \in Nat /\ None \notin Candidates
        BY <2>0, CallFacts, NoneIsNoCandidate DEF TypeOK
      <4>3. CASE i < call.count
        <5>1. i \in analysed
          BY <4>2, <4>3, <3>2, <3>3, <2>0, <2>1 DEF WorkerInv
        <5>2. input[i].granted = 0
          BY <5>1, <2>0 DEF WorkerInv, ReaderInv
        <5> QED
          BY <4>1, <5>2 DEF Held
      <4>4. CASE ~(i < call.count)
        <5>1. ~input[i].ready
          BY <4>2, <4>4, <2>0 DEF ReaderInv
        <5>2. input[i].granted = 0
          BY <5>1, <2>0 DEF ReaderInv, Unread
        <5> QED
          BY <4>1, <5>2 DEF Held
      <4> QED
        BY <4>3, <4>4
    <3>6. Total(AllHeld) = 0
      <4>1. AllHeld \in [Candidates -> Nat] /\ \A i \in Candidates : AllHeld[i] = 0
        BY <3>5, <2>0, HeldType DEF AllHeld
      <4> QED
        BY <4>1, TotalZero
    <3> QED
      BY <3>6, <2>0 DEF BytesInv, AllHeld
  <2> QED
    BY <2>0, <2>1 DEF StagedWithinBudget, BytesInv
<1> QED
  BY <1>1, Invariance, PTL

\* No worker waits for a candidate whose bytes those of later candidates keep out.
THEOREM NobodyStarved == Spec => []NotStarved
<1>1. ASSUME IInv
      PROVE NotStarved
  <2>0. TypeOK /\ ReaderInv /\ WorkerInv
    BY <1>1 DEF IInv
  <2> SUFFICES ASSUME NEW w \in Workers, pc[w] = "await", work[w] >= nextTicket
               PROVE /\ \A i \in Holders : i < work[w]
                     /\ \A i \in 0 .. work[w] - 1 : i \in analysed \/ stop \/ \E v \in Workers : work[v] = i
    BY DEF NotStarved
  <2>1. work[w] \in Nat /\ work[w] < nextIndex /\ work[w] < call.count
    BY <2>0, WorkerBusy DEF Busy
  <2>2. call.count \in Nat /\ nextIndex \in Nat /\ nextTicket \in Nat
        /\ (\A i \in Candidates : i \in Nat) /\ (\A i \in 0 .. call.count - 1 : i \in Candidates)
    BY <2>0, CallFacts DEF TypeOK
  <2>3. ASSUME NEW i \in Holders
        PROVE i < work[w]
    <3>1. i \in Candidates /\ Held(i) > 0
      BY DEF Holders
    <3>2. CASE IsRead(i)
      <4>1. i < nextTicket
        BY <3>2, <2>0, ReaderActive DEF IsRead, Ahead
      <4> QED
        BY <4>1, <3>1, <2>1, <2>2
    <3>3. CASE ~IsRead(i)
      <4>1. input[i].granted > 0
        BY <3>1, <3>3, <2>0 DEF Held, TypeOK, Input
      <4>2. input[i].ready
        BY <4>1, <3>1, <2>0 DEF ReaderInv, Unread
      <4>3. i < nextTicket
        BY <4>2, <3>1, <2>0 DEF ReaderInv
      <4> QED
        BY <4>3, <3>1, <2>1, <2>2
    <3> QED
      BY <3>2, <3>3
  <2>4. ASSUME NEW i \in 0 .. work[w] - 1
        PROVE i \in analysed \/ stop \/ \E v \in Workers : work[v] = i
    <3>1. i \in Candidates /\ i < nextIndex /\ i < call.count
      BY <2>1, <2>2
    <3> QED
      BY <3>1, <2>0 DEF WorkerInv
  <2> QED
    BY <2>3, <2>4
<1> QED
  BY <1>1, Invariance, PTL

(***************************************************************************)
(* The pool implements WorkPool.                                           *)
(***************************************************************************)

LEMMA PoolInit == Init => Pool!Init
<1> SUFFICES ASSUME Init
             PROVE Pool!Init
  OBVIOUS
<1>1. call.count \in Nat /\ call.count > 0
  <2>1. call \in [count : 1 .. MaxCount, staging : BOOLEAN, bounded : BOOLEAN, wakeups : Nat]
    BY PoolAssumption DEF Init
  <2>2. call.count \in 1 .. MaxCount
    BY <2>1
  <2> QED
    BY <2>2, PoolAssumption
<1>2. Taken = 0
  BY <1>1 DEF Init, Taken
<1> QED
  BY <1>1, <1>2 DEF Init, Pool!Init

\* The part of the state that WorkPool sees.
seen == <<call, nextIndex, analysed, delivered, stop>>

LEMMA PoolStutter ==
    ASSUME UNCHANGED seen, main' = "finished" <=> main = "finished"
    PROVE UNCHANGED Pool!pool
BY DEF seen, Pool!pool, Taken

\* The call returns with everything delivered, and unless it was stopped with everything analysed.
LEMMA PoolReturn ==
    ASSUME IInv, main \in {"join", "joinReaders"}, \A w \in Workers : pc[w] = "done",
           UNCHANGED seen, main' = "finished"
    PROVE Pool!Return
<1>0. TypeOK /\ WorkerInv /\ QueueInv /\ EndInv
  BY DEF IInv
<1>1. nextIndex \in Nat /\ call.count \in Nat /\ (\A i \in Candidates : i \in Nat)
      /\ (\A i \in 0 .. call.count - 1 : i \in Candidates) /\ None \notin Candidates
      /\ analysed \subseteq Candidates
  BY <1>0, CallFacts, NoneIsNoCandidate DEF TypeOK
<1>2. Pool!Given = analysed
  <2>1. completed = <<>> /\ taken = None
    BY <1>0 DEF EndInv, QueueInv
  <2>2. Pushed = {} /\ Queued = {}
    BY <2>1 DEF Pushed, Queued
  <2> QED
    BY <2>1, <2>2, <1>0 DEF QueueInv
<1>3. stop \/ analysed = 0 .. call.count - 1
  <2> SUFFICES ASSUME ~stop
               PROVE analysed = 0 .. call.count - 1
    OBVIOUS
  <2>1. nextIndex >= call.count
    <3>1. 0 \in Workers
      BY PoolAssumption DEF Workers
    <3> QED
      BY <3>1, <1>0 DEF WorkerInv, Exhausted
  <2>2. \A w \in Workers : work[w] = None
    BY <1>0 DEF WorkerInv, Busy
  <2>3. ASSUME NEW i \in 0 .. call.count - 1
        PROVE i \in analysed
    <3>1. i \in Candidates /\ i < nextIndex /\ i < call.count /\ i # None
      BY <2>1, <1>1
    <3> QED
      BY <3>1, <2>2, <1>0 DEF WorkerInv
  <2>4. ASSUME NEW i \in analysed
        PROVE i \in 0 .. call.count - 1
    BY <1>0, <1>1 DEF WorkerInv
  <2> QED
    BY <2>3, <2>4
<1>4. UNCHANGED <<call.count, Taken, analysed, delivered, stop>>
  BY DEF seen, Taken
<1> QED
  BY <1>2, <1>3, <1>4 DEF Pool!Return

LEMMA PoolAnalyse ==
    ASSUME IInv, NEW w \in Workers, pc[w] \in Busy, pc[w] # "push",
           analysed' = analysed \union {work[w]}, UNCHANGED <<call, stop, nextIndex, delivered, main>>
    PROVE work[w] \in 0 .. call.count - 1 /\ Pool!Analyse(work[w])
<1>0. TypeOK /\ WorkerInv /\ EndInv
  BY DEF IInv
<1>1. work[w] \in Nat /\ work[w] < nextIndex /\ work[w] < call.count /\ work[w] \notin analysed
      /\ nextIndex \in Nat /\ call.count \in Nat
  BY <1>0, WorkerBusy, CallFacts DEF TypeOK
<1>2. main # "finished"
  BY <1>0 DEF EndInv, Busy
<1>3. work[w] \in 0 .. Taken - 1
  BY <1>1 DEF Taken
<1>4. UNCHANGED <<call.count, Taken, delivered, stop>> /\ main' = main
  BY DEF Taken
<1> QED
  BY <1>1, <1>2, <1>3, <1>4 DEF Pool!Analyse

LEMMA PoolStep ==
    ASSUME IInv, [Next]_vars
    PROVE [Pool!Next]_Pool!pool
<1>0. TypeOK /\ WorkerInv /\ QueueInv /\ EndInv /\ None \notin Candidates
  BY NoneIsNoCandidate DEF IInv
<1>c. call.count \in Nat /\ nextIndex \in Nat
  BY <1>0, CallFacts DEF TypeOK
<1>1. ASSUME NEW w \in Workers, Worker(w)
      PROVE [Pool!Next]_Pool!pool
  <2>1. CASE Top(w) \/ Park(w) \/ Await(w) \/ Push(w) \/ Leave(w) \/ Notify(w) \/ Sleep(w)
    <3>1. UNCHANGED seen /\ main' = main
      BY <2>1 DEF Top, Park, Await, Push, Leave, Notify, Sleep, seen, mainVars, workerVars
    <3> QED
      BY <3>1, PoolStutter
  <2>2. CASE Claim(w)
    <3>1. UNCHANGED <<call, analysed, delivered, stop, main>> /\ nextIndex' = nextIndex + 1
          /\ pc[w] = "claim"
      BY <2>2 DEF Claim, mainVars
    <3>2. CASE nextIndex < call.count
      <4>1. Taken < call.count /\ Taken' = Taken + 1
        BY <3>1, <3>2, <1>c DEF Taken
      <4>2. main # "finished"
        BY <3>1, <1>0 DEF EndInv
      <4>3. Pool!Claim
        BY <4>1, <4>2, <3>1 DEF Pool!Claim
      <4> QED
        BY <4>3 DEF Pool!Next
    <3>3. CASE ~(nextIndex < call.count)
      <4>1. Taken' = Taken
        BY <3>1, <3>3, <1>c DEF Taken
      <4> QED
        BY <4>1, <3>1 DEF Pool!pool
    <3> QED
      BY <3>2, <3>3
  <2>3. CASE DecodeStaged(w)
    <3>1. UNCHANGED <<call, stop, nextIndex, delivered, main>> /\ pc[w] = "decode"
      BY <2>3 DEF DecodeStaged, mainVars
    <3>2. CASE analysed' = analysed \union {work[w]}
      <4>1. work[w] \in 0 .. call.count - 1 /\ Pool!Analyse(work[w])
        BY <3>1, <3>2, PoolAnalyse DEF Busy
      <4> QED
        BY <4>1 DEF Pool!Next
    <3>3. CASE UNCHANGED analysed
      BY <3>1, <3>3, PoolStutter DEF seen
    <3> QED
      BY <2>3, <3>2, <3>3 DEF DecodeStaged
  <2>4. CASE DecodePath(w)
    <3>1. UNCHANGED <<call, stop, nextIndex, delivered, main>> /\ pc[w] \in {"path", "retry"}
          /\ analysed' = analysed \union {work[w]}
      BY <2>4 DEF DecodePath, mainVars
    <3>2. work[w] \in 0 .. call.count - 1 /\ Pool!Analyse(work[w])
      BY <3>1, PoolAnalyse DEF Busy
    <3> QED
      BY <3>2 DEF Pool!Next
  <2> QED
    BY <1>1, <2>1, <2>2, <2>3, <2>4 DEF Worker
<1>2. CASE Caller
  <2>1. CASE Check \/ NotifyGate \/ Close \/ Sleep(Main)
    <3>1. UNCHANGED seen /\ (main' = "finished" <=> main = "finished")
      BY <2>1 DEF Check, NotifyGate, Close, Sleep, seen, mainVars, workerVars
    <3> QED
      BY <3>1, PoolStutter
  <2>2. CASE Complete
    <3>1. main = "complete" /\ main' # "finished" /\ delivered' = Append(delivered, taken)
          /\ UNCHANGED <<call, stop, nextIndex, analysed>>
      BY <2>2 DEF Complete, Record, workerVars
    <3>2. taken \in analysed \ Pool!Given /\ taken # None
      BY <3>1, <1>0 DEF QueueInv
    <3>3. taken \in 0 .. call.count - 1
      <4>1. taken \in Candidates /\ taken < call.count
        BY <3>2, <1>0 DEF WorkerInv, TypeOK
      <4>2. taken \in Nat
        BY <4>1, <1>0, CallFacts
      <4> QED
        BY <4>1, <4>2, <1>c
    <3>4. Taken' = Taken
      BY <3>1 DEF Taken
    <3>5. Pool!Deliver(taken)
      BY <3>1, <3>2, <3>4 DEF Pool!Deliver
    <3> QED
      BY <3>3, <3>5 DEF Pool!Next
  <2>3. CASE Join \/ JoinReaders
    <3>1. UNCHANGED seen /\ main \in {"join", "joinReaders"} /\ (\A w \in Workers : pc[w] = "done")
      BY <2>3, <1>0 DEF Join, JoinReaders, seen, workerVars, EndInv
    <3>2. CASE main' = "finished"
      <4>1. Pool!Return
        BY <3>1, <3>2, PoolReturn
      <4> QED
        BY <4>1 DEF Pool!Next
    <3>3. CASE main' # "finished"
      BY <3>1, <3>3, PoolStutter
    <3> QED
      BY <3>2, <3>3
  <2> QED
    BY <1>2, <2>1, <2>2, <2>3 DEF Caller
<1>3. ASSUME NEW r \in Readers, Reader(r)
      PROVE [Pool!Next]_Pool!pool
  <2>1. UNCHANGED seen /\ main' = main
    BY <1>3 DEF Reader, ReaderTop, Open, Acquire, Read, seen, mainVars, workerVars
  <2> QED
    BY <2>1, PoolStutter
<1>4. CASE RequestStop
  <2>1. stop' = TRUE /\ UNCHANGED <<call, nextIndex, analysed, delivered, main>>
    BY <1>4 DEF RequestStop, mainVars, workerVars
  <2>2. Taken' = Taken
    BY <2>1 DEF Taken
  <2>3. Pool!Stop
    BY <2>1, <2>2 DEF Pool!Stop
  <2> QED
    BY <2>3 DEF Pool!Next
<1>5. CASE (\E t \in Threads : SpuriousWakeup(t)) \/ UNCHANGED vars
  <2>1. UNCHANGED seen /\ main' = main
    BY <1>5 DEF SpuriousWakeup, vars, seen, mainVars, workerVars
  <2> QED
    BY <2>1, PoolStutter
<1> QED
  BY <1>1, <1>2, <1>3, <1>4, <1>5 DEF Next

\* Whatever the threads, the queue, the gate and the staging do, the caller sees WorkPool: candidates
\* taken in order, each analysis delivered once, and a return with all of them delivered.
THEOREM PoolImplemented == Spec => DeliversOnce
<1>1. Init => Pool!Init
  BY PoolInit
<1>2. IInv /\ [Next]_vars => [Pool!Next]_Pool!pool
  BY PoolStep
<1> QED
  BY <1>1, <1>2, Invariance, PTL DEF Spec, DeliversOnce, Pool!Spec
=============================================================================
