----------------------- MODULE SearchIndexing_proofs -----------------------
(***************************************************************************)
(* Proofs about SearchIndexing, for any queries with any matches, any      *)
(* number of batches and any bounds.                                       *)
(***************************************************************************)
EXTENDS SearchIndexing, TLAPS

----------------------------------------------------------------------------
(* The records of the worker and of the view, with fields changed. *)

Ats == {"idle", "verify", "matching"}
Modes == {"foreground", "background"}

LEMMA Blank == /\ Batches \in Nat \ {0} /\ MaxRevision \in Nat \ {0} /\ 0 \in Revisions
               /\ None \notin Revisions /\ <<>> \in Seq(Records) /\ 0 \in 0 .. Batches
BY SearchAssumption DEF Revisions, None

LEMMA WorkerFields ==
    ASSUME NEW w \in Worker
    PROVE  /\ w.gen \in Nat /\ w.age \in Nat /\ w.index \in Seq(Records)
           /\ w.staging \in Seq(Records) /\ w.snapshot \in Revisions \union {None}
           /\ w.read \in 0 .. Batches /\ w.sig \in Revisions /\ w.pending \in BOOLEAN
           /\ w.mode \in Modes /\ w.at \in Ats /\ w.asked \in {<<>>} \union (Nat \X Queries)
BY DEF Worker, Modes, Ats

LEMMA WorkerSuperseded ==
    ASSUME NEW w \in Worker
    PROVE  LET u == Superseded(w)
           IN  /\ u \in Worker /\ u.gen = w.gen + 1 /\ u.pending = FALSE /\ u.snapshot = None
               /\ u.read = 0 /\ u.staging = <<>> /\ u.index = w.index /\ u.age = w.age
               /\ u.sig = w.sig /\ u.mode = w.mode /\ u.at = w.at /\ u.asked = w.asked
<1>1. w.gen + 1 \in Nat
  BY WorkerFields
<1>2. \A g \in Nat : [w EXCEPT !.gen = g, !.pending = FALSE, !.snapshot = None, !.read = 0,
                               !.staging = <<>>] \in Worker
  BY Blank, Zenon DEF Worker
<1>3. Superseded(w) = [w EXCEPT !.gen = w.gen + 1, !.pending = FALSE, !.snapshot = None,
                                !.read = 0, !.staging = <<>>]
  BY Zenon DEF Superseded
<1>4. Superseded(w) \in Worker
  BY <1>1, <1>2, <1>3, Zenon
<1> QED
  BY <1>3, <1>4 DEF Worker

Warmed(w, s, a, r) == [w EXCEPT !.index = s, !.age = a, !.sig = r, !.at = "verify"]

LEMMA WorkerLoaded ==
    ASSUME NEW w \in Worker, NEW s \in Seq(Records), NEW a \in Nat, NEW r \in Revisions
    PROVE  LET u == Warmed(w, s, a, r)
           IN  /\ u \in Worker /\ u.index = s /\ u.age = a /\ u.sig = r /\ u.at = "verify"
               /\ u.gen = w.gen /\ u.pending = w.pending /\ u.snapshot = w.snapshot
               /\ u.read = w.read /\ u.staging = w.staging /\ u.mode = w.mode
               /\ u.asked = w.asked
<1>1. Warmed(w, s, a, r) \in Worker
  BY Zenon DEF Worker, Warmed
<1> QED
  BY <1>1 DEF Worker, Warmed

\* The worker as it begins to stream.
Begun(w, g, r, a) == [w EXCEPT !.gen = g, !.sig = r, !.snapshot = r, !.read = 0, !.age = a]
Streamed(w, s, m) == [w EXCEPT !.index = s, !.mode = m]

BegunFrom(u, w, g, r, a) ==
    /\ u \in Worker /\ u.gen = g /\ u.sig = r /\ u.snapshot = r /\ u.read = 0
    /\ u.age = a /\ u.pending = w.pending /\ u.staging = w.staging
    /\ u.at = w.at /\ u.asked = w.asked

LEMMA WorkerBegins ==
    ASSUME NEW w \in Worker, NEW g \in Nat, NEW r \in Revisions, NEW a \in Nat
    PROVE  BegunFrom(Begun(w, g, r, a), w, g, r, a)
<1>1. r \in Revisions \union {None}
  OBVIOUS
<1>2. Begun(w, g, r, a) \in Worker
  BY <1>1, Blank, Zenon DEF Worker, Begun
<1> QED
  BY <1>2 DEF Worker, Begun, BegunFrom

LEMMA WorkerStreams ==
    ASSUME NEW w \in Worker, NEW s \in Seq(Records), NEW m \in Modes
    PROVE  LET u == Streamed(w, s, m)
           IN  /\ u \in Worker /\ u.index = s /\ u.mode = m /\ u.gen = w.gen
               /\ u.sig = w.sig /\ u.snapshot = w.snapshot /\ u.read = w.read
               /\ u.age = w.age /\ u.pending = w.pending /\ u.staging = w.staging
               /\ u.at = w.at /\ u.asked = w.asked
<1>1. Streamed(w, s, m) \in Worker
  BY Zenon DEF Worker, Modes, Streamed
<1> QED
  BY <1>1 DEF Worker, Streamed

Done(w, s, a) == [w EXCEPT !.snapshot = None, !.read = 0, !.staging = <<>>,
                             !.index = s, !.age = a]

DoneFrom(u, w, s, a) ==
    /\ u \in Worker /\ u.snapshot = None /\ u.read = 0 /\ u.staging = <<>>
    /\ u.index = s /\ u.age = a /\ u.gen = w.gen /\ u.pending = w.pending
    /\ u.sig = w.sig /\ u.mode = w.mode /\ u.at = w.at /\ u.asked = w.asked

LEMMA WorkerDone ==
    ASSUME NEW w \in Worker, NEW s \in Seq(Records), NEW a \in Nat
    PROVE  DoneFrom(Done(w, s, a), w, s, a)
<1>1. Done(w, s, a) \in Worker
  BY Blank, Zenon DEF Worker, Done
<1> QED
  BY <1>1 DEF Worker, Done, DoneFrom

Grown(w, n, a, s) == [w EXCEPT !.read = n, !.age = a, !.index = s]
Staged(w, n, s) == [w EXCEPT !.read = n, !.staging = s]
Failed(w) == [w EXCEPT !.snapshot = None, !.read = 0, !.staging = <<>>]

GrownFrom(u, w, n, a, s) ==
    /\ u \in Worker /\ u.read = n /\ u.age = a /\ u.index = s /\ u.gen = w.gen
    /\ u.pending = w.pending /\ u.snapshot = w.snapshot /\ u.staging = w.staging
    /\ u.sig = w.sig /\ u.mode = w.mode /\ u.at = w.at /\ u.asked = w.asked

LEMMA WorkerGrown ==
    ASSUME NEW w \in Worker, NEW s \in Seq(Records), NEW a \in Nat, NEW n \in 0 .. Batches
    PROVE  GrownFrom(Grown(w, n, a, s), w, n, a, s)
<1>1. Grown(w, n, a, s) \in Worker
  BY Zenon DEF Worker, Grown
<1> QED
  BY <1>1 DEF Worker, Grown, GrownFrom

StagedFrom(u, w, n, s) ==
    /\ u \in Worker /\ u.read = n /\ u.age = w.age /\ u.index = w.index
    /\ u.gen = w.gen /\ u.pending = w.pending /\ u.snapshot = w.snapshot
    /\ u.staging = s /\ u.sig = w.sig /\ u.mode = w.mode /\ u.at = w.at
    /\ u.asked = w.asked

LEMMA WorkerStaged ==
    ASSUME NEW w \in Worker, NEW s \in Seq(Records), NEW n \in 0 .. Batches
    PROVE  StagedFrom(Staged(w, n, s), w, n, s)
<1>1. Staged(w, n, s) \in Worker
  BY Zenon DEF Worker, Staged
<1> QED
  BY <1>1 DEF Worker, Staged, StagedFrom

LEMMA WorkerFailed ==
    ASSUME NEW w \in Worker
    PROVE  LET u == Failed(w)
           IN  /\ u \in Worker /\ u.snapshot = None /\ u.read = 0 /\ u.staging = <<>>
               /\ u.index = w.index /\ u.age = w.age /\ u.gen = w.gen
               /\ u.pending = w.pending /\ u.sig = w.sig /\ u.mode = w.mode
               /\ u.at = w.at /\ u.asked = w.asked
<1>1. Failed(w) \in Worker
  BY Blank, Zenon DEF Worker, Failed
<1> QED
  BY <1>1 DEF Worker, Failed

LEMMA WorkerPends ==
    ASSUME NEW w \in Worker, NEW b \in BOOLEAN
    PROVE  LET u == [w EXCEPT !.pending = b]
           IN  /\ u \in Worker /\ u.pending = b /\ u.index = w.index /\ u.age = w.age
               /\ u.gen = w.gen /\ u.snapshot = w.snapshot /\ u.staging = w.staging
               /\ u.sig = w.sig /\ u.mode = w.mode /\ u.at = w.at /\ u.asked = w.asked
               /\ u.read = w.read
<1>1. [w EXCEPT !.pending = b] \in Worker
  BY Zenon DEF Worker
<1> QED
  BY <1>1 DEF Worker

LEMMA WorkerIdles ==
    ASSUME NEW w \in Worker
    PROVE  LET u == [w EXCEPT !.at = "idle"]
           IN  /\ u \in Worker /\ u.at = "idle" /\ u.index = w.index /\ u.age = w.age
               /\ u.gen = w.gen /\ u.snapshot = w.snapshot /\ u.staging = w.staging
               /\ u.sig = w.sig /\ u.mode = w.mode /\ u.pending = w.pending
               /\ u.asked = w.asked /\ u.read = w.read
<1>1. [w EXCEPT !.at = "idle"] \in Worker
  BY Zenon DEF Worker
<1> QED
  BY <1>1 DEF Worker

Asked(w, t, c) == [w EXCEPT !.at = t, !.asked = c]

AskedFrom(u, w, t, c) ==
    /\ u \in Worker /\ u.at = t /\ u.asked = c /\ u.index = w.index
    /\ u.age = w.age /\ u.gen = w.gen /\ u.snapshot = w.snapshot
    /\ u.staging = w.staging /\ u.sig = w.sig /\ u.mode = w.mode
    /\ u.pending = w.pending /\ u.read = w.read

LEMMA WorkerAsked ==
    ASSUME NEW w \in Worker, NEW t \in Ats, NEW c \in {<<>>} \union (Nat \X Queries)
    PROVE  AskedFrom(Asked(w, t, c), w, t, c)
<1>1. Asked(w, t, c) \in Worker
  BY Zenon DEF Worker, Ats, Asked
<1> QED
  BY <1>1 DEF Worker, Asked, AskedFrom

Cleared(w, a) == [w EXCEPT !.index = <<>>, !.age = a]

LEMMA WorkerCleared ==
    ASSUME NEW w \in Worker, NEW a \in Nat
    PROVE  LET u == Cleared(w, a)
           IN  /\ u \in Worker /\ u.at = w.at /\ u.asked = w.asked /\ u.index = <<>>
               /\ u.age = a /\ u.gen = w.gen /\ u.snapshot = w.snapshot
               /\ u.staging = w.staging /\ u.sig = w.sig /\ u.mode = w.mode
               /\ u.pending = w.pending /\ u.read = w.read
<1>1. Cleared(w, a) \in Worker
  BY Blank, Zenon DEF Worker, Cleared
<1> QED
  BY <1>1 DEF Worker, Cleared

LEMMA ViewFields ==
    ASSUME NEW v \in View
    PROVE  /\ v.loaded \in BOOLEAN /\ v.streaming \in BOOLEAN /\ v.visible \in BOOLEAN
           /\ v.released \in BOOLEAN /\ v.id \in Nat /\ v.text \in Queries
           /\ v.debounce \in BOOLEAN /\ v.rerun \in BOOLEAN /\ v.shown \in SUBSET Records
BY DEF View

\* What a query depends on.
Same(v, u) == /\ u.loaded = v.loaded /\ u.id = v.id /\ u.text = v.text
              /\ u.debounce = v.debounce /\ u.rerun = v.rerun /\ u.shown = v.shown

LEMMA ViewNumbered ==
    ASSUME NEW v \in View, NEW n \in Nat
    PROVE  LET u == [v EXCEPT !.id = n]
           IN  /\ u \in View /\ u.id = n /\ u.loaded = v.loaded /\ u.text = v.text
               /\ u.debounce = v.debounce /\ u.rerun = v.rerun /\ u.shown = v.shown
<1>1. [v EXCEPT !.id = n] \in View
  BY Zenon DEF View
<1> QED
  BY <1>1 DEF View

TypedFrom(u, v, n, q) ==
    /\ u \in View /\ u.id = n /\ u.loaded = v.loaded /\ u.text = q
    /\ u.debounce /\ u.rerun = v.rerun /\ u.shown = v.shown

LEMMA ViewTyped ==
    ASSUME NEW v \in View, NEW n \in Nat, NEW q \in Queries
    PROVE  TypedFrom([v EXCEPT !.text = q, !.id = n, !.debounce = TRUE], v, n, q)
<1>1. [v EXCEPT !.text = q, !.id = n, !.debounce = TRUE] \in View
  BY Zenon DEF View
<1> QED
  BY <1>1 DEF View, TypedFrom

LEMMA ViewFlags ==
    ASSUME NEW v \in View
    PROVE  /\ LET u == [v EXCEPT !.debounce = FALSE]
              IN  /\ u \in View /\ u.loaded = v.loaded /\ u.id = v.id /\ u.text = v.text
                  /\ u.debounce = FALSE /\ u.rerun = v.rerun /\ u.shown = v.shown
           /\ LET u == [v EXCEPT !.rerun = FALSE]
              IN  /\ u \in View /\ u.loaded = v.loaded /\ u.id = v.id /\ u.text = v.text
                  /\ u.debounce = v.debounce /\ u.rerun = FALSE /\ u.shown = v.shown
           /\ LET u == [v EXCEPT !.rerun = TRUE]
              IN  /\ u \in View /\ u.loaded = v.loaded /\ u.id = v.id /\ u.text = v.text
                  /\ u.debounce = v.debounce /\ u.rerun = TRUE /\ u.shown = v.shown
           /\ LET u == [v EXCEPT !.loaded = TRUE]
              IN  /\ u \in View /\ u.loaded = TRUE /\ u.id = v.id /\ u.text = v.text
                  /\ u.debounce = v.debounce /\ u.rerun = v.rerun /\ u.shown = v.shown
           /\ LET u == [v EXCEPT !.loaded = TRUE, !.streaming = FALSE, !.rerun = FALSE]
              IN  /\ u \in View /\ u.loaded = TRUE /\ u.id = v.id /\ u.text = v.text
                  /\ u.debounce = v.debounce /\ u.rerun = FALSE /\ u.shown = v.shown
           /\ LET u == [v EXCEPT !.streaming = FALSE, !.rerun = FALSE]
              IN  /\ u \in View /\ u.loaded = v.loaded /\ u.id = v.id /\ u.text = v.text
                  /\ u.debounce = v.debounce /\ u.rerun = FALSE /\ u.shown = v.shown
<1>1. /\ [v EXCEPT !.debounce = FALSE] \in View /\ [v EXCEPT !.rerun = TRUE] \in View
      /\ [v EXCEPT !.rerun = FALSE] \in View /\ [v EXCEPT !.loaded = TRUE] \in View
  BY Zenon DEF View
<1>2. /\ [v EXCEPT !.loaded = TRUE, !.streaming = FALSE, !.rerun = FALSE] \in View
      /\ [v EXCEPT !.streaming = FALSE, !.rerun = FALSE] \in View
  BY Zenon DEF View
<1> QED
  BY <1>1, <1>2 DEF View

LEMMA ViewShows ==
    ASSUME NEW v \in View, NEW s \in SUBSET Records
    PROVE  LET u == [v EXCEPT !.shown = s]
           IN  /\ u \in View /\ u.loaded = v.loaded /\ u.id = v.id /\ u.text = v.text
               /\ u.debounce = v.debounce /\ u.rerun = v.rerun /\ u.shown = s
<1>1. [v EXCEPT !.shown = s] \in View
  BY Zenon DEF View
<1> QED
  BY <1>1 DEF View

LEMMA ViewHides ==
    ASSUME NEW v \in View
    PROVE  /\ LET u == [v EXCEPT !.loaded = FALSE, !.streaming = TRUE]
              IN  u \in View /\ u.loaded = FALSE /\ u.id = v.id /\ u.text = v.text
           /\ LET u == [v EXCEPT !.visible = FALSE] IN u \in View /\ Same(v, u)
           /\ LET u == [v EXCEPT !.released = TRUE, !.loaded = FALSE, !.streaming = FALSE,
                                 !.rerun = FALSE, !.shown = {}]
              IN  u \in View /\ u.loaded = FALSE /\ u.id = v.id /\ u.text = v.text
           /\ LET u == [v EXCEPT !.visible = TRUE, !.released = FALSE]
              IN u \in View /\ Same(v, u)
           /\ LET u == [v EXCEPT !.visible = TRUE, !.released = FALSE, !.streaming = TRUE]
              IN u \in View /\ Same(v, u)
<1>1. /\ [v EXCEPT !.loaded = FALSE, !.streaming = TRUE] \in View
      /\ [v EXCEPT !.visible = FALSE] \in View
      /\ [v EXCEPT !.visible = TRUE, !.released = FALSE] \in View
      /\ [v EXCEPT !.visible = TRUE, !.released = FALSE, !.streaming = TRUE] \in View
  BY Zenon DEF View
<1>2. [v EXCEPT !.released = TRUE, !.loaded = FALSE, !.streaming = FALSE,
                !.rerun = FALSE, !.shown = {}] \in View
  BY Zenon DEF View
<1> QED
  BY <1>1, <1>2 DEF View, Same

\* submitQuery().
LEMMA Submits ==
    ASSUME NEW v \in View, Submit(v)
    PROVE  /\ view' \in View
           /\ Same(v, view') \/ v.loaded
           /\ v.loaded => /\ view'.loaded /\ view'.id = v.id + 1 /\ view'.text = v.text
                          /\ view'.debounce = v.debounce /\ view'.rerun = v.rerun
                          /\ latest' = v.id + 1
                          /\ calls' = Append(calls, [type |-> "query", id |-> v.id + 1,
                                                     query |-> v.text])
           /\ ~v.loaded => view' = v /\ UNCHANGED <<latest, calls>>
<1>1. v.id + 1 \in Nat
  BY ViewFields
<1>2. CASE v.loaded
  <2>1. view' = [v EXCEPT !.id = v.id + 1] /\ latest' = v.id + 1
        /\ calls' = Append(calls, [type |-> "query", id |-> v.id + 1, query |-> v.text])
    BY <1>2, Zenon DEF Submit, Call
  <2> DEFINE u == [v EXCEPT !.id = v.id + 1]
  <2>2. u \in View /\ u.id = v.id + 1 /\ u.loaded = v.loaded /\ u.text = v.text
        /\ u.debounce = v.debounce /\ u.rerun = v.rerun /\ u.shown = v.shown
    BY <1>1, ViewNumbered, Zenon
  <2>3. view' = u
    BY <2>1
  <2> HIDE DEF u
  <2> QED
    BY <1>2, <2>1, <2>2, <2>3
<1>3. CASE ~v.loaded
  <2>1. view' = v /\ UNCHANGED <<latest, calls>>
    BY <1>3, Zenon DEF Submit
  <2> QED
    BY <1>3, <2>1 DEF Same
<1> QED
  BY <1>2, <1>3

LEMMA Messages ==
    /\ \A b \in BOOLEAN : [type |-> "build", force |-> b] \in Calls
    /\ \A g \in Nat : [type |-> "rebuild", gen |-> g] \in Calls
                      /\ [type |-> "chunk", gen |-> g] \in Calls
    /\ \A n \in Nat, q \in Queries : [type |-> "query", id |-> n, query |-> q] \in Calls
    /\ [type |-> "clear"] \in Calls /\ [type |-> "written"] \in Calls
    /\ \A t \in {"grew", "loaded", "refreshed", "error"} : [type |-> t] \in Posts
    /\ \A n \in Nat, s \in SUBSET Records :
           [type |-> "results", id |-> n, records |-> s] \in Posts
    /\ \A c \in Calls : /\ c.type = "build" => c.force \in BOOLEAN
                        /\ c.type \in {"rebuild", "chunk"} => c.gen \in Nat
                        /\ c.type = "query" => c.id \in Nat /\ c.query \in Queries
    /\ \A p \in Posts : p.type = "results" => p.id \in Nat /\ p.records \in SUBSET Records
<1>1. /\ \A b \in BOOLEAN : [type |-> "build", force |-> b] \in Calls
      /\ \A g \in Nat : [type |-> "rebuild", gen |-> g] \in Calls
                        /\ [type |-> "chunk", gen |-> g] \in Calls
      /\ \A n \in Nat, q \in Queries : [type |-> "query", id |-> n, query |-> q] \in Calls
      /\ [type |-> "clear"] \in Calls /\ [type |-> "written"] \in Calls
  BY DEF Calls
<1>2. /\ \A t \in {"grew", "loaded", "refreshed", "error"} : [type |-> t] \in Posts
      /\ \A n \in Nat, s \in SUBSET Records :
             [type |-> "results", id |-> n, records |-> s] \in Posts
  BY DEF Posts
<1>3. \A c \in Calls : /\ c.type = "build" => c.force \in BOOLEAN
                       /\ c.type \in {"rebuild", "chunk"} => c.gen \in Nat
                       /\ c.type = "query" => c.id \in Nat /\ c.query \in Queries
  BY DEF Calls
<1>4. \A p \in Posts : p.type = "results" => p.id \in Nat /\ p.records \in SUBSET Records
  BY DEF Posts
<1> QED
  BY <1>1, <1>2, <1>3, <1>4

----------------------------------------------------------------------------
(* The index is the beginning of one snapshot. *)

Part(r, n) == [i \in 1 .. n |-> <<r, i>>]
IsPart(s) == \E r \in Revisions, n \in 0 .. Batches : s = Part(r, n)

LEMMA Parts ==
    ASSUME NEW r \in Revisions, NEW n \in 0 .. Batches
    PROVE  /\ Part(r, n) \in Seq(Records) /\ Len(Part(r, n)) = n
           /\ n = 0 => Part(r, n) = <<>>
           /\ IsPrefix(Part(r, n), Content(r))
           /\ n < Batches => Append(Part(r, n), <<r, n + 1>>) = Part(r, n + 1)
                             /\ n + 1 \in 0 .. Batches
<1>1. \A i \in 1 .. n : <<r, i>> \in Records
  BY Blank DEF Records
<1>2. Part(r, n) \in Seq(Records) /\ Len(Part(r, n)) = n
  BY <1>1, Blank DEF Part
<1>3. n = 0 => Part(r, n) = <<>>
  BY DEF Part
<1>4. ASSUME n < Batches PROVE Append(Part(r, n), <<r, n + 1>>) = Part(r, n + 1)
                               /\ n + 1 \in 0 .. Batches
  BY <1>2, <1>4, Blank DEF Part
<1>5. IsPrefix(Part(r, n), Content(r))
  <2>1. Content(r) \in Seq(Records) /\ Len(Content(r)) = Batches
    BY Blank DEF Content, Records
  <2>2. SubSeq(Part(r, n), 1, n) = Part(r, n)
    BY <1>2
  <2>3. SubSeq(Content(r), 1, n) = Part(r, n)
    BY <2>1, Blank DEF Content, Part
  <2> QED
    BY <1>2, <2>1, <2>2, <2>3, Blank DEF IsPrefix
<1> QED
  BY <1>2, <1>3, <1>4, <1>5

LEMMA Whole == \A r \in Revisions : /\ Part(r, Batches) = Content(r)
                                    /\ Content(r) \in Seq(Records) /\ IsPart(Content(r))
<1>1. \A r \in Revisions : Part(r, Batches) = Content(r)
  BY Blank DEF Part, Content
<1>2. Batches \in 0 .. Batches
  BY Blank
<1> QED
  BY <1>1, <1>2, Parts DEF IsPart

\* The worker's index and staged index are each the beginning of one snapshot; a cache it
\* still has to write belongs to the signature it will have.
Sound(w) ==
    /\ IsPart(w.index)
    /\ w.pending => w.snapshot = None /\ w.index = Content(w.sig)
    /\ w.snapshot = None => w.staging = <<>>
    /\ w.snapshot # None =>
           /\ w.sig = w.snapshot
           /\ w.mode = "foreground" => w.index = Part(w.snapshot, w.read) /\ w.staging = <<>>
           /\ w.mode = "background" => w.staging = Part(w.snapshot, w.read)
    /\ w.at = "matching" => w.asked # <<>>

Signed(wr) == wr.on \/ wr.prepared => wr.records = Content(wr.sig)

IndexInv == Sound(worker) /\ Signed(writer) /\ CacheIsTruthful

LEMMA SoundSuperseded ==
    ASSUME NEW w \in Worker, Sound(w)
    PROVE  LET u == Superseded(w)
           IN  u \in Worker /\ Sound(u) /\ u.snapshot = None /\ u.pending = FALSE
<1> DEFINE u == Superseded(w)
<1>1. /\ u \in Worker /\ u.pending = FALSE /\ u.snapshot = None /\ u.staging = <<>>
      /\ u.index = w.index /\ u.at = w.at /\ u.asked = w.asked
  BY WorkerSuperseded
<1> HIDE DEF u
<1>2. Sound(u)
  BY <1>1 DEF Sound
<1> QED
  BY <1>1, <1>2 DEF u

LEMMA InitIndex == Init => TypeOK /\ IndexInv
<1> SUFFICES ASSUME Init PROVE TypeOK /\ IndexInv
  OBVIOUS
<1>1. PICK q \in Queries :
           /\ worker = [at |-> "idle", gen |-> 0, mode |-> "foreground", index |-> <<>>, age |-> 0,
                        staging |-> <<>>, snapshot |-> None, read |-> 0, sig |-> 0,
                        pending |-> FALSE, asked |-> <<>>]
           /\ narrow = [valid |-> FALSE, query |-> q, age |-> 0, matches |-> {}]
           /\ view = [loaded |-> FALSE, streaming |-> TRUE,
                      visible |-> TRUE, released |-> FALSE, id |-> 0, text |-> q,
                      debounce |-> FALSE, rerun |-> FALSE, shown |-> {}]
  BY Zenon DEF Init
<1>2. /\ revision \in Revisions /\ writer = NoWriter /\ latest = 0 /\ posts = <<>>
      /\ calls = <<[type |-> "build", force |-> FALSE]>>
      /\ used = [typed |-> 0, events |-> 0, failed |-> FALSE]
      /\ cache = NoCache \/ \E r \in 0 .. revision :
             cache = [ours |-> TRUE, sig |-> r, records |-> Content(r)]
  BY Zenon DEF Init
<1>3. worker \in Worker /\ narrow \in Narrow /\ view \in View
  BY <1>1, Blank DEF Worker, Narrow, View
<1>4. \A r \in 0 .. revision : r \in Revisions
  BY <1>2, Blank DEF Revisions
<1>5. cache \in Cache /\ CacheIsTruthful
  <2>1. CASE cache = NoCache
    BY <2>1, Blank DEF NoCache, Cache, CacheIsTruthful
  <2>2. ASSUME NEW r \in 0 .. revision, cache = [ours |-> TRUE, sig |-> r, records |-> Content(r)]
        PROVE  cache \in Cache /\ CacheIsTruthful
    <3>1. r \in Revisions /\ Content(r) \in Seq(Records)
      BY <1>4, Whole
    <3> QED
      BY <2>2, <3>1 DEF Cache, CacheIsTruthful
  <2> QED
    BY <1>2, <2>1, <2>2
<1>6. writer \in Writer /\ Signed(writer)
  BY <1>2, Blank DEF NoWriter, Writer, Signed
<1>7. calls \in Seq(Calls) /\ posts \in Seq(Posts) /\ used \in Used /\ latest \in Nat
  <2>1. calls \in Seq(Calls) /\ posts \in Seq(Posts)
    <3>1. [type |-> "build", force |-> FALSE] \in Calls
      BY Messages
    <3> QED
      BY <1>2, <3>1
  <2>2. used \in Used
    BY <1>2, SearchAssumption DEF Used
  <2> QED
    BY <1>2, <2>1, <2>2
<1>8. Sound(worker)
  <2>1. IsPart(<<>>)
    BY Parts, Blank DEF IsPart
  <2> QED
    BY <1>1, <2>1 DEF Sound
<1> QED
  BY <1>2, <1>3, <1>5, <1>6, <1>7, <1>8 DEF TypeOK, IndexInv

LEMMA Events == used \in Used /\ (\E b \in BOOLEAN : Event(b)) => used' \in Used
<1> SUFFICES ASSUME used \in Used, NEW b \in BOOLEAN, Event(b) PROVE used' \in Used
  BY Zenon
<1>1. used.events < MaxEvents /\ used' = [used EXCEPT !.events = @ + 1, !.failed = @ \/ b]
  BY Zenon DEF Event
<1>2. used.events + 1 \in 0 .. MaxEvents /\ (used.failed \/ b) \in BOOLEAN
  BY <1>1, SearchAssumption DEF Used
<1>3. \A e \in 0 .. MaxEvents, f \in BOOLEAN :
         [used EXCEPT !.events = e, !.failed = f] \in Used
  BY Zenon DEF Used
<1> QED
  BY <1>1, <1>2, <1>3, Zenon

\* The kinds of queue a step leaves.
LEMMA Queues ==
    ASSUME TypeOK
    PROVE  /\ calls # <<>> => Head(calls) \in Calls /\ Tail(calls) \in Seq(Calls)
           /\ posts # <<>> => Head(posts) \in Posts /\ Tail(posts) \in Seq(Posts)
           /\ \A s \in Seq(Calls), c \in Calls : Append(s, c) \in Seq(Calls)
           /\ \A s \in Seq(Posts), c \in Posts : Append(s, c) \in Seq(Posts)
BY DEF TypeOK

LEMMA WriterWith ==
    ASSUME NEW wr \in Writer, NEW b \in BOOLEAN
    PROVE  /\ LET u == [wr EXCEPT !.cancelled = b]
              IN  /\ u \in Writer /\ u.on = wr.on /\ u.prepared = wr.prepared
                  /\ u.records = wr.records /\ u.sig = wr.sig
           /\ LET u == [wr EXCEPT !.done = TRUE]
              IN  /\ u \in Writer /\ u.on = wr.on /\ u.prepared = wr.prepared
                  /\ u.records = wr.records /\ u.sig = wr.sig
           /\ LET u == [wr EXCEPT !.done = TRUE, !.prepared = TRUE]
              IN  /\ u \in Writer /\ u.on = wr.on
                  /\ u.records = wr.records /\ u.sig = wr.sig
<1>1. [wr EXCEPT !.cancelled = b] \in Writer /\ [wr EXCEPT !.done = TRUE] \in Writer
  BY Zenon DEF Writer
<1>2. [wr EXCEPT !.done = TRUE, !.prepared = TRUE] \in Writer
  BY Zenon DEF Writer
<1> QED
  BY <1>1, <1>2 DEF Writer

\* startCacheWrite() writes the index of a worker that has one to write.
LEMMA CacheWrites ==
    ASSUME NEW w \in Worker, Sound(w), NEW wr \in Writer, Signed(wr), StartCacheWrite(w, wr)
    PROVE  /\ worker' \in Worker /\ Sound(worker') /\ writer' \in Writer /\ Signed(writer')
           /\ worker'.index = w.index /\ worker'.age = w.age /\ worker'.at = w.at
           /\ worker'.asked = w.asked /\ worker'.gen = w.gen
<1>1. CASE w.pending /\ ~wr.on
  <2>1. /\ writer' = [NoWriter EXCEPT !.on = TRUE, !.gen = w.gen, !.sig = w.sig,
                                      !.records = w.index]
        /\ worker' = [w EXCEPT !.pending = FALSE]
    BY <1>1, Zenon DEF StartCacheWrite
  <2>2. writer' \in Writer /\ writer'.records = w.index /\ writer'.sig = w.sig
    BY <2>1, WorkerFields, Blank DEF NoWriter, Writer
  <2>3. Signed(writer')
    BY <1>1, <2>2 DEF Signed, Sound
  <2> DEFINE u == [w EXCEPT !.pending = FALSE]
  <2>4. /\ u \in Worker /\ u.pending = FALSE /\ u.index = w.index /\ u.age = w.age
        /\ u.gen = w.gen /\ u.snapshot = w.snapshot /\ u.staging = w.staging
        /\ u.sig = w.sig /\ u.mode = w.mode /\ u.at = w.at /\ u.asked = w.asked
        /\ u.read = w.read
    BY WorkerPends, Zenon
  <2>5. worker' = u
    BY <2>1
  <2> HIDE DEF u
  <2>6. Sound(u)
    BY <2>4 DEF Sound
  <2> QED
    BY <2>2, <2>3, <2>4, <2>5, <2>6
<1>2. CASE ~(w.pending /\ ~wr.on)
  <2>1. writer' = wr /\ worker' = w
    BY <1>2, Zenon DEF StartCacheWrite
  <2> QED
    BY <2>1
<1> QED
  BY <1>1, <1>2

\* startBuild().
LEMMA BuildStarts ==
    ASSUME TypeOK, IndexInv, NEW force \in BOOLEAN, NEW rest \in Seq(Calls),
           StartBuild(force, rest)
    PROVE  /\ worker' \in Worker /\ Sound(worker') /\ writer' \in Writer /\ Signed(writer')
           /\ calls' \in Seq(Calls) /\ posts' \in Seq(Posts) /\ used' \in Used
           /\ UNCHANGED <<revision, cache, narrow, latest, view>>
           /\ worker'.at # "matching" \/ worker'.at = worker.at
           /\ worker'.age >= worker.age
           /\ \/ worker'.index = worker.index /\ used'.failed
              \/ worker'.age > worker.age /\ worker'.index = <<>>
              \/ worker'.age > worker.age /\ posts' = Append(posts, [type |-> "loaded"])
           /\ calls' = rest \/ \E g \in Nat : calls' = Append(rest, [type |-> "chunk", gen |-> g])
           /\ \/ posts' = posts \/ posts' = Append(posts, [type |-> "loaded"])
              \/ used'.failed
           /\ used.failed => used'.failed
<1> DEFINE w == Superseded(worker)
<1>t. /\ worker \in Worker /\ writer \in Writer /\ Sound(worker) /\ Signed(writer)
      /\ revision \in Revisions /\ cache \in Cache /\ posts \in Seq(Posts) /\ used \in Used
      /\ CacheIsTruthful
  BY DEF TypeOK, IndexInv
<1>w. /\ w \in Worker /\ Sound(w) /\ w.snapshot = None /\ w.pending = FALSE
      /\ w.age = worker.age /\ w.index = worker.index /\ w.at = worker.at
      /\ w.asked = worker.asked /\ w.staging = <<>>
  BY <1>t, SoundSuperseded, WorkerSuperseded, Zenon
<1>f. w.gen \in Nat /\ w.age \in Nat /\ w.age + 1 \in Nat /\ w.gen + 1 \in Nat
  BY <1>w, WorkerFields
<1>r. writer' \in Writer /\ Signed(writer') /\ UNCHANGED <<revision, cache, narrow, latest, view>>
  <2>1. writer' = [writer EXCEPT !.cancelled = writer.on]
    BY Zenon DEF StartBuild, CancelCacheWrite
  <2>2. writer.on \in BOOLEAN
    BY <1>t DEF Writer
  <2> DEFINE u == [writer EXCEPT !.cancelled = writer.on]
  <2>3. /\ u \in Writer /\ u.on = writer.on /\ u.prepared = writer.prepared
        /\ u.records = writer.records /\ u.sig = writer.sig
    BY <1>t, <2>2, WriterWith, Zenon
  <2>4. Signed(u)
    BY <1>t, <2>3 DEF Signed
  <2>5. UNCHANGED <<revision, cache, narrow, latest, view>>
    BY Zenon DEF StartBuild
  <2> QED
    BY <2>1, <2>3, <2>4, <2>5, Zenon
<1>c. cache.ours => IsPart(cache.records) /\ cache.records \in Seq(Records)
                    /\ cache.sig \in Revisions
  BY <1>t, Whole DEF CacheIsTruthful, Cache
<1>1. CASE IsFresh /\ LoadFresh(w, rest) /\ UNCHANGED used
  <2> DEFINE u == Warmed(w, cache.records, w.age + 1, revision)
  <2>1. /\ worker' = u /\ posts' = Append(posts, [type |-> "loaded"]) /\ calls' = rest
    BY <1>1, Zenon DEF LoadFresh, Warmed
  <2>2. cache.ours /\ cache.sig = revision /\ cache.records \in Seq(Records)
        /\ w \in Worker /\ w.age + 1 \in Nat /\ revision \in Revisions
    BY <1>1, <1>c, <1>w, <1>f, <1>t DEF IsFresh
  <2> HIDE DEF w
  <2>3. /\ u \in Worker /\ u.index = cache.records /\ u.age = w.age + 1
        /\ u.at = "verify" /\ u.pending = w.pending /\ u.snapshot = w.snapshot
        /\ u.staging = w.staging
    BY <2>2, WorkerLoaded
  <2> HIDE DEF u
  <2>4. Sound(u)
    BY <1>w, <1>c, <2>2, <2>3 DEF Sound
  <2>5. posts' \in Seq(Posts)
    BY <1>t, <2>1, Messages
  <2> QED
    BY <1>1, <1>r, <1>t, <1>w, <1>f, <2>1, <2>3, <2>4, <2>5
<1>2. CASE Stream(w, rest) /\ UNCHANGED used
  <2> DEFINE v == Begun(w, w.gen + 1, revision, w.age + 1)
             warm == Streamed(v, cache.records, "background")
             cold == Streamed(v, <<>>, "foreground")
             chunk == [type |-> "chunk", gen |-> v.gen]
  <2>1. /\ worker' = IF Usable THEN warm ELSE cold
        /\ posts' = IF Usable THEN Append(posts, [type |-> "loaded"]) ELSE posts
        /\ calls' = Append(rest, chunk)
    BY <1>2, Zenon DEF Stream, Begun, Streamed
  <2>2. Part(revision, 0) = <<>> /\ IsPart(<<>>) /\ revision # None
    BY <1>t, Parts, Blank DEF IsPart
  <2>w. /\ w \in Worker /\ w.age + 1 \in Nat /\ w.gen + 1 \in Nat /\ revision \in Revisions
        /\ "background" \in Modes /\ "foreground" \in Modes /\ <<>> \in Seq(Records)
    BY <1>w, <1>f, <1>t, Blank DEF Modes
  <2> HIDE DEF w
  <2>v. /\ v \in Worker /\ v.gen = w.gen + 1 /\ v.sig = revision /\ v.snapshot = revision
        /\ v.read = 0 /\ v.age = w.age + 1 /\ v.pending = w.pending
        /\ v.staging = w.staging /\ v.at = w.at /\ v.asked = w.asked
    <3>1. BegunFrom(v, w, w.gen + 1, revision, w.age + 1)
      BY <2>w, WorkerBegins
    <3> QED
      BY <3>1 DEF BegunFrom
  <2> HIDE DEF v
  <2>3. ASSUME Usable
        PROVE  /\ warm \in Worker /\ warm.index = cache.records
               /\ warm.age = w.age + 1 /\ warm.sig = revision
               /\ warm.snapshot = revision /\ warm.read = 0 /\ warm.mode = "background"
               /\ warm.pending = w.pending /\ warm.staging = w.staging
               /\ warm.at = w.at /\ warm.asked = w.asked
    <3>1. cache.records \in Seq(Records)
      BY <1>c, <2>3 DEF Usable
    <3> QED
      BY <2>v, <2>w, <3>1, WorkerStreams
  <2>4. /\ cold \in Worker /\ cold.index = <<>>
        /\ cold.age = w.age + 1 /\ cold.sig = revision
        /\ cold.snapshot = revision /\ cold.read = 0 /\ cold.mode = "foreground"
        /\ cold.pending = w.pending /\ cold.staging = w.staging
        /\ cold.at = w.at /\ cold.asked = w.asked
    <3>1. LET u == Streamed(v, <<>>, "foreground")
          IN  /\ u \in Worker /\ u.index = <<>> /\ u.mode = "foreground" /\ u.gen = v.gen
              /\ u.sig = v.sig /\ u.snapshot = v.snapshot /\ u.read = v.read
              /\ u.age = v.age /\ u.pending = v.pending /\ u.staging = v.staging
              /\ u.at = v.at /\ u.asked = v.asked
      BY <2>v, <2>w, WorkerStreams
    <3> QED
      BY <2>v, <3>1
  <2>5. v.gen \in Nat
    BY <2>w, <2>v
  <2> HIDE DEF warm, cold
  <2>6. Usable => Sound(warm)
    BY <1>w, <1>c, <2>2, <2>3 DEF Sound, Usable
  <2>7. Sound(cold)
    BY <1>w, <2>2, <2>4 DEF Sound
  <2>8. chunk \in Calls /\ [type |-> "loaded"] \in Posts
    BY <2>5, Messages
  <2>9. calls' \in Seq(Calls) /\ posts' \in Seq(Posts)
    BY <1>t, <2>1, <2>8
  <2>10. CASE Usable
    <3>1. worker' = warm /\ posts' = Append(posts, [type |-> "loaded"])
      BY <2>1, <2>10
    <3>2. worker'.at = worker.at /\ worker'.age > worker.age
      BY <1>t, <1>w, <2>3, <2>10, <3>1, WorkerFields
    <3>3. \E g \in Nat : calls' = Append(rest, [type |-> "chunk", gen |-> g])
      BY <2>1, <2>5
    <3> QED
      BY <1>2, <1>r, <1>t, <2>3, <2>6, <2>9, <2>10, <3>1, <3>2, <3>3, WorkerFields
  <2>11. CASE ~Usable
    <3>1. worker' = cold /\ posts' = posts
      BY <2>1, <2>11
    <3>2. worker'.at = worker.at /\ worker'.age > worker.age
      BY <1>t, <1>w, <2>4, <3>1, WorkerFields
    <3>3. \E g \in Nat : calls' = Append(rest, [type |-> "chunk", gen |-> g])
      BY <2>1, <2>5
    <3> QED
      BY <1>2, <1>r, <1>t, <2>4, <2>7, <2>9, <3>1, <3>2, <3>3, WorkerFields
  <2> QED
    BY <2>10, <2>11
<1>3. CASE Fault /\ worker' = w /\ calls' = rest /\ posts' = Append(posts, [type |-> "error"])
  <2>1. used' \in Used /\ used'.failed
    <3>1. used' \in Used /\ used' = [used EXCEPT !.events = @ + 1, !.failed = @ \/ TRUE]
      BY <1>t, <1>3, Events, Zenon DEF Fault, Event
    <3> QED
      BY <1>t, <3>1 DEF Used
  <2>2. posts' \in Seq(Posts)
    BY <1>t, <1>3, Messages
  <2> HIDE DEF w
  <2> QED
    BY <1>3, <1>r, <1>t, <1>w, <1>f, <2>1, <2>2
<1> QED
  BY <1>1, <1>2, <1>3, Zenon DEF StartBuild

\* What a step of the worker, other than one on a query, does.
Updates == {"grew", "loaded", "refreshed"}

IndexEffect ==
    /\ worker'.age >= worker.age
    /\ worker'.index = worker.index \/ worker'.age > worker.age
    /\ \/ used'.failed \/ worker'.index = worker.index \/ worker'.index = <<>>
       \/ \E t \in Updates : posts' = Append(posts, [type |-> t])

PostsEffect ==
    /\ posts' \in Seq(Posts)
    /\ \/ used'.failed \/ posts' = posts
       \/ \E t \in Updates : posts' = Append(posts, [type |-> t])

WorkerEffect ==
    /\ worker' \in Worker /\ Sound(worker') /\ writer' \in Writer /\ Signed(writer')
    /\ used' \in Used /\ (used.failed => used'.failed)
    /\ IndexEffect /\ PostsEffect
    /\ worker'.at # "matching"

CallsEffect(rest) ==
    calls' = rest \/ \E c \in Calls : c.type # "query" /\ calls' = Append(rest, c)

LEMMA Faults == used \in Used /\ Fault => used' \in Used /\ used'.failed
<1> SUFFICES ASSUME used \in Used, Fault PROVE used' \in Used /\ used'.failed
  OBVIOUS
<1>1. used' \in Used /\ used' = [used EXCEPT !.events = @ + 1, !.failed = @ \/ TRUE]
  BY Events, Zenon DEF Fault, Event
<1> QED
  BY <1>1 DEF Used

LEMMA BuildEffect ==
    ASSUME TypeOK, IndexInv, NEW force \in BOOLEAN, NEW rest \in Seq(Calls),
           worker.at = "idle", StartBuild(force, rest)
    PROVE  WorkerEffect /\ CallsEffect(rest)
<1>1. \A g \in Nat : [type |-> "chunk", gen |-> g] \in Calls
  BY Messages, Zenon
<1>2. "loaded" \in Updates
  BY DEF Updates
<1>3. CallsEffect(rest)
  BY <1>1, BuildStarts DEF CallsEffect
<1>4. PostsEffect
  BY <1>2, BuildStarts DEF PostsEffect
<1>5. IndexEffect
  BY BuildStarts DEF IndexEffect, Updates
<1> QED
  BY <1>3, <1>4, <1>5, BuildStarts DEF WorkerEffect

LEMMA ReadEffect ==
    ASSUME TypeOK, IndexInv, NEW rest \in Seq(Calls), worker.at = "idle",
           worker.snapshot # None, MoreBatches, ReadBatch(rest), UNCHANGED writer
    PROVE  WorkerEffect /\ CallsEffect(rest)
<1> DEFINE record == <<worker.snapshot, worker.read + 1>>
           next == [type |-> "chunk", gen |-> worker.gen]
           grown == Grown(worker, worker.read + 1, worker.age + 1, Append(worker.index, record))
           staged == Staged(worker, worker.read + 1, Append(worker.staging, record))
           failed == Failed(worker)
<1>t. /\ worker \in Worker /\ writer \in Writer /\ Sound(worker) /\ Signed(writer)
      /\ posts \in Seq(Posts) /\ used \in Used
  BY DEF TypeOK, IndexInv
<1>f. /\ worker.snapshot \in Revisions /\ worker.read \in 0 .. Batches /\ worker.read < Batches
      /\ worker.read + 1 \in 0 .. Batches /\ record \in Records /\ worker.age + 1 \in Nat
      /\ worker.index \in Seq(Records) /\ worker.staging \in Seq(Records) /\ worker.age \in Nat
      /\ worker.gen \in Nat /\ worker.mode \in Modes
  BY <1>t, WorkerFields, Blank DEF MoreBatches, Records
<1>p. Append(Part(worker.snapshot, worker.read), record)
        = Part(worker.snapshot, worker.read + 1)
      /\ IsPart(Part(worker.snapshot, worker.read + 1))
  BY <1>f, Parts DEF IsPart
<1>a. Append(worker.index, record) \in Seq(Records)
      /\ Append(worker.staging, record) \in Seq(Records)
  BY <1>f
<1>m. next \in Calls /\ [type |-> "grew"] \in Posts /\ [type |-> "error"] \in Posts
  BY <1>f, Messages
<1> HIDE DEF record, next
<1>w. writer' \in Writer /\ Signed(writer')
  BY <1>t DEF Signed
<1>1. ASSUME worker.mode = "foreground", worker' = grown, calls' = Append(rest, next),
             posts' = Append(posts, [type |-> "grew"]), UNCHANGED used
      PROVE  WorkerEffect /\ CallsEffect(rest)
  <2>1. /\ grown \in Worker /\ grown.read = worker.read + 1 /\ grown.age = worker.age + 1
        /\ grown.index = Append(worker.index, record)
        /\ grown.pending = worker.pending /\ grown.snapshot = worker.snapshot
        /\ grown.staging = worker.staging /\ grown.sig = worker.sig
        /\ grown.mode = worker.mode /\ grown.at = worker.at
    <3>1. GrownFrom(grown, worker, worker.read + 1, worker.age + 1, Append(worker.index, record))
      BY <1>t, <1>f, <1>a, WorkerGrown
    <3> QED
      BY <3>1 DEF GrownFrom
  <2> HIDE DEF grown
  <2>2. Sound(grown)
    BY <1>t, <1>p, <1>1, <2>1 DEF Sound
  <2>3. IndexEffect
    <3>1. \E t \in Updates : posts' = Append(posts, [type |-> t])
      BY <1>1 DEF Updates
    <3> DEFINE now == worker'.age
               was == worker.age
    <3>a. now = was + 1 /\ was \in Nat
      BY <1>1, <1>f, <2>1
    <3> HIDE DEF now, was
    <3>b. now > was /\ now >= was
      BY <3>a
    <3>2. worker'.age > worker.age /\ worker'.age >= worker.age
      BY <3>b DEF now, was
    <3> QED
      BY <3>1, <3>2, Zenon DEF IndexEffect
  <2>4. posts' \in Seq(Posts)
    BY <1>1, <1>t, <1>m
  <2>5. PostsEffect
    BY <1>1, <2>4 DEF PostsEffect, Updates
  <2>6. CallsEffect(rest)
    BY <1>1, <1>m DEF CallsEffect, next
  <2> QED
    BY <1>1, <1>t, <1>w, <2>1, <2>2, <2>3, <2>5, <2>6 DEF WorkerEffect
<1>2. ASSUME worker.mode # "foreground", worker' = staged, calls' = Append(rest, next),
             UNCHANGED <<posts, used>>
      PROVE  WorkerEffect /\ CallsEffect(rest)
  <2>1. /\ staged \in Worker /\ staged.read = worker.read + 1 /\ staged.age = worker.age
        /\ staged.index = worker.index /\ staged.staging = Append(worker.staging, record)
        /\ staged.pending = worker.pending /\ staged.snapshot = worker.snapshot
        /\ staged.sig = worker.sig /\ staged.mode = worker.mode /\ staged.at = worker.at
    <3>1. StagedFrom(staged, worker, worker.read + 1, Append(worker.staging, record))
      BY <1>t, <1>f, <1>a, WorkerStaged
    <3> QED
      BY <3>1 DEF StagedFrom
  <2> HIDE DEF staged
  <2>2. Sound(staged)
    BY <1>t, <1>f, <1>p, <1>2, <2>1 DEF Sound, Modes
  <2>3. IndexEffect
    BY <1>2, <1>f, <2>1 DEF IndexEffect
  <2>4. PostsEffect
    BY <1>2, <1>t DEF PostsEffect
  <2>5. CallsEffect(rest)
    BY <1>2, <1>m DEF CallsEffect, next
  <2> QED
    BY <1>2, <1>t, <1>w, <2>1, <2>2, <2>3, <2>4, <2>5 DEF WorkerEffect
<1>3. ASSUME Fault, worker' = failed, posts' = Append(posts, [type |-> "error"]), calls' = rest
      PROVE  WorkerEffect /\ CallsEffect(rest)
  <2>1. /\ failed \in Worker /\ failed.snapshot = None /\ failed.staging = <<>>
        /\ failed.index = worker.index /\ failed.age = worker.age
        /\ failed.pending = worker.pending /\ failed.at = worker.at
    BY <1>t, WorkerFailed
  <2> HIDE DEF failed
  <2>2. Sound(failed)
    BY <1>t, <2>1, <1>f DEF Sound
  <2>3. used' \in Used /\ used'.failed
    BY <1>3, <1>t, Faults
  <2>4. posts' \in Seq(Posts)
    BY <1>3, <1>t, <1>m
  <2>5. IndexEffect /\ PostsEffect /\ CallsEffect(rest)
    BY <1>3, <1>f, <2>1, <2>3, <2>4 DEF IndexEffect, PostsEffect, CallsEffect
  <2> QED
    BY <1>3, <1>t, <1>w, <2>1, <2>2, <2>3, <2>5 DEF WorkerEffect
<1> QED
  BY <1>1, <1>2, <1>3, Zenon DEF ReadBatch, Grown, Staged, Failed, record, next

\* finishBuild(): the whole library was read, into the live index or into the staged one.
LEMMA FinishEffect ==
    ASSUME TypeOK, IndexInv, NEW rest \in Seq(Calls), worker.at = "idle",
           worker.snapshot # None, ~MoreBatches, Finish(rest)
    PROVE  WorkerEffect /\ CallsEffect(rest)
<1> DEFINE back == worker.mode = "background"
           full == IF back THEN worker.staging ELSE worker.index
           age == IF back THEN worker.age + 1 ELSE worker.age
           w == Done(worker, full, age)
           news == [type |-> IF back THEN "refreshed" ELSE "loaded"]
           again == [type |-> "rebuild", gen |-> w.gen]
           error == [type |-> "error"]
           p == [w EXCEPT !.pending = TRUE]
<1>t. /\ worker \in Worker /\ writer \in Writer /\ Sound(worker) /\ Signed(writer)
      /\ posts \in Seq(Posts) /\ used \in Used /\ revision \in Revisions
  BY DEF TypeOK, IndexInv
<1>f. /\ worker.snapshot \in Revisions /\ worker.read = Batches /\ worker.sig = worker.snapshot
      /\ worker.age \in Nat /\ age \in Nat /\ age >= worker.age /\ worker.gen \in Nat
      /\ worker.mode \in Modes /\ full \in Seq(Records)
      /\ back => age > worker.age
      /\ ~back => full = worker.index
  <2>1. /\ worker.snapshot \in Revisions \union {None} /\ worker.read \in 0 .. Batches
        /\ worker.age \in Nat /\ worker.gen \in Nat /\ worker.mode \in Modes
        /\ worker.index \in Seq(Records) /\ worker.staging \in Seq(Records)
    BY <1>t, WorkerFields
  <2>2. worker.sig = worker.snapshot
    BY <1>t, Zenon DEF Sound
  <2>3. worker.read = Batches
    BY <2>1, Blank DEF MoreBatches
  <2> QED
    BY <2>1, <2>2, <2>3
<1>c. full = Content(worker.sig) /\ IsPart(full)
  <2>1. Part(worker.snapshot, Batches) = Content(worker.snapshot)
        /\ IsPart(Content(worker.snapshot))
    BY <1>f, Whole
  <2>2. full = Part(worker.snapshot, worker.read)
    BY <1>t, <1>f DEF Sound, Modes
  <2> QED
    BY <1>f, <2>1, <2>2
<1>s. \/ /\ posts' = Append(posts, news)
         /\ \/ /\ revision = w.sig /\ StartCacheWrite(p, writer) /\ calls' = rest
            \/ /\ worker' = w /\ calls' = Append(rest, again) /\ UNCHANGED writer
         /\ UNCHANGED used
      \/ /\ Fault /\ worker' = w /\ calls' = rest
         /\ posts' = Append(Append(posts, news), error) /\ UNCHANGED writer
  BY Zenon DEF Finish, Done
<1>m. news \in Posts /\ news.type # "results" /\ error \in Posts
      /\ \E t \in Updates : news = [type |-> t]
  <2>1. "loaded" \in Updates /\ "refreshed" \in Updates
    BY DEF Updates
  <2> QED
    BY <2>1, Messages
<1> HIDE DEF news, error
<1>w. /\ w \in Worker /\ w.snapshot = None /\ w.staging = <<>> /\ w.index = full
      /\ w.age = age /\ w.gen = worker.gen /\ w.pending = worker.pending
      /\ w.sig = worker.sig /\ w.at = worker.at
  <2> HIDE DEF full, age
  <2> QED
    <3>1. DoneFrom(w, worker, full, age)
      BY <1>t, <1>f, WorkerDone
    <3> QED
      BY <3>1 DEF DoneFrom
<1> HIDE DEF w, full, age
<1>g. again \in Calls /\ again.type # "query"
  BY <1>w, <1>f, Messages
<1> HIDE DEF again
<1>d. Sound(w)
  BY <1>t, <1>w, <1>c, <1>f DEF Sound
<1>i. ASSUME worker'.index = full, worker'.age = age, posts' = Append(posts, news)
      PROVE  IndexEffect
  <2>1. worker'.age >= worker.age
    BY <1>i, <1>f
  <2>2. worker'.index = worker.index \/ worker'.age > worker.age
    BY <1>i, <1>f
  <2>3. \E t \in Updates : posts' = Append(posts, [type |-> t])
    BY <1>i, <1>m, Zenon
  <2> QED
    BY <2>1, <2>2, <2>3, Zenon DEF IndexEffect
<1>p. ASSUME posts' = Append(posts, news) PROVE PostsEffect
  <2>1. posts' \in Seq(Posts)
    BY <1>p, <1>m, <1>t
  <2> QED
    BY <1>p, <2>1, <1>m, Zenon DEF PostsEffect
<1>1. ASSUME posts' = Append(posts, news), StartCacheWrite(p, writer), calls' = rest,
             revision = w.sig, UNCHANGED used
      PROVE  WorkerEffect /\ CallsEffect(rest)
  <2>1. /\ p \in Worker /\ p.pending = TRUE /\ p.index = w.index /\ p.age = w.age
        /\ p.snapshot = w.snapshot /\ p.staging = w.staging /\ p.sig = w.sig /\ p.at = w.at
    BY <1>w, WorkerPends
  <2> HIDE DEF p
  <2>2. Sound(p)
    BY <1>d, <1>w, <1>c, <1>t, <2>1 DEF Sound
  <2>3. /\ worker' \in Worker /\ Sound(worker') /\ writer' \in Writer /\ Signed(writer')
        /\ worker'.index = p.index /\ worker'.age = p.age /\ worker'.at = p.at
    BY <1>1, <1>t, <2>1, <2>2, CacheWrites
  <2>4. IndexEffect /\ PostsEffect
    BY <1>1, <1>i, <1>p, <1>w, <2>1, <2>3
  <2> QED
    BY <1>1, <1>t, <1>w, <2>1, <2>3, <2>4 DEF WorkerEffect, CallsEffect
<1>2. ASSUME posts' = Append(posts, news), worker' = w, calls' = Append(rest, again),
             UNCHANGED <<writer, used>>
      PROVE  WorkerEffect /\ CallsEffect(rest)
  <2>1. IndexEffect /\ PostsEffect
    BY <1>2, <1>i, <1>p, <1>w
  <2>2. Signed(writer') /\ Sound(worker')
    BY <1>2, <1>t, <1>d DEF Signed
  <2>3. CallsEffect(rest)
    BY <1>2, <1>g, Zenon DEF CallsEffect
  <2> QED
    BY <1>2, <1>t, <1>w, <2>1, <2>2, <2>3 DEF WorkerEffect
<1>3. ASSUME Fault, worker' = w, calls' = rest, UNCHANGED writer,
             posts' = Append(Append(posts, news), error)
      PROVE  WorkerEffect /\ CallsEffect(rest)
  <2>1. used' \in Used /\ used'.failed
    BY <1>3, <1>t, Faults
  <2>2. posts' \in Seq(Posts)
    BY <1>3, <1>t, <1>m
  <2>3. worker'.age >= worker.age /\ (worker'.index = worker.index \/ worker'.age > worker.age)
    BY <1>3, <1>w, <1>f
  <2>4. IndexEffect /\ PostsEffect
    BY <2>1, <2>2, <2>3, Zenon DEF IndexEffect, PostsEffect
  <2>5. Signed(writer') /\ Sound(worker')
    BY <1>3, <1>t, <1>d DEF Signed
  <2> QED
    BY <1>3, <1>t, <1>w, <2>1, <2>4, <2>5 DEF WorkerEffect, CallsEffect
<1> QED
  BY <1>s, <1>1, <1>2, <1>3, Zenon

\* A step of the worker that leaves the library, the cache, the queries and the view alone.
Aside == UNCHANGED <<revision, cache, narrow, latest, view>>

\* The step took the first call, of a kind other than a query, and left those calls.
Took == calls # <<>> /\ Head(calls).type # "query" /\ CallsEffect(Tail(calls))

LEMMA Stays ==
    ASSUME TypeOK, IndexInv, worker.at = "idle", UNCHANGED <<worker, writer, posts, used>>
    PROVE  WorkerEffect
<1>1. /\ worker \in Worker /\ writer \in Writer /\ Sound(worker) /\ Signed(writer)
      /\ posts \in Seq(Posts) /\ used \in Used
  BY DEF TypeOK, IndexInv
<1>2. worker'.age >= worker.age
  BY <1>1, WorkerFields
<1>3. IndexEffect /\ PostsEffect
  BY <1>1, <1>2 DEF IndexEffect, PostsEffect
<1>4. Sound(worker') /\ Signed(writer')
  BY <1>1 DEF Sound, Signed
<1> QED
  BY <1>1, <1>3, <1>4 DEF WorkerEffect

LEMMA CallsWork ==
    ASSUME TypeOK, IndexInv, HandleBuild \/ HandleRebuild \/ ReadChunk \/ ClearIndex
    PROVE  WorkerEffect /\ Took /\ Aside
<1>q. calls # <<>> => Head(calls) \in Calls /\ Tail(calls) \in Seq(Calls)
  BY Queues
<1>1. CASE HandleBuild
  <2>1. worker.at = "idle" /\ calls # <<>> /\ Head(calls).type = "build"
        /\ StartBuild(Head(calls).force, Tail(calls))
    BY <1>1, Zenon DEF HandleBuild, Arrives
  <2>2. Head(calls).force \in BOOLEAN
    BY <1>q, <2>1, Messages
  <2>3. WorkerEffect /\ CallsEffect(Tail(calls))
    BY <1>q, <2>1, <2>2, BuildEffect
  <2>4. Aside
    BY <2>1, Zenon DEF StartBuild, Aside
  <2> QED
    BY <2>1, <2>3, <2>4 DEF Took
<1>2. CASE HandleRebuild
  <2>1. worker.at = "idle" /\ calls # <<>> /\ Head(calls).type = "rebuild"
    BY <1>2, Zenon DEF HandleRebuild, Arrives
  <2>2. CASE StartBuild(FALSE, Tail(calls))
    <3>1. WorkerEffect /\ CallsEffect(Tail(calls))
      BY <1>q, <2>1, <2>2, BuildEffect
    <3>2. Aside
      BY <2>2, Zenon DEF StartBuild, Aside
    <3> QED
      BY <2>1, <3>1, <3>2 DEF Took
  <2>3. CASE /\ calls' = Tail(calls)
             /\ UNCHANGED <<revision, cache, worker, narrow, writer, latest, view, posts, used>>
    BY <2>1, <2>3, Stays DEF Took, CallsEffect, Aside
  <2> QED
    BY <1>2, <2>2, <2>3, Zenon DEF HandleRebuild
<1>3. CASE ReadChunk
  <2>1. worker.at = "idle" /\ calls # <<>> /\ Head(calls).type = "chunk" /\ Aside
    BY <1>3, Zenon DEF ReadChunk, Arrives, Aside
  <2>2. \/ calls' = Tail(calls) /\ UNCHANGED <<worker, writer, posts, used>>
        \/ /\ worker.snapshot # None /\ MoreBatches
           /\ ReadBatch(Tail(calls)) /\ UNCHANGED writer
        \/ worker.snapshot # None /\ ~MoreBatches /\ Finish(Tail(calls))
    BY <1>3, Zenon DEF ReadChunk, Streaming
  <2>3. CASE calls' = Tail(calls) /\ UNCHANGED <<worker, writer, posts, used>>
    BY <2>1, <2>3, Stays DEF Took, CallsEffect
  <2>4. CASE /\ worker.snapshot # None /\ MoreBatches
             /\ ReadBatch(Tail(calls)) /\ UNCHANGED writer
    <3>1. WorkerEffect /\ CallsEffect(Tail(calls))
      BY <1>q, <2>1, <2>4, ReadEffect
    <3> QED
      BY <2>1, <3>1 DEF Took
  <2>5. CASE worker.snapshot # None /\ ~MoreBatches /\ Finish(Tail(calls))
    <3>1. WorkerEffect /\ CallsEffect(Tail(calls))
      BY <1>q, <2>1, <2>5, FinishEffect
    <3> QED
      BY <2>1, <3>1 DEF Took
  <2> QED
    BY <2>2, <2>3, <2>4, <2>5
<1>4. CASE ClearIndex
  <2> DEFINE w == Superseded(worker)
             u == Cleared(w, w.age + 1)
             wr == [writer EXCEPT !.cancelled = writer.on]
  <2>1. /\ worker.at = "idle" /\ calls # <<>> /\ Head(calls).type = "clear" /\ Aside
        /\ calls' = Tail(calls) /\ UNCHANGED <<posts, used>> /\ writer' = wr /\ worker' = u
    BY <1>4, Zenon DEF ClearIndex, Arrives, Aside, Cleared, CancelCacheWrite
  <2>2. /\ worker \in Worker /\ writer \in Writer /\ Sound(worker) /\ Signed(writer)
        /\ posts \in Seq(Posts) /\ used \in Used /\ writer.on \in BOOLEAN
    BY DEF TypeOK, IndexInv, Writer
  <2>3. /\ wr \in Writer /\ wr.on = writer.on /\ wr.prepared = writer.prepared
        /\ wr.records = writer.records /\ wr.sig = writer.sig
    BY <2>2, WriterWith, Zenon
  <2> HIDE DEF wr
  <2>4. writer' \in Writer /\ Signed(writer')
    BY <2>1, <2>2, <2>3 DEF Signed
  <2>5. /\ w \in Worker /\ Sound(w) /\ w.snapshot = None /\ w.pending = FALSE
        /\ w.age = worker.age /\ w.at = worker.at
    BY <2>2, SoundSuperseded, WorkerSuperseded, Zenon
  <2> HIDE DEF w
  <2>6. w.age \in Nat /\ w.age + 1 \in Nat
    BY <2>5, WorkerFields
  <2>7. /\ u \in Worker /\ u.at = w.at /\ u.index = <<>> /\ u.age = w.age + 1
        /\ u.snapshot = w.snapshot /\ u.staging = w.staging /\ u.pending = w.pending
    BY <2>5, <2>6, WorkerCleared
  <2> HIDE DEF u
  <2>8. IsPart(<<>>)
    BY Parts, Blank DEF IsPart
  <2>9. Sound(u)
    BY <2>1, <2>5, <2>7, <2>8 DEF Sound
  <2>10. worker'.age >= worker.age /\ worker'.age > worker.age
    BY <2>1, <2>5, <2>6, <2>7
  <2>11. IndexEffect /\ PostsEffect
    BY <2>1, <2>2, <2>7, <2>10 DEF IndexEffect, PostsEffect
  <2> QED
    BY <2>1, <2>2, <2>4, <2>5, <2>7, <2>9, <2>11 DEF WorkerEffect, Took, CallsEffect
<1> QED
  BY <1>1, <1>2, <1>3, <1>4

\* The queries that wait for the worker.
Asking == {calls[i] : i \in {j \in DOMAIN calls : calls[j].type = "query"}}

\* A step of the worker, the cache writer or the library that has to do with no query.
Quiet ==
    /\ revision' \in Revisions /\ cache' \in Cache /\ CacheIsTruthful'
    /\ worker' \in Worker /\ Sound(worker') /\ writer' \in Writer /\ Signed(writer')
    /\ calls' \in Seq(Calls) /\ Asking' = Asking
    /\ used' \in Used /\ (used.failed => used'.failed)
    /\ IndexEffect /\ PostsEffect
    /\ "matching" \in {worker.at, worker'.at} => worker' = worker
    /\ UNCHANGED <<narrow, latest, view>>

LEMMA AskingKept ==
    ASSUME NEW s \in Seq(Calls), NEW t \in Seq(Calls),
           \/ t = s
           \/ \E c \in Calls : c.type # "query" /\ t = Append(s, c)
    PROVE  {t[i] : i \in {j \in DOMAIN t : t[j].type = "query"}}
             = {s[i] : i \in {j \in DOMAIN s : s[j].type = "query"}}
<1>1. CASE t = s
  BY <1>1
<1>2. ASSUME NEW c \in Calls, c.type # "query", t = Append(s, c)
      PROVE  {t[i] : i \in {j \in DOMAIN t : t[j].type = "query"}}
               = {s[i] : i \in {j \in DOMAIN s : s[j].type = "query"}}
  <2>1. /\ DOMAIN t = 1 .. Len(s) + 1 /\ DOMAIN s = 1 .. Len(s) /\ Len(s) \in Nat
        /\ t[Len(s) + 1] = c /\ \A i \in 1 .. Len(s) : t[i] = s[i]
    BY <1>2
  <2> DEFINE mine == {j \in DOMAIN s : s[j].type = "query"}
             theirs == {j \in DOMAIN t : t[j].type = "query"}
  <2>2. mine = theirs
    <3>1. ASSUME NEW j \in theirs PROVE j \in mine
      <4>0. j \in DOMAIN t /\ t[j].type = "query"
        BY <3>1
      <4>1. j \in 1 .. Len(s) + 1 /\ t[j].type = "query"
        BY <2>1, <4>0, Zenon
      <4>2. c.type # "query"
        BY <1>2
      <4>3. j # Len(s) + 1
        BY <2>1, <4>1, <4>2, Zenon
      <4>4. j \in 1 .. Len(s)
        BY <2>1, <4>1, <4>3
      <4> QED
        BY <2>1, <4>1, <4>4
    <3>2. ASSUME NEW j \in mine PROVE j \in theirs
      <4>1. j \in 1 .. Len(s) /\ t[j].type = "query" /\ j \in 1 .. Len(s) + 1
        BY <2>1
      <4> QED
        BY <2>1, <4>1
    <3> HIDE DEF mine, theirs
    <3> QED
      BY <3>1, <3>2
  <2>3. \A i \in mine : t[i] = s[i]
    BY <2>1
  <2> HIDE DEF mine, theirs
  <2>4. {t[i] : i \in mine} = {s[i] : i \in mine}
    BY <2>3
  <2> QED
    BY <2>2, <2>4 DEF mine, theirs
<1> QED
  BY <1>1, <1>2

LEMMA AskingTail ==
    ASSUME NEW s \in Seq(Calls), s # <<>>
    PROVE  LET of(q) == {q[i] : i \in {j \in DOMAIN q : q[j].type = "query"}}
           IN  /\ of(Tail(s)) \subseteq of(s)
               /\ \A c \in of(s) : c = Head(s) \/ c \in of(Tail(s))
               /\ Head(s).type # "query" => of(Tail(s)) = of(s)
<1>1. /\ Tail(s) \in Seq(Calls) /\ Len(s) \in Nat /\ Len(s) > 0 /\ Head(s) = s[1]
      /\ DOMAIN s = 1 .. Len(s) /\ DOMAIN Tail(s) = 1 .. Len(s) - 1
      /\ \A i \in 1 .. Len(s) - 1 : Tail(s)[i] = s[i + 1]
  OBVIOUS
<1> DEFINE of(q) == {q[i] : i \in {j \in DOMAIN q : q[j].type = "query"}}
<1>2. of(Tail(s)) \subseteq of(s)
  BY <1>1
<1>3. \A c \in of(s) : c = Head(s) \/ c \in of(Tail(s))
  <2> SUFFICES ASSUME NEW c \in of(s) PROVE c = Head(s) \/ c \in of(Tail(s))
    OBVIOUS
  <2>1. PICK i \in DOMAIN s : s[i].type = "query" /\ c = s[i]
    OBVIOUS
  <2>2. CASE i = 1
    BY <1>1, <2>1, <2>2
  <2>3. CASE i # 1
    <3>1. i - 1 \in DOMAIN Tail(s) /\ Tail(s)[i - 1] = s[i]
      BY <1>1, <2>1, <2>3
    <3> QED
      BY <2>1, <3>1
  <2> QED
    BY <2>2, <2>3
<1>4. ASSUME Head(s).type # "query" PROVE of(s) \subseteq of(Tail(s))
  <2>1. \A c \in of(s) : c.type = "query"
    OBVIOUS
  <2> HIDE DEF of
  <2> QED
    BY <1>3, <1>4, <2>1
<1> QED
  BY <1>2, <1>3, <1>4

LEMMA WorkIsQuiet ==
    ASSUME TypeOK, IndexInv, worker.at = "idle", WorkerEffect, Took, Aside
    PROVE  Quiet
<1>1. /\ calls \in Seq(Calls) /\ calls # <<>> /\ Tail(calls) \in Seq(Calls)
      /\ Head(calls).type # "query" /\ CallsEffect(Tail(calls))
  BY DEF Took, TypeOK
<1>2. /\ calls' \in Seq(Calls)
      /\ \/ calls' = Tail(calls)
         \/ \E c \in Calls : c.type # "query" /\ calls' = Append(Tail(calls), c)
  BY <1>1 DEF CallsEffect
<1>3. Asking' = Asking
  <2> DEFINE of(q) == {q[i] : i \in {j \in DOMAIN q : q[j].type = "query"}}
  <2>1. of(calls') = of(Tail(calls))
    BY <1>1, <1>2, AskingKept
  <2>2. of(Tail(calls)) = of(calls)
    BY <1>1, AskingTail
  <2>3. Asking = of(calls) /\ Asking' = of(calls')
    BY DEF Asking
  <2> QED
    BY <2>1, <2>2, <2>3
<1>4. revision' \in Revisions /\ cache' \in Cache /\ CacheIsTruthful'
      /\ UNCHANGED <<narrow, latest, view>>
  BY DEF Aside, TypeOK, IndexInv, CacheIsTruthful
<1> QED
  BY <1>2, <1>3, <1>4 DEF WorkerEffect, Quiet

LEMMA VerifyQuiet == ASSUME TypeOK, IndexInv, Verify PROVE Quiet
<1> DEFINE u == [worker EXCEPT !.at = "idle"]
           again == [type |-> "rebuild", gen |-> worker.gen]
<1>1. /\ worker.at = "verify" /\ worker' = u
      /\ UNCHANGED <<revision, cache, narrow, writer, latest, view, posts>>
      /\ \/ UNCHANGED <<calls, used>>
         \/ (Fault \/ UNCHANGED used) /\ calls' = Append(calls, again)
  BY Zenon DEF Verify, Call
<1>2. /\ worker \in Worker /\ writer \in Writer /\ Sound(worker) /\ Signed(writer)
      /\ posts \in Seq(Posts) /\ used \in Used /\ revision \in Revisions /\ cache \in Cache
      /\ CacheIsTruthful /\ calls \in Seq(Calls)
  BY DEF TypeOK, IndexInv
<1>3. /\ u \in Worker /\ u.at = "idle" /\ u.index = worker.index /\ u.age = worker.age
      /\ u.gen = worker.gen /\ u.snapshot = worker.snapshot /\ u.staging = worker.staging
      /\ u.sig = worker.sig /\ u.mode = worker.mode /\ u.pending = worker.pending
      /\ u.read = worker.read
  BY <1>2, WorkerIdles, Zenon
<1> HIDE DEF u
<1>4. Sound(u)
  BY <1>2, <1>3 DEF Sound
<1>5. again \in Calls /\ again.type # "query"
  BY <1>2, WorkerFields, Messages
<1> HIDE DEF again
<1>6. /\ calls' \in Seq(Calls)
      /\ \/ calls' = calls
         \/ \E c \in Calls : c.type # "query" /\ calls' = Append(calls, c)
  <2>1. calls' = calls \/ calls' = Append(calls, again)
    BY <1>1, Zenon
  <2>2. calls' \in Seq(Calls)
    BY <1>2, <1>5, <2>1
  <2> QED
    BY <1>5, <2>1, <2>2, Zenon
<1>7. Asking' = Asking
  BY <1>2, <1>6, AskingKept DEF Asking
<1>8. used' \in Used /\ (used.failed => used'.failed)
  BY <1>1, <1>2, Faults
<1>9. worker.age \in Nat /\ worker'.age >= worker.age
  BY <1>1, <1>2, <1>3, WorkerFields
<1>10. IndexEffect /\ PostsEffect
  BY <1>1, <1>2, <1>3, <1>9 DEF IndexEffect, PostsEffect
<1>11. CacheIsTruthful' /\ Signed(writer')
  BY <1>1, <1>2 DEF CacheIsTruthful, Signed
<1> QED
  BY <1>1, <1>2, <1>3, <1>4, <1>6, <1>7, <1>8, <1>10, <1>11 DEF Quiet

LEMMA WrittenQuiet == ASSUME TypeOK, IndexInv, HandleWritten PROVE Quiet
<1> DEFINE rest == Tail(calls)
           again == [type |-> "rebuild", gen |-> writer.gen]
           error == [type |-> "error"]
           saved == [ours |-> TRUE, sig |-> writer.sig, records |-> writer.records]
<1>1. /\ worker.at = "idle" /\ calls # <<>> /\ Head(calls).type = "written"
      /\ StartCacheWrite(worker, NoWriter)
      /\ UNCHANGED <<revision, narrow, latest, view>>
      /\ \/ /\ (cache' = saved /\ writer.prepared) \/ UNCHANGED cache
            /\ calls' = Append(rest, again) \/ calls' = rest
            /\ UNCHANGED <<posts, used>>
         \/ /\ Fault /\ posts' \in {posts, Append(posts, error)} /\ calls' = rest
            /\ UNCHANGED cache
  BY Zenon DEF HandleWritten, Arrives
<1>2. /\ worker \in Worker /\ writer \in Writer /\ Sound(worker) /\ Signed(writer)
      /\ posts \in Seq(Posts) /\ used \in Used /\ revision \in Revisions /\ cache \in Cache
      /\ CacheIsTruthful /\ calls \in Seq(Calls) /\ rest \in Seq(Calls)
  BY <1>1 DEF TypeOK, IndexInv
<1>3. again \in Calls /\ again.type # "query" /\ error \in Posts
  <2>1. writer.gen \in Nat
    BY <1>2 DEF Writer
  <2> QED
    BY <2>1, Messages
<1> HIDE DEF again, error
<1>4. cache' \in Cache /\ CacheIsTruthful'
  <2>1. ASSUME cache' = saved, writer.prepared PROVE cache' \in Cache /\ CacheIsTruthful'
    <3>1. writer.records = Content(writer.sig) /\ writer.sig \in Revisions
          /\ writer.records \in Seq(Records)
      BY <1>2, <2>1 DEF Signed, Writer
    <3> QED
      BY <2>1, <3>1 DEF Cache, CacheIsTruthful
  <2>2. ASSUME UNCHANGED cache PROVE cache' \in Cache /\ CacheIsTruthful'
    BY <1>2, <2>2 DEF CacheIsTruthful
  <2> QED
    BY <1>1, <2>1, <2>2
<1>5. /\ worker' \in Worker /\ Sound(worker') /\ writer' \in Writer /\ Signed(writer')
      /\ worker'.index = worker.index /\ worker'.age = worker.age /\ worker'.at = worker.at
  <2>1. NoWriter \in Writer /\ Signed(NoWriter)
    BY Blank DEF NoWriter, Writer, Signed
  <2> QED
    BY <1>1, <1>2, <2>1, CacheWrites
<1>6. /\ calls' \in Seq(Calls)
      /\ \/ calls' = rest
         \/ \E c \in Calls : c.type # "query" /\ calls' = Append(rest, c)
  <2>1. calls' = rest \/ calls' = Append(rest, again)
    BY <1>1, Zenon
  <2> HIDE DEF rest
  <2>2. calls' \in Seq(Calls)
    BY <1>2, <1>3, <2>1, Queues, Zenon
  <2> QED
    BY <1>3, <2>1, <2>2, Zenon
<1>7. Asking' = Asking
  <2> DEFINE of(q) == {q[i] : i \in {j \in DOMAIN q : q[j].type = "query"}}
  <2>1. of(calls') = of(rest)
    BY <1>2, <1>6, AskingKept
  <2>2. of(rest) = of(calls)
    BY <1>1, <1>2, AskingTail
  <2>3. Asking = of(calls) /\ Asking' = of(calls')
    BY DEF Asking
  <2> QED
    BY <2>1, <2>2, <2>3
<1>8. used' \in Used /\ (used.failed => used'.failed) /\ (Fault => used'.failed)
  BY <1>1, <1>2, Faults
<1>9. worker.age \in Nat /\ worker'.age >= worker.age
  BY <1>2, <1>5, WorkerFields
<1>10. IndexEffect
  BY <1>5, <1>9 DEF IndexEffect
<1>11. PostsEffect
  <2>1. posts' = posts \/ (Fault /\ posts' = Append(posts, error))
    BY <1>1, Zenon
  <2>2. posts' \in Seq(Posts)
    BY <1>2, <1>3, <2>1
  <2> QED
    BY <1>8, <2>1, <2>2, Zenon DEF PostsEffect
<1> QED
  BY <1>1, <1>2, <1>4, <1>5, <1>6, <1>7, <1>8, <1>10, <1>11 DEF Quiet

LEMMA PrepareQuiet == ASSUME TypeOK, IndexInv, Prepare PROVE Quiet
<1> DEFINE full == [writer EXCEPT !.done = TRUE, !.prepared = TRUE]
           none == [writer EXCEPT !.done = TRUE]
<1>1. /\ writer.on /\ (writer' = full \/ writer' = none)
      /\ Fault \/ UNCHANGED used
      /\ calls' = Append(calls, [type |-> "written"])
      /\ UNCHANGED <<revision, cache, worker, narrow, latest, view, posts>>
  BY Zenon DEF Prepare
<1>2. /\ worker \in Worker /\ writer \in Writer /\ Sound(worker) /\ Signed(writer)
      /\ posts \in Seq(Posts) /\ used \in Used /\ revision \in Revisions /\ cache \in Cache
      /\ CacheIsTruthful /\ calls \in Seq(Calls)
  BY DEF TypeOK, IndexInv
<1>3. /\ full \in Writer /\ full.on = writer.on /\ full.records = writer.records
      /\ full.sig = writer.sig /\ none \in Writer /\ none.on = writer.on
      /\ none.records = writer.records /\ none.sig = writer.sig
      /\ none.prepared = writer.prepared
  BY <1>2, WriterWith, Zenon
<1> HIDE DEF full, none
<1>4. writer' \in Writer /\ Signed(writer')
  BY <1>1, <1>2, <1>3 DEF Signed
<1>5. /\ calls' \in Seq(Calls)
      /\ \E c \in Calls : c.type # "query" /\ calls' = Append(calls, c)
  BY <1>1, <1>2, Messages
<1>6. Asking' = Asking
  BY <1>2, <1>5, AskingKept DEF Asking
<1>7. used' \in Used /\ (used.failed => used'.failed)
  BY <1>1, <1>2, Faults
<1>8. worker.age \in Nat /\ worker'.age >= worker.age
  BY <1>1, <1>2, WorkerFields
<1>9. IndexEffect /\ PostsEffect
  BY <1>1, <1>2, <1>8 DEF IndexEffect, PostsEffect
<1>10. CacheIsTruthful' /\ Sound(worker')
  BY <1>1, <1>2 DEF CacheIsTruthful, Sound
<1> QED
  BY <1>1, <1>2, <1>4, <1>5, <1>6, <1>7, <1>9, <1>10 DEF Quiet

LEMMA ChangeQuiet == ASSUME TypeOK, IndexInv, Change PROVE Quiet
<1>1. /\ revision < MaxRevision /\ revision' = revision + 1
      /\ UNCHANGED <<cache, worker, narrow, writer, calls, latest, view, posts, used>>
  BY Zenon DEF Change
<1>2. /\ worker \in Worker /\ writer \in Writer /\ Sound(worker) /\ Signed(writer)
      /\ posts \in Seq(Posts) /\ used \in Used /\ revision \in Revisions /\ cache \in Cache
      /\ CacheIsTruthful /\ calls \in Seq(Calls)
  BY DEF TypeOK, IndexInv
<1>3. revision' \in Revisions
  BY <1>1, <1>2, Blank DEF Revisions
<1>4. worker.age \in Nat /\ worker'.age >= worker.age
  BY <1>1, <1>2, WorkerFields
<1>5. IndexEffect /\ PostsEffect
  BY <1>1, <1>2, <1>4 DEF IndexEffect, PostsEffect
<1>6. CacheIsTruthful' /\ Sound(worker') /\ Signed(writer') /\ Asking' = Asking
  BY <1>1, <1>2 DEF CacheIsTruthful, Sound, Signed, Asking
<1> QED
  BY <1>1, <1>2, <1>3, <1>5, <1>6 DEF Quiet

LEMMA QuietTyped == ASSUME TypeOK, Quiet PROVE TypeOK' /\ IndexInv'
BY DEF Quiet, PostsEffect, TypeOK, IndexInv

\* Of a query's matches.
LEMMA MatchTypes ==
    ASSUME TypeOK, IndexInv, NEW q \in Queries
    PROVE  /\ Positions(worker.index, q) \in SUBSET (1 .. Batches)
           /\ Matches(q) \in SUBSET (1 .. Batches)
           /\ RecordsAt(Positions(worker.index, q)) \in SUBSET Records
           /\ RecordsAt(Matches(q)) \in SUBSET Records
<1>1. worker.index \in Seq(Records) /\ IsPart(worker.index)
  BY WorkerFields DEF TypeOK, IndexInv, Sound
<1>2. DOMAIN worker.index \subseteq 1 .. Batches
  <2>1. PICK r \in Revisions, n \in 0 .. Batches : worker.index = Part(r, n)
    BY <1>1 DEF IsPart
  <2>2. DOMAIN worker.index = 1 .. n
    BY <2>1 DEF Part
  <2> QED
    BY <2>2, Blank
<1>3. \A s \in SUBSET DOMAIN worker.index : RecordsAt(s) \in SUBSET Records
  BY <1>1 DEF RecordsAt
<1>4. Positions(worker.index, q) \in SUBSET DOMAIN worker.index
      /\ Matches(q) \in SUBSET DOMAIN worker.index
  BY DEF Matches, Positions
<1> QED
  BY <1>2, <1>3, <1>4

\* The next query becomes the one that is matched, or is answered, or is dropped.
TakeEffect(c) ==
    /\ calls # <<>> /\ c = Head(calls) /\ c.type = "query" /\ c \in Calls
    /\ calls' = Tail(calls) /\ worker.at = "idle"
    /\ UNCHANGED <<revision, cache, narrow, writer, latest, view, used>>
    /\ \/ latest # c.id /\ UNCHANGED <<worker, posts>>
       \/ /\ latest = c.id /\ worker.index = <<>> /\ UNCHANGED worker
          /\ posts' = Append(posts, [type |-> "results", id |-> c.id, records |-> {}])
       \/ /\ latest = c.id /\ UNCHANGED posts
          /\ worker'.at = "matching" /\ worker'.asked = <<c.id, c.query>>
          /\ worker'.index = worker.index /\ worker'.age = worker.age

LEMMA TakeTyped ==
    ASSUME TypeOK, IndexInv, TakeQuery
    PROVE  TypeOK' /\ IndexInv' /\ TakeEffect(Head(calls))
<1> DEFINE c == Head(calls)
           u == Asked(worker, "matching", <<c.id, c.query>>)
           found == [type |-> "results", id |-> c.id, records |-> {}]
<1>1. /\ worker.at = "idle" /\ calls # <<>> /\ c.type = "query" /\ calls' = Tail(calls)
      /\ UNCHANGED <<revision, cache, narrow, writer, latest, view, used>>
      /\ \/ latest # c.id /\ UNCHANGED <<worker, posts>>
         \/ /\ latest = c.id /\ worker.index = <<>> /\ UNCHANGED worker
            /\ posts' = Append(posts, found)
         \/ latest = c.id /\ UNCHANGED posts /\ worker' = u
  BY Zenon DEF TakeQuery, Arrives, Asked
<1>2. /\ worker \in Worker /\ Sound(worker) /\ c \in Calls /\ Tail(calls) \in Seq(Calls)
      /\ posts \in Seq(Posts)
  BY <1>1 DEF TypeOK, IndexInv
<1>3. c.id \in Nat /\ c.query \in Queries
  BY <1>1, <1>2, Messages
<1>4. found \in Posts
  BY <1>3, Messages
<1> HIDE DEF found
<1>5. /\ <<c.id, c.query>> \in {<<>>} \union (Nat \X Queries) /\ <<c.id, c.query>> # <<>>
      /\ "matching" \in Ats
  BY <1>3 DEF Ats
<1>6. AskedFrom(u, worker, "matching", <<c.id, c.query>>)
  BY <1>2, <1>5, WorkerAsked
<1> HIDE DEF u, c
<1>7. /\ u \in Worker /\ u.at = "matching" /\ u.asked = <<c.id, c.query>>
      /\ u.index = worker.index /\ u.age = worker.age /\ Sound(u)
  BY <1>2, <1>5, <1>6 DEF AskedFrom, Sound
<1>8. worker' \in Worker /\ Sound(worker')
  BY <1>1, <1>2, <1>7 DEF Sound
<1>9. posts' \in Seq(Posts)
  <2>1. posts' = posts \/ posts' = Append(posts, found)
    BY <1>1, Zenon
  <2> QED
    BY <1>2, <1>4, <2>1, Queues, Zenon
<1>10. TypeOK' /\ IndexInv'
  BY <1>1, <1>2, <1>8, <1>9 DEF TypeOK, IndexInv, CacheIsTruthful, Signed
<1>11. TakeEffect(c)
  <2>1. \/ latest # c.id /\ UNCHANGED <<worker, posts>>
        \/ latest = c.id /\ worker.index = <<>> /\ UNCHANGED worker /\ posts' = Append(posts, found)
        \/ /\ latest = c.id /\ UNCHANGED posts
           /\ worker'.at = "matching" /\ worker'.asked = <<c.id, c.query>>
           /\ worker'.index = worker.index /\ worker'.age = worker.age
    BY <1>1, <1>7
  <2> QED
    BY <1>1, <1>2, <2>1, Zenon DEF TakeEffect, found, c
<1> QED
  BY <1>10, <1>11 DEF c

\* The query is matched: its answer is sent, unless a later one was submitted.
RunEffect(id, q) ==
    /\ worker.at = "matching" /\ worker.asked = <<id, q>> /\ id \in Nat /\ q \in Queries
    /\ worker'.at = "idle" /\ worker'.index = worker.index /\ worker'.age = worker.age
    /\ UNCHANGED <<revision, cache, calls, writer, latest, view, used>>
    /\ \/ UNCHANGED narrow
       \/ narrow' = [valid |-> TRUE, query |-> q, age |-> worker.age, matches |-> Matches(q)]
    /\ \/ latest # id /\ UNCHANGED posts
       \/ /\ latest = id
          /\ posts' = Append(posts, [type |-> "results", id |-> id,
                                     records |-> RecordsAt(Matches(q))])

LEMMA RunTyped ==
    ASSUME TypeOK, IndexInv, RunQuery
    PROVE  TypeOK' /\ IndexInv' /\ RunEffect(worker.asked[1], worker.asked[2])
<1> DEFINE id == worker.asked[1]
           q == worker.asked[2]
           u == Asked(worker, "idle", <<>>)
           kept == [valid |-> TRUE, query |-> q, age |-> worker.age, matches |-> Matches(q)]
           found == [type |-> "results", id |-> id, records |-> RecordsAt(Matches(q))]
<1>1. /\ worker.at = "matching" /\ worker' = u
      /\ narrow' = narrow \/ narrow' = kept
      /\ UNCHANGED <<revision, cache, calls, writer, latest, view, used>>
      /\ \/ latest = id /\ posts' = Append(posts, found)
         \/ latest # id /\ UNCHANGED posts
  BY Zenon DEF RunQuery, Asked
<1>2. /\ worker \in Worker /\ Sound(worker) /\ posts \in Seq(Posts) /\ narrow \in Narrow
      /\ worker.age \in Nat
  BY WorkerFields DEF TypeOK, IndexInv
<1>3. worker.asked \in Nat \X Queries
  <2>1. worker.asked \in {<<>>} \union (Nat \X Queries)
    BY <1>2, WorkerFields
  <2> QED
    BY <1>1, <1>2, <2>1 DEF Sound
<1>4. id \in Nat /\ q \in Queries /\ worker.asked = <<id, q>>
  BY <1>3
<1>5. Matches(q) \in SUBSET (1 .. Batches) /\ RecordsAt(Matches(q)) \in SUBSET Records
  <2> HIDE DEF q
  <2> QED
    BY <1>4, MatchTypes
<1>6. found \in Posts /\ kept \in Narrow
  <2> HIDE DEF id, q
  <2>1. found \in Posts
    BY <1>4, <1>5, Messages
  <2>2. kept \in Narrow
    BY <1>2, <1>4, <1>5 DEF Narrow
  <2> QED
    BY <2>1, <2>2
<1> HIDE DEF id, q, found, kept
<1>7. AskedFrom(u, worker, "idle", <<>>)
  <2>1. "idle" \in Ats
    BY DEF Ats
  <2> QED
    BY <1>2, <2>1, WorkerAsked
<1> HIDE DEF u
<1>8. /\ u \in Worker /\ u.at = "idle" /\ u.index = worker.index /\ u.age = worker.age
      /\ Sound(u)
  BY <1>2, <1>7 DEF AskedFrom, Sound
<1>9. posts' \in Seq(Posts) /\ narrow' \in Narrow
  <2>1. posts' = posts \/ posts' = Append(posts, found)
    BY <1>1, Zenon
  <2>2. posts' \in Seq(Posts)
    BY <1>2, <1>6, <2>1
  <2> QED
    BY <1>1, <1>2, <1>6, <2>2
<1>10. TypeOK' /\ IndexInv'
  BY <1>1, <1>2, <1>8, <1>9 DEF TypeOK, IndexInv, CacheIsTruthful, Signed
<1>11. RunEffect(id, q)
  <2>1. worker'.at = "idle" /\ worker'.index = worker.index /\ worker'.age = worker.age
    BY <1>1, <1>8
  <2> QED
    BY <1>1, <1>4, <2>1, Zenon DEF RunEffect, found, kept
<1> QED
  BY <1>10, <1>11 DEF id, q

----------------------------------------------------------------------------
(* The steps of the view. *)

\* A query of the present text is submitted, under a number of its own.
Asks ==
    /\ view'.loaded /\ view'.id = view.id + 1 /\ view'.text = view.text
    /\ latest' = view.id + 1
    /\ calls' = Append(calls, [type |-> "query", id |-> view.id + 1, query |-> view.text])
    /\ posts' = posts \/ (posts # <<>> /\ posts' = Tail(posts))

\* A query will be submitted, or the view waits for an index.
Waits ==
    /\ ~view'.loaded \/ view'.rerun \/ view'.debounce
    /\ view'.id = view.id /\ view'.text = view.text /\ UNCHANGED latest
    /\ Asking' = Asking
    /\ posts' = posts \/ (posts # <<>> /\ posts' = Tail(posts))

Types ==
    /\ view'.debounce /\ view'.id = view.id + 1 /\ UNCHANGED <<latest, calls, posts>>

Passes == Same(view, view') /\ Asking' = Asking /\ UNCHANGED <<latest, posts>>

Fails ==
    /\ posts # <<>> /\ Head(posts).type = "error" /\ posts' = Tail(posts)
    /\ view'.id = view.id /\ view'.text = view.text
    /\ UNCHANGED <<latest, calls>>

Answers ==
    /\ posts # <<>> /\ Head(posts).type = "results" /\ posts' = Tail(posts)
    /\ UNCHANGED <<latest, calls>>
    /\ view'.id = view.id /\ view'.text = view.text /\ view'.loaded = view.loaded
    /\ view'.debounce = view.debounce /\ view'.rerun = view.rerun
    /\ view'.shown = IF Head(posts).id = view.id THEN Head(posts).records ELSE view.shown

GuiTyped ==
    /\ view' \in View /\ latest' \in Nat /\ calls' \in Seq(Calls) /\ posts' \in Seq(Posts)
    /\ used' \in Used /\ used'.failed = used.failed
    /\ GuiOnly

GuiEffect == GuiTyped /\ (Asks \/ Waits \/ Types \/ Passes \/ Fails \/ Answers)

LEMMA SubmitEffect ==
    ASSUME TypeOK, NEW v \in View, v.id = view.id, v.text = view.text, Submit(v),
           posts' = posts \/ (posts # <<>> /\ posts' = Tail(posts))
    PROVE  /\ view' \in View /\ latest' \in Nat /\ calls' \in Seq(Calls)
           /\ v.loaded => Asks
           /\ ~v.loaded => Waits
<1>1. /\ view' \in View
      /\ v.loaded => /\ view'.loaded /\ view'.id = v.id + 1 /\ view'.text = v.text
                     /\ latest' = v.id + 1
                     /\ calls' = Append(calls, [type |-> "query", id |-> v.id + 1,
                                                query |-> v.text])
      /\ ~v.loaded => view' = v /\ UNCHANGED <<latest, calls>>
  BY Submits, Zenon
<1>2. v.id + 1 \in Nat /\ v.text \in Queries /\ latest \in Nat /\ calls \in Seq(Calls)
  BY ViewFields DEF TypeOK
<1>3. [type |-> "query", id |-> v.id + 1, query |-> v.text] \in Calls
  BY <1>2, Messages
<1>4. latest' \in Nat /\ calls' \in Seq(Calls)
  <2>1. calls' = calls \/ calls' = Append(calls, [type |-> "query", id |-> v.id + 1,
                                                query |-> v.text])
    BY <1>1, Zenon
  <2>2. latest' = latest \/ latest' = v.id + 1
    BY <1>1, Zenon
  <2> QED
    BY <1>2, <1>3, <2>1, <2>2, Queues, Zenon
<1>5. v.loaded => Asks
  BY <1>1, Zenon DEF Asks
<1>6. ~v.loaded => Waits
  BY <1>1, Zenon DEF Waits, Asking
<1> QED
  BY <1>1, <1>4, <1>5, <1>6

LEMMA Timers == ASSUME TypeOK, Debounce \/ StreamRerun PROVE GuiEffect
<1> DEFINE v == [view EXCEPT !.debounce = FALSE]
           u == [view EXCEPT !.rerun = FALSE]
<1>1. /\ Submit(v) \/ Submit(u)
      /\ UNCHANGED <<posts, used>> /\ GuiOnly
  BY Zenon DEF Debounce, StreamRerun
<1>2. view \in View /\ posts \in Seq(Posts) /\ used \in Used /\ {} \in SUBSET Records
  BY DEF TypeOK
<1>3. v \in View /\ v.id = view.id /\ v.text = view.text
  BY <1>2, ViewFlags, Zenon
<1>4. u \in View /\ u.id = view.id /\ u.text = view.text
  BY <1>2, ViewFlags, Zenon
<1> HIDE DEF u, v
<1>5. view' \in View /\ latest' \in Nat /\ calls' \in Seq(Calls) /\ (Asks \/ Waits)
  BY <1>1, <1>3, <1>4, SubmitEffect
<1> QED
  BY <1>1, <1>2, <1>5 DEF GuiEffect, GuiTyped

LEMMA Updated ==
    ASSUME TypeOK, OnIndexGrew \/ OnIndexLoaded \/ OnIndexRefreshed
    PROVE  GuiEffect
<1>1. /\ view \in View /\ posts \in Seq(Posts) /\ used \in Used /\ {} \in SUBSET Records
      /\ latest \in Nat /\ calls \in Seq(Calls)
  BY DEF TypeOK
<1>2. posts # <<>> /\ posts' = Tail(posts) /\ UNCHANGED used /\ GuiOnly
  BY Zenon DEF OnIndexGrew, OnIndexLoaded, OnIndexRefreshed, Came
<1>3. posts' \in Seq(Posts) /\ used' \in Used /\ used'.failed = used.failed
  BY <1>1, <1>2
<1> DEFINE again == [view EXCEPT !.rerun = TRUE]
           grown == [view EXCEPT !.loaded = TRUE]
           loaded == [view EXCEPT !.loaded = TRUE, !.streaming = FALSE, !.rerun = FALSE]
<1>4. \/ view' = again /\ UNCHANGED <<latest, calls>>
      \/ Submit(grown) \/ Submit(loaded) \/ Submit(view)
  BY Zenon DEF OnIndexGrew, OnIndexLoaded, OnIndexRefreshed
<1>5. again \in View /\ again.id = view.id /\ again.text = view.text /\ again.rerun = TRUE
  BY <1>1, ViewFlags, Zenon
<1>6. grown \in View /\ grown.id = view.id /\ grown.text = view.text
  BY <1>1, ViewFlags, Zenon
<1>7. loaded \in View /\ loaded.id = view.id /\ loaded.text = view.text
  BY <1>1, ViewFlags, Zenon
<1> HIDE DEF again, grown, loaded
<1>8. ASSUME view' = again, UNCHANGED <<latest, calls>>
      PROVE  view' \in View /\ latest' \in Nat /\ calls' \in Seq(Calls) /\ Waits
  BY <1>1, <1>2, <1>5, <1>8 DEF Waits, Asking
<1>9. ASSUME NEW v \in View, v.id = view.id, v.text = view.text, Submit(v)
      PROVE  view' \in View /\ latest' \in Nat /\ calls' \in Seq(Calls) /\ (Asks \/ Waits)
  BY <1>2, <1>9, SubmitEffect
<1>10. view' \in View /\ latest' \in Nat /\ calls' \in Seq(Calls) /\ (Asks \/ Waits)
  BY <1>1, <1>4, <1>6, <1>7, <1>8, <1>9
<1> QED
  BY <1>2, <1>3, <1>10 DEF GuiEffect, GuiTyped

LEMMA Received == ASSUME TypeOK, OnIndexError \/ OnResultsReady PROVE GuiEffect
<1>1. /\ view \in View /\ posts \in Seq(Posts) /\ used \in Used /\ {} \in SUBSET Records
      /\ latest \in Nat /\ calls \in Seq(Calls)
  BY DEF TypeOK
<1>2. posts # <<>> /\ posts' = Tail(posts) /\ UNCHANGED <<latest, calls, used>> /\ GuiOnly
  BY Zenon DEF OnIndexError, OnResultsReady, Came
<1>3. /\ posts' \in Seq(Posts) /\ used' \in Used /\ used'.failed = used.failed
      /\ latest' \in Nat /\ calls' \in Seq(Calls) /\ Head(posts) \in Posts
  BY <1>1, <1>2
<1>4. CASE OnIndexError
  <2> DEFINE u == [view EXCEPT !.streaming = FALSE, !.rerun = FALSE]
  <2>1. Head(posts).type = "error" /\ view' = u
    BY <1>4, Zenon DEF OnIndexError, Came
  <2>2. u \in View /\ u.id = view.id /\ u.text = view.text
    BY <1>1, ViewFlags, Zenon
  <2> HIDE DEF u
  <2>3. Fails
    BY <1>2, <2>1, <2>2 DEF Fails
  <2> QED
    BY <1>2, <1>3, <2>1, <2>2, <2>3 DEF GuiEffect, GuiTyped
<1>5. CASE OnResultsReady
  <2> DEFINE u == [view EXCEPT !.shown = Head(posts).records]
  <2>1. Head(posts).type = "results" /\ view' = IF Head(posts).id = view.id THEN u ELSE view
    BY <1>5, Zenon DEF OnResultsReady, Came
  <2>2. Head(posts).records \in SUBSET Records
    BY <1>3, <2>1, Messages
  <2>3. /\ u \in View /\ u.id = view.id /\ u.text = view.text /\ u.loaded = view.loaded
        /\ u.debounce = view.debounce /\ u.rerun = view.rerun /\ u.shown = Head(posts).records
    BY <1>1, <2>2, ViewShows, Zenon
  <2> HIDE DEF u
  <2>4. Answers
    BY <1>2, <2>1, <2>3 DEF Answers
  <2> QED
    BY <1>1, <1>2, <1>3, <2>1, <2>3, <2>4 DEF GuiEffect, GuiTyped
<1> QED
  BY <1>4, <1>5

LEMMA UserActs ==
    ASSUME TypeOK, User
    PROVE  GuiEffect
<1>1. /\ view \in View /\ posts \in Seq(Posts) /\ used \in Used
      /\ latest \in Nat /\ calls \in Seq(Calls) /\ view.id + 1 \in Nat
  BY ViewFields DEF TypeOK
<1>2. GuiOnly /\ UNCHANGED <<latest, posts>>
  BY Zenon DEF User, Type, Invalidate, Hide, Release, Show
<1>3. posts' \in Seq(Posts) /\ latest' \in Nat
  BY <1>1, <1>2
<1>4. Event(FALSE) => used' \in Used /\ used'.failed = used.failed
  <2> SUFFICES ASSUME Event(FALSE) PROVE used' \in Used /\ used'.failed = used.failed
    OBVIOUS
  <2>1. used' \in Used /\ used' = [used EXCEPT !.events = @ + 1, !.failed = @ \/ FALSE]
    BY <1>1, Events, Zenon DEF Event
  <2> QED
    BY <1>1, <2>1 DEF Used
<1>5. ASSUME calls' = calls \/ \E c \in Calls : c.type # "query" /\ calls' = Append(calls, c)
      PROVE  calls' \in Seq(Calls) /\ Asking' = Asking
  <2>1. calls' \in Seq(Calls)
    BY <1>1, <1>5, Queues, Zenon
  <2> QED
    BY <1>1, <1>5, <2>1, AskingKept DEF Asking
<1>6. ASSUME NEW q \in Queries, Type(q) PROVE GuiEffect
  <2> DEFINE u == [view EXCEPT !.text = q, !.id = view.id + 1, !.debounce = TRUE]
             t == [used EXCEPT !.typed = @ + 1]
  <2>1. view' = u /\ used' = t /\ used.typed < MaxTyped /\ UNCHANGED <<latest, calls, posts>>
    BY <1>6, Zenon DEF Type
  <2>2. /\ u \in View /\ u.id = view.id + 1 /\ u.text = q /\ u.debounce = TRUE
    <3>1. TypedFrom(u, view, view.id + 1, q)
      BY <1>1, ViewTyped, Zenon
    <3> QED
      BY <3>1 DEF TypedFrom
  <2> HIDE DEF u
  <2>3. used' \in Used /\ used'.failed = used.failed
    <3>1. used.typed + 1 \in 0 .. MaxTyped
      BY <1>1, <2>1, SearchAssumption DEF Used
    <3>2. \A n \in 0 .. MaxTyped : [used EXCEPT !.typed = n] \in Used
      BY <1>1, Zenon DEF Used
    <3>3. t \in Used
      BY <3>1, <3>2, Zenon
    <3> QED
      BY <1>1, <2>1, <3>3 DEF Used
  <2>4. Types
    BY <2>1, <2>2 DEF Types
  <2> QED
    BY <1>1, <1>2, <2>1, <2>2, <2>3, <2>4 DEF GuiEffect, GuiTyped
<1>7. ASSUME NEW force \in BOOLEAN, Invalidate(force) PROVE GuiEffect
  <2> DEFINE u == [view EXCEPT !.loaded = FALSE, !.streaming = TRUE]
  <2>1. /\ view' = u /\ Event(FALSE)
        /\ calls' = Append(calls, [type |-> "build", force |-> force])
    BY <1>7, Zenon DEF Invalidate, Call
  <2>2. u \in View /\ u.loaded = FALSE /\ u.id = view.id /\ u.text = view.text
    BY <1>1, ViewHides, Zenon
  <2> HIDE DEF u
  <2>3. \E c \in Calls : c.type # "query" /\ calls' = Append(calls, c)
    BY <2>1, Messages
  <2>4. Waits
    BY <1>2, <1>5, <2>1, <2>2, <2>3 DEF Waits
  <2> QED
    BY <1>2, <1>3, <1>4, <1>5, <2>1, <2>2, <2>3, <2>4 DEF GuiEffect, GuiTyped
<1>8. CASE Hide
  <2> DEFINE u == [view EXCEPT !.visible = FALSE]
  <2>1. view' = u /\ Event(FALSE) /\ UNCHANGED calls
    BY <1>8, Zenon DEF Hide
  <2>2. u \in View /\ Same(view, u)
    BY <1>1, ViewHides, Zenon
  <2> HIDE DEF u
  <2>3. Passes
    BY <1>2, <1>5, <2>1, <2>2 DEF Passes
  <2> QED
    BY <1>2, <1>3, <1>4, <1>5, <2>1, <2>2, <2>3 DEF GuiEffect, GuiTyped
<1>9. CASE Release
  <2> DEFINE u == [view EXCEPT !.released = TRUE, !.loaded = FALSE, !.streaming = FALSE,
                               !.rerun = FALSE, !.shown = {}]
  <2>1. view' = u /\ UNCHANGED used /\ calls' = Append(calls, [type |-> "clear"])
    BY <1>9, Zenon DEF Release, Call
  <2>2. u \in View /\ u.loaded = FALSE /\ u.id = view.id /\ u.text = view.text
    BY <1>1, ViewHides, Zenon
  <2> HIDE DEF u
  <2>3. \E c \in Calls : c.type # "query" /\ calls' = Append(calls, c)
    BY <2>1, Messages
  <2>4. Waits
    BY <1>2, <1>5, <2>1, <2>2, <2>3 DEF Waits
  <2> QED
    BY <1>1, <1>2, <1>3, <1>5, <2>1, <2>2, <2>3, <2>4 DEF GuiEffect, GuiTyped
<1>10. CASE Show
  <2> DEFINE u == [view EXCEPT !.visible = TRUE, !.released = FALSE]
             w == [view EXCEPT !.visible = TRUE, !.released = FALSE, !.streaming = TRUE]
             build == [type |-> "build", force |-> FALSE]
  <2>1. /\ UNCHANGED used
        /\ \/ view' = u /\ UNCHANGED calls
           \/ view' = w /\ calls' = Append(calls, build)
    BY <1>10, Zenon DEF Show, Call
  <2>2. u \in View /\ Same(view, u) /\ w \in View /\ Same(view, w)
    BY <1>1, ViewHides, Zenon
  <2> HIDE DEF u, w
  <2>3. build \in Calls /\ build.type # "query"
    BY Messages
  <2> HIDE DEF build
  <2>4. calls' = calls \/ \E c \in Calls : c.type # "query" /\ calls' = Append(calls, c)
    BY <2>1, <2>3, Zenon
  <2>5. view' \in View /\ Same(view, view')
    BY <2>1, <2>2
  <2>6. Passes
    BY <1>2, <1>5, <2>4, <2>5 DEF Passes
  <2> QED
    BY <1>1, <1>2, <1>3, <1>5, <2>1, <2>4, <2>5, <2>6 DEF GuiEffect, GuiTyped
<1> QED
  BY <1>6, <1>7, <1>8, <1>9, <1>10, Zenon DEF User

----------------------------------------------------------------------------
(* The index, the cache and the types. *)

\* Every step is one of these.
LEMMA Steps ==
    ASSUME TypeOK, IndexInv, Next
    PROVE  \/ Quiet \/ GuiEffect
           \/ TypeOK' /\ IndexInv' /\ TakeEffect(Head(calls))
           \/ TypeOK' /\ IndexInv' /\ RunEffect(worker.asked[1], worker.asked[2])
<1>1. CASE Change
  BY <1>1, ChangeQuiet
<1>2. CASE WorkerStep
  <2>1. CASE HandleBuild \/ HandleRebuild \/ ReadChunk \/ ClearIndex
    <3>1. worker.at = "idle"
      BY <2>1, Zenon DEF HandleBuild, HandleRebuild, ReadChunk, ClearIndex, Arrives
    <3> QED
      BY <2>1, <3>1, CallsWork, WorkIsQuiet
  <2>2. CASE Verify
    BY <2>2, VerifyQuiet
  <2>3. CASE HandleWritten
    BY <2>3, WrittenQuiet
  <2>4. CASE TakeQuery
    BY <2>4, TakeTyped
  <2>5. CASE RunQuery
    BY <2>5, RunTyped
  <2> QED
    BY <1>2, <2>1, <2>2, <2>3, <2>4, <2>5, Zenon DEF WorkerStep
<1>3. CASE Prepare
  BY <1>3, PrepareQuiet
<1>4. CASE GuiEvent
  BY <1>4, Updated, Received, Zenon DEF GuiEvent
<1>5. CASE Debounce \/ StreamRerun
  BY <1>5, Timers
<1>6. CASE User
  BY <1>6, UserActs
<1> QED
  BY <1>1, <1>2, <1>3, <1>4, <1>5, <1>6, Zenon DEF Next

LEMMA GuiKeeps == ASSUME TypeOK, IndexInv, GuiEffect PROVE TypeOK' /\ IndexInv'
<1>1. GuiTyped /\ UNCHANGED <<revision, cache, worker, narrow, writer>>
  BY DEF GuiEffect, GuiTyped, GuiOnly
<1> QED
  BY <1>1 DEF GuiTyped, TypeOK, IndexInv, CacheIsTruthful, Sound, Signed

LEMMA IndexStep == TypeOK /\ IndexInv /\ [Next]_vars => TypeOK' /\ IndexInv'
<1> SUFFICES ASSUME TypeOK, IndexInv, [Next]_vars PROVE TypeOK' /\ IndexInv'
  OBVIOUS
<1>1. CASE Next
  BY <1>1, Steps, QuietTyped, GuiKeeps
<1>2. CASE UNCHANGED vars
  BY <1>2 DEF vars, TypeOK, IndexInv, CacheIsTruthful, Sound, Signed
<1> QED
  BY <1>1, <1>2

\* The worker, the view, the cache writer and the queues between them keep to their types:
\* no stream reads past the library's last batch, and no event comes with fields of another.
THEOREM TypeCorrect == Spec => []TypeOK
<1>1. Init => TypeOK /\ IndexInv
  BY InitIndex
<1>2. TypeOK /\ IndexInv /\ [Next]_vars => (TypeOK /\ IndexInv)'
  BY IndexStep
<1> QED
  BY <1>1, <1>2, PTL DEF Spec

\* The published cache is complete and belongs to the revision it names, whatever builds,
\* clears, failures and changes of the library overtake the thread that writes it: the
\* records a writer holds are always those of its signature, for startCacheWrite() takes
\* both from a build that is finished (Sound, Signed).
THEOREM CacheTruth == Spec => []CacheIsTruthful
<1>1. Init => TypeOK /\ IndexInv
  BY InitIndex
<1>2. TypeOK /\ IndexInv /\ [Next]_vars => (TypeOK /\ IndexInv)'
  BY IndexStep
<1>3. IndexInv => CacheIsTruthful
  BY DEF IndexInv
<1> QED
  BY <1>1, <1>2, <1>3, PTL DEF Spec

\* The live index and the staged one are each the beginning of one snapshot of the library,
\* however many builds supersede each other: startBuild() and clearIndex() leave nothing of
\* the stream before.
THEOREM OneSnapshot == Spec => []IndexIsOneSnapshot
<1>1. Init => TypeOK /\ IndexInv
  BY InitIndex
<1>2. TypeOK /\ IndexInv /\ [Next]_vars => (TypeOK /\ IndexInv)'
  BY IndexStep
<1>3. TypeOK /\ IndexInv => IndexIsOneSnapshot
  <2> SUFFICES ASSUME TypeOK, IndexInv PROVE IndexIsOneSnapshot
    OBVIOUS
  <2>1. worker \in Worker /\ Sound(worker)
    BY DEF TypeOK, IndexInv
  <2>2. worker.snapshot \in Revisions \union {None} /\ worker.read \in 0 .. Batches
        /\ worker.mode \in Modes
    BY <2>1, WorkerFields
  <2>3. IsPart(<<>>)
    BY Parts, Blank DEF IsPart
  <2>4. IsPart(worker.index) /\ IsPart(worker.staging)
    BY <2>1, <2>2, <2>3 DEF Sound, Modes, IsPart
  <2>5. \A s : IsPart(s) => \E r \in Revisions : IsPrefix(s, Content(r))
    BY Parts DEF IsPart
  <2> QED
    BY <2>4, <2>5 DEF IndexIsOneSnapshot
<1> QED
  BY <1>1, <1>2, <1>3, PTL DEF Spec

----------------------------------------------------------------------------
(* Narrowing. *)

\* What was matched last is exact as long as its age is the index's.
NarrowInv == narrow.age <= worker.age /\ NarrowingIsExact

LEMMA MatchesAreExact ==
    ASSUME TypeOK, NarrowInv, NEW q \in Queries
    PROVE  Matches(q) = Positions(worker.index, q)
<1>1. CASE Reusable(q)
  <2>1. narrow.valid /\ narrow.age = worker.age
        /\ (narrow.query = q \/ <<narrow.query, q>> \in Narrowing)
    BY <1>1 DEF Reusable
  <2>2. narrow.matches = Positions(worker.index, narrow.query)
    BY <2>1 DEF NarrowInv, NarrowingIsExact
  <2>3. narrow.query = q \/ Matching[q] \subseteq Matching[narrow.query]
    BY <2>1, SearchAssumption
  <2> QED
    BY <1>1, <2>2, <2>3 DEF Matches, Positions
<1>2. CASE ~Reusable(q)
  BY <1>2 DEF Matches
<1> QED
  BY <1>1, <1>2

LEMMA NarrowStep ==
    TypeOK /\ IndexInv /\ NarrowInv /\ [Next]_vars => NarrowInv'
<1> SUFFICES ASSUME TypeOK, IndexInv, NarrowInv, [Next]_vars PROVE NarrowInv'
  OBVIOUS
<1>t. /\ narrow.age \in Nat /\ worker.age \in Nat /\ narrow \in Narrow
      /\ worker'.age \in Nat
  <2>1. worker' \in Worker
    BY IndexStep DEF TypeOK
  <2> QED
    BY <2>1, WorkerFields DEF TypeOK, Narrow
<1>1. ASSUME UNCHANGED narrow, worker'.age >= worker.age,
             worker'.index = worker.index \/ worker'.age > worker.age
      PROVE  NarrowInv'
  <2>1. narrow.age <= worker'.age
    BY <1>t, <1>1 DEF NarrowInv
  <2>2. ASSUME narrow.valid, narrow.age = worker'.age
        PROVE  narrow.matches = Positions(worker'.index, narrow.query)
    <3>1. narrow.age = worker.age /\ worker'.index = worker.index
      BY <1>t, <1>1, <2>2 DEF NarrowInv
    <3> QED
      BY <2>2, <3>1 DEF NarrowInv, NarrowingIsExact
  <2> QED
    BY <1>1, <2>1, <2>2 DEF NarrowInv, NarrowingIsExact
<1>2. CASE Quiet
  BY <1>1, <1>2 DEF Quiet, IndexEffect
<1>3. CASE GuiEffect \/ UNCHANGED vars
  <2>1. UNCHANGED <<worker, narrow>>
    BY <1>3 DEF GuiEffect, GuiTyped, GuiOnly, vars
  <2> QED
    BY <1>1, <1>t, <2>1
<1>4. CASE TakeEffect(Head(calls))
  <2>1. worker'.index = worker.index /\ worker'.age = worker.age /\ UNCHANGED narrow
    BY <1>4 DEF TakeEffect
  <2> QED
    BY <1>1, <1>t, <2>1
<1>5. CASE RunEffect(worker.asked[1], worker.asked[2])
  <2>1. worker'.index = worker.index /\ worker'.age = worker.age
    BY <1>5 DEF RunEffect
  <2>2. CASE UNCHANGED narrow
    BY <1>1, <1>t, <2>1, <2>2
  <2>3. ASSUME NEW q \in Queries,
               narrow' = [valid |-> TRUE, query |-> q, age |-> worker.age, matches |-> Matches(q)]
        PROVE  NarrowInv'
    <3>1. Matches(q) = Positions(worker'.index, q)
      BY <2>1, MatchesAreExact
    <3>2. narrow'.age = worker.age /\ narrow'.query = q /\ narrow'.matches = Matches(q)
      BY <2>3
    <3> QED
      BY <1>t, <2>1, <3>1, <3>2 DEF NarrowInv, NarrowingIsExact
  <2> QED
    BY <1>5, <2>2, <2>3 DEF RunEffect
<1>6. Quiet \/ GuiEffect \/ TakeEffect(Head(calls))
      \/ RunEffect(worker.asked[1], worker.asked[2]) \/ UNCHANGED vars
  BY Steps
<1> QED
  BY <1>2, <1>3, <1>4, <1>5, <1>6

\* A query that narrows the one before and looks only at its matches finds what a full scan
\* would, whatever replaced the index between the two: every change of the index raises its
\* age (IndexEffect), and the age is compared.
THEOREM NarrowExact == Spec => []NarrowingIsExact
<1>1. Init => TypeOK /\ IndexInv
  BY InitIndex
<1>2. TypeOK /\ IndexInv /\ [Next]_vars => (TypeOK /\ IndexInv)'
  BY IndexStep
<1>3. Init => NarrowInv
  <2> SUFFICES ASSUME Init PROVE NarrowInv
    OBVIOUS
  <2>1. narrow.age = 0 /\ worker.age = 0 /\ narrow.valid = FALSE
    BY DEF Init
  <2> QED
    BY <2>1 DEF NarrowInv, NarrowingIsExact
<1>4. TypeOK /\ IndexInv /\ NarrowInv /\ [Next]_vars => NarrowInv'
  BY NarrowStep
<1>5. NarrowInv => NarrowingIsExact
  BY DEF NarrowInv
<1> QED
  BY <1>1, <1>2, <1>3, <1>4, <1>5, PTL DEF Spec

----------------------------------------------------------------------------
(* What is shown. *)

Current == RecordsAt(Positions(worker.index, view.text))
Answer(p) == p.type = "results" /\ p.id = view.id

\* The ids of the queries: none is ahead of the last one submitted, nor that of the view's
\* last change, and only the query of the present text has the latter.
Numbered ==
    /\ latest <= view.id
    /\ \A c \in Asking : c.id <= latest /\ (c.id = view.id => c.query = view.text)
    /\ worker.at = "matching" => /\ worker.asked[1] <= latest
                                 /\ worker.asked[1] = view.id => worker.asked[2] = view.text
    /\ \A i \in DOMAIN posts : /\ posts[i].type = "results" => posts[i].id <= latest
                               /\ posts[i].type # "error"

\* An answer on its way to the view is right, or followed by the news of another index.
Answered ==
    \A i \in DOMAIN posts :
        Answer(posts[i]) => \/ posts[i].records = Current
                            \/ worker.index = <<>>
                            \/ \E j \in DOMAIN posts : j > i /\ posts[j].type \in Updates

\* What is shown is right, or something is under way that will show something else.
Settling ==
    \/ worker.index = <<>> \/ ~view.loaded \/ view.debounce \/ view.rerun
    \/ \E i \in DOMAIN posts : Answer(posts[i]) \/ posts[i].type \in Updates
    \/ \E c \in Asking : c.id = view.id
    \/ worker.at = "matching" /\ worker.asked[1] = view.id
    \/ view.shown = Current

SettleInv == used.failed \/ (Numbered /\ Answered /\ Settling)

LEMMA Ids ==
    ASSUME TypeOK
    PROVE  /\ latest \in Nat /\ view.id \in Nat
           /\ \A c \in Asking : c \in Calls /\ c.type = "query" /\ c.id \in Nat
           /\ \A i \in DOMAIN posts : posts[i] \in Posts
                                      /\ (posts[i].type = "results" => posts[i].id \in Nat)
<1>1. latest \in Nat /\ view.id \in Nat
  BY ViewFields DEF TypeOK
<1>2. ASSUME NEW c \in Asking PROVE c \in Calls /\ c.type = "query" /\ c.id \in Nat
  <2>1. c \in Calls /\ c.type = "query"
    BY DEF Asking, TypeOK
  <2> QED
    BY <2>1, Messages
<1>3. ASSUME NEW i \in DOMAIN posts
      PROVE  posts[i] \in Posts /\ (posts[i].type = "results" => posts[i].id \in Nat)
  <2>1. posts[i] \in Posts
    BY DEF TypeOK
  <2> QED
    BY <2>1, Messages
<1> QED
  BY <1>1, <1>2, <1>3

LEMMA Appended ==
    ASSUME TypeOK, NEW p, posts' = Append(posts, p)
    PROVE  /\ DOMAIN posts' = DOMAIN posts \union {Len(posts) + 1}
           /\ Len(posts) + 1 \notin DOMAIN posts /\ posts'[Len(posts) + 1] = p
           /\ \A i \in DOMAIN posts : posts'[i] = posts[i] /\ Len(posts) + 1 > i
<1>1. posts \in Seq(Posts)
  BY DEF TypeOK
<1> QED
  BY <1>1

LEMMA Shortened ==
    ASSUME TypeOK, posts # <<>>, posts' = Tail(posts)
    PROVE  /\ 1 \in DOMAIN posts /\ Head(posts) = posts[1]
           /\ \A i \in DOMAIN posts' : i \in Int /\ i + 1 \in DOMAIN posts
                                       /\ posts'[i] = posts[i + 1]
           /\ \A i \in DOMAIN posts : i \in Int /\ i >= 1
                                      /\ (i > 1 => i - 1 \in DOMAIN posts'
                                                   /\ posts'[i - 1] = posts[i])
<1>1. posts \in Seq(Posts) /\ Len(posts) \in Nat /\ DOMAIN posts = 1 .. Len(posts)
  BY DEF TypeOK
<1>2. /\ Len(posts) > 0 /\ DOMAIN posts' = 1 .. Len(posts) - 1
      /\ \A i \in 1 .. Len(posts) - 1 : posts'[i] = posts[i + 1]
  BY <1>1
<1> QED
  BY <1>1, <1>2

\* The answers that stay in the queue stay as right as they were.
LEMMA ShorterAnswers ==
    ASSUME TypeOK, Answered, posts # <<>>, posts' = Tail(posts), worker'.index = worker.index,
           view'.id = view.id, view'.text = view.text
    PROVE  Answered' /\ Current' = Current
<1>1. Current' = Current
  BY DEF Current, RecordsAt, Positions
<1>2. ASSUME NEW i \in DOMAIN posts', Answer(posts'[i]), posts'[i].records # Current,
             worker.index # <<>>
      PROVE  \E j \in DOMAIN posts' : j > i /\ posts'[j].type \in Updates
  <2>1. i \in Int /\ i + 1 \in DOMAIN posts /\ posts'[i] = posts[i + 1]
    BY Shortened
  <2>2. Answer(posts[i + 1])
    BY <1>2, <2>1 DEF Answer
  <2>3. PICK j \in DOMAIN posts : j > i + 1 /\ posts[j].type \in Updates
    BY <1>2, <2>1, <2>2 DEF Answered
  <2>4. j \in Int /\ j >= 1
    BY Shortened
  <2>5. i >= 1
    <3>1. DOMAIN posts' = 1 .. Len(posts')
      BY DEF TypeOK
    <3> QED
      BY <3>1
  <2>6. j > 1 /\ j - 1 > i
    BY <2>1, <2>3, <2>4, <2>5
  <2>7. j - 1 \in DOMAIN posts' /\ posts'[j - 1] = posts[j]
    BY <2>6, Shortened
  <2> QED
    BY <2>3, <2>6, <2>7
<1>3. \A i : Answer(posts[i])' <=> Answer(posts'[i])
  BY DEF Answer
<1> QED
  BY <1>1, <1>2, <1>3 DEF Answered

LEMMA QuietSettles ==
    ASSUME TypeOK, IndexInv, Numbered, Answered, Settling, Quiet, ~used'.failed
    PROVE  Numbered' /\ Answered' /\ Settling'
<1>1. /\ UNCHANGED <<latest, view>> /\ Asking' = Asking
      /\ "matching" \in {worker.at, worker'.at} => worker' = worker
  BY DEF Quiet
<1>2. /\ posts' = posts \/ \E t \in Updates : posts' = Append(posts, [type |-> t])
      /\ \/ worker'.index = worker.index \/ worker'.index = <<>>
         \/ \E t \in Updates : posts' = Append(posts, [type |-> t])
  BY DEF Quiet, IndexEffect, PostsEffect
<1>3. \A i \in DOMAIN posts : /\ posts[i].type = "results" => posts[i].id <= latest
                              /\ posts[i].type # "error"
  BY DEF Numbered
<1>4. ASSUME \A i \in DOMAIN posts' : /\ posts'[i].type = "results" => posts'[i].id <= latest
                                      /\ posts'[i].type # "error"
      PROVE  Numbered'
  BY <1>1, <1>4 DEF Numbered
<1>5. ASSUME NEW t \in Updates, posts' = Append(posts, [type |-> t])
      PROVE  Numbered' /\ Answered' /\ Settling'
  <2> DEFINE n == Len(posts) + 1
             p == [type |-> t]
  <2>1. /\ DOMAIN posts' = DOMAIN posts \union {n} /\ posts'[n] = p
        /\ \A i \in DOMAIN posts : posts'[i] = posts[i] /\ n > i
    BY <1>5, Appended
  <2>2. p.type \in Updates /\ p.type # "results" /\ p.type # "error"
    BY DEF Updates
  <2> HIDE DEF n, p
  <2>3. Numbered'
    BY <1>3, <1>4, <2>1, <2>2
  <2>4. Answered'
    BY <2>1, <2>2 DEF Answered, Answer
  <2>5. Settling'
    BY <2>1, <2>2 DEF Settling
  <2> QED
    BY <2>3, <2>4, <2>5
<1>6. ASSUME posts' = posts, worker'.index = worker.index \/ worker'.index = <<>>
      PROVE  Numbered' /\ Answered' /\ Settling'
  <2>1. Numbered'
    BY <1>3, <1>4, <1>6
  <2>2. CASE worker'.index = <<>>
    BY <2>1, <2>2 DEF Answered, Settling
  <2>3. CASE worker'.index = worker.index
    <3>1. Current' = Current /\ \A i \in DOMAIN posts : Answer(posts[i])' = Answer(posts[i])
      BY <1>1, <1>6, <2>3 DEF Current, RecordsAt, Positions, Answer
    <3>2. Answered'
      BY <1>1, <1>6, <2>3, <3>1 DEF Answered, Answer
    <3>3. Settling'
      BY <1>1, <1>6, <2>3, <3>1 DEF Settling, Answer
    <3> QED
      BY <2>1, <3>2, <3>3
  <2> QED
    BY <1>6, <2>2, <2>3
<1> QED
  BY <1>2, <1>5, <1>6

\* An answer under the number of the view's last change is right, if anything is in the index.
LEMMA AnswerSettles ==
    ASSUME TypeOK, Numbered, Answered, Settling,
           worker'.index = worker.index, UNCHANGED <<latest, view>>,
           NEW id \in Nat, NEW records, latest = id,
           posts' = Append(posts, [type |-> "results", id |-> id, records |-> records]),
           id = view.id => records = Current \/ worker.index = <<>>,
           Asking' \subseteq Asking,
           \A c \in Asking : c \in Asking' \/ c.id = id,
           worker'.at # "matching",
           worker.at = "matching" => worker.asked[1] = id
    PROVE  Numbered' /\ Answered' /\ Settling'
<1> DEFINE n == Len(posts) + 1
           p == [type |-> "results", id |-> id, records |-> records]
<1>1. /\ DOMAIN posts' = DOMAIN posts \union {n} /\ posts'[n] = p
      /\ \A i \in DOMAIN posts : posts'[i] = posts[i] /\ n > i
  BY Appended
<1>2. p.type = "results" /\ p.id = id /\ p.records = records
  OBVIOUS
<1> HIDE DEF n, p
<1>3. "results" # "error" /\ "results" \notin Updates
  BY DEF Updates
<1>4. latest \in Nat /\ latest <= latest
  BY Ids
<1>5. Numbered'
  <2>1. \A i \in DOMAIN posts' : /\ posts'[i].type = "results" => posts'[i].id <= latest
                                 /\ posts'[i].type # "error"
    BY <1>1, <1>2, <1>3, <1>4 DEF Numbered
  <2>2. \A c \in Asking' : c.id <= latest /\ (c.id = view.id => c.query = view.text)
    BY DEF Numbered
  <2>3. latest <= view.id
    BY DEF Numbered
  <2> QED
    BY <2>1, <2>2, <2>3 DEF Numbered
<1>6. Current' = Current
  BY DEF Current, RecordsAt, Positions
<1>7. Answered'
  <2>1. ASSUME NEW i \in DOMAIN posts', posts'[i].type = "results", posts'[i].id = view.id
        PROVE  \/ posts'[i].records = Current \/ worker.index = <<>>
               \/ \E j \in DOMAIN posts' : j > i /\ posts'[j].type \in Updates
    <3>1. CASE i = n
      BY <1>1, <1>2, <2>1, <3>1
    <3>2. CASE i # n
      <4>1. i \in DOMAIN posts /\ posts'[i] = posts[i]
        BY <1>1, <2>1, <3>2
      <4>2. \/ posts[i].records = Current \/ worker.index = <<>>
            \/ \E j \in DOMAIN posts : j > i /\ posts[j].type \in Updates
        BY <2>1, <4>1 DEF Answered, Answer
      <4> QED
        BY <1>1, <4>1, <4>2
    <3> QED
      BY <3>1, <3>2
  <2> QED
    BY <1>6, <2>1 DEF Answered, Answer
<1>8. Settling'
  <2>1. CASE id = view.id
    BY <1>1, <1>2, <2>1 DEF Settling, Answer
  <2>2. CASE id # view.id
    <3>1. CASE \E i \in DOMAIN posts : Answer(posts[i]) \/ posts[i].type \in Updates
      BY <1>1, <3>1 DEF Settling, Answer
    <3>2. CASE \E c \in Asking : c.id = view.id
      BY <2>2, <3>2 DEF Settling
    <3>3. CASE worker.at = "matching" /\ worker.asked[1] = view.id
      BY <2>2, <3>3
    <3>4. CASE \/ worker.index = <<>> \/ ~view.loaded \/ view.debounce \/ view.rerun
               \/ view.shown = Current
      BY <1>6, <3>4 DEF Settling
    <3> QED
      BY <3>1, <3>2, <3>3, <3>4 DEF Settling
  <2> QED
    BY <2>1, <2>2
<1> QED
  BY <1>5, <1>7, <1>8

\* What was said of the queue of answers stays true while nothing but the queries changes.
LEMMA SamePosts ==
    ASSUME TypeOK, Answered, UNCHANGED <<view, posts>>, worker'.index = worker.index
    PROVE  Current' = Current /\ Answered'
<1>1. Current' = Current
  BY DEF Current, RecordsAt, Positions
<1> QED
  BY <1>1 DEF Answered, Answer

LEMMA TakeSettles ==
    ASSUME TypeOK, IndexInv, Numbered, Answered, Settling, NEW c, TakeEffect(c)
    PROVE  Numbered' /\ Answered' /\ Settling'
<1>1. /\ calls # <<>> /\ c = Head(calls) /\ c.type = "query" /\ c \in Calls
      /\ calls' = Tail(calls) /\ worker.at = "idle" /\ UNCHANGED <<latest, view>>
  BY DEF TakeEffect
<1>2. c.id \in Nat /\ c.query \in Queries
  BY <1>1, Messages
<1>3. /\ Asking' \subseteq Asking /\ \A a \in Asking : a = c \/ a \in Asking'
      /\ c \in Asking
  <2> DEFINE of(q) == {q[i] : i \in {j \in DOMAIN q : q[j].type = "query"}}
  <2>1. calls \in Seq(Calls)
    BY DEF TypeOK
  <2>2. of(Tail(calls)) \subseteq of(calls)
        /\ \A a \in of(calls) : a = Head(calls) \/ a \in of(Tail(calls))
    BY <1>1, <2>1, AskingTail
  <2>3. Asking = of(calls) /\ Asking' = of(Tail(calls))
    BY <1>1 DEF Asking
  <2>4. c \in Asking
    <3>1. 1 \in DOMAIN calls /\ calls[1] = c
      BY <1>1, <2>1
    <3> QED
      BY <1>1, <3>1 DEF Asking
  <2> QED
    BY <1>1, <2>2, <2>3, <2>4
<1>4. c.id <= latest /\ (c.id = view.id => c.query = view.text) /\ latest <= view.id
  BY <1>3 DEF Numbered
<1>5. latest \in Nat /\ view.id \in Nat
  BY Ids
<1>6. ASSUME latest # c.id, UNCHANGED <<worker, posts>>
      PROVE  Numbered' /\ Answered' /\ Settling'
  <2>1. c.id # view.id
    BY <1>2, <1>4, <1>5, <1>6
  <2>2. Current' = Current /\ Answered'
    BY <1>1, <1>6, SamePosts
  <2>3. Numbered'
    BY <1>1, <1>3, <1>6 DEF Numbered
  <2>4. Settling'
    BY <1>1, <1>3, <1>6, <2>1, <2>2 DEF Settling, Answer
  <2> QED
    BY <2>2, <2>3, <2>4
<1>7. ASSUME latest = c.id, worker.index = <<>>, UNCHANGED worker,
             posts' = Append(posts, [type |-> "results", id |-> c.id, records |-> {}])
      PROVE  Numbered' /\ Answered' /\ Settling'
  BY <1>1, <1>2, <1>3, <1>7, AnswerSettles
<1>8. ASSUME latest = c.id, UNCHANGED posts, worker'.at = "matching",
             worker'.asked = <<c.id, c.query>>, worker'.index = worker.index
      PROVE  Numbered' /\ Answered' /\ Settling'
  <2>1. Current' = Current /\ Answered'
    BY <1>1, <1>8, SamePosts
  <2>2. worker'.asked[1] = c.id /\ worker'.asked[2] = c.query
    BY <1>8
  <2>3. Numbered'
    BY <1>1, <1>3, <1>4, <1>8, <2>2 DEF Numbered
  <2>4. Settling'
    <3>1. CASE \E a \in Asking : a.id = view.id
      BY <1>1, <1>3, <1>8, <2>2, <3>1 DEF Settling
    <3>2. CASE ~ \E a \in Asking : a.id = view.id
      BY <1>1, <1>8, <2>1, <3>2 DEF Settling, Answer
    <3> QED
      BY <3>1, <3>2
  <2> QED
    BY <2>1, <2>3, <2>4
<1> QED
  BY <1>6, <1>7, <1>8 DEF TakeEffect

LEMMA RunSettles ==
    ASSUME TypeOK, IndexInv, NarrowInv, Numbered, Answered, Settling,
           NEW id, NEW q, RunEffect(id, q)
    PROVE  Numbered' /\ Answered' /\ Settling'
<1>1. /\ worker.at = "matching" /\ worker.asked = <<id, q>> /\ id \in Nat /\ q \in Queries
      /\ worker'.at = "idle" /\ worker'.index = worker.index
      /\ UNCHANGED <<calls, latest, view>>
  BY DEF RunEffect
<1>2. worker.asked[1] = id /\ worker.asked[2] = q
  BY <1>1
<1>3. id <= latest /\ (id = view.id => q = view.text) /\ latest <= view.id
  BY <1>1, <1>2 DEF Numbered
<1>4. latest \in Nat /\ view.id \in Nat
  BY Ids
<1>5. Asking' = Asking
  BY <1>1 DEF Asking
<1>6. ASSUME latest # id, UNCHANGED posts PROVE Numbered' /\ Answered' /\ Settling'
  <2>1. id # view.id
    BY <1>1, <1>3, <1>4, <1>6
  <2>2. Current' = Current /\ Answered'
    BY <1>1, <1>6, SamePosts
  <2>3. Numbered'
    BY <1>1, <1>5, <1>6 DEF Numbered
  <2>4. Settling'
    BY <1>1, <1>2, <1>5, <1>6, <2>1, <2>2 DEF Settling, Answer
  <2> QED
    BY <2>2, <2>3, <2>4
<1>7. ASSUME latest = id, posts' = Append(posts, [type |-> "results", id |-> id,
                                                  records |-> RecordsAt(Matches(q))])
      PROVE  Numbered' /\ Answered' /\ Settling'
  <2>1. Matches(q) = Positions(worker.index, q)
    BY <1>1, MatchesAreExact
  <2>2. id = view.id => RecordsAt(Matches(q)) = Current
    BY <1>3, <2>1 DEF Current
  <2> QED
    BY <1>1, <1>2, <1>5, <1>7, <2>2, AnswerSettles
<1> QED
  BY <1>6, <1>7 DEF RunEffect

\* Of the queue of answers, when the view takes none from it, or takes one.
LEMMA PostsShrink ==
    ASSUME TypeOK, Numbered, UNCHANGED latest,
           posts' = posts \/ (posts # <<>> /\ posts' = Tail(posts))
    PROVE  \A i \in DOMAIN posts' : /\ posts'[i].type = "results" => posts'[i].id <= latest'
                                    /\ posts'[i].type # "error"
<1>1. CASE posts' = posts
  BY <1>1 DEF Numbered
<1>2. CASE posts # <<>> /\ posts' = Tail(posts)
  <2>1. \A i \in DOMAIN posts' : i + 1 \in DOMAIN posts /\ posts'[i] = posts[i + 1]
    BY <1>2, Shortened
  <2> QED
    BY <2>1 DEF Numbered
<1> QED
  BY <1>1, <1>2

\* With a new number no answer and no other query has it.
LEMMA NewNumber ==
    ASSUME TypeOK, IndexInv, Numbered, GuiOnly, view'.id = view.id + 1, latest' \in Nat,
           latest <= latest', latest' <= view'.id,
           posts' = posts \/ (posts # <<>> /\ posts' = Tail(posts)),
           \A c \in Asking' : \/ c \in Asking
                              \/ c.id = latest' /\ c.query = view'.text
    PROVE  Numbered' /\ Answered'
<1>1. latest \in Nat /\ view.id \in Nat /\ latest <= view.id
  BY Ids DEF Numbered
<1>2. ASSUME NEW c \in Asking'
      PROVE  c.id <= latest' /\ (c.id = view'.id => c.query = view'.text)
  <2>1. CASE c \in Asking
    <3>1. c.id \in Nat /\ c.id <= latest
      BY <2>1, Ids DEF Numbered
    <3> QED
      BY <1>1, <3>1
  <2>2. CASE c.id = latest' /\ c.query = view'.text
    BY <2>2
  <2> QED
    BY <1>2, <2>1, <2>2
<1>3. UNCHANGED worker
  BY DEF GuiOnly
<1>4. ASSUME worker.at = "matching"
      PROVE  worker.asked[1] <= latest' /\ worker.asked[1] # view'.id
  <2>1. worker.asked[1] <= latest
    BY <1>4 DEF Numbered
  <2>2. latest < view'.id
    BY <1>1
  <2>3. worker.asked \in Nat \X Queries
    BY <1>4, WorkerFields DEF TypeOK, IndexInv, Sound
  <2> QED
    BY <1>1, <2>1, <2>2, <2>3
<1>5. ASSUME NEW i \in DOMAIN posts', posts'[i].type = "results"
      PROVE  posts'[i].id <= latest' /\ posts'[i].id # view'.id
  <2>1. PICK j \in DOMAIN posts : posts'[i] = posts[j]
    BY Shortened
  <2>2. posts[j].id \in Nat /\ posts[j].id <= latest
    BY <1>5, <2>1, Ids DEF Numbered
  <2> QED
    BY <1>1, <2>1, <2>2
<1>6. \A i \in DOMAIN posts' : posts'[i].type # "error"
  <2>1. \A i \in DOMAIN posts' : \E j \in DOMAIN posts : posts'[i] = posts[j]
    BY Shortened
  <2> QED
    BY <2>1 DEF Numbered
<1>7. Numbered'
  BY <1>2, <1>3, <1>4, <1>5, <1>6 DEF Numbered
<1>8. Answered'
  BY <1>5 DEF Answered, Answer
<1> QED
  BY <1>7, <1>8

LEMMA AsksSettles ==
    ASSUME TypeOK, IndexInv, Numbered, GuiTyped, Asks
    PROVE  Numbered' /\ Answered' /\ Settling'
<1> DEFINE c == [type |-> "query", id |-> view.id + 1, query |-> view.text]
<1>1. /\ view'.id = view.id + 1 /\ view'.text = view.text /\ latest' = view.id + 1
      /\ calls' = Append(calls, c) /\ calls \in Seq(Calls)
      /\ posts' = posts \/ (posts # <<>> /\ posts' = Tail(posts))
  BY DEF Asks, TypeOK
<1>2. c.type = "query" /\ c.id = view'.id /\ c.query = view'.text
  BY <1>1
<1> HIDE DEF c
<1>3. /\ DOMAIN calls' = DOMAIN calls \union {Len(calls) + 1} /\ calls'[Len(calls) + 1] = c
      /\ \A i \in DOMAIN calls : calls'[i] = calls[i]
  BY <1>1
<1>4. \A a \in Asking' : a \in Asking \/ a = c
  BY <1>3 DEF Asking
<1>5. c \in Asking'
  BY <1>2, <1>3 DEF Asking
<1>6. latest \in Nat /\ view.id \in Nat /\ latest <= view.id
  BY Ids DEF Numbered
<1>7. latest' \in Nat /\ latest <= latest' /\ latest' <= view'.id
  BY <1>1, <1>6
<1>8. Numbered' /\ Answered'
  <2>1. \A a \in Asking' : a \in Asking \/ (a.id = latest' /\ a.query = view'.text)
    BY <1>1, <1>2, <1>4
  <2>2. GuiOnly
    BY DEF GuiTyped
  <2> QED
    BY <1>1, <1>7, <2>1, <2>2, NewNumber
<1>9. Settling'
  BY <1>2, <1>5 DEF Settling
<1> QED
  BY <1>8, <1>9

LEMMA GuiSettles ==
    ASSUME TypeOK, IndexInv, Numbered, Answered, Settling, GuiEffect
    PROVE  Numbered' /\ Answered' /\ Settling'
<1>1. GuiTyped /\ UNCHANGED <<worker>> /\ GuiOnly
  BY DEF GuiEffect, GuiTyped, GuiOnly
<1>2. latest \in Nat /\ view.id \in Nat /\ latest <= view.id
  BY Ids DEF Numbered
<1>3. CASE Asks
  BY <1>1, <1>3, AsksSettles
<1>4. CASE Waits
  <2>1. /\ ~view'.loaded \/ view'.rerun \/ view'.debounce
        /\ view'.id = view.id /\ view'.text = view.text /\ UNCHANGED latest
        /\ Asking' = Asking
        /\ posts' = posts \/ (posts # <<>> /\ posts' = Tail(posts))
    BY <1>4 DEF Waits
  <2>2. Numbered'
    <3>1. \A i \in DOMAIN posts' : /\ posts'[i].type = "results" => posts'[i].id <= latest'
                                   /\ posts'[i].type # "error"
      BY <2>1, PostsShrink
    <3> QED
      BY <1>1, <2>1, <3>1 DEF Numbered
  <2>3. Answered'
    <3>1. CASE posts' = posts
      <4>1. Current' = Current
        BY <1>1, <2>1 DEF Current, RecordsAt, Positions
      <4> QED
        BY <1>1, <2>1, <3>1, <4>1 DEF Answered, Answer
    <3>2. CASE posts # <<>> /\ posts' = Tail(posts)
      BY <1>1, <2>1, <3>2, ShorterAnswers
    <3> QED
      BY <2>1, <3>1, <3>2
  <2>4. Settling'
    BY <2>1 DEF Settling
  <2> QED
    BY <2>2, <2>3, <2>4
<1>5. CASE Types
  <2>1. /\ view'.debounce /\ view'.id = view.id + 1
        /\ UNCHANGED <<latest, calls, posts>>
    BY <1>5 DEF Types
  <2>2. latest' \in Nat /\ latest <= latest' /\ latest' <= view'.id /\ Asking' = Asking
    BY <1>2, <2>1 DEF Asking
  <2>3. Numbered' /\ Answered'
    BY <1>1, <2>1, <2>2, NewNumber
  <2>4. Settling'
    BY <2>1 DEF Settling
  <2> QED
    BY <2>3, <2>4
<1>6. CASE Passes
  <2>1. /\ view'.loaded = view.loaded /\ view'.id = view.id /\ view'.text = view.text
        /\ view'.debounce = view.debounce /\ view'.rerun = view.rerun
        /\ view'.shown = view.shown /\ Asking' = Asking /\ UNCHANGED <<latest, posts>>
    BY <1>6 DEF Passes, Same
  <2>2. Current' = Current
    BY <1>1, <2>1 DEF Current, RecordsAt, Positions
  <2>3. Numbered' /\ Answered'
    BY <1>1, <2>1, <2>2 DEF Numbered, Answered, Answer
  <2>4. Settling'
    BY <1>1, <2>1, <2>2 DEF Settling, Answer
  <2> QED
    BY <2>3, <2>4
<1>7. CASE Fails
  <2>1. posts # <<>> /\ Head(posts).type = "error"
    BY <1>7 DEF Fails
  <2>2. 1 \in DOMAIN posts /\ Head(posts) = posts[1]
    BY <2>1 DEF TypeOK
  <2> QED
    BY <2>1, <2>2 DEF Numbered
<1>8. CASE Answers
  <2>1. /\ posts # <<>> /\ Head(posts).type = "results" /\ posts' = Tail(posts)
        /\ UNCHANGED <<latest, calls>>
        /\ view'.id = view.id /\ view'.text = view.text /\ view'.loaded = view.loaded
        /\ view'.debounce = view.debounce /\ view'.rerun = view.rerun
        /\ view'.shown = IF Head(posts).id = view.id THEN Head(posts).records ELSE view.shown
    BY <1>8 DEF Answers
  <2>2. Answered' /\ Current' = Current
    BY <1>1, <2>1, ShorterAnswers
  <2>3. Asking' = Asking
    BY <2>1 DEF Asking
  <2>4. Numbered'
    <3>1. \A i \in DOMAIN posts' : /\ posts'[i].type = "results" => posts'[i].id <= latest'
                                   /\ posts'[i].type # "error"
      BY <2>1, PostsShrink
    <3> QED
      BY <1>1, <2>1, <2>3, <3>1 DEF Numbered
  <2>5. 1 \in DOMAIN posts /\ Head(posts) = posts[1]
        /\ \A i \in DOMAIN posts : i \in Int /\ i >= 1
               /\ (i > 1 => i - 1 \in DOMAIN posts' /\ posts'[i - 1] = posts[i])
    BY <2>1, Shortened
  <2>6. Settling'
    <3>1. ASSUME NEW i \in DOMAIN posts, i > 1, Answer(posts[i]) \/ posts[i].type \in Updates
          PROVE  Settling'
      <4>1. i - 1 \in DOMAIN posts' /\ posts'[i - 1] = posts[i]
        BY <2>5, <3>1
      <4> QED
        BY <2>1, <3>1, <4>1 DEF Settling, Answer
    <3>2. CASE Head(posts).id = view.id
      <4>1. Answer(posts[1])
        BY <2>1, <2>5, <3>2 DEF Answer
      <4>2. \/ posts[1].records = Current \/ worker.index = <<>>
            \/ \E j \in DOMAIN posts : j > 1 /\ posts[j].type \in Updates
        BY <2>5, <4>1 DEF Answered
      <4>3. CASE posts[1].records = Current
        BY <2>1, <2>2, <2>5, <3>2, <4>3 DEF Settling
      <4>4. CASE worker.index = <<>>
        BY <1>1, <4>4 DEF Settling
      <4> QED
        BY <3>1, <4>2, <4>3, <4>4
    <3>3. CASE Head(posts).id # view.id
      <4>1. ~Answer(posts[1]) /\ posts[1].type \notin Updates
        BY <2>1, <2>5, <3>3 DEF Answer, Updates
      <4>2. CASE \E i \in DOMAIN posts : Answer(posts[i]) \/ posts[i].type \in Updates
        <5>1. PICK i \in DOMAIN posts : Answer(posts[i]) \/ posts[i].type \in Updates
          BY <4>2
        <5>2. i > 1
          BY <2>5, <4>1, <5>1
        <5> QED
          BY <3>1, <5>1, <5>2
      <4>3. CASE ~ \E i \in DOMAIN posts : Answer(posts[i]) \/ posts[i].type \in Updates
        <5>1. view'.shown = view.shown
          BY <2>1, <3>3
        <5> QED
          BY <1>1, <2>1, <2>2, <2>3, <4>3, <5>1 DEF Settling
      <4> QED
        BY <4>2, <4>3
    <3> QED
      BY <3>2, <3>3
  <2> QED
    BY <2>2, <2>4, <2>6
<1> QED
  BY <1>3, <1>4, <1>5, <1>6, <1>7, <1>8 DEF GuiEffect

LEMMA SettleStep ==
    TypeOK /\ IndexInv /\ NarrowInv /\ SettleInv /\ [Next]_vars => SettleInv'
<1> SUFFICES ASSUME TypeOK, IndexInv, NarrowInv, SettleInv, [Next]_vars, ~used'.failed
             PROVE  Numbered' /\ Answered' /\ Settling'
  BY DEF SettleInv
<1>1. Quiet \/ GuiEffect \/ TakeEffect(Head(calls))
      \/ RunEffect(worker.asked[1], worker.asked[2]) \/ UNCHANGED vars
  BY Steps
<1>2. ~used.failed
  BY <1>1 DEF Quiet, GuiEffect, GuiTyped, TakeEffect, RunEffect, vars
<1>3. Numbered /\ Answered /\ Settling
  BY <1>2 DEF SettleInv
<1>4. CASE UNCHANGED vars
  <2>1. Current' = Current /\ Asking' = Asking
    BY <1>4 DEF vars, Current, RecordsAt, Positions, Asking
  <2> QED
    BY <1>3, <1>4, <2>1 DEF vars, Numbered, Answered, Answer, Settling
<1> QED
  BY <1>1, <1>3, <1>4, QuietSettles, GuiSettles, TakeSettles, RunSettles

\* When the worker has no event, the view none of its signals and no timer, what is shown is
\* what the index has for the text in the box, if nothing failed: whatever order the answers,
\* the batches and the keystrokes came in.  Something is under way whenever what is shown is
\* not right (Settling), and no answer of an older index comes after the news of the next
\* (Answered).
THEOREM ShownCurrent == Spec => []ShownIsCurrent
<1>1. Init => TypeOK /\ IndexInv
  BY InitIndex
<1>2. TypeOK /\ IndexInv /\ [Next]_vars => (TypeOK /\ IndexInv)'
  BY IndexStep
<1>3. Init => NarrowInv /\ SettleInv
  <2> SUFFICES ASSUME Init PROVE NarrowInv /\ SettleInv
    OBVIOUS
  <2>1. PICK q \in Queries :
           /\ worker = [at |-> "idle", gen |-> 0, mode |-> "foreground", index |-> <<>>, age |-> 0,
                        staging |-> <<>>, snapshot |-> None, read |-> 0, sig |-> 0,
                        pending |-> FALSE, asked |-> <<>>]
           /\ narrow = [valid |-> FALSE, query |-> q, age |-> 0, matches |-> {}]
           /\ view = [loaded |-> FALSE, streaming |-> TRUE,
                      visible |-> TRUE, released |-> FALSE, id |-> 0, text |-> q,
                      debounce |-> FALSE, rerun |-> FALSE, shown |-> {}]
    BY Zenon DEF Init
  <2>2. calls = <<[type |-> "build", force |-> FALSE]>> /\ latest = 0 /\ posts = <<>>
    BY Zenon DEF Init
  <2>3. narrow.age = 0 /\ worker.age = 0 /\ narrow.valid = FALSE /\ worker.at = "idle"
        /\ worker.index = <<>> /\ view.id = 0
    BY <2>1
  <2>4. NarrowInv
    BY <2>3 DEF NarrowInv, NarrowingIsExact
  <2>5. Asking = {}
    BY <2>2 DEF Asking
  <2>6. Numbered /\ Answered /\ Settling
    BY <2>2, <2>3, <2>5 DEF Numbered, Answered, Settling
  <2> QED
    BY <2>4, <2>6 DEF SettleInv
<1>4. TypeOK /\ IndexInv /\ NarrowInv /\ [Next]_vars => NarrowInv'
  BY NarrowStep
<1>5. TypeOK /\ IndexInv /\ NarrowInv /\ SettleInv /\ [Next]_vars => SettleInv'
  BY SettleStep
<1>6. TypeOK /\ SettleInv => ShownIsCurrent
  <2> SUFFICES ASSUME TypeOK, SettleInv, calls = <<>>, posts = <<>>, worker.at = "idle",
                      ~view.debounce, ~view.rerun, view.loaded, worker.index # <<>>, ~used.failed
               PROVE  view.shown = RecordsAt(Positions(worker.index, view.text))
    BY DEF ShownIsCurrent
  <2>1. Asking = {} /\ DOMAIN posts = {}
    BY DEF Asking
  <2> QED
    BY <2>1 DEF SettleInv, Settling, Current
<1> QED
  BY <1>1, <1>2, <1>3, <1>4, <1>5, <1>6, PTL DEF Spec

=============================================================================
