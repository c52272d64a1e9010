--------------------------- MODULE SearchIndexing ---------------------------
(***************************************************************************)
(* The search index: how it is built, cached and asked.                    *)
(*                                                                         *)
(* A worker thread owns the index and has an event queue.  It loads the    *)
(* saved cache, or streams the library from one database snapshot, a batch *)
(* per event, so that queries and new builds come in between; a third      *)
(* thread writes the cache, and the worker publishes it.  The view, on the *)
(* GUI thread, asks for builds, types queries, and frees the index when it *)
(* was hidden for a while.  Meanwhile the library changes.                 *)
(*                                                                         *)
(* The library's content is named by its revision; a record stands for one *)
(* batch of the rows.  Exclusion rules, which hide rows of a result after  *)
(* the matching, are left out.                                             *)
(***************************************************************************)
EXTENDS Integers, Sequences, SequencesExt

CONSTANTS
    Queries,        \* what may be typed, with the fuzzy mode
    Batches,        \* the batches of the library
    Matching,       \* the records each query matches
    Narrowing,      \* the pairs of queries for which narrows() holds
    MaxRevision,    \* bound on the changes of the library
    MaxTyped,       \* bound on the texts typed
    MaxEvents,      \* bound on the builds asked for, the times the view is hidden, and the
                    \* failures of the database and the disk
    MaxTogether     \* bound on the texts and the events together

Revisions == 0 .. MaxRevision
Records == Revisions \X (1 .. Batches)

ASSUME SearchAssumption ==
    /\ Queries # {} /\ Batches \in Nat \ {0}
    /\ Matching \in [Queries -> SUBSET Records]
    /\ Narrowing \subseteq {n \in Queries \X Queries : Matching[n[2]] \subseteq Matching[n[1]]}
    /\ MaxRevision \in Nat \ {0} /\ MaxTyped \in Nat /\ MaxEvents \in Nat
    /\ MaxTogether \in Nat

VARIABLES
    revision,       \* search_content_state.revision
    cache,          \* the cache file
    worker,         \* SearchWorker
    calls,          \* the worker's event queue
    narrow,         \* NarrowingCache
    writer,         \* m_cacheThread with its records and its flag
    latest,         \* m_latestQueryId
    view,           \* SearchView with its IdleReleaseController
    posts,          \* the worker's signals on their way to the view
    used            \* what was used up of the bounds, and whether anything failed

vars == <<revision, cache, worker, calls, narrow, writer, latest, view, posts, used>>

None == -1

Cache == [ours : BOOLEAN, sig : Revisions, records : Seq(Records)]
Worker == [at : {"idle", "verify", "matching"}, gen : Nat, mode : {"foreground", "background"},
           index : Seq(Records), age : Nat, staging : Seq(Records),
           snapshot : Revisions \union {None}, read : 0 .. Batches,
           sig : Revisions, pending : BOOLEAN, asked : {<<>>} \union (Nat \X Queries)]
Narrow == [valid : BOOLEAN, query : Queries, age : Nat, matches : SUBSET (1 .. Batches)]
Writer == [on : BOOLEAN, done : BOOLEAN, gen : Nat, sig : Revisions, records : Seq(Records),
           cancelled : BOOLEAN, prepared : BOOLEAN]
View == [loaded : BOOLEAN, streaming : BOOLEAN,
         visible : BOOLEAN, released : BOOLEAN,
         id : Nat, text : Queries, debounce : BOOLEAN, rerun : BOOLEAN,
         shown : SUBSET Records]
Calls ==
    [type : {"build"}, force : BOOLEAN]
    \union [type : {"rebuild", "chunk"}, gen : Nat]
    \union [type : {"query"}, id : Nat, query : Queries]
    \union [type : {"clear", "written"}]
Posts ==
    [type : {"grew", "loaded", "refreshed", "error"}]
    \union [type : {"results"}, id : Nat, records : SUBSET Records]
Used == [typed : 0 .. MaxTyped, events : 0 .. MaxEvents, failed : BOOLEAN]

TypeOK ==
    /\ revision \in Revisions
    /\ cache \in Cache
    /\ worker \in Worker
    /\ calls \in Seq(Calls)
    /\ narrow \in Narrow
    /\ writer \in Writer
    /\ latest \in Nat
    /\ view \in View
    /\ posts \in Seq(Posts)
    /\ used \in Used

\* Missing, unreadable, or of another database or version.
NoCache == [ours |-> FALSE, sig |-> 0, records |-> <<>>]
NoWriter == [on |-> FALSE, done |-> FALSE, gen |-> 0, sig |-> 0, records |-> <<>>,
             cancelled |-> FALSE, prepared |-> FALSE]

Together == used.typed + used.events < MaxTogether

Event(failure) ==
    /\ used.events < MaxEvents /\ Together
    /\ used' = [used EXCEPT !.events = @ + 1, !.failed = @ \/ failure]
Fault == Event(TRUE)

\* The rows under one database snapshot.
Content(r) == [i \in 1 .. Batches |-> <<r, i>>]

\* The library's rows change.
Change ==
    /\ revision < MaxRevision
    /\ revision' = revision + 1
    /\ UNCHANGED <<cache, worker, calls, narrow, writer, latest, view, posts, used>>

----------------------------------------------------------------------------
(* The worker. *)

Arrives(type) == worker.at = "idle" /\ calls # <<>> /\ Head(calls).type = type
Call(c) == calls' = Append(calls, c)
Live(gen) == gen = worker.gen

\* Mutant: the staged batches of a superseded build are left.
SupersededStaged(w) == [w EXCEPT !.gen = @ + 1, !.pending = FALSE, !.snapshot = None, !.read = 0]

\* What every build and clearIndex() do first: the stream under way is superseded, and the
\* cache on its way is abandoned.
Superseded(w) == [w EXCEPT !.gen = @ + 1, !.pending = FALSE, !.snapshot = None, !.read = 0,
                                !.staging = <<>>]
CancelCacheWrite == writer' = [writer EXCEPT !.cancelled = writer.on]

\* Mutant: any cache of this database counts as fresh.
IsFreshIfOurs == cache.ours

\* The cached index is what the library has.
IsFresh == cache.ours /\ cache.sig = revision

\* The cached index can be shown while it is refreshed.
Usable == cache.ours

\* startBuild(), w being the worker after it superseded what it did before.
LoadFresh(w, rest) ==
    /\ worker' = [w EXCEPT !.index = cache.records, !.age = @ + 1, !.sig = revision,
                           !.at = "verify"]
    /\ posts' = Append(posts, [type |-> "loaded"])
    /\ calls' = rest

Stream(w, rest) ==
    LET next == [w EXCEPT !.gen = @ + 1, !.sig = revision, !.snapshot = revision, !.read = 0,
                          !.age = @ + 1]
    IN /\ worker' = IF Usable
                    THEN [next EXCEPT !.index = cache.records, !.mode = "background"]
                    ELSE [next EXCEPT !.index = <<>>, !.mode = "foreground"]
       /\ posts' = IF Usable
                   THEN Append(posts, [type |-> "loaded"]) ELSE posts
       /\ calls' = Append(rest, [type |-> "chunk", gen |-> next.gen])

StartBuild(force, rest) ==
    LET w == Superseded(worker)
    IN /\ CancelCacheWrite
       /\ \/ /\ IF ~force /\ IsFresh
                THEN LoadFresh(w, rest) ELSE Stream(w, rest)
             /\ UNCHANGED used
          \/ /\ Fault
             /\ worker' = w /\ calls' = rest
             /\ posts' = Append(posts, [type |-> "error"])
       /\ UNCHANGED <<revision, cache, narrow, latest, view>>

HandleBuild == Arrives("build") /\ StartBuild(Head(calls).force, Tail(calls))

\* A build the worker posted to itself because the library changed meanwhile.
HandleRebuild ==
    /\ Arrives("rebuild")
    /\ IF Live(Head(calls).gen) THEN StartBuild(FALSE, Tail(calls))
       ELSE /\ calls' = Tail(calls)
            /\ UNCHANGED <<revision, cache, worker, narrow, writer, latest, view, posts, used>>

\* The fresh cache was loaded: was the library changed in between?
Verify ==
    /\ worker.at = "verify"
    /\ worker' = [worker EXCEPT !.at = "idle"]
    /\ \/ revision = worker.sig /\ UNCHANGED <<calls, used>>
       \/ /\ IF revision = worker.sig THEN Fault ELSE UNCHANGED used
          /\ Call([type |-> "rebuild", gen |-> worker.gen])
    /\ UNCHANGED <<revision, cache, narrow, writer, latest, view, posts>>

\* Mutant: the cache is signed with what the library has when the write begins.
StartCacheWriteSignedNow(w, wr) ==
    IF w.pending /\ ~wr.on
    THEN /\ writer' = [NoWriter EXCEPT !.on = TRUE, !.gen = w.gen, !.sig = revision,
                                       !.records = w.index]
         /\ worker' = [w EXCEPT !.pending = FALSE]
    ELSE writer' = wr /\ worker' = w

\* startCacheWrite(), for the worker w: one writer at a time, the next takes the live index.
StartCacheWrite(w, wr) ==
    IF w.pending /\ ~wr.on
    THEN /\ writer' = [NoWriter EXCEPT !.on = TRUE, !.gen = w.gen, !.sig = w.sig,
                                       !.records = w.index]
         /\ worker' = [w EXCEPT !.pending = FALSE]
    ELSE writer' = wr /\ worker' = w

\* finishBuild().
Finish(rest) ==
    LET background == worker.mode = "background"
        w == [worker EXCEPT !.snapshot = None, !.read = 0, !.staging = <<>>,
                            !.index = IF background THEN worker.staging ELSE @,
                            !.age = IF background THEN @ + 1 ELSE @]
        done == Append(posts, [type |-> IF background THEN "refreshed" ELSE "loaded"])
    IN \/ /\ posts' = done
          /\ IF revision = w.sig
             THEN /\ StartCacheWrite([w EXCEPT !.pending = TRUE], writer)
                  /\ calls' = rest
             ELSE /\ worker' = w
                  /\ calls' = Append(rest, [type |-> "rebuild", gen |-> w.gen])
                  /\ UNCHANGED writer
          /\ UNCHANGED used
       \/ /\ Fault
          /\ worker' = w /\ calls' = rest
          /\ posts' = Append(done, [type |-> "error"])
          /\ UNCHANGED writer

\* readChunk(): a batch goes to the live index or to the staged one.
ReadBatch(rest) ==
    LET record == <<worker.snapshot, worker.read + 1>>
        more   == Append(rest, [type |-> "chunk", gen |-> worker.gen])
    IN \/ /\ calls' = more
          /\ IF worker.mode = "foreground"
             THEN /\ worker' = [worker EXCEPT !.read = @ + 1, !.age = @ + 1,
                                              !.index = Append(@, record)]
                  /\ posts' = Append(posts, [type |-> "grew"])
             ELSE /\ worker' = [worker EXCEPT !.read = @ + 1, !.staging = Append(@, record)]
                  /\ UNCHANGED posts
          /\ UNCHANGED used
       \/ /\ Fault
          /\ worker' = [worker EXCEPT !.snapshot = None, !.read = 0, !.staging = <<>>]
          /\ posts' = Append(posts, [type |-> "error"])
          /\ calls' = rest

Streaming(gen) == Live(gen) /\ worker.snapshot # None

MoreBatches == worker.read < Batches

ReadChunk ==
    /\ Arrives("chunk")
    /\ LET rest == Tail(calls)
       IN IF ~Streaming(Head(calls).gen)
          THEN calls' = rest /\ UNCHANGED <<worker, writer, posts, used>>
          ELSE IF MoreBatches THEN ReadBatch(rest) /\ UNCHANGED writer
          ELSE Finish(rest)
    /\ UNCHANGED <<revision, cache, narrow, latest, view>>

ClearIndex ==
    /\ Arrives("clear")
    /\ CancelCacheWrite
    /\ worker' = [Superseded(worker) EXCEPT !.index = <<>>, !.age = @ + 1]
    /\ calls' = Tail(calls)
    /\ UNCHANGED <<revision, cache, narrow, latest, view, posts, used>>

----------------------------------------------------------------------------
(* The cache writer. *)

\* The file is complete, or cancelled, or could not be written; the thread ends.
Prepare ==
    /\ writer.on /\ ~writer.done
    /\ \/ writer' = [writer EXCEPT !.done = TRUE, !.prepared = TRUE] /\ UNCHANGED used
       \/ /\ writer' = [writer EXCEPT !.done = TRUE]
          /\ IF writer.cancelled THEN UNCHANGED used ELSE Fault
    /\ calls' = Append(calls, [type |-> "written"])
    /\ UNCHANGED <<revision, cache, worker, narrow, latest, view, posts>>

MayPublish == ~writer.cancelled /\ Live(writer.gen)

\* QThread::finished, on the worker thread.
HandleWritten ==
    /\ Arrives("written")
    /\ StartCacheWrite(worker, NoWriter)
    /\ \/ /\ IF MayPublish /\ revision = writer.sig /\ writer.prepared
             THEN cache' = [ours |-> TRUE, sig |-> writer.sig, records |-> writer.records]
             ELSE UNCHANGED cache
          /\ calls' = IF MayPublish /\ revision # writer.sig
                      THEN Append(Tail(calls), [type |-> "rebuild", gen |-> writer.gen])
                      ELSE Tail(calls)
          /\ UNCHANGED <<posts, used>>
       \/ /\ MayPublish /\ Fault
          /\ posts' \in {posts, Append(posts, [type |-> "error"])}
          /\ calls' = Tail(calls)
          /\ UNCHANGED cache
    /\ UNCHANGED <<revision, narrow, latest, view>>

----------------------------------------------------------------------------
(* Queries. *)

Positions(index, q) == {i \in DOMAIN index : index[i] \in Matching[q]}

\* Mutant: narrowing does not ask whether the index is the one it has matched.
ReusableAnyAge(q) ==
    narrow.valid /\ (narrow.query = q \/ <<narrow.query, q>> \in Narrowing)

\* Only the matches of the query before are looked at again.
Reusable(q) ==
    /\ narrow.valid /\ narrow.age = worker.age
    /\ narrow.query = q \/ <<narrow.query, q>> \in Narrowing

Matches(q) ==
    IF Reusable(q) THEN Positions(worker.index, q) \intersect narrow.matches
    ELSE Positions(worker.index, q)

RecordsAt(positions) == {worker.index[i] : i \in positions}

\* submitQuery()'s event: a query that was superseded is skipped; runQuery() begins.
TakeQuery ==
    /\ Arrives("query")
    /\ calls' = Tail(calls)
    /\ LET c == Head(calls)
       IN IF latest # c.id THEN UNCHANGED <<worker, posts>>
          ELSE IF worker.index = <<>>
          THEN /\ posts' = Append(posts, [type |-> "results", id |-> c.id, records |-> {}])
               /\ UNCHANGED worker
          ELSE /\ worker' = [worker EXCEPT !.at = "matching", !.asked = <<c.id, c.query>>]
               /\ UNCHANGED posts
    /\ UNCHANGED <<revision, cache, narrow, writer, latest, view, used>>

\* The scan is through, or stops because the query was superseded.
RunQuery ==
    /\ worker.at = "matching"
    /\ LET id      == worker.asked[1]
           q       == worker.asked[2]
           matches == Matches(q)
           kept    == [valid |-> TRUE, query |-> q, age |-> worker.age, matches |-> matches]
       IN
       /\ worker' = [worker EXCEPT !.at = "idle", !.asked = <<>>]
       /\ \/ /\ latest = id
             /\ narrow' = kept
             /\ posts' = Append(posts, [type |-> "results", id |-> id,
                                        records |-> RecordsAt(matches)])
          \/ /\ latest # id
             /\ narrow' \in {narrow, kept}
             /\ UNCHANGED posts
       /\ UNCHANGED <<revision, cache, calls, writer, latest, view, used>>

----------------------------------------------------------------------------
(* SearchView. *)

Came(type) == posts # <<>> /\ Head(posts).type = type
GuiOnly == UNCHANGED <<revision, cache, worker, narrow, writer>>

\* submitQuery() of the view v.
Submit(v) ==
    IF v.loaded
    THEN /\ view' = [v EXCEPT !.id = @ + 1]
         /\ latest' = v.id + 1
         /\ Call([type |-> "query", id |-> v.id + 1, query |-> v.text])
    ELSE view' = v /\ UNCHANGED <<latest, calls>>

Type(q) ==
    /\ view.visible /\ q # view.text /\ used.typed < MaxTyped /\ Together
    /\ used' = [used EXCEPT !.typed = @ + 1]
    /\ view' = [view EXCEPT !.text = q, !.id = @ + 1, !.debounce = TRUE]
    /\ UNCHANGED <<latest, calls, posts>>
    /\ GuiOnly

Debounce ==
    /\ view.debounce
    /\ Submit([view EXCEPT !.debounce = FALSE])
    /\ UNCHANGED <<posts, used>>
    /\ GuiOnly

StreamRerun ==
    /\ view.rerun
    /\ Submit([view EXCEPT !.rerun = FALSE])
    /\ UNCHANGED <<posts, used>>
    /\ GuiOnly

OnIndexGrew ==
    /\ Came("grew")
    /\ posts' = Tail(posts)
    /\ IF view.loaded
       THEN view' = [view EXCEPT !.rerun = TRUE] /\ UNCHANGED <<latest, calls>>
       ELSE Submit([view EXCEPT !.loaded = TRUE])
    /\ UNCHANGED used
    /\ GuiOnly

OnIndexLoaded ==
    /\ Came("loaded")
    /\ posts' = Tail(posts)
    /\ Submit([view EXCEPT !.loaded = TRUE, !.streaming = FALSE, !.rerun = FALSE])
    /\ UNCHANGED used
    /\ GuiOnly

\* Mutant: the swapped index does not run the query again.
OnIndexRefreshedSilently ==
    /\ Came("refreshed")
    /\ posts' = Tail(posts)
    /\ UNCHANGED <<view, latest, calls, used>>
    /\ GuiOnly

OnIndexRefreshed ==
    /\ Came("refreshed")
    /\ posts' = Tail(posts)
    /\ Submit(view)
    /\ UNCHANGED used
    /\ GuiOnly

OnIndexError ==
    /\ Came("error")
    /\ posts' = Tail(posts)
    /\ view' = [view EXCEPT !.streaming = FALSE, !.rerun = FALSE]
    /\ UNCHANGED <<latest, calls, used>>
    /\ GuiOnly

OnResultsReady ==
    /\ Came("results")
    /\ posts' = Tail(posts)
    /\ view' = IF Head(posts).id = view.id THEN [view EXCEPT !.shown = Head(posts).records]
               ELSE view
    /\ UNCHANGED <<latest, calls, used>>
    /\ GuiOnly

\* invalidateIndex(): after a scan, a fill or an import, or on F5.
Invalidate(force) ==
    /\ Event(FALSE)
    /\ view' = [view EXCEPT !.loaded = FALSE, !.streaming = TRUE]
    /\ Call([type |-> "build", force |-> force])
    /\ UNCHANGED <<latest, posts>>
    /\ GuiOnly

Hide ==
    /\ view.visible /\ Event(FALSE)
    /\ view' = [view EXCEPT !.visible = FALSE]
    /\ UNCHANGED <<latest, calls, posts>>
    /\ GuiOnly

\* The idle timer of the hidden view: releaseIdleResources().
Release ==
    /\ ~view.visible /\ ~view.released
    /\ view' = [view EXCEPT !.released = TRUE, !.loaded = FALSE, !.streaming = FALSE,
                            !.rerun = FALSE, !.shown = {}]
    /\ Call([type |-> "clear"])
    /\ UNCHANGED <<latest, posts, used>>
    /\ GuiOnly

\* Chosen again: switchMainView() calls ensureIndexLoaded() whether or not the index was freed.
Show ==
    /\ ~view.visible
    /\ IF view.loaded \/ view.streaming
       THEN /\ view' = [view EXCEPT !.visible = TRUE, !.released = FALSE]
            /\ UNCHANGED calls
       ELSE /\ view' = [view EXCEPT !.visible = TRUE, !.released = FALSE, !.streaming = TRUE]
            /\ Call([type |-> "build", force |-> FALSE])
    /\ UNCHANGED <<latest, posts, used>>
    /\ GuiOnly

----------------------------------------------------------------------------

\* The view was shown for the first time, beside any cache an earlier run has left.
Init ==
    /\ revision \in Revisions
    /\ cache \in {NoCache} \union {[ours |-> TRUE, sig |-> r, records |-> Content(r)] :
                                    r \in 0 .. revision}
    /\ \E q \in Queries :
           /\ worker = [at |-> "idle", gen |-> 0, mode |-> "foreground", index |-> <<>>, age |-> 0,
                        staging |-> <<>>, snapshot |-> None, read |-> 0, sig |-> 0,
                        pending |-> FALSE, asked |-> <<>>]
           /\ narrow = [valid |-> FALSE, query |-> q, age |-> 0, matches |-> {}]
           /\ view = [loaded |-> FALSE, streaming |-> TRUE,
                      visible |-> TRUE, released |-> FALSE, id |-> 0, text |-> q,
                      debounce |-> FALSE, rerun |-> FALSE, shown |-> {}]
    /\ calls = <<[type |-> "build", force |-> FALSE]>>
    /\ writer = NoWriter
    /\ latest = 0
    /\ posts = <<>>
    /\ used = [typed |-> 0, events |-> 0, failed |-> FALSE]

WorkerStep == \/ HandleBuild \/ HandleRebuild \/ Verify \/ ReadChunk \/ ClearIndex
              \/ HandleWritten \/ TakeQuery \/ RunQuery

GuiEvent == \/ OnIndexGrew \/ OnIndexLoaded \/ OnIndexRefreshed
            \/ OnIndexError \/ OnResultsReady

User == \/ \E q \in Queries : Type(q)
        \/ \E force \in BOOLEAN : Invalidate(force)
        \/ Hide \/ Release \/ Show

Next == Change \/ WorkerStep \/ Prepare \/ GuiEvent \/ Debounce \/ StreamRerun \/ User

Spec == Init /\ [][Next]_vars

\* Threads and event loops run and timers fire; the idle timer of a hidden view may be
\* stopped by its showing.
FairSpec ==
    /\ Spec
    /\ WF_vars(WorkerStep) /\ WF_vars(Prepare) /\ WF_vars(GuiEvent)
    /\ WF_vars(Debounce) /\ WF_vars(StreamRerun)

----------------------------------------------------------------------------
(* What search promises. *)

\* The published cache is complete and belongs to the revision it names, although builds,
\* clears and the library's changes overtake the writer, and a write that waited takes
\* whatever the index is when its turn comes.
CacheIsTruthful == cache.ours => cache.records = Content(cache.sig)

\* The index is never put together from two snapshots: it is the beginning of one.
IndexIsOneSnapshot ==
    \A records \in {worker.index, worker.staging} :
        \E r \in Revisions : IsPrefix(records, Content(r))

\* Looking only at the matches of the query before gives what a full scan would, whatever
\* replaced the index between two keystrokes.
NarrowingIsExact ==
    narrow.valid /\ narrow.age = worker.age
        => narrow.matches = Positions(worker.index, narrow.query)

\* Once all is quiet, the view shows what the index has for the text in the box: no result
\* of an older text, nor of the part of the index there was before the last batch.  (A failed
\* build stops the re-run that would show its last batch.)
ShownIsCurrent ==
    /\ calls = <<>> /\ posts = <<>> /\ worker.at = "idle"
    /\ ~view.debounce /\ ~view.rerun /\ view.loaded /\ worker.index # <<>> /\ ~used.failed
    => view.shown = RecordsAt(Positions(worker.index, view.text))

\* A build asked for when the library had its present content leads to an index of that
\* content or a later one, past the builds that supersede it: unless the database fails or
\* the index is freed.
BuildIsFresh ==
    \A r \in Revisions :
        revision = r /\ (\E i \in DOMAIN calls : calls[i].type = "build")
            ~> \/ \E later \in r .. MaxRevision : worker.index = Content(later)
               \/ used.failed \/ view.released

\* What SearchView.h says of releaseIdleResources(), that the index is rebuilt on the next
\* show: a view that is shown has an index in the end.
ShownIsRebuilt ==
    view.visible ~> worker.index # <<>> \/ ~view.visible \/ used.failed

=============================================================================
