----------------------------- MODULE PlayerCore -----------------------------
(***************************************************************************)
(* PlayerCore: the queue, what plays next, and the requests it makes of    *)
(* its playback backend.                                                   *)
(*                                                                         *)
(* PlayerCore lives on the GUI thread, so a handler is one step, with two  *)
(* exceptions that are steps of their own: the loop of skipCurrentTrack()  *)
(* over rows that cannot be played, and the answer to a DSD takeover       *)
(* prompt.  The backend runs by itself: it arms a hand-off to the prepared *)
(* row and starts it (module GaplessHandoff has that protocol in detail).  *)
(* A handler that stabilises the hand-off commits a started one first, so  *)
(* it is enabled only after the commit; an armed one it cancels.           *)
(*                                                                         *)
(* A track stands for its path.  Row numbers start from 0, as in the code. *)
(***************************************************************************)
EXTENDS Integers, FiniteSets, Sequences

CONSTANTS
    Tracks,         \* the library
    NoTrack,        \* an empty path
    Unresolvable,   \* tracks resolvePath() finds no file for
    DsdTracks,      \* tracks the start planner may defer or skip
    Lists,          \* the track lists a caller loads, appends or inserts
    RepeatModes, ShuffleModes, MayRadio,  \* the modes a run switches between
    MaxStop,        \* bound on the count of a stop-after-completions timer
    MaxQueue,       \* bound on the length of the queue
    MaxTrail        \* bound on the length of m_shuffleHistory

ASSUME CoreAssumption ==
    /\ NoTrack \notin Tracks
    /\ Unresolvable \subseteq Tracks /\ DsdTracks \subseteq Tracks
    /\ Lists \subseteq Seq(Tracks) \ {<<>>}
    /\ \A list \in Lists : Len(list) =< MaxQueue
    /\ RepeatModes \subseteq {"Off", "All", "One"} /\ "Off" \in RepeatModes
    /\ ShuffleModes \subseteq {"Off", "Queue", "Library"} /\ "Off" \in ShuffleModes
    /\ MayRadio \in BOOLEAN
    /\ MaxStop \in Nat /\ MaxQueue \in Nat \ {0} /\ MaxTrail \in Nat

VARIABLES
    queue,          \* rows [track, asked]; asked: inserted by playTracksNext
    queueIndex, playNextInsertIndex, currentTrack,
    pendingStagedStart,  \* m_pendingStagedStartPath
    repeatMode, shuffleMode, radioActive,
    visited, history, forward,  \* m_shuffleVisited, -History, -Forward
    preparedNext,   \* [index, injected]
    stopAfter,      \* completions left, or Deadline; 0 when disarmed
    dsdPending,     \* the track of the takeover prompt, and its notifyScrobbler
    skipDsdBlock,
    skipping,       \* rounds left in skipCurrentTrack()'s loop, plus one
    \* the backend: the audible source, the uri it may arm, the armed one
    source, state, prepared, armed, started, stopPending,
    announced,      \* the track last presented with notifyScrobbler
    silent          \* the source was loaded without notifyScrobbler

rows    == <<queue, queueIndex, playNextInsertIndex>>
modes   == <<repeatMode, shuffleMode, radioActive>>
trail   == <<visited, history, forward>>
prompt  == <<dsdPending, skipDsdBlock>>
backend == <<source, state, prepared, armed, started, stopPending>>
report  == <<announced, silent>>
vars == <<rows, modes, trail, prompt, backend, report, currentTrack,
          pendingStagedStart, preparedNext, stopAfter, skipping>>

OptTrack == Tracks \union {NoTrack}
Deadline == -1
NoNext   == [index |-> -1, injected |-> NoTrack]
NextRow(i) == [index |-> i, injected |-> NoTrack]
NoPrompt == [track |-> NoTrack, notify |-> FALSE]

RowsOf(q)    == 0 .. Len(q) - 1
TrackAt(q, i) == q[i + 1].track
TracksOf(q)  == {q[k].track : k \in DOMAIN q}
AsRows(list, asked) == [k \in DOMAIN list |-> [track |-> list[k], asked |-> asked]]
Clamp(i, low, high) == IF i < low THEN low ELSE IF i > high THEN high ELSE i

TypeOK ==
    /\ queue \in Seq([track : Tracks, asked : BOOLEAN])
    /\ queueIndex \in -1 .. Len(queue) - 1
    /\ playNextInsertIndex \in -1 .. Len(queue)
    /\ currentTrack \in OptTrack /\ pendingStagedStart \in OptTrack
    /\ repeatMode \in RepeatModes /\ shuffleMode \in ShuffleModes
    /\ radioActive \in BOOLEAN
    /\ visited \subseteq RowsOf(queue)
    /\ history \in Seq(RowsOf(queue)) /\ forward \in Seq(RowsOf(queue))
    /\ preparedNext \in [index : Int, injected : OptTrack]
    /\ stopAfter \in Deadline .. MaxStop
    /\ dsdPending \in [track : OptTrack, notify : BOOLEAN]
    /\ skipDsdBlock \in BOOLEAN
    /\ skipping \in 0 .. MaxQueue + 2
    /\ source \in OptTrack /\ prepared \in OptTrack /\ armed \in OptTrack
    /\ state \in {"Stopped", "Playing", "Paused", "Error"}
    /\ started \in BOOLEAN /\ stopPending \in BOOLEAN
    /\ announced \in OptTrack /\ silent \in BOOLEAN

Init ==
    /\ queue = <<>> /\ queueIndex = -1 /\ playNextInsertIndex = -1
    /\ currentTrack = NoTrack /\ pendingStagedStart = NoTrack
    /\ repeatMode = "Off" /\ shuffleMode = "Off" /\ radioActive = FALSE
    /\ visited = {} /\ history = <<>> /\ forward = <<>>
    /\ preparedNext = NoNext /\ stopAfter = 0
    /\ dsdPending = NoPrompt /\ skipDsdBlock = FALSE /\ skipping = 0
    /\ source = NoTrack /\ state = "Stopped" /\ prepared = NoTrack
    /\ armed = NoTrack /\ started = FALSE /\ stopPending = FALSE
    /\ announced = NoTrack /\ silent = FALSE

----------------------------------------------------------------------------
(* What plays next. *)

Policy == [queue |-> queue, index |-> queueIndex, forward |-> forward,
           repeat |-> repeatMode, shuffle |-> shuffleMode, radio |-> radioActive]

\* A provider may return nothing; it does when the queue may not grow.
Pulls(q) == IF Len(q) < MaxQueue THEN Tracks \ TracksOf(q) ELSE {}

PickShuffleHeard(p, vis) ==
    {[next |-> NextRow(i), visited |-> vis] : i \in RowsOf(p.queue) \ {p.index}}

\* pickShuffleIndex(): any row not heard in this cycle; with Repeat All a new
\* cycle begins when there is none.  A choice carries the visited rows with it.
PickShuffle(p, vis) ==
    LET others == RowsOf(p.queue) \ {p.index}
        fresh  == others \ vis
        pick(S, v) == {[next |-> NextRow(i), visited |-> v] : i \in S}
    IN CASE others = {} -> pick({IF p.repeat = "All" THEN p.index ELSE -1}, vis)
         [] others # {} /\ fresh # {} -> pick(fresh, vis)
         [] others # {} /\ fresh = {} /\ p.repeat # "All" -> pick({-1}, vis)
         [] OTHER -> pick(others, {p.index})

\* decideAutoNext(): the remembered trail first, then the next row of a radio
\* session, then a pull from the library, then the mode's own choice.
DecideAutoNext(p, vis) ==
    LET keep(nexts) == {[next |-> n, visited |-> vis] : n \in nexts}
        hasRow == p.index + 1 < Len(p.queue)
        pulls  == keep({[index |-> -1, injected |-> t] : t \in Pulls(p.queue)})
        plain  == IF p.shuffle # "Off" THEN PickShuffle(p, vis)
                  ELSE keep({IF hasRow THEN NextRow(p.index + 1)
                             ELSE IF p.repeat = "All" THEN NextRow(0) ELSE NoNext})
    IN CASE p.queue = <<>> \/ p.index < 0 -> keep({NoNext})
         [] p.queue # <<>> /\ p.index >= 0 /\ p.shuffle # "Off" /\ p.forward # <<>> ->
              keep({NextRow(Clamp(p.forward[Len(p.forward)], 0, Len(p.queue) - 1))})
         [] p.queue # <<>> /\ p.index >= 0 /\ ~(p.shuffle # "Off" /\ p.forward # <<>>)
            /\ p.radio /\ hasRow -> keep({NextRow(p.index + 1)})
         [] OTHER -> plain \union (IF p.radio \/ p.shuffle = "Library" THEN pulls ELSE {})

\* The row prepareNext() lets the backend preload: never across a DSD boundary.
Gapless(q, next, now) ==
    /\ next.index \in RowsOf(q)
    /\ {now, TrackAt(q, next.index)} \intersect DsdTracks = {}
    /\ TrackAt(q, next.index) \notin Unresolvable

\* prepareNext(), after the rest of the handler; vis is m_shuffleVisited and now
\* m_currentTrack at the call.
PrepareNext(vis, now) ==
    \E choice \in IF queueIndex' < 0 \/ repeatMode' = "One"
                  THEN {[next |-> NoNext, visited |-> vis]}
                  ELSE DecideAutoNext(Policy', vis) :
        /\ preparedNext' = choice.next
        /\ visited' = IF shuffleMode' = "Off" THEN {} ELSE choice.visited
        /\ stopPending' = (stopAfter' = 1)
        /\ prepared' = IF stopAfter' # 1 /\ Gapless(queue', choice.next, now)
                       THEN TrackAt(queue', choice.next.index) ELSE NoTrack

----------------------------------------------------------------------------
(* The pieces of the handlers. *)

\* PlaybackBackend::stop().
BackendStop ==
    /\ source' = NoTrack /\ state' = "Stopped" /\ prepared' = NoTrack
    /\ armed' = NoTrack /\ started' = FALSE

\* disarmStopAfter(false), clear the staged path, backend->stop(): the end of
\* every path that finds nothing to play.
GiveUp ==
    /\ stopAfter' = 0 /\ stopPending' = FALSE
    /\ pendingStagedStart' = NoTrack
    /\ BackendStop

\* collapsePlayNextIfStale().
Collapse(pni, i, size) ==
    IF i < 0 THEN -1 ELSE IF pni <= i \/ pni > size THEN i + 1 ELSE pni

\* The shuffle trail matters only while shuffling: setShuffleMode resets it.
PushHistory(i) ==
    IF shuffleMode = "Off" \/ i \notin RowsOf(queue)
    THEN history' = history
    ELSE Len(history) < MaxTrail /\ history' = Append(history, i)

\* recordForwardStep(): a move along the trail consumes it, any other ends it.
RecordForwardStep(from, to) ==
    /\ PushHistory(from)
    /\ forward' = IF forward # <<>>
                     /\ Clamp(forward[Len(forward)], 0, Len(queue) - 1) = to
                  THEN SubSeq(forward, 1, Len(forward) - 1) ELSE <<>>

\* play() or loadPaused() of t: a new source, every hand-off dropped.
Load(t, paused) ==
    /\ source' = t /\ state' = IF paused THEN "Paused" ELSE "Playing"
    /\ armed' = NoTrack /\ started' = FALSE

\* startTrack().
StartTrack(t, notify, paused, vis) ==
    /\ currentTrack' = t /\ pendingStagedStart' = NoTrack
    /\ announced' = IF notify THEN t ELSE announced
    /\ silent' = ~notify
    /\ Load(t, paused)
    /\ skipping' = 0 /\ dsdPending' = NoPrompt
    /\ PrepareNext(vis \union ({queueIndex'} \intersect RowsOf(queue')), t)

\* skipCurrentTrack(), entered or re-entered: another round of its loop is due.
\* m_preparedNext is not read again before the row found, if any, sets it.
Skip(rounds, vis) ==
    /\ skipping' = rounds
    /\ prepared' = NoTrack /\ preparedNext' = NoNext
    /\ visited' = vis
    /\ pendingStagedStart' = NoTrack /\ dsdPending' = NoPrompt
    /\ UNCHANGED <<source, state, armed, started, stopPending, report, currentTrack>>

\* playCurrent(): start the row, skip it, or ask to take over the DSD device.
PlayCurrent(notify, paused, vis, rounds) ==
    LET t == TrackAt(queue', queueIndex')
    IN \/ /\ t \notin Unresolvable /\ ~(t \in DsdTracks /\ skipDsdBlock)
          /\ StartTrack(t, notify, paused, vis)
          /\ skipDsdBlock' = (skipDsdBlock /\ paused)
       \/ /\ t \in Unresolvable \union DsdTracks
          /\ Skip(rounds, vis)
          /\ UNCHANGED skipDsdBlock
       \/ /\ t \in DsdTracks \ Unresolvable /\ ~skipDsdBlock
          /\ BackendStop
          /\ dsdPending' = [track |-> t, notify |-> notify]
          /\ pendingStagedStart' = NoTrack
          /\ skipping' = 0 /\ visited' = vis
          /\ UNCHANGED <<skipDsdBlock, stopPending, preparedNext, currentTrack, report>>

SingleRound == 2

\* The guard of skipCurrentTrack()'s loop.
Rounds == Len(queue') + 2

\* playAt() of a row in range; pni is m_playNextInsertIndex at the call.
PlayAt(i, pni, vis, rounds) ==
    /\ queueIndex' = i
    /\ playNextInsertIndex' = Collapse(pni, i, Len(queue'))
    /\ PlayCurrent(TRUE, FALSE, vis, rounds)

KeepTrail == UNCHANGED <<history, forward>>

\* playAt() with explicitJump: the play-next batch is dropped, the trail ends.
Jump(i) ==
    /\ IF i = queueIndex THEN history' = history ELSE PushHistory(queueIndex)
    /\ forward' = <<>>
    /\ PlayAt(i, -1, IF shuffleMode = "Off" THEN visited ELSE {i}, Rounds)

\* A plain step to the next row consumes the play-next region; any other move
\* drops it.
LinearConsume(i) == shuffleMode = "Off" /\ i = queueIndex + 1

\* applyAutoNext().
ApplyAutoNext(next, vis) ==
    \/ /\ next.injected # NoTrack
       /\ queue' = Append(queue, [track |-> next.injected, asked |-> FALSE])
       /\ PushHistory(queueIndex) /\ forward' = <<>>
       /\ PlayAt(Len(queue), playNextInsertIndex, vis, Rounds)
    \/ /\ next.index \in RowsOf(queue)
       /\ queue' = queue
       /\ RecordForwardStep(queueIndex, next.index)
       /\ PlayAt(next.index, IF LinearConsume(next.index) THEN playNextInsertIndex ELSE -1,
                 vis, Rounds)

\* The rows of q at the positions in S, in their order.
PickRows(q, S) ==
    [k \in 1 .. Cardinality(S) |->
        q[1 + CHOOSE i \in S : Cardinality({j \in S : j < i}) = k - 1]]
Before(S, i) == Cardinality({j \in S : j < i})

KeepArmed == UNCHANGED <<source, state, armed, started>>

\* stabilizeGaplessHandoff() cancels a hand-off that is only armed.
KeepBackend == armed' = NoTrack /\ UNCHANGED <<source, state, started>>

\* The end of a mutation that shifts rows: resetShuffleState(), prepareNext().
ShiftRows(q, i, pni) ==
    /\ queue' = q /\ queueIndex' = i /\ playNextInsertIndex' = pni
    /\ history' = <<>> /\ forward' = <<>>
    /\ UNCHANGED modes

KeepVisited == visited

\* resetShuffleState().
ResetVisited == {queueIndex'} \intersect RowsOf(queue')

Presented == UNCHANGED <<prompt, report, currentTrack, pendingStagedStart, skipping>>

Ready == skipping = 0
\* stabilizeGaplessHandoff() commits a started hand-off first.
Stable == Ready /\ ~started

----------------------------------------------------------------------------
(* Transport. *)

\* playAt(index, ..., explicitJump = true): a row picked by hand.
PickRow ==
    /\ Ready
    /\ UNCHANGED <<modes, stopAfter>>
    /\ queue' = queue
    /\ \E i \in RowsOf(queue) : Jump(i)

\* next(), and the choice it makes when a mode decides.
PlayNext ==
    /\ Ready
    /\ UNCHANGED <<modes, stopAfter>>
    /\ IF shuffleMode # "Off" \/ repeatMode = "All" \/ radioActive
       THEN \E choice \in DecideAutoNext(Policy, visited) :
                ApplyAutoNext(choice.next, choice.visited)
       ELSE /\ queueIndex + 1 < Len(queue)
            /\ queue' = queue /\ KeepTrail
            /\ PlayAt(queueIndex + 1, playNextInsertIndex, visited, Rounds)

KeepForward(i) == forward' = forward

\* previous(): the row left is remembered for the way forward.
RememberRow(i) == forward' = IF i \in RowsOf(queue) THEN Append(forward, i) ELSE forward

Previous ==
    /\ Ready /\ queue # <<>>
    /\ UNCHANGED <<modes, stopAfter>>
    /\ queue' = queue
    /\ IF shuffleMode # "Off" /\ history # <<>>
       THEN /\ history' = SubSeq(history, 1, Len(history) - 1)
            /\ RememberRow(queueIndex)
            /\ PlayAt(Clamp(history[Len(history)], 0, Len(queue) - 1), -1, visited, Rounds)
       ELSE /\ KeepTrail
            /\ PlayAt(IF queueIndex > 0 THEN queueIndex - 1 ELSE 0, -1, visited, Rounds)

ConsumeNothing == UNCHANGED <<pendingStagedStart, report>>

\* consumePendingStagedStart(): a staged row is announced when it first sounds.
ConsumePendingStagedStart ==
    IF pendingStagedStart # NoTrack /\ pendingStagedStart = currentTrack
    THEN /\ pendingStagedStart' = NoTrack
         /\ announced' = currentTrack /\ silent' = FALSE
    ELSE UNCHANGED <<pendingStagedStart, report>>

\* play(): resume what is loaded, else start the current row.
Play ==
    /\ Ready
    /\ UNCHANGED <<modes, stopAfter>>
    /\ \/ /\ source # NoTrack /\ state # "Error"
          /\ ConsumePendingStagedStart
          /\ state' = "Playing" /\ skipDsdBlock' = FALSE
          /\ UNCHANGED <<rows, modes, trail, dsdPending, currentTrack, preparedNext,
                         stopAfter, skipping, source, prepared, armed, started, stopPending>>
       \/ /\ source = NoTrack \/ state = "Error"
          /\ IF state = "Error" THEN queueIndex \in RowsOf(queue) ELSE queue # <<>>
          /\ queue' = queue /\ KeepTrail
          /\ PlayAt(IF queueIndex >= 0 THEN queueIndex ELSE 0, playNextInsertIndex,
                    visited, Rounds)


\* pause(): an armed hand-off is undone, its uri kept.
PauseBackend ==
    /\ state' = IF state = "Playing" THEN "Paused" ELSE state
    /\ armed' = NoTrack
    /\ prepared' = IF armed # NoTrack THEN armed ELSE prepared

\* togglePlayPause() while playing.
Pause ==
    /\ Stable /\ state = "Playing"
    /\ PauseBackend
    /\ UNCHANGED <<rows, modes, trail, prompt, report, currentTrack, pendingStagedStart,
                   preparedNext, stopAfter, skipping, source, started, stopPending>>

Stop ==
    /\ Ready
    /\ GiveUp
    /\ UNCHANGED <<rows, modes, trail, prompt, report, currentTrack, preparedNext, skipping>>

----------------------------------------------------------------------------
(* The stop-after timer. *)

\* armStopAfterDuration(), armStopAfterCompletions() and cancelStopAfter().
\* With one completion to go the prepared row is kept, only not offered.
SetStopAfter(n) ==
    /\ Stable
    /\ stopAfter' = n
    /\ KeepBackend /\ KeepTrail
    /\ UNCHANGED <<rows, modes, prompt, report, currentTrack, pendingStagedStart, skipping>>
    /\ IF n = 1
       THEN prepared' = NoTrack /\ stopPending' = TRUE /\ UNCHANGED <<preparedNext, visited>>
       ELSE PrepareNext(visited, currentTrack)

ArmStopAfter == \E n \in {Deadline} \union 1 .. MaxStop : SetStopAfter(n)
CancelStopAfter == stopAfter # 0 /\ SetStopAfter(0)

\* handleStopAfterDeadlineWakeup() at the deadline.
DeadlinePasses ==
    /\ Stable /\ stopAfter = Deadline
    /\ PauseBackend
    /\ stopAfter' = 0 /\ stopPending' = FALSE
    /\ UNCHANGED <<rows, modes, trail, prompt, report, currentTrack, pendingStagedStart,
                   preparedNext, skipping, source, started>>

\* consumeNaturalCompletion().
CountDown == IF stopAfter > 1 THEN stopAfter - 1 ELSE stopAfter

----------------------------------------------------------------------------
(* Queue mutations. *)

\* playTracksNext(): after the rows already asked to play next.
PlayTracksNext ==
    /\ Stable
    /\ \E list \in Lists :
        /\ Len(queue) + Len(list) =< MaxQueue
        /\ LET at == IF playNextInsertIndex <= queueIndex \/ playNextInsertIndex > Len(queue)
                     THEN queueIndex + 1 ELSE playNextInsertIndex
           IN IF queueIndex < 0
              THEN /\ queue' = queue \o AsRows(list, FALSE)
                   /\ KeepTrail
                   /\ UNCHANGED <<modes, stopAfter>>
                   /\ PlayAt(Len(queue), playNextInsertIndex, visited, Rounds)
              ELSE /\ ShiftRows(SubSeq(queue, 1, at) \o AsRows(list, TRUE)
                                  \o SubSeq(queue, at + 1, Len(queue)),
                                queueIndex, at + Len(list))
                   /\ KeepBackend /\ Presented /\ UNCHANGED stopAfter
                   /\ PrepareNext(ResetVisited, currentTrack)

\* appendTracks() and injectTracks().
AppendTracks ==
    /\ Stable
    /\ \E list \in Lists :
        /\ Len(queue) + Len(list) =< MaxQueue
        /\ queue' = queue \o AsRows(list, FALSE)
        /\ playNextInsertIndex' = Collapse(playNextInsertIndex, queueIndex, Len(queue'))
        /\ KeepBackend /\ KeepTrail /\ Presented
        /\ UNCHANGED <<modes, queueIndex, stopAfter>>
        /\ PrepareNext(visited, currentTrack)

\* appendAndPlay(): jump to the track's row, or append one.
AppendAndPlay ==
    /\ Ready
    /\ UNCHANGED <<modes, stopAfter>>
    /\ \E t \in Tracks :
        IF t \in TracksOf(queue)
        THEN /\ queue' = queue
             /\ Jump(CHOOSE i \in RowsOf(queue) : /\ TrackAt(queue, i) = t
                                                  /\ \A j \in 0 .. i - 1 : TrackAt(queue, j) # t)
        ELSE /\ Len(queue) < MaxQueue
             /\ queue' = Append(queue, [track |-> t, asked |-> FALSE])
             /\ Jump(Len(queue))

CurrentStays(moved, at) == queueIndex

\* The current row when the moved ones go to at among the others.
CurrentAfterMove(moved, at) ==
    LET behind == queueIndex - Before(moved, queueIndex)
    IN IF queueIndex < 0 THEN -1
       ELSE IF queueIndex \in moved THEN at + Before(moved, queueIndex)
       ELSE IF at <= behind THEN behind + Cardinality(moved) ELSE behind

\* moveRows(): the current row keeps playing wherever it lands.
MoveRows ==
    /\ Stable
    /\ \E moved \in (SUBSET RowsOf(queue)) \ {{}}, destination \in 0 .. Len(queue) :
        LET at     == destination - Before(moved, destination)
            rest   == PickRows(queue, RowsOf(queue) \ moved)
            index  == CurrentAfterMove(moved, at)
        IN ShiftRows(SubSeq(rest, 1, at) \o PickRows(queue, moved)
                       \o SubSeq(rest, at + 1, Len(rest)), index, index + 1)
    /\ KeepBackend /\ Presented /\ UNCHANGED stopAfter
    /\ PrepareNext(ResetVisited, currentTrack)

RegionEndUnshifted(end, removed) == end

\* Removals before its end shift the play-next region.
RegionEnd(end, removed) == end - Before(removed, end)

\* presentTrack(): shown without being loaded or announced.
PresentTrack(t) == currentTrack' = t /\ pendingStagedStart' = NoTrack

\* removeRows(): the row that shifts into the current one's place takes over in
\* the transport state the removed one had; an emptied queue stops.
RemoveRows ==
    /\ Stable
    /\ \E removed \in (SUBSET RowsOf(queue)) \ {{}} :
        LET q     == PickRows(queue, RowsOf(queue) \ removed)
            index == Clamp(queueIndex - Before(removed, queueIndex), -1, Len(q) - 1)
        IN /\ ShiftRows(q, index, Clamp(RegionEnd(playNextInsertIndex, removed), index + 1, Len(q)))
           /\ \/ /\ index >= 0 /\ queueIndex \in removed /\ source # NoTrack
                 /\ UNCHANGED stopAfter
                 /\ PlayCurrent(state = "Playing", state # "Playing", ResetVisited, Rounds)
              \/ /\ index >= 0 /\ (queueIndex \in removed => source = NoTrack)
                 /\ KeepBackend /\ UNCHANGED <<stopAfter, prompt, report, skipping>>
                 /\ PrepareNext(ResetVisited, currentTrack)
                 /\ IF queueIndex \notin removed /\ currentTrack = TrackAt(q, index)
                    THEN UNCHANGED <<currentTrack, pendingStagedStart>>
                    ELSE PresentTrack(TrackAt(q, index))
              \/ /\ index < 0
                 /\ GiveUp /\ currentTrack' = NoTrack
                 /\ preparedNext' = NoNext /\ visited' = {}
                 /\ UNCHANGED <<prompt, report, skipping>>

\* clearAll(); the takeover prompt stays open.
ClearAll ==
    /\ Stable
    /\ ShiftRows(<<>>, -1, -1)
    /\ GiveUp /\ currentTrack' = NoTrack
    /\ preparedNext' = NoNext /\ visited' = {}
    /\ UNCHANGED <<prompt, report, skipping>>

\* clearKeepingCurrent().
ClearKeepingCurrent ==
    /\ Stable /\ queueIndex >= 0
    /\ LET t == TrackAt(queue, queueIndex)
       IN /\ ShiftRows(<<queue[queueIndex + 1]>>, 0, 1)
          /\ KeepBackend /\ UNCHANGED <<stopAfter, prompt, report, skipping>>
          /\ PrepareNext(ResetVisited, currentTrack)
          /\ currentTrack' = t
          /\ pendingStagedStart' = IF source # NoTrack /\ currentTrack = t
                                      /\ pendingStagedStart = t
                                   THEN t ELSE NoTrack

CollapsePlayNext ==
    /\ Ready /\ playNextInsertIndex > queueIndex + 1
    /\ playNextInsertIndex' = IF queueIndex >= 0 THEN queueIndex + 1 ELSE -1
    /\ UNCHANGED <<queue, queueIndex, modes, trail, prompt, backend, report, currentTrack,
                   pendingStagedStart, preparedNext, stopAfter, skipping>>

\* resetQueue(tracks) and playAt(start): replaceQueueWithTracks, adoptQueueSnapshot.
ReplaceQueue ==
    /\ Stable
    /\ UNCHANGED <<modes, stopAfter>>
    /\ \E list \in Lists : \E start \in RowsOf(list) :
        /\ queue' = AsRows(list, FALSE)
        /\ history' = <<>> /\ forward' = <<>>
        /\ PlayAt(start, -1, {}, Rounds)

\* resetQueue(tracks, index) and prepareNext(): syncPlaylistBackedQueue, which
\* looks up the row of the current track.
SyncQueue ==
    /\ Stable
    /\ \E list \in Lists :
        LET found == {i \in RowsOf(list) : list[i + 1] = currentTrack}
            index == IF found = {} THEN -1 ELSE CHOOSE i \in found : \A j \in found : i <= j
        IN /\ ShiftRows(AsRows(list, FALSE), index, IF index < 0 THEN -1 ELSE index + 1)
           /\ pendingStagedStart' = IF index >= 0 THEN pendingStagedStart ELSE NoTrack
           /\ silent' = (silent \/ pendingStagedStart # pendingStagedStart')
    /\ KeepBackend
    /\ UNCHANGED <<prompt, announced, currentTrack, stopAfter, skipping>>
    /\ PrepareNext(ResetVisited, currentTrack)

\* resetQueue(tracks, index, insertIndex) and presentTrack(): the queue of the
\* last session is restored, nothing is loaded.
RestoreQueue ==
    /\ Ready /\ queue = <<>> /\ source = NoTrack /\ currentTrack = NoTrack
    /\ \E list \in Lists : \E i \in RowsOf(list) : \E end \in i + 1 .. Len(list) :
        /\ ShiftRows([k \in DOMAIN list |->
                        [track |-> list[k], asked |-> k - 1 \in i + 1 .. end - 1]], i, end)
        /\ PresentTrack(list[i + 1])
    /\ visited' = ResetVisited
    /\ UNCHANGED <<prompt, backend, report, preparedNext, stopAfter, skipping>>

----------------------------------------------------------------------------
(* Policy. *)

\* What setRepeatMode() and setShuffleMode() do after the mode is set.
Prepared(vis) ==
    /\ KeepBackend /\ Presented /\ UNCHANGED <<rows, stopAfter>>
    /\ PrepareNext(vis, currentTrack)

SetRepeatMode ==
    /\ Stable
    /\ repeatMode' \in RepeatModes \ {repeatMode}
    /\ UNCHANGED <<shuffleMode, radioActive>> /\ KeepTrail
    /\ Prepared(visited)

\* The trail is reset when shuffling begins; it is dropped here when it ends.
SetShuffleMode ==
    /\ Stable
    /\ shuffleMode' \in ShuffleModes \ {shuffleMode}
    /\ UNCHANGED <<repeatMode, radioActive>>
    /\ history' = <<>> /\ forward' = <<>>
    /\ Prepared({queueIndex} \intersect RowsOf(queue))

\* setRadioActive() touches nothing but the flag.
SetRadioActive ==
    /\ Ready /\ MayRadio
    /\ radioActive' = ~radioActive
    /\ UNCHANGED <<rows, repeatMode, shuffleMode, trail, prompt, backend, report,
                   currentTrack, pendingStagedStart, preparedNext, stopAfter, skipping>>

----------------------------------------------------------------------------
(* What the backend reports. *)

\* about-to-finish: the prepared uri becomes the successor.
ArmHandoff ==
    /\ Ready /\ state = "Playing" /\ prepared # NoTrack /\ ~stopPending /\ armed = NoTrack
    /\ armed' = prepared /\ prepared' = NoTrack
    /\ UNCHANGED <<rows, modes, trail, prompt, report, currentTrack, pendingStagedStart,
                   preparedNext, stopAfter, skipping, source, state, started, stopPending>>

\* The sink has started the successor; a commit is due.
StartHandoff ==
    /\ Ready /\ state = "Playing" /\ armed # NoTrack /\ ~started
    /\ started' = TRUE
    /\ UNCHANGED <<rows, modes, trail, prompt, report, currentTrack, pendingStagedStart,
                   preparedNext, stopAfter, skipping, source, state, prepared, armed,
                   stopPending>>

\* The row a hand-off lands on becomes current, loaded by the backend already;
\* shared by onPreparedTrackStarted() and stageExistingAutoNext().
Advance(i) ==
    /\ queue' = queue /\ queueIndex' = i
    /\ playNextInsertIndex' = IF LinearConsume(i) THEN Collapse(playNextInsertIndex, i, Len(queue))
                              ELSE i + 1
    /\ RecordForwardStep(queueIndex, i)
    /\ currentTrack' = TrackAt(queue, i)
    /\ UNCHANGED modes
    /\ PrepareNext(visited \union {i}, TrackAt(queue, i))

\* onPreparedTrackStarted(): the prepared row becomes current.  A timer on its
\* last completion pauses on it; only the race of GaplessHandoff gets there.
Commit ==
    /\ Ready /\ started /\ preparedNext.index \in RowsOf(queue)
    /\ source' = armed /\ armed' = NoTrack /\ started' = FALSE
    /\ stopAfter' = IF stopAfter = 1 THEN 0 ELSE CountDown
    /\ state' = IF stopAfter = 1 THEN "Paused" ELSE state
    /\ Advance(preparedNext.index)
    /\ pendingStagedStart' = IF stopAfter = 1 THEN currentTrack' ELSE NoTrack
    /\ announced' = IF stopAfter = 1 THEN announced ELSE currentTrack'
    /\ silent' = FALSE
    /\ UNCHANGED <<prompt, skipping>>

\* stageExistingAutoNext(): the row after the last counted completion is loaded
\* paused and announced only when it is played; a DSD row is not staged.
Stage(next) ==
    IF next.index \in RowsOf(queue) /\ Gapless(queue, next, currentTrack)
    THEN /\ stopAfter' = 0
         /\ Load(TrackAt(queue, next.index), TRUE)
         /\ Advance(next.index)
         /\ pendingStagedStart' = currentTrack'
         /\ silent' = FALSE
         /\ UNCHANGED <<prompt, announced, skipping>>
    ELSE GiveUp /\ UNCHANGED <<rows, modes, trail, prompt, report, currentTrack,
                               preparedNext, skipping>>

Ended == Stable /\ state = "Playing" /\ source # NoTrack

\* onFinished(): the last counted completion stages the prepared row, Repeat One
\* plays the row again, otherwise the decision is made now.
FinishedCounted ==
    /\ Ended /\ queueIndex >= 0 /\ stopAfter = 1
    /\ Stage(IF repeatMode = "One" THEN NextRow(queueIndex) ELSE preparedNext)

FinishedRepeatOne ==
    /\ Ended /\ queueIndex >= 0 /\ stopAfter # 1 /\ repeatMode = "One"
    /\ stopAfter' = CountDown /\ UNCHANGED modes
    /\ queue' = queue /\ KeepTrail
    /\ PlayAt(queueIndex, playNextInsertIndex, visited, Rounds)

FinishedDecides ==
    /\ Ended /\ queueIndex >= 0 /\ stopAfter # 1 /\ repeatMode # "One"
    /\ \E choice \in DecideAutoNext(Policy, visited) :
        \/ /\ stopAfter' = CountDown /\ UNCHANGED modes
           /\ ApplyAutoNext(choice.next, choice.visited)
        \/ /\ choice.next = NoNext
           /\ GiveUp
           /\ UNCHANGED <<rows, modes, trail, prompt, report, currentTrack, preparedNext,
                          skipping>>

FinishedNowhere ==
    /\ Ended /\ queueIndex < 0
    /\ GiveUp
    /\ UNCHANGED <<rows, modes, trail, prompt, report, currentTrack, preparedNext, skipping>>

Finished == FinishedCounted \/ FinishedRepeatOne \/ FinishedDecides \/ FinishedNowhere

\* An error the backend could not recover from.
Fail ==
    /\ Stable /\ state = "Playing"
    /\ state' = "Error"
    /\ UNCHANGED <<rows, modes, trail, prompt, report, currentTrack, pendingStagedStart,
                   preparedNext, stopAfter, skipping, source, prepared, armed, started,
                   stopPending>>

----------------------------------------------------------------------------
(* Rows that cannot be played, and the takeover prompt. *)

\* One round of skipCurrentTrack()'s loop.
SkipRound ==
    /\ skipping > 1
    /\ \E choice \in DecideAutoNext(Policy, visited) :
        \/ /\ choice.next.injected # NoTrack
           /\ queue' = Append(queue, [track |-> choice.next.injected, asked |-> FALSE])
           /\ KeepTrail /\ UNCHANGED <<modes, stopAfter>>
           /\ PlayAt(Len(queue), playNextInsertIndex, choice.visited, skipping - 1)
        \/ /\ choice.next.index \in RowsOf(queue)
           /\ queue' = queue /\ KeepTrail /\ UNCHANGED <<modes, stopAfter>>
           /\ PlayAt(choice.next.index, playNextInsertIndex, choice.visited, skipping - 1)
        \/ /\ choice.next = NoNext
           /\ GiveUp /\ skipping' = 0
           /\ UNCHANGED <<rows, modes, trail, prompt, report, currentTrack, preparedNext>>

\* The guard of the loop: too many rows were tried.
SkipExhausted ==
    /\ skipping = 1
    /\ GiveUp /\ skipping' = 0
    /\ UNCHANGED <<rows, modes, trail, prompt, report, currentTrack, preparedNext>>

\* resolveDsdTakeover(): the prompt is answered, or times out.  A row to be
\* loaded paused (removeRows) is the one not to be announced.
ResolveDsdTakeover ==
    /\ Ready /\ dsdPending.track # NoTrack
    /\ UNCHANGED <<rows, modes, stopAfter>> /\ KeepTrail
    /\ \/ /\ StartTrack(dsdPending.track, dsdPending.notify, ~dsdPending.notify, visited)
          /\ skipDsdBlock' = (skipDsdBlock /\ ~dsdPending.notify)
       \/ /\ Skip(Len(queue) + 2, visited)
          /\ skipDsdBlock' = TRUE

----------------------------------------------------------------------------
Transport == PickRow \/ PlayNext \/ Previous \/ Play \/ Pause \/ Stop
Timer     == ArmStopAfter \/ CancelStopAfter \/ DeadlinePasses
Mutation  == \/ PlayTracksNext \/ AppendTracks \/ AppendAndPlay \/ MoveRows \/ RemoveRows
             \/ ClearAll \/ ClearKeepingCurrent \/ CollapsePlayNext
             \/ ReplaceQueue \/ SyncQueue \/ RestoreQueue
SetPolicy == SetRepeatMode \/ SetShuffleMode \/ SetRadioActive
Backend   == ArmHandoff \/ StartHandoff \/ Commit \/ Finished \/ Fail
Skipping  == SkipRound \/ SkipExhausted

Next == Transport \/ Timer \/ Mutation \/ SetPolicy \/ Backend \/ Skipping
          \/ ResolveDsdTakeover

Spec == Init /\ [][Next]_vars

----------------------------------------------------------------------------
(* What PlayerCore promises. *)

\* The uri the backend was given, and the one it has armed, are the track of the
\* row the next commit lands on, whatever was done to the queue or the modes
\* since (m_preparedNext against the backend's prepared uri).
PreparedIsNextRow ==
    Ready => \A uri \in {prepared, armed} \ {NoTrack} :
                /\ preparedNext.index \in RowsOf(queue)
                /\ TrackAt(queue, preparedNext.index) = uri

\* The row shown as current is the one that is loaded, with no commit due
\* (m_queueIndex and m_currentTrack against the backend's source).
CurrentIsSource ==
    Stable /\ source # NoTrack =>
        /\ currentTrack = source
        /\ queueIndex >= 0 => TrackAt(queue, queueIndex) = source

\* Every row in the play-next region was put there by playTracksNext: a move
\* that skips rows collapses the region instead of badging them.
NoSpuriousBadge ==
    \A i \in RowsOf(queue) : i > queueIndex /\ i < playNextInsertIndex => queue[i + 1].asked

\* With one completion left nothing is offered to the backend, and it may arm
\* nothing (setGaplessStopPending).
LastCountedNeverHandsOver ==
    Ready /\ stopAfter = 1 /\ source # NoTrack =>
        prepared = NoTrack /\ armed = NoTrack /\ stopPending

\* What is heard was announced to the scrobblers, staged rows as soon as they
\* are resumed; rows loaded silently are excepted.
HeardIsAnnounced ==
    Stable /\ state = "Playing" /\ ~silent => announced = source

\* Nothing is preloaded across either side of a DSD boundary (prepareNext), as
\* long as what is heard is the current track.
NoPreloadAcrossDsd ==
    Ready /\ {prepared, armed} # {NoTrack} /\ source = currentTrack
        => {source, prepared, armed} \intersect DsdTracks = {}

Advances == PlayNext \/ Finished \/ Commit
Trail == history \o <<queueIndex>>
           \o [k \in DOMAIN forward |-> forward[Len(forward) + 1 - k]]

\* The last counted completion under Repeat One stages the same row again.
Restages == FinishedCounted /\ repeatMode = "One"

\* Previous and the way forward again retrace one trail: neither loses a row of it nor changes their
\* order (m_shuffleHistory, m_shuffleForward).  The exception is a row staged again: recordForwardStep()
\* takes it for a move that leaves the trail.
TrailIsRetraced ==
    [][ shuffleMode # "Off"
          /\ ((Previous /\ history # <<>>) \/ (Advances /\ ~Restages /\ forward # <<>>))
        => Trail' = Trail ]_vars

\* A shuffle pick that follows no trail is a row not heard in this cycle, also
\* when the pick was made by prepareNext() and is committed later.
PickIsUnheard ==
    [][ shuffleMode # "Off" /\ repeatMode = "Off" /\ ~radioActive /\ forward = <<>>
          /\ Advances /\ queue' = queue /\ queueIndex' # queueIndex
        => queueIndex' \notin visited ]_vars

Playable(q) == {i \in RowsOf(q) : TrackAt(q, i) \notin Unresolvable \union DsdTracks}
Ahead == IF repeatMode = "All" THEN RowsOf(queue) ELSE queueIndex + 1 .. Len(queue) - 1
GivesUp == (SkipRound \/ SkipExhausted) /\ source' = NoTrack /\ dsdPending' = NoPrompt
             /\ skipping' = 0

\* Without shuffle, skipping on from a row stops only when no row ahead can be played.
LinearSkipFindsRow ==
    [][ GivesUp /\ shuffleMode = "Off" /\ ~radioActive /\ queueIndex >= 0
        => Playable(queue) \intersect Ahead = {} ]_vars

----------------------------------------------------------------------------
(* What comments of the code say, and the code does not keep. *)

\* ListenTracker: "the local listen history never has gaps".
NoGapInHistory == Stable /\ state = "Playing" => announced = source

\* playAt(): the takeover callback "must not start the abandoned track".
AbandonedTakeoverNeverStarts ==
    [][ dsdPending.track # NoTrack /\ source' = dsdPending.track
          => queueIndex' >= 0 /\ TrackAt(queue', queueIndex') = source' ]_vars

=============================================================================
