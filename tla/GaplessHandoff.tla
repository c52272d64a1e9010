--------------------------- MODULE GaplessHandoff ---------------------------
(***************************************************************************)
(* The gapless hand-off between PlayerCore, GStreamerPlaybackBackend and   *)
(* playbin.                                                                *)
(*                                                                         *)
(* Two threads meet here.  The GUI thread runs PlayerCore and the          *)
(* backend's public functions; GStreamer's streaming thread runs the       *)
(* about-to-finish callback and the probe on the sink's pad.  They share   *)
(* the fields below under m_mutex, which is taken and released several     *)
(* times in one GUI handler, so the streaming thread may run in between:   *)
(* pc is the place inside the handler the GUI thread has reached.          *)
(*                                                                         *)
(* A track stands for its row, its uri and its stream.  What PlayerCore    *)
(* decides to play next is any track or none.                              *)
(***************************************************************************)
EXTENDS Naturals

CONSTANTS
    Tracks,         \* the rows of the queue
    NoTrack,        \* an empty uri, or no row
    ShortTracks,    \* streams that may be drained before they reach the sink
    HasProbe,       \* the sink has a static pad to probe (m_audioSinkProbeId)
    MaxGeneration,  \* bound on m_gaplessGeneration
    MaxStop         \* bound on the count of a stop-after-completions timer

ASSUME HandoffAssumption ==
    /\ NoTrack \notin Tracks
    /\ ShortTracks \subseteq Tracks
    /\ HasProbe \in BOOLEAN
    /\ MaxGeneration \in Nat
    /\ MaxStop \in Nat \ {0}

VARIABLES
    \* GStreamerPlaybackBackend, shared with the streaming thread
    currentUri, playingUri, preparedUri, advancePending, startQueued,
    stopPending, generation,
    \* GStreamerPlaybackBackend, GUI thread only
    state,
    rearm,          \* nextUri, kept across loadUri by reloadCurrentAtPosition
    posted,         \* generations of commitGaplessAdvance calls in the Qt queue
    \* PlayerCore
    current, preparedNext, stopAfter,
    \* where the GUI thread is, and where it goes after a nested commit
    pc, ret,
    \* playbin: the stream being decoded, whether it reached the sink, whether
    \* it is drained, the uri set for its successor, the audible stream
    decoding, atSink, drained, queuedUri, audible,
    eos,            \* the stream whose end-of-stream message is on the bus
    err,            \* an error message is on the bus
    excuses         \* races met since the last load

shared   == <<currentUri, playingUri, preparedUri, advancePending, startQueued,
              generation>>
core     == <<current, preparedNext, stopAfter, stopPending>>
pipeline == <<decoding, atSink, drained, queuedUri, audible>>
bus      == <<eos, err>>
gui      == <<pc, ret>>
vars     == <<shared, core, pipeline, bus, gui, state, rearm, posted, excuses>>

OptTrack == Tracks \union {NoTrack}

\* The places of a GUI handler between two critical sections of m_mutex.
SecondHalf == {"cancel", "cancelThenArm", "pause", "seek", "finish", "recover"}
PrepareNextSteps == {"decide", "flag", "publish"}
Steps == {"idle", "commit", "rearm", "arm", "stagedPause", "stagedDisarm"}
            \union SecondHalf \union PrepareNextSteps

\* The handler stabilised already and prepareNext() has not published its choice
\* yet: a hand-off armed now is armed with the previous choice.
Undecided == pc \in PrepareNextSteps \union {"arm", "stagedPause", "stagedDisarm"}

\* The successor of the pending hand-off is the stream the sink renders.
Handed == advancePending /\ atSink /\ queuedUri = NoTrack

TypeOK ==
    /\ currentUri \in OptTrack /\ playingUri \in OptTrack
    /\ preparedUri \in OptTrack /\ rearm \in OptTrack
    /\ current \in OptTrack /\ preparedNext \in OptTrack
    /\ decoding \in OptTrack /\ queuedUri \in OptTrack
    /\ audible \in OptTrack /\ eos \in OptTrack
    /\ advancePending \in BOOLEAN /\ startQueued \in BOOLEAN
    /\ stopPending \in BOOLEAN /\ atSink \in BOOLEAN
    /\ drained \in BOOLEAN /\ err \in BOOLEAN
    /\ generation \in Nat
    /\ posted \subseteq 0 .. generation
    /\ state \in {"Stopped", "Playing", "Paused", "Error"}
    /\ stopAfter \in 0 .. MaxStop
    /\ pc \in Steps
    /\ ret \in {"idle"} \union SecondHalf
    /\ excuses \subseteq {"window", "short", "stale"}

Init ==
    /\ currentUri = NoTrack /\ playingUri = NoTrack /\ preparedUri = NoTrack
    /\ advancePending = FALSE /\ startQueued = FALSE /\ stopPending = FALSE
    /\ generation = 0
    /\ state = "Stopped" /\ rearm = NoTrack /\ posted = {}
    /\ current = NoTrack /\ preparedNext = NoTrack /\ stopAfter = 0
    /\ pc = "idle" /\ ret = "idle"
    /\ decoding = NoTrack /\ atSink = FALSE /\ drained = FALSE
    /\ queuedUri = NoTrack /\ audible = NoTrack
    /\ eos = NoTrack /\ err = FALSE
    /\ excuses = {}

----------------------------------------------------------------------------
(* The streaming thread. *)

\* aboutToFinishCallback: the decoding stream is drained; hand playbin the
\* prepared successor unless one is pending or the stop-after timer forbids it.
AboutToFinish ==
    /\ decoding # NoTrack /\ ~drained
    /\ atSink \/ decoding \in ShortTracks
    /\ generation < MaxGeneration
    /\ drained' = TRUE
    /\ LET offered == IF stopPending THEN NoTrack ELSE preparedUri
           arms    == offered # NoTrack /\ ~advancePending
       IN  /\ preparedUri' = IF arms THEN NoTrack ELSE offered
           /\ IF arms
              THEN /\ generation' = generation + 1
                   /\ startQueued' = FALSE
                   /\ advancePending' = TRUE
                   /\ currentUri' = offered
                   /\ queuedUri' = offered
                   /\ excuses' = excuses
                        \union (IF Undecided THEN {"window"} ELSE {})
                        \union (IF atSink THEN {} ELSE {"short"})
              ELSE UNCHANGED <<generation, startQueued, advancePending,
                               currentUri, queuedUri, excuses>>
    /\ UNCHANGED <<playingUri, core, decoding, atSink, audible, bus, gui,
                   state, rearm, posted>>

\* playbin moves on to the uri it was given.
SwitchSource ==
    /\ drained /\ atSink /\ queuedUri # NoTrack
    /\ decoding' = queuedUri /\ queuedUri' = NoTrack
    /\ drained' = FALSE /\ atSink' = FALSE
    /\ UNCHANGED <<shared, core, audible, bus, gui, state, rearm, posted, excuses>>

\* STREAM_START reaches the sink's pad: the stream is about to be heard, and
\* queueGaplessAdvanceFromSink posts a commit for the pending hand-off.
SinkStart ==
    /\ decoding # NoTrack /\ ~atSink
    /\ audible = NoTrack \/ state = "Playing"
    /\ atSink' = TRUE /\ audible' = decoding
    /\ IF HasProbe /\ advancePending /\ ~startQueued
       THEN startQueued' = TRUE /\ posted' = posted \union {generation}
       ELSE UNCHANGED <<startQueued, posted>>
    /\ UNCHANGED <<currentUri, playingUri, preparedUri, advancePending,
                   generation, core, decoding, drained, queuedUri, bus, gui,
                   state, rearm, excuses>>

\* The last stream has been heard to its end (or the successor yielded none).
EndOfStream ==
    /\ decoding # NoTrack /\ drained /\ atSink /\ state = "Playing"
    /\ eos = NoTrack
    /\ eos' = decoding
    /\ decoding' = NoTrack /\ drained' = FALSE
    /\ UNCHANGED <<shared, core, atSink, queuedUri, audible, err, gui, state,
                   rearm, posted, excuses>>

\* playbin fails and posts an error on the bus.
PipelineError ==
    /\ decoding # NoTrack /\ ~err
    /\ err' = TRUE
    /\ UNCHANGED <<shared, core, pipeline, eos, gui, state, rearm, posted, excuses>>

----------------------------------------------------------------------------
(* The pieces of the GUI handlers. *)

\* invalidateGaplessAdvanceLocked.
InvalidateGaplessAdvance ==
    /\ generation' = generation + 1
    /\ advancePending' = FALSE /\ startQueued' = FALSE

\* loadUri: uri becomes the source and every hand-off is invalidated.
LoadUri(uri, target) ==
    /\ currentUri' = uri /\ playingUri' = uri /\ preparedUri' = NoTrack
    /\ InvalidateGaplessAdvance
    /\ decoding' = uri /\ queuedUri' = NoTrack /\ audible' = NoTrack
    /\ atSink' = FALSE /\ drained' = FALSE
    /\ state' = target

\* PlaybackBackend::stop(): the pipeline in NULL drops what is on its bus.
BackendStop ==
    /\ LoadUri(NoTrack, "Stopped")
    /\ eos' = NoTrack /\ err' = FALSE
    /\ excuses' = {}

\* startTrack: play() or loadPaused() the row that became current.  Only a
\* pipeline rebuilt after an error gets a new bus: on the old one a message of
\* the previous source, other than the one being handled, stays.
StartTrack(t, target, handled) ==
    /\ current' = t
    /\ LoadUri(t, target)
    /\ eos' = IF handled \/ state = "Error" THEN NoTrack ELSE eos
    /\ err' = (err /\ state # "Error")
    /\ excuses' = IF eos' = NoTrack THEN {} ELSE {"stale"}

\* An end-of-stream message on the bus is about a source that plays again.
MessagesAreStale ==
    excuses' = IF eos = NoTrack THEN excuses ELSE excuses \union {"stale"}

\* reloadCurrentAtPosition: reload the audible source and, if asked to, keep
\* the successor in rearm until loadUri is done.
Reload(target, preserve) ==
    /\ LoadUri(playingUri, target)
    /\ MessagesAreStale
    /\ rearm' = IF ~preserve THEN NoTrack
                ELSE IF advancePending THEN currentUri ELSE preparedUri

\* consumeNaturalCompletion, when it does not trigger.
CountDown == IF stopAfter > 1 THEN stopAfter - 1 ELSE stopAfter

\* commitGaplessAdvance, and PlayerCore::onPreparedTrackStarted which it calls:
\* the prepared row becomes current, whatever stream is audible.  The thread
\* goes on with prepareNext() and then with after.
Commit(after) ==
    /\ advancePending' = FALSE /\ startQueued' = FALSE
    /\ playingUri' = currentUri
    /\ IF preparedNext = NoTrack
       THEN /\ pc' = after /\ ret' = "idle"
            /\ UNCHANGED <<current, stopAfter>>
       ELSE /\ current' = preparedNext
            /\ IF stopAfter = 1
               THEN pc' = "stagedPause" /\ UNCHANGED stopAfter
               ELSE /\ pc' = "decide"
                    /\ stopAfter' = CountDown
            /\ ret' = after
    /\ UNCHANGED <<currentUri, preparedUri, generation, preparedNext, stopPending>>

Idle == pc = "idle" /\ generation < MaxGeneration

----------------------------------------------------------------------------
(* What starts a GUI handler. *)

AnyGeneration(g) == advancePending
OlderGeneration(g) == advancePending /\ g + 1 = generation

\* commitGaplessAdvance drops a call of an older generation.
IsPendingCommit(g) == advancePending /\ g = generation

\* The posted call of queueGaplessAdvanceFromSink.
QueuedCommit ==
    /\ pc = "idle"
    /\ \E g \in posted :
        /\ posted' = posted \ {g}
        /\ IF IsPendingCommit(g)
           THEN Commit("idle")
           ELSE UNCHANGED <<shared, core, gui>>
    /\ UNCHANGED <<pipeline, bus, state, rearm, excuses>>

AnyPosition == TRUE

\* A position below two seconds, or one that went back, is taken for the start
\* of the successor.
PositionLooksNew == Handed \/ playingUri \in ShortTracks

\* pollPosition's fallback for a sink without a pad to probe.
PollFallback ==
    /\ pc = "idle" /\ ~HasProbe /\ advancePending /\ state = "Playing"
    /\ PositionLooksNew
    /\ Commit("idle")
    /\ excuses' = IF ~Handed /\ playingUri \in ShortTracks
                  THEN excuses \union {"short"} ELSE excuses
    /\ UNCHANGED <<pipeline, bus, state, rearm, posted>>

\* A handler that first commits a hand-off the sink has started, then goes on.
Begin(half) ==
    /\ Idle
    /\ pc' = "commit" /\ ret' = half
    /\ UNCHANGED <<shared, pipeline, bus, state, rearm, posted, excuses>>

\* A queue or policy mutation: stabilizeGaplessHandoff(), then prepareNext().
MutateQueue == Begin("cancel") /\ UNCHANGED core

\* cancelStopAfter disarms before it stabilises.
CancelStopAfter ==
    /\ Begin("cancel")
    /\ stopAfter' = 0 /\ stopPending' = FALSE
    /\ UNCHANGED <<current, preparedNext>>

\* armStopAfterCompletions disarms, stabilises and then arms.
ArmStopAfter ==
    /\ Begin("cancelThenArm")
    /\ stopAfter' = 0 /\ stopPending' = FALSE
    /\ UNCHANGED <<current, preparedNext>>

Pause == state = "Playing" /\ Begin("pause") /\ UNCHANGED core
Seek  == state \in {"Playing", "Paused"} /\ Begin("seek") /\ UNCHANGED core

\* handleMessage(EOS) and handleMessage(ERROR) commit before anything else.
HandleEosAlone ==
    /\ eos # NoTrack /\ Idle
    /\ pc' = "finish"
    /\ UNCHANGED <<shared, core, pipeline, bus, ret, state, rearm, posted, excuses>>
HandleEos   == eos # NoTrack /\ Begin("finish") /\ UNCHANGED core
HandleError == err /\ Begin("recover") /\ UNCHANGED core

Resume ==
    /\ Idle /\ state = "Paused"
    /\ state' = "Playing"
    /\ UNCHANGED <<shared, core, pipeline, bus, gui, rearm, posted, excuses>>

\* playAt of any row, startPaused or not; it stabilises nothing.
PlayRow ==
    /\ Idle
    /\ \E t \in Tracks, target \in {"Playing", "Paused"} : StartTrack(t, target, FALSE)
    /\ pc' = "decide"
    /\ UNCHANGED <<preparedNext, stopAfter, stopPending, ret, rearm, posted>>

StopPlayback ==
    /\ Idle
    /\ BackendStop
    /\ stopAfter' = 0 /\ stopPending' = FALSE
    /\ UNCHANGED <<current, preparedNext, gui, rearm, posted>>

----------------------------------------------------------------------------
(* How a GUI handler goes on. *)

\* commitSinkStartedGaplessAdvanceIfNeeded.
CommitStarted ==
    /\ pc = "commit"
    /\ IF advancePending /\ startQueued
       THEN Commit(ret)
       ELSE pc' = ret /\ ret' = "idle" /\ UNCHANGED <<shared, core>>
    /\ UNCHANGED <<pipeline, bus, state, rearm, posted, excuses>>

NeverArmed == FALSE

\* stabilizeGaplessHandoff: the hand-off is armed and the sink has not started it.
OnlyArmed == advancePending

\* The rest of stabilizeGaplessHandoff: a hand-off that is only armed is
\* cancelled by reloading the outgoing source.
Cancel ==
    /\ pc \in {"cancel", "cancelThenArm"}
    /\ pc' = IF pc = "cancel" THEN "decide" ELSE "arm"
    /\ IF OnlyArmed
       THEN Reload(IF state = "Paused" THEN "Paused" ELSE "Playing", FALSE)
       ELSE UNCHANGED <<shared, pipeline, state, rearm, excuses>>
    /\ UNCHANGED <<core, bus, ret, posted>>

\* armStopAfterCompletions sets the count; a count of one keeps the prepared
\* row (m_preservePreparedNextForStopAfter) and only forbids the hand-off.
Arm ==
    /\ pc = "arm"
    /\ \E n \in 1 .. MaxStop :
        /\ stopAfter' = n
        /\ pc' = IF n = 1 THEN "flag" ELSE "decide"
    /\ UNCHANGED <<shared, current, preparedNext, stopPending, pipeline, bus,
                   ret, state, rearm, posted, excuses>>

\* prepareNext(): decideAutoNext() fixes the row the next commit lands on.
Decide ==
    /\ pc = "decide"
    /\ preparedNext' \in OptTrack
    /\ pc' = "flag"
    /\ UNCHANGED <<shared, current, stopAfter, stopPending, pipeline, bus, ret,
                   state, rearm, posted, excuses>>

\* prepareNext(): setGaplessStopPending(), which drops the prepared uri.
Flag ==
    /\ pc = "flag"
    /\ stopPending' = (stopAfter = 1)
    /\ preparedUri' = IF stopAfter = 1 THEN NoTrack ELSE preparedUri
    /\ pc' = "publish"
    /\ UNCHANGED <<currentUri, playingUri, advancePending, startQueued,
                   generation, current, preparedNext, stopAfter, pipeline, bus,
                   ret, state, rearm, posted, excuses>>

PublishableUrisUncounted == {NoTrack, preparedNext}

\* The uri of the chosen row, or none at a boundary that cannot be crossed
\* gaplessly (DSD, an unresolvable or injected row, the stop-after timer).
PublishableUris == IF stopAfter = 1 THEN {NoTrack} ELSE {NoTrack, preparedNext}

\* prepareNext(): hand the backend the uri.
Publish ==
    /\ pc = "publish"
    /\ preparedUri' \in PublishableUris
    /\ pc' = ret /\ ret' = "idle"
    /\ UNCHANGED <<currentUri, playingUri, advancePending, startQueued,
                   generation, core, pipeline, bus, state, rearm, posted, excuses>>

\* The rest of pauseInternal: an armed hand-off is undone by reloading the
\* audible source paused, the successor kept for it.
PauseRest ==
    /\ pc = "pause"
    /\ ret' = "idle"
    /\ IF advancePending
       THEN Reload("Paused", TRUE) /\ pc' = "rearm"
       ELSE /\ pc' = "idle" /\ state' = "Paused"
            /\ UNCHANGED <<shared, pipeline, rearm, excuses>>
    /\ UNCHANGED <<core, bus, posted>>

\* The rest of seek: never a flushing seek across a pending hand-off.
SeekRest ==
    /\ pc = "seek"
    /\ ret' = "idle"
    /\ IF advancePending
       THEN /\ Reload(IF state = "Paused" THEN "Paused" ELSE "Playing", TRUE)
            /\ pc' = "rearm"
       ELSE /\ pc' = "idle"
            /\ decoding' = IF decoding = NoTrack THEN audible ELSE decoding
            /\ drained' = FALSE
            /\ MessagesAreStale
            /\ UNCHANGED <<shared, atSink, queuedUri, audible, state, rearm>>
    /\ UNCHANGED <<core, bus, posted>>

\* reloadCurrentAtPosition puts the kept successor back after loadUri.
Rearm ==
    /\ pc = "rearm"
    /\ preparedUri' = rearm
    /\ pc' = "idle"
    /\ UNCHANGED <<currentUri, playingUri, advancePending, startQueued,
                   generation, core, pipeline, bus, ret, state, rearm, posted,
                   excuses>>

\* onPreparedTrackStarted when the timer triggered: pause on the new row ...
StagedPause ==
    /\ pc = "stagedPause"
    /\ state' = "Paused" /\ pc' = "stagedDisarm"
    /\ UNCHANGED <<shared, core, pipeline, bus, ret, rearm, posted, excuses>>

\* ... then disarmStopAfter(restoreGaplessPreparation = true).
StagedDisarm ==
    /\ pc = "stagedDisarm"
    /\ stopAfter' = 0 /\ stopPending' = FALSE
    /\ pc' = "decide"
    /\ UNCHANGED <<shared, current, preparedNext, pipeline, bus, ret, state,
                   rearm, posted, excuses>>

\* The rest of handleMessage(EOS) and PlayerCore::onFinished: the end of the
\* queue stops, the last counted completion stages the prepared row paused,
\* anything else starts the row decided now.
Finish ==
    /\ pc = "finish"
    /\ \/ /\ current = NoTrack \/ stopAfter # 1
          /\ \/ /\ BackendStop
                /\ stopAfter' = 0 /\ stopPending' = FALSE /\ pc' = "idle"
                /\ UNCHANGED current
             \/ /\ current # NoTrack
                /\ \E t \in Tracks : StartTrack(t, "Playing", TRUE)
                /\ stopAfter' = CountDown
                /\ pc' = "decide" /\ UNCHANGED stopPending
       \/ /\ current # NoTrack /\ stopAfter = 1
          /\ stopAfter' = 0 /\ stopPending' = FALSE
          /\ \/ preparedNext # NoTrack /\ StartTrack(preparedNext, "Paused", TRUE)
              /\ pc' = "decide"
             \/ BackendStop /\ pc' = "idle" /\ UNCHANGED current
    /\ ret' = "idle"
    /\ UNCHANGED <<preparedNext, rearm, posted>>

\* The rest of handleMessage(ERROR): reload the source in place, or give up.
Recover ==
    /\ pc = "recover"
    /\ err' = FALSE
    /\ ret' = "idle"
    /\ \/ /\ playingUri # NoTrack
          /\ Reload(IF state = "Paused" THEN "Paused" ELSE "Playing", TRUE)
          /\ pc' = "rearm"
       \/ /\ state' = "Error" /\ pc' = "idle"
          /\ decoding' = NoTrack /\ drained' = FALSE
          /\ UNCHANGED <<shared, atSink, queuedUri, audible, rearm, excuses>>
    /\ UNCHANGED <<core, eos, posted>>

----------------------------------------------------------------------------
UserCall == \/ MutateQueue \/ CancelStopAfter \/ ArmStopAfter \/ Pause \/ Seek
            \/ Resume \/ PlayRow \/ StopPlayback

GuiStep == \/ CommitStarted \/ Cancel \/ Arm \/ Decide \/ Flag \/ Publish
           \/ PauseRest \/ SeekRest \/ Rearm \/ StagedPause \/ StagedDisarm
           \/ Finish \/ Recover

GuiEvent == QueuedCommit \/ PollFallback \/ HandleEos \/ HandleError

Streaming == \/ AboutToFinish \/ SwitchSource \/ SinkStart \/ EndOfStream
             \/ PipelineError

Next == UserCall \/ GuiStep \/ GuiEvent \/ Streaming

\* The GUI thread finishes the handler it is in, and its event loop delivers
\* every posted call: it is a queue, so a call cannot be overtaken for ever.
Fairness == WF_vars(GuiStep) /\ SF_vars(QueuedCommit) /\ SF_vars(PollFallback)

Spec == Init /\ [][Next]_vars /\ Fairness

----------------------------------------------------------------------------
(* What the hand-off promises.  A race the code does not close is recorded   *)
(* in excuses until the next load, and the promises are stated without it.   *)

NoRace == "window" \notin excuses /\ "short" \notin excuses

\* The row a commit would land on is the row whose uri playbin was given
\* (m_preparedNext against m_currentUri), also when a handler is about to commit.
CommitLandsOnArmedRow ==
    NoRace /\ advancePending /\ pc \in {"idle", "commit"} => preparedNext = currentUri

\* Outside a handler, with no commit due, PlayerCore's current track is the
\* stream that is heard.
NowPlayingIsAudible ==
    NoRace /\ pc = "idle" /\ audible # NoTrack /\ ~Handed => current = audible

\* With one completion left on the stop-after timer no successor is armed, and
\* none can be.
StopForbidsHandoff ==
    NoRace /\ pc = "idle" /\ stopAfter = 1 => ~advancePending /\ preparedUri = NoTrack

\* The row reported finished at end of stream is the row whose stream ended,
\* the commit of a short successor being made first.
FinishedIsHeard ==
    pc = "finish" /\ excuses = {} => eos = current

\* A commit moves PlayerCore to the stream that is heard, never to one that is
\* only queued: whichever of the posted call, a handler, or the bus makes it.
AdvanceIsHeard ==
    [][ NoRace' /\ advancePending /\ ~advancePending' /\ generation' = generation
            => current' = audible ]_vars

\* A hand-off the sink has started is committed, or cancelled by a handler.
StartedIsSettled == startQueued ~> ~startQueued

\* A pipeline that gave up after an error is silent.
Failed == state = "Error"

\* How the hand-off is read as the display of module NowPlaying: a hand-off is due
\* once the sink renders the successor.
Display == INSTANCE NowPlaying WITH
    heard <- IF Failed THEN NoTrack ELSE audible,
    shown <- current,
    due   <- NoRace /\ ~Failed /\ Handed,
    raced <- ~NoRace

\* The hand-off implements that display: the display moves only to the stream that is
\* heard, and the sound does not move on twice before it has, whichever of the posted
\* call, a handler, a message or the position poll makes it move, and whatever a
\* handler that loads the outgoing row again takes back.
DisplayFollowsSound == Display!Safe

\* It also gets there: the position poll shows every stream the sink has taken over.
DisplayCatchesUp == Display!Spec

\* The comment on m_preparedNext in PlayerCore.h, without the excuse: the index
\* lands on the row actually preloaded.
IndexLandsOnPreloadedRow ==
    advancePending /\ pc \in {"idle", "commit"} => preparedNext = currentUri

=============================================================================
