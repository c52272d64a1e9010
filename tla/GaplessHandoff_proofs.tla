----------------------- MODULE GaplessHandoff_proofs -----------------------
(***************************************************************************)
(* Proofs about GaplessHandoff, for any set of rows, any bound and either  *)
(* kind of sink.                                                           *)
(*                                                                         *)
(* None of the promises is inductive: whether a commit lands on the right  *)
(* row depends on what PlayerCore published, on what playbin was given and *)
(* on where the GUI thread is.  IInv says how those three hang together    *)
(* while no race has struck.                                               *)
(***************************************************************************)
EXTENDS GaplessHandoff, TLAPS

\* Between about-to-finish and commit: the armed uri is the prepared row's, the
\* prepared uri is used up, and the GUI thread is not about to choose another.
ArmedInv ==
    NoRace /\ advancePending =>
        /\ currentUri = preparedNext /\ preparedUri = NoTrack
        /\ pc \in {"idle", "commit"} \union SecondHalf

\* What could be armed next is the prepared row, unless it is being replaced.
PreparedInv ==
    NoRace =>
        /\ pc \notin PrepareNextSteps \union {"arm", "stagedPause", "stagedDisarm"}
              => preparedUri \in {NoTrack, preparedNext}
        /\ pc = "rearm" => /\ rearm \in {NoTrack, preparedNext}
                           /\ preparedUri = NoTrack /\ ~advancePending

\* What the sink plays, against the uris the backend keeps.
PipelineInv ==
    /\ advancePending => currentUri # NoTrack
    /\ startQueued => advancePending
    /\ advancePending /\ generation \in posted => startQueued
    /\ NoRace =>
        /\ playingUri \in {NoTrack, current}
        /\ ~advancePending => /\ currentUri = playingUri /\ queuedUri = NoTrack
                              /\ decoding \in {NoTrack, playingUri}
        /\ advancePending => playingUri # NoTrack
        /\ advancePending /\ queuedUri # NoTrack =>
              /\ atSink /\ queuedUri = currentUri
              /\ decoding \in {NoTrack, playingUri}
        /\ advancePending /\ queuedUri = NoTrack => decoding \in {NoTrack, currentUri}
        /\ startQueued => Handed
        /\ audible # NoTrack => audible = IF Handed THEN currentUri ELSE playingUri
        /\ Handed => audible # NoTrack

\* With one completion left, what forbids the hand-off stays in force.
StopInv ==
    NoRace /\ stopAfter = 1 /\ pc \notin {"arm", "decide", "flag"} =>
        /\ ~advancePending /\ preparedUri = NoTrack /\ stopPending
        /\ pc = "rearm" => rearm = NoTrack

\* An end of stream is the end of what was heard last, and a commit that was
\* due by then is made before the end is reported.
EosInv ==
    /\ ret # "idle" => pc \in {"commit", "stagedPause", "stagedDisarm"}
                                 \union PrepareNextSteps
    /\ decoding = NoTrack => ~drained
    /\ atSink /\ decoding # NoTrack => audible = decoding
    /\ excuses = {} =>
        /\ HasProbe /\ Handed => startQueued
        /\ eos # NoTrack => decoding = NoTrack /\ audible = eos
        /\ "finish" \in {pc, ret} => eos # NoTrack /\ (pc # "commit" => ~startQueued)

IInv == TypeOK /\ ArmedInv /\ PreparedInv /\ PipelineInv /\ StopInv /\ EosInv

LEMMA StepsOK ==
    /\ {"idle"} \union SecondHalf \subseteq Steps
    /\ {"commit", "rearm", "arm", "stagedPause", "stagedDisarm"} \subseteq Steps
    /\ {"decide", "flag", "publish"} \subseteq Steps
    /\ {"cancel", "cancelThenArm", "pause", "seek", "finish", "recover"} \subseteq
        SecondHalf
BY DEF Steps, SecondHalf, PrepareNextSteps

LEMMA StopOK ==
    /\ 0 \in 0 .. MaxStop
    /\ \A n \in 1 .. MaxStop : n \in 0 .. MaxStop
    /\ \A n \in 0 .. MaxStop : n > 1 => n - 1 \in 0 .. MaxStop
BY HandoffAssumption

LEMMA PostedOK ==
    ASSUME NEW n \in Nat, NEW P \in SUBSET (0 .. n)
    PROVE  P \in SUBSET (0 .. n + 1) /\ n \in 0 .. n
OBVIOUS

LEMMA InitInv == Init => IInv
<1> SUFFICES ASSUME Init PROVE IInv
  OBVIOUS
<1>1. TypeOK
  BY StepsOK, StopOK DEF Init, TypeOK, OptTrack
<1>2. ArmedInv /\ PreparedInv /\ PipelineInv /\ StopInv /\ EosInv
  BY DEF Init, ArmedInv, PreparedInv, PipelineInv, StopInv, EosInv, NoRace, Handed
<1> QED
  BY <1>1, <1>2 DEF IInv

LEMMA TypeStep == TypeOK /\ [Next]_vars => TypeOK'
<1> SUFFICES ASSUME TypeOK, [Next]_vars PROVE TypeOK'
  OBVIOUS
<1> NoTrack \in OptTrack /\ Tracks \subseteq OptTrack
  BY DEF OptTrack
<1> generation + 1 \in Nat /\ posted \subseteq 0 .. generation + 1
    /\ generation \in 0 .. generation
  BY PostedOK DEF TypeOK
<1> USE StepsOK, StopOK DEF TypeOK, shared, core, pipeline, bus, gui
<1>1. CASE MutateQueue
  BY <1>1 DEF MutateQueue, Begin, Idle
<1>2. CASE CancelStopAfter
  BY <1>2 DEF CancelStopAfter, Begin, Idle
<1>3. CASE ArmStopAfter
  BY <1>3 DEF ArmStopAfter, Begin, Idle
<1>4. CASE Pause
  BY <1>4 DEF Pause, Begin, Idle
<1>5. CASE Seek
  BY <1>5 DEF Seek, Begin, Idle
<1>6. CASE Resume
  BY <1>6 DEF Resume, Idle
<1>7. CASE PlayRow
  BY <1>7 DEF PlayRow, Idle, StartTrack, LoadUri, InvalidateGaplessAdvance
<1>8. CASE StopPlayback
  BY <1>8 DEF StopPlayback, Idle, BackendStop, LoadUri, InvalidateGaplessAdvance
<1>9. CASE CommitStarted
  BY <1>9 DEF CommitStarted, Commit, CountDown
<1>10. CASE Cancel
  BY <1>10 DEF Cancel, OnlyArmed, Reload, LoadUri, InvalidateGaplessAdvance,
      MessagesAreStale
<1>11. CASE Arm
  BY <1>11 DEF Arm
<1>12. CASE Decide
  BY <1>12 DEF Decide
<1>13. CASE Flag
  BY <1>13 DEF Flag
<1>14. CASE Publish
  BY <1>14 DEF Publish, PublishableUris
<1>15. CASE PauseRest
  BY <1>15 DEF PauseRest, Reload, LoadUri, InvalidateGaplessAdvance, MessagesAreStale
<1>16. CASE SeekRest
  BY <1>16 DEF SeekRest, Reload, LoadUri, InvalidateGaplessAdvance, MessagesAreStale
<1>17. CASE Rearm
  BY <1>17 DEF Rearm
<1>18. CASE StagedPause
  BY <1>18 DEF StagedPause
<1>19. CASE StagedDisarm
  BY <1>19 DEF StagedDisarm
<1>20. CASE Finish
  BY <1>20 DEF Finish, CountDown, StartTrack, LoadUri, InvalidateGaplessAdvance,
      BackendStop
<1>21. CASE Recover
  BY <1>21 DEF Recover, Reload, LoadUri, InvalidateGaplessAdvance, MessagesAreStale
<1>22. CASE QueuedCommit
  BY <1>22 DEF QueuedCommit, IsPendingCommit, Commit, CountDown
<1>23. CASE PollFallback
  BY <1>23 DEF PollFallback, PositionLooksNew, Commit, CountDown
<1>24. CASE HandleEos
  BY <1>24 DEF HandleEos, Begin, Idle
<1>25. CASE HandleError
  BY <1>25 DEF HandleError, Begin, Idle
<1>26. CASE AboutToFinish
  BY <1>26 DEF AboutToFinish
<1>27. CASE SwitchSource
  BY <1>27 DEF SwitchSource
<1>28. CASE SinkStart
  BY <1>28 DEF SinkStart
<1>29. CASE EndOfStream
  BY <1>29 DEF EndOfStream
<1>30. CASE PipelineError
  BY <1>30 DEF PipelineError
<1>31. CASE UNCHANGED vars
  BY <1>31 DEF vars
<1> QED
  BY <1>1, <1>2, <1>3, <1>4, <1>5, <1>6, <1>7, <1>8, <1>9, <1>10, <1>11, <1>12,
      <1>13, <1>14, <1>15, <1>16, <1>17, <1>18, <1>19, <1>20, <1>21, <1>22, <1>23,
      <1>24, <1>25, <1>26, <1>27, <1>28, <1>29, <1>30, <1>31
     DEF Next, UserCall, GuiStep, GuiEvent, Streaming

LEMMA ArmedStep == IInv /\ [Next]_vars => ArmedInv'
<1> SUFFICES ASSUME IInv, [Next]_vars PROVE ArmedInv'
  OBVIOUS
<1> USE HandoffAssumption DEF IInv, TypeOK, ArmedInv, PreparedInv, NoRace,
    SecondHalf, PrepareNextSteps, Undecided, shared, core, pipeline, bus, gui
<1>1. CASE MutateQueue
  BY <1>1 DEF MutateQueue, Begin, Idle
<1>2. CASE CancelStopAfter
  BY <1>2 DEF CancelStopAfter, Begin, Idle
<1>3. CASE ArmStopAfter
  BY <1>3 DEF ArmStopAfter, Begin, Idle
<1>4. CASE Pause
  BY <1>4 DEF Pause, Begin, Idle
<1>5. CASE Seek
  BY <1>5 DEF Seek, Begin, Idle
<1>6. CASE Resume
  BY <1>6 DEF Resume, Idle
<1>7. CASE PlayRow
  BY <1>7 DEF PlayRow, Idle, StartTrack, LoadUri, InvalidateGaplessAdvance
<1>8. CASE StopPlayback
  BY <1>8 DEF StopPlayback, Idle, BackendStop, LoadUri, InvalidateGaplessAdvance
<1>9. CASE CommitStarted
  BY <1>9 DEF CommitStarted, Commit, CountDown
<1>10. CASE Cancel
  BY <1>10 DEF Cancel, OnlyArmed, Reload, LoadUri, InvalidateGaplessAdvance,
      MessagesAreStale
<1>11. CASE Arm
  BY <1>11 DEF Arm
<1>12. CASE Decide
  BY <1>12 DEF Decide
<1>13. CASE Flag
  BY <1>13 DEF Flag
<1>14. CASE Publish
  BY <1>14 DEF Publish, PublishableUris
<1>15. CASE PauseRest
  BY <1>15 DEF PauseRest, Reload, LoadUri, InvalidateGaplessAdvance, MessagesAreStale
<1>16. CASE SeekRest
  BY <1>16 DEF SeekRest, Reload, LoadUri, InvalidateGaplessAdvance, MessagesAreStale
<1>17. CASE Rearm
  BY <1>17 DEF Rearm
<1>18. CASE StagedPause
  BY <1>18 DEF StagedPause
<1>19. CASE StagedDisarm
  BY <1>19 DEF StagedDisarm
<1>20. CASE Finish
  BY <1>20 DEF Finish, CountDown, StartTrack, LoadUri, InvalidateGaplessAdvance,
      BackendStop
<1>21. CASE Recover
  BY <1>21 DEF Recover, Reload, LoadUri, InvalidateGaplessAdvance, MessagesAreStale
<1>22. CASE QueuedCommit
  BY <1>22 DEF QueuedCommit, IsPendingCommit, Commit, CountDown
<1>23. CASE PollFallback
  BY <1>23 DEF PollFallback, PositionLooksNew, Commit, CountDown
<1>24. CASE HandleEos
  BY <1>24 DEF HandleEos, Begin, Idle
<1>25. CASE HandleError
  BY <1>25 DEF HandleError, Begin, Idle
<1>26. CASE AboutToFinish
  <2> SUFFICES ASSUME NoRace', advancePending'
               PROVE  /\ currentUri' = preparedNext' /\ preparedUri' = NoTrack
                      /\ pc' \in {"idle", "commit"} \union SecondHalf
    BY DEF ArmedInv
  <2>1. NoRace /\ UNCHANGED <<pc, preparedNext>>
    BY <1>26 DEF AboutToFinish
  <2>2. CASE advancePending
    BY <1>26, <2>1, <2>2 DEF AboutToFinish
  <2>3. CASE ~advancePending
    <3>1. preparedUri # NoTrack /\ currentUri' = preparedUri /\ preparedUri' = NoTrack
          /\ ~Undecided
      BY <1>26, <2>1, <2>3 DEF AboutToFinish
    <3>2. pc # "rearm" /\ preparedUri = preparedNext
      BY <2>1, <3>1
    <3> QED
      BY <2>1, <3>1, <3>2 DEF Steps
  <2> QED
    BY <2>2, <2>3
<1>27. CASE SwitchSource
  BY <1>27 DEF SwitchSource
<1>28. CASE SinkStart
  BY <1>28 DEF SinkStart
<1>29. CASE EndOfStream
  BY <1>29 DEF EndOfStream
<1>30. CASE PipelineError
  BY <1>30 DEF PipelineError
<1>31. CASE UNCHANGED vars
  BY <1>31 DEF vars
<1> QED
  BY <1>1, <1>2, <1>3, <1>4, <1>5, <1>6, <1>7, <1>8, <1>9, <1>10, <1>11, <1>12,
      <1>13, <1>14, <1>15, <1>16, <1>17, <1>18, <1>19, <1>20, <1>21, <1>22, <1>23,
      <1>24, <1>25, <1>26, <1>27, <1>28, <1>29, <1>30, <1>31
     DEF Next, UserCall, GuiStep, GuiEvent, Streaming

LEMMA PreparedStep == IInv /\ [Next]_vars => PreparedInv'
<1> SUFFICES ASSUME IInv, [Next]_vars PROVE PreparedInv'
  OBVIOUS
<1> USE HandoffAssumption DEF IInv, TypeOK, ArmedInv, PreparedInv, NoRace,
    SecondHalf, PrepareNextSteps, shared, core, pipeline, bus, gui
<1>1. CASE MutateQueue
  BY <1>1 DEF MutateQueue, Begin, Idle
<1>2. CASE CancelStopAfter
  BY <1>2 DEF CancelStopAfter, Begin, Idle
<1>3. CASE ArmStopAfter
  BY <1>3 DEF ArmStopAfter, Begin, Idle
<1>4. CASE Pause
  BY <1>4 DEF Pause, Begin, Idle
<1>5. CASE Seek
  BY <1>5 DEF Seek, Begin, Idle
<1>6. CASE Resume
  BY <1>6 DEF Resume, Idle
<1>7. CASE PlayRow
  BY <1>7 DEF PlayRow, Idle, StartTrack, LoadUri, InvalidateGaplessAdvance
<1>8. CASE StopPlayback
  BY <1>8 DEF StopPlayback, Idle, BackendStop, LoadUri, InvalidateGaplessAdvance
<1>9. CASE CommitStarted
  BY <1>9 DEF CommitStarted, Commit, CountDown
<1>10. CASE Cancel
  BY <1>10 DEF Cancel, OnlyArmed, Reload, LoadUri, InvalidateGaplessAdvance,
      MessagesAreStale
<1>11. CASE Arm
  BY <1>11 DEF Arm
<1>12. CASE Decide
  BY <1>12 DEF Decide
<1>13. CASE Flag
  BY <1>13 DEF Flag
<1>14. CASE Publish
  BY <1>14 DEF Publish, PublishableUris
<1>15. CASE PauseRest
  BY <1>15 DEF PauseRest, Reload, LoadUri, InvalidateGaplessAdvance, MessagesAreStale
<1>16. CASE SeekRest
  BY <1>16 DEF SeekRest, Reload, LoadUri, InvalidateGaplessAdvance, MessagesAreStale
<1>17. CASE Rearm
  BY <1>17 DEF Rearm
<1>18. CASE StagedPause
  BY <1>18 DEF StagedPause
<1>19. CASE StagedDisarm
  BY <1>19 DEF StagedDisarm
<1>20. CASE Finish
  BY <1>20 DEF Finish, CountDown, StartTrack, LoadUri, InvalidateGaplessAdvance,
      BackendStop
<1>21. CASE Recover
  BY <1>21 DEF Recover, Reload, LoadUri, InvalidateGaplessAdvance, MessagesAreStale
<1>22. CASE QueuedCommit
  BY <1>22 DEF QueuedCommit, IsPendingCommit, Commit, CountDown
<1>23. CASE PollFallback
  BY <1>23 DEF PollFallback, PositionLooksNew, Commit, CountDown
<1>24. CASE HandleEos
  BY <1>24 DEF HandleEos, Begin, Idle
<1>25. CASE HandleError
  BY <1>25 DEF HandleError, Begin, Idle
<1>26. CASE AboutToFinish
  BY <1>26 DEF AboutToFinish
<1>27. CASE SwitchSource
  BY <1>27 DEF SwitchSource
<1>28. CASE SinkStart
  BY <1>28 DEF SinkStart
<1>29. CASE EndOfStream
  BY <1>29 DEF EndOfStream
<1>30. CASE PipelineError
  BY <1>30 DEF PipelineError
<1>31. CASE UNCHANGED vars
  BY <1>31 DEF vars
<1> QED
  BY <1>1, <1>2, <1>3, <1>4, <1>5, <1>6, <1>7, <1>8, <1>9, <1>10, <1>11, <1>12,
      <1>13, <1>14, <1>15, <1>16, <1>17, <1>18, <1>19, <1>20, <1>21, <1>22, <1>23,
      <1>24, <1>25, <1>26, <1>27, <1>28, <1>29, <1>30, <1>31
     DEF Next, UserCall, GuiStep, GuiEvent, Streaming

LEMMA PipelineStep == IInv /\ [Next]_vars => PipelineInv'
<1> SUFFICES ASSUME IInv, [Next]_vars PROVE PipelineInv'
  OBVIOUS
<1> USE HandoffAssumption DEF IInv, TypeOK, ArmedInv, PipelineInv, NoRace, Handed,
    shared, core, pipeline, bus, gui
<1>1. CASE MutateQueue
  BY <1>1 DEF MutateQueue, Begin, Idle
<1>2. CASE CancelStopAfter
  BY <1>2 DEF CancelStopAfter, Begin, Idle
<1>3. CASE ArmStopAfter
  BY <1>3 DEF ArmStopAfter, Begin, Idle
<1>4. CASE Pause
  BY <1>4 DEF Pause, Begin, Idle
<1>5. CASE Seek
  BY <1>5 DEF Seek, Begin, Idle
<1>6. CASE Resume
  BY <1>6 DEF Resume, Idle
<1>7. CASE PlayRow
  BY <1>7 DEF PlayRow, Idle, StartTrack, LoadUri, InvalidateGaplessAdvance
<1>8. CASE StopPlayback
  BY <1>8 DEF StopPlayback, Idle, BackendStop, LoadUri, InvalidateGaplessAdvance
<1>9. CASE CommitStarted
  BY <1>9 DEF CommitStarted, Commit, CountDown
<1>10. CASE Cancel
  BY <1>10 DEF Cancel, OnlyArmed, Reload, LoadUri, InvalidateGaplessAdvance,
      MessagesAreStale
<1>11. CASE Arm
  BY <1>11 DEF Arm
<1>12. CASE Decide
  BY <1>12 DEF Decide
<1>13. CASE Flag
  BY <1>13 DEF Flag
<1>14. CASE Publish
  BY <1>14 DEF Publish, PublishableUris
<1>15. CASE PauseRest
  BY <1>15 DEF PauseRest, Reload, LoadUri, InvalidateGaplessAdvance, MessagesAreStale
<1>16. CASE SeekRest
  BY <1>16 DEF SeekRest, Reload, LoadUri, InvalidateGaplessAdvance, MessagesAreStale
<1>17. CASE Rearm
  BY <1>17 DEF Rearm
<1>18. CASE StagedPause
  BY <1>18 DEF StagedPause
<1>19. CASE StagedDisarm
  BY <1>19 DEF StagedDisarm
<1>20. CASE Finish
  BY <1>20 DEF Finish, CountDown, StartTrack, LoadUri, InvalidateGaplessAdvance,
      BackendStop
<1>21. CASE Recover
  BY <1>21 DEF Recover, Reload, LoadUri, InvalidateGaplessAdvance, MessagesAreStale
<1>22. CASE QueuedCommit
  BY <1>22 DEF QueuedCommit, IsPendingCommit, Commit, CountDown
<1>23. CASE PollFallback
  BY <1>23 DEF PollFallback, PositionLooksNew, Commit, CountDown
<1>24. CASE HandleEos
  BY <1>24 DEF HandleEos, Begin, Idle
<1>25. CASE HandleError
  BY <1>25 DEF HandleError, Begin, Idle
<1>26. CASE AboutToFinish
  BY <1>26 DEF AboutToFinish
<1>27. CASE SwitchSource
  BY <1>27 DEF SwitchSource
<1>28. CASE SinkStart
  BY <1>28 DEF SinkStart
<1>29. CASE EndOfStream
  BY <1>29 DEF EndOfStream
<1>30. CASE PipelineError
  BY <1>30 DEF PipelineError
<1>31. CASE UNCHANGED vars
  BY <1>31 DEF vars
<1> QED
  BY <1>1, <1>2, <1>3, <1>4, <1>5, <1>6, <1>7, <1>8, <1>9, <1>10, <1>11, <1>12,
      <1>13, <1>14, <1>15, <1>16, <1>17, <1>18, <1>19, <1>20, <1>21, <1>22, <1>23,
      <1>24, <1>25, <1>26, <1>27, <1>28, <1>29, <1>30, <1>31
     DEF Next, UserCall, GuiStep, GuiEvent, Streaming

LEMMA StopStep == IInv /\ [Next]_vars => StopInv'
<1> SUFFICES ASSUME IInv, [Next]_vars PROVE StopInv'
  OBVIOUS
<1> USE HandoffAssumption DEF IInv, TypeOK, ArmedInv, PreparedInv, StopInv, NoRace,
    SecondHalf, shared, core, pipeline, bus, gui
<1>1. CASE MutateQueue
  BY <1>1 DEF MutateQueue, Begin, Idle
<1>2. CASE CancelStopAfter
  BY <1>2 DEF CancelStopAfter, Begin, Idle
<1>3. CASE ArmStopAfter
  BY <1>3 DEF ArmStopAfter, Begin, Idle
<1>4. CASE Pause
  BY <1>4 DEF Pause, Begin, Idle
<1>5. CASE Seek
  BY <1>5 DEF Seek, Begin, Idle
<1>6. CASE Resume
  BY <1>6 DEF Resume, Idle
<1>7. CASE PlayRow
  BY <1>7 DEF PlayRow, Idle, StartTrack, LoadUri, InvalidateGaplessAdvance
<1>8. CASE StopPlayback
  BY <1>8 DEF StopPlayback, Idle, BackendStop, LoadUri, InvalidateGaplessAdvance
<1>9. CASE CommitStarted
  BY <1>9 DEF CommitStarted, Commit, CountDown
<1>10. CASE Cancel
  BY <1>10 DEF Cancel, OnlyArmed, Reload, LoadUri, InvalidateGaplessAdvance,
      MessagesAreStale
<1>11. CASE Arm
  BY <1>11 DEF Arm
<1>12. CASE Decide
  BY <1>12 DEF Decide
<1>13. CASE Flag
  BY <1>13 DEF Flag
<1>14. CASE Publish
  BY <1>14 DEF Publish, PublishableUris
<1>15. CASE PauseRest
  BY <1>15 DEF PauseRest, Reload, LoadUri, InvalidateGaplessAdvance, MessagesAreStale
<1>16. CASE SeekRest
  BY <1>16 DEF SeekRest, Reload, LoadUri, InvalidateGaplessAdvance, MessagesAreStale
<1>17. CASE Rearm
  BY <1>17 DEF Rearm
<1>18. CASE StagedPause
  BY <1>18 DEF StagedPause
<1>19. CASE StagedDisarm
  BY <1>19 DEF StagedDisarm
<1>20. CASE Finish
  BY <1>20 DEF Finish, CountDown, StartTrack, LoadUri, InvalidateGaplessAdvance,
      BackendStop
<1>21. CASE Recover
  BY <1>21 DEF Recover, Reload, LoadUri, InvalidateGaplessAdvance, MessagesAreStale
<1>22. CASE QueuedCommit
  BY <1>22 DEF QueuedCommit, IsPendingCommit, Commit, CountDown
<1>23. CASE PollFallback
  BY <1>23 DEF PollFallback, PositionLooksNew, Commit, CountDown
<1>24. CASE HandleEos
  BY <1>24 DEF HandleEos, Begin, Idle
<1>25. CASE HandleError
  BY <1>25 DEF HandleError, Begin, Idle
<1>26. CASE AboutToFinish
  BY <1>26 DEF AboutToFinish
<1>27. CASE SwitchSource
  BY <1>27 DEF SwitchSource
<1>28. CASE SinkStart
  BY <1>28 DEF SinkStart
<1>29. CASE EndOfStream
  BY <1>29 DEF EndOfStream
<1>30. CASE PipelineError
  BY <1>30 DEF PipelineError
<1>31. CASE UNCHANGED vars
  BY <1>31 DEF vars
<1> QED
  BY <1>1, <1>2, <1>3, <1>4, <1>5, <1>6, <1>7, <1>8, <1>9, <1>10, <1>11, <1>12,
      <1>13, <1>14, <1>15, <1>16, <1>17, <1>18, <1>19, <1>20, <1>21, <1>22, <1>23,
      <1>24, <1>25, <1>26, <1>27, <1>28, <1>29, <1>30, <1>31
     DEF Next, UserCall, GuiStep, GuiEvent, Streaming

LEMMA EosStep == IInv /\ [Next]_vars => EosInv'
<1> SUFFICES ASSUME IInv, [Next]_vars PROVE EosInv'
  OBVIOUS
<1> USE HandoffAssumption DEF IInv, TypeOK, ArmedInv, PipelineInv, EosInv, NoRace,
    Handed,
           PrepareNextSteps, SecondHalf, shared, core, pipeline, bus, gui
<1>1. CASE MutateQueue
  BY <1>1 DEF MutateQueue, Begin, Idle
<1>2. CASE CancelStopAfter
  BY <1>2 DEF CancelStopAfter, Begin, Idle
<1>3. CASE ArmStopAfter
  BY <1>3 DEF ArmStopAfter, Begin, Idle
<1>4. CASE Pause
  BY <1>4 DEF Pause, Begin, Idle
<1>5. CASE Seek
  BY <1>5 DEF Seek, Begin, Idle
<1>6. CASE Resume
  BY <1>6 DEF Resume, Idle
<1>7. CASE PlayRow
  BY <1>7 DEF PlayRow, Idle, StartTrack, LoadUri, InvalidateGaplessAdvance
<1>8. CASE StopPlayback
  BY <1>8 DEF StopPlayback, Idle, BackendStop, LoadUri, InvalidateGaplessAdvance
<1>9. CASE CommitStarted
  BY <1>9 DEF CommitStarted, Commit, CountDown
<1>10. CASE Cancel
  BY <1>10 DEF Cancel, OnlyArmed, Reload, LoadUri, InvalidateGaplessAdvance,
      MessagesAreStale
<1>11. CASE Arm
  BY <1>11 DEF Arm
<1>12. CASE Decide
  BY <1>12 DEF Decide
<1>13. CASE Flag
  BY <1>13 DEF Flag
<1>14. CASE Publish
  BY <1>14 DEF Publish, PublishableUris
<1>15. CASE PauseRest
  BY <1>15 DEF PauseRest, Reload, LoadUri, InvalidateGaplessAdvance, MessagesAreStale
<1>16. CASE SeekRest
  BY <1>16 DEF SeekRest, Reload, LoadUri, InvalidateGaplessAdvance, MessagesAreStale
<1>17. CASE Rearm
  BY <1>17 DEF Rearm
<1>18. CASE StagedPause
  BY <1>18 DEF StagedPause
<1>19. CASE StagedDisarm
  BY <1>19 DEF StagedDisarm
<1>20. CASE Finish
  BY <1>20 DEF Finish, CountDown, StartTrack, LoadUri, InvalidateGaplessAdvance,
      BackendStop
<1>21. CASE Recover
  BY <1>21 DEF Recover, Reload, LoadUri, InvalidateGaplessAdvance, MessagesAreStale
<1>22. CASE QueuedCommit
  BY <1>22 DEF QueuedCommit, IsPendingCommit, Commit, CountDown
<1>23. CASE PollFallback
  BY <1>23 DEF PollFallback, PositionLooksNew, Commit, CountDown
<1>24. CASE HandleEos
  BY <1>24 DEF HandleEos, Begin, Idle
<1>25. CASE HandleError
  BY <1>25 DEF HandleError, Begin, Idle
<1>26. CASE AboutToFinish
  BY <1>26 DEF AboutToFinish
<1>27. CASE SwitchSource
  BY <1>27 DEF SwitchSource
<1>28. CASE SinkStart
  BY <1>28 DEF SinkStart
<1>29. CASE EndOfStream
  BY <1>29 DEF EndOfStream
<1>30. CASE PipelineError
  BY <1>30 DEF PipelineError
<1>31. CASE UNCHANGED vars
  BY <1>31 DEF vars
<1> QED
  BY <1>1, <1>2, <1>3, <1>4, <1>5, <1>6, <1>7, <1>8, <1>9, <1>10, <1>11, <1>12,
      <1>13, <1>14, <1>15, <1>16, <1>17, <1>18, <1>19, <1>20, <1>21, <1>22, <1>23,
      <1>24, <1>25, <1>26, <1>27, <1>28, <1>29, <1>30, <1>31
     DEF Next, UserCall, GuiStep, GuiEvent, Streaming

LEMMA StepInv == IInv /\ [Next]_vars => IInv'
BY TypeStep, ArmedStep, PreparedStep, PipelineStep, StopStep, EosStep DEF IInv

\* The inductive invariant holds of every behaviour of the specification.
THEOREM Invariance == Spec => []IInv
BY InitInv, StepInv, PTL DEF Spec

\* Every variable keeps the type the code declares for it.
THEOREM TypeCorrect == Spec => []TypeOK
BY Invariance, PTL DEF IInv

\* Without a race, the row onPreparedTrackStarted commits to is the row whose
\* uri about-to-finish handed to playbin.
THEOREM CommitIsArmedRow == Spec => []CommitLandsOnArmedRow
<1>1. IInv => CommitLandsOnArmedRow
  BY DEF IInv, ArmedInv, CommitLandsOnArmedRow
<1> QED
  BY <1>1, Invariance, PTL

\* Without a race, the track PlayerCore shows is the track that is heard.
THEOREM ShownIsHeard == Spec => []NowPlayingIsAudible
<1>1. IInv => NowPlayingIsAudible
  BY DEF IInv, PipelineInv, NowPlayingIsAudible
<1> QED
  BY <1>1, Invariance, PTL

\* Without a race, no commit moves PlayerCore to a stream that is not heard.
THEOREM AdvanceFollowsSound == Spec => AdvanceIsHeard
<1>1. IInv /\ IInv' /\ [Next]_vars =>
        [NoRace' /\ advancePending /\ ~advancePending' /\ generation' = generation
            => current' = audible]_vars
  <2> SUFFICES ASSUME IInv, [Next]_vars, NoRace', advancePending,
                      ~advancePending', generation' = generation
               PROVE  current' = audible
    OBVIOUS
  <2> USE DEF IInv, TypeOK, ArmedInv, PipelineInv, NoRace, Handed, shared, core,
              pipeline, bus, gui
  <2>1. CASE CommitStarted
    BY <2>1 DEF CommitStarted, Commit, CountDown
  <2>2. CASE QueuedCommit
    BY <2>2 DEF QueuedCommit, IsPendingCommit, Commit, CountDown
  <2>3. CASE PollFallback
    BY <2>3 DEF PollFallback, PositionLooksNew, Commit, CountDown
  <2>4. ~UNCHANGED advancePending
    OBVIOUS
  <2>5. generation' # generation + 1
    OBVIOUS
  <2>7. CASE Cancel \/ PauseRest \/ SeekRest \/ Recover
    BY <2>4, <2>5, <2>7 DEF Cancel, OnlyArmed, PauseRest, SeekRest, Recover, Reload,
        LoadUri, InvalidateGaplessAdvance
  <2>8. CASE Finish \/ PlayRow \/ StopPlayback
    <3>1. generation' = generation + 1
      BY <2>8 DEF Finish, PlayRow, StopPlayback, LoadUri, InvalidateGaplessAdvance,
          StartTrack, BackendStop
    <3> QED
      BY <3>1, <2>5
  <2>6. CASE AboutToFinish
    BY <2>6 DEF AboutToFinish
  <2> QED
    BY <2>1, <2>2, <2>3, <2>4, <2>6, <2>7, <2>8
       DEF Next, UserCall, GuiStep, GuiEvent, Streaming, vars, MutateQueue,
           CancelStopAfter, ArmStopAfter, Pause, Seek, Resume, Begin, HandleEos,
           HandleError, Arm, Decide, Flag, Publish, Rearm, StagedPause,
           StagedDisarm, SwitchSource, SinkStart, EndOfStream, PipelineError
<1> QED
  BY <1>1, Invariance, PTL DEF Spec, AdvanceIsHeard

\* Without a race, one counted completion before the stop-after timer fires no
\* successor is armed and none can be.
THEOREM StopIsGapFree == Spec => []StopForbidsHandoff
<1>1. IInv => StopForbidsHandoff
  BY DEF IInv, StopInv, StopForbidsHandoff
<1> QED
  BY <1>1, Invariance, PTL

\* With a probe on the sink and no stale message, the row PlayerCore reports
\* finished is the row whose stream ended.
THEOREM FinishIsOfHeardRow == ASSUME HasProbe PROVE Spec => []FinishedIsHeard
<1>1. IInv => FinishedIsHeard
  BY DEF IInv, EosInv, PipelineInv, NoRace, FinishedIsHeard
<1> QED
  BY <1>1, Invariance, PTL

----------------------------------------------------------------------------
(* The refinement: every step of the hand-off is a step of NowPlaying, or       *)
(* changes nothing it shows.                                                   *)

\* A hand-off is only armed while its predecessor sounds.
HeardInv == NoRace /\ advancePending => audible # NoTrack

Heard == IF Failed THEN NoTrack ELSE audible
Due   == NoRace /\ ~Failed /\ Handed

LEMMA IsStart ==
    ASSUME NoRace', current' \in Tracks, Heard' = NoTrack, ~Due'
    PROVE  Display!Start
BY DEF Display!Start, Heard, Due

LEMMA IsSilence ==
    ASSUME NoRace', Heard' = NoTrack, ~Due', current' = current
    PROVE  Display!Silence
BY DEF Display!Silence, Heard, Due

LEMMA IsSound ==
    ASSUME NoRace, NoRace', Heard = NoTrack, current # NoTrack, Heard' = current,
           ~Due, ~Due', current' = current
    PROVE  Display!Sound
BY DEF Display!Sound, Heard, Due

LEMMA IsHandOver ==
    ASSUME NoRace, NoRace', Heard # NoTrack, ~Due, Due', Heard' \in Tracks,
           current' = current
    PROVE  Display!HandOver
BY DEF Display!HandOver, Heard, Due

LEMMA IsFollow ==
    ASSUME NoRace, NoRace', Due, ~Due', current' = Heard, Heard' = Heard
    PROVE  Display!Follow
BY DEF Display!Follow, Heard, Due

LEMMA IsRace ==
    ASSUME ~NoRace', TypeOK'
    PROVE  Display!Race
BY DEF Display!Race, Display!OptTrack, TypeOK, OptTrack, Heard, Due, NoRace, Failed

LEMMA IsStutter ==
    ASSUME NoRace, NoRace', Heard' = Heard, current' = current, Due' = Due
    PROVE  UNCHANGED Display!vars
BY DEF Display!vars, Heard, Due

LEMMA HeardStep == IInv /\ HeardInv /\ [Next]_vars => HeardInv'
<1> SUFFICES ASSUME IInv, HeardInv, [Next]_vars PROVE HeardInv'
  OBVIOUS
<1> USE HandoffAssumption DEF IInv, TypeOK, EosInv, HeardInv, NoRace,
    shared, core, pipeline, bus, gui
<1>1. CASE MutateQueue
  BY <1>1 DEF MutateQueue, Begin, Idle
<1>2. CASE CancelStopAfter
  BY <1>2 DEF CancelStopAfter, Begin, Idle
<1>3. CASE ArmStopAfter
  BY <1>3 DEF ArmStopAfter, Begin, Idle
<1>4. CASE Pause
  BY <1>4 DEF Pause, Begin, Idle
<1>5. CASE Seek
  BY <1>5 DEF Seek, Begin, Idle
<1>6. CASE Resume
  BY <1>6 DEF Resume, Idle
<1>7. CASE PlayRow
  BY <1>7 DEF PlayRow, Idle, StartTrack, LoadUri, InvalidateGaplessAdvance
<1>8. CASE StopPlayback
  BY <1>8 DEF StopPlayback, Idle, BackendStop, LoadUri, InvalidateGaplessAdvance
<1>9. CASE CommitStarted
  BY <1>9 DEF CommitStarted, Commit, CountDown
<1>10. CASE Cancel
  BY <1>10 DEF Cancel, OnlyArmed, Reload, LoadUri, InvalidateGaplessAdvance,
      MessagesAreStale
<1>11. CASE Arm
  BY <1>11 DEF Arm
<1>12. CASE Decide
  BY <1>12 DEF Decide
<1>13. CASE Flag
  BY <1>13 DEF Flag
<1>14. CASE Publish
  BY <1>14 DEF Publish, PublishableUris
<1>15. CASE PauseRest
  BY <1>15 DEF PauseRest, Reload, LoadUri, InvalidateGaplessAdvance, MessagesAreStale
<1>16. CASE SeekRest
  BY <1>16 DEF SeekRest, Reload, LoadUri, InvalidateGaplessAdvance, MessagesAreStale
<1>17. CASE Rearm
  BY <1>17 DEF Rearm
<1>18. CASE StagedPause
  BY <1>18 DEF StagedPause
<1>19. CASE StagedDisarm
  BY <1>19 DEF StagedDisarm
<1>20. CASE Finish
  BY <1>20 DEF Finish, CountDown, StartTrack, LoadUri, InvalidateGaplessAdvance,
      BackendStop
<1>21. CASE Recover
  BY <1>21 DEF Recover, Reload, LoadUri, InvalidateGaplessAdvance, MessagesAreStale
<1>22. CASE QueuedCommit
  BY <1>22 DEF QueuedCommit, IsPendingCommit, Commit, CountDown
<1>23. CASE PollFallback
  BY <1>23 DEF PollFallback, PositionLooksNew, Commit, CountDown
<1>24. CASE HandleEos
  BY <1>24 DEF HandleEos, Begin, Idle
<1>25. CASE HandleError
  BY <1>25 DEF HandleError, Begin, Idle
<1>26. CASE AboutToFinish
  BY <1>26 DEF AboutToFinish
<1>27. CASE SwitchSource
  BY <1>27 DEF SwitchSource
<1>28. CASE SinkStart
  BY <1>28 DEF SinkStart
<1>29. CASE EndOfStream
  BY <1>29 DEF EndOfStream
<1>30. CASE PipelineError
  BY <1>30 DEF PipelineError
<1>31. CASE UNCHANGED vars
  BY <1>31 DEF vars
<1> QED
  BY <1>1, <1>2, <1>3, <1>4, <1>5, <1>6, <1>7, <1>8, <1>9, <1>10, <1>11, <1>12,
      <1>13, <1>14, <1>15, <1>16, <1>17, <1>18, <1>19, <1>20, <1>21, <1>22, <1>23,
      <1>24, <1>25, <1>26, <1>27, <1>28, <1>29, <1>30, <1>31
     DEF Next, UserCall, GuiStep, GuiEvent, Streaming

LEMMA Loaded ==
    ASSUME NoRace', audible' = NoTrack, advancePending' = FALSE, current' = current
    PROVE  Display!Silence
BY IsSilence DEF Heard, Due, Handed

LEMMA Started ==
    ASSUME NoRace', audible' = NoTrack, advancePending' = FALSE, current' \in Tracks
    PROVE  Display!Start
BY IsStart DEF Heard, Due, Handed

\* The shown row is heard again when a pipeline that had given up is left paused.
LEMMA Revealed ==
    ASSUME IInv, NoRace, NoRace', ~advancePending, state' # "Error",
           UNCHANGED <<current, audible, advancePending>>
    PROVE  Display!Sound \/ UNCHANGED Display!vars
<1>1. audible # NoTrack => audible = current
  BY DEF IInv, PipelineInv, Handed
<1>2. Heard' = audible /\ ~Due /\ ~Due'
  BY DEF Heard, Due, Handed, Failed
<1>3. CASE Failed /\ audible # NoTrack
  BY <1>1, <1>2, <1>3, IsSound DEF Heard
<1>4. CASE ~Failed \/ audible = NoTrack
  <2>1. Heard' = Heard
    BY <1>2, <1>4 DEF Heard
  <2>2. Due' = Due
    BY <1>2 DEF Due
  <2> QED
    BY <2>1, <2>2, IsStutter
<1> QED
  BY <1>3, <1>4

\* A commit of a hand-off the sink has started.
LEMMA Committed ==
    ASSUME IInv, NoRace, NoRace', Handed, pc \in {"idle", "commit"}, NEW after,
           Commit(after), UNCHANGED <<pipeline, state>>
    PROVE  Display!Follow \/ Display!Start
<1>1. /\ current' = audible /\ current' \in Tracks
      /\ ~Due' /\ Heard' = Heard
  BY DEF IInv, TypeOK, OptTrack, ArmedInv, PipelineInv, Commit, Handed, Heard, Due,
      Failed, pipeline
<1>2. CASE Failed
  BY <1>1, <1>2, IsStart DEF Heard
<1>3. CASE ~Failed
  BY <1>1, <1>3, IsFollow DEF Heard, Due
<1> QED
  BY <1>2, <1>3

LEMMA StepRefines ==
    ASSUME IInv, IInv', HeardInv, [Next]_vars, NoRace'
    PROVE  [Display!Next]_(Display!vars)
<1> USE DEF NoRace, shared, core, pipeline, bus, gui
<1> DEFINE Shown == Display!Start \/ Display!Silence \/ Display!Sound
                    \/ Display!HandOver \/ Display!Follow \/ UNCHANGED Display!vars
<1> SUFFICES Shown
  BY DEF Display!Next
<1>1. CASE MutateQueue
  BY <1>1, IsStutter DEF MutateQueue, Begin, Heard, Due, Failed, Handed
<1>2. CASE CancelStopAfter
  BY <1>2, IsStutter DEF CancelStopAfter, Begin, Heard, Due, Failed, Handed
<1>3. CASE ArmStopAfter
  BY <1>3, IsStutter DEF ArmStopAfter, Begin, Heard, Due, Failed, Handed
<1>4. CASE Pause
  BY <1>4, IsStutter DEF Pause, Begin, Heard, Due, Failed, Handed
<1>5. CASE Seek
  BY <1>5, IsStutter DEF Seek, Begin, Heard, Due, Failed, Handed
<1>6. CASE Resume
  BY <1>6, IsStutter DEF Resume, Heard, Due, Failed, Handed
<1>7. CASE PlayRow
  BY <1>7, Started DEF PlayRow, StartTrack, LoadUri, InvalidateGaplessAdvance
<1>8. CASE StopPlayback
  BY <1>8, Loaded DEF StopPlayback, BackendStop, LoadUri, InvalidateGaplessAdvance
<1>9. CASE CommitStarted
  <2>1. NoRace
    BY <1>9 DEF CommitStarted
  <2>2. CASE advancePending /\ startQueued
    <3>1. Handed
      BY <2>1, <2>2 DEF IInv, PipelineInv
    <3> QED
      BY <1>9, <2>1, <2>2, <3>1, Committed DEF CommitStarted
  <2>3. CASE ~(advancePending /\ startQueued)
    BY <1>9, <2>1, <2>3, IsStutter DEF CommitStarted, Heard, Due, Failed, Handed
  <2> QED
    BY <2>2, <2>3
<1>10. CASE Cancel
  <2>1. NoRace
    BY <1>10 DEF Cancel, OnlyArmed, Reload, MessagesAreStale
  <2>2. CASE advancePending
    BY <1>10, <2>2, Loaded DEF Cancel, OnlyArmed, Reload, LoadUri,
        InvalidateGaplessAdvance
  <2>3. CASE ~advancePending
    BY <1>10, <2>1, <2>3, IsStutter DEF Cancel, OnlyArmed, Heard, Due, Failed, Handed
  <2> QED
    BY <2>2, <2>3
<1>11. CASE Arm
  BY <1>11, IsStutter DEF Arm, Heard, Due, Failed, Handed
<1>12. CASE Decide
  BY <1>12, IsStutter DEF Decide, Heard, Due, Failed, Handed
<1>13. CASE Flag
  BY <1>13, IsStutter DEF Flag, Heard, Due, Failed, Handed
<1>14. CASE Publish
  BY <1>14, IsStutter DEF Publish, Heard, Due, Failed, Handed
<1>15. CASE PauseRest
  <2>1. NoRace
    BY <1>15 DEF PauseRest, Reload, MessagesAreStale
  <2>2. CASE advancePending
    BY <1>15, <2>2, Loaded DEF PauseRest, Reload, LoadUri, InvalidateGaplessAdvance
  <2>3. CASE ~advancePending
    BY <1>15, <2>1, <2>3, Revealed DEF PauseRest
  <2> QED
    BY <2>2, <2>3
<1>16. CASE SeekRest
  <2>1. NoRace
    BY <1>16 DEF SeekRest, Reload, MessagesAreStale
  <2>2. CASE advancePending
    BY <1>16, <2>2, Loaded DEF SeekRest, Reload, LoadUri, InvalidateGaplessAdvance
  <2>3. CASE ~advancePending
    BY <1>16, <2>1, <2>3, IsStutter DEF SeekRest, Heard, Due, Failed, Handed
  <2> QED
    BY <2>2, <2>3
<1>17. CASE Rearm
  BY <1>17, IsStutter DEF Rearm, Heard, Due, Failed, Handed
<1>18. CASE StagedPause
  <2>1. NoRace /\ ~advancePending
    BY <1>18 DEF StagedPause, IInv, ArmedInv, SecondHalf
  <2> QED
    BY <1>18, <2>1, Revealed DEF StagedPause
<1>19. CASE StagedDisarm
  BY <1>19, IsStutter DEF StagedDisarm, Heard, Due, Failed, Handed
<1>20. CASE Finish
  <2>1. CASE current' = current /\ BackendStop
    BY <2>1, Loaded DEF BackendStop, LoadUri, InvalidateGaplessAdvance
  <2>2. CASE \E t \in Tracks, target \in {"Playing", "Paused"} : StartTrack(t, target, TRUE)
    BY <2>2, Started DEF StartTrack, LoadUri, InvalidateGaplessAdvance
  <2>3. preparedNext # NoTrack => preparedNext \in Tracks
    BY DEF IInv, TypeOK, OptTrack
  <2> QED
    BY <1>20, <2>1, <2>2, <2>3 DEF Finish
<1>21. CASE Recover
  <2>1. NoRace
    BY <1>21 DEF Recover, Reload, MessagesAreStale
  <2>2. CASE state' = "Error" /\ UNCHANGED current
    BY <2>1, <2>2, IsSilence DEF Heard, Due, Failed
  <2>3. CASE \E target \in {"Playing", "Paused"} : Reload(target, TRUE) /\ UNCHANGED current
    BY <2>3, Loaded DEF Reload, LoadUri, InvalidateGaplessAdvance
  <2> QED
    BY <1>21, <2>2, <2>3 DEF Recover
<1>22. CASE QueuedCommit
  <2>1. NoRace /\ UNCHANGED <<pipeline, state>> /\ pc = "idle"
    BY <1>22 DEF QueuedCommit
  <2>2. CASE advancePending /\ generation \in posted /\ Commit("idle")
    <3>1. Handed
      BY <2>1, <2>2 DEF IInv, PipelineInv
    <3> QED
      BY <2>1, <2>2, <3>1, Committed
  <2>3. CASE UNCHANGED <<shared, core>>
    BY <2>1, <2>3, IsStutter DEF Heard, Due, Failed, Handed
  <2> QED
    BY <1>22, <2>2, <2>3 DEF QueuedCommit, IsPendingCommit
<1>23. CASE PollFallback
  <2>1. NoRace /\ Handed
    BY <1>23 DEF PollFallback, PositionLooksNew
  <2> QED
    BY <1>23, <2>1, Committed DEF PollFallback
<1>24. CASE HandleEos
  BY <1>24, IsStutter DEF HandleEos, Begin, Heard, Due, Failed, Handed
<1>25. CASE HandleError
  BY <1>25, IsStutter DEF HandleError, Begin, Heard, Due, Failed, Handed
<1>26. CASE AboutToFinish
  <2>1. NoRace /\ UNCHANGED <<current, audible, state>>
    BY <1>26 DEF AboutToFinish
  <2>2. Due' = Due
    BY <1>26, <2>1 DEF AboutToFinish, Due, Failed, Handed
  <2> QED
    BY <2>1, <2>2, IsStutter DEF Heard, Failed
<1>27. CASE SwitchSource
  BY <1>27, IsStutter DEF SwitchSource, Heard, Due, Failed, Handed
<1>28. CASE SinkStart
  <2>1. /\ NoRace /\ ~Due /\ UNCHANGED <<current, state, advancePending, queuedUri>>
        /\ decoding \in Tracks /\ audible' = decoding /\ ~atSink /\ atSink'
    BY <1>28 DEF SinkStart, Due, Handed, IInv, TypeOK, OptTrack
  <2>2. CASE Failed
    BY <2>1, <2>2, IsStutter DEF Heard, Due, Failed
  <2>3. CASE ~Failed /\ advancePending
    <3>1. audible # NoTrack /\ queuedUri = NoTrack
      BY <2>1, <2>3 DEF HeardInv, IInv, PipelineInv
    <3> QED
      BY <2>1, <2>3, <3>1, HandoffAssumption, IsHandOver DEF Heard, Due, Failed, Handed
  <2>4. CASE ~Failed /\ ~advancePending
    <3>1. decoding = current /\ current # NoTrack /\ audible \in {NoTrack, current}
      BY <2>1, <2>4, HandoffAssumption DEF IInv, PipelineInv, Handed
    <3>2. Heard = audible /\ Heard' = current /\ ~Due'
      BY <2>1, <2>4, <3>1 DEF Heard, Due, Failed, Handed
    <3>3. CASE audible = NoTrack
      BY <2>1, <3>1, <3>2, <3>3, IsSound
    <3>4. CASE audible = current
      <4>1. Due' = Due
        BY <2>1, <3>2 DEF Due
      <4> QED
        BY <2>1, <3>2, <3>4, <4>1, IsStutter
    <3> QED
      BY <3>1, <3>3, <3>4
  <2> QED
    BY <2>2, <2>3, <2>4
<1>29. CASE EndOfStream
  BY <1>29, IsStutter DEF EndOfStream, Heard, Due, Failed, Handed
<1>30. CASE PipelineError
  BY <1>30, IsStutter DEF PipelineError, Heard, Due, Failed, Handed
<1>31. CASE UNCHANGED vars
  BY <1>31, IsStutter DEF vars, Heard, Due, Failed, Handed
<1> QED
  BY <1>1, <1>2, <1>3, <1>4, <1>5, <1>6, <1>7, <1>8, <1>9, <1>10, <1>11, <1>12,
      <1>13, <1>14, <1>15, <1>16, <1>17, <1>18, <1>19, <1>20, <1>21, <1>22, <1>23,
      <1>24, <1>25, <1>26, <1>27, <1>28, <1>29, <1>30, <1>31
     DEF Next, UserCall, GuiStep, GuiEvent, Streaming

\* The hand-off is an implementation of the display of NowPlaying, whatever the rows and
\* the bounds, with a probe on the sink or without: outside the two races the display
\* follows the sound one stream at a time.
THEOREM DisplayRefined == Spec => DisplayFollowsSound
<1>1. Init => HeardInv /\ Display!Init
  BY DEF Init, HeardInv, Display!Init, NoRace, Handed, Failed
<1>2. IInv /\ IInv' /\ HeardInv /\ [Next]_vars => [Display!Next]_(Display!vars)
  <2> SUFFICES ASSUME IInv, IInv', HeardInv, [Next]_vars
               PROVE  [Display!Next]_(Display!vars)
    OBVIOUS
  <2>1. CASE NoRace'
    BY <2>1, StepRefines
  <2>2. CASE ~NoRace'
    BY <2>2, IsRace DEF IInv, Display!Next
  <2> QED
    BY <2>1, <2>2
<1> QED
  BY <1>1, <1>2, HeardStep, Invariance, PTL DEF Spec, DisplayFollowsSound, Display!Safe

=============================================================================
