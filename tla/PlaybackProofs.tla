--------------------------- MODULE PlaybackProofs ---------------------------
(***************************************************************************)
(* The safety of a media handle and of the window that plays, searches and *)
(* downloads recordings, for any time-outs, any length of a recording, any *)
(* size of the work queue, and any number of answers, files and blocks.    *)
(*                                                                         *)
(* Playing: on top of the types five inductive invariants: SessionInv,     *)
(* where a session is held; LifeInv, which place each thread has when the  *)
(* player may be freed; TimeInv, where the play time may have reached the  *)
(* end; ReadInv, which needs both to say why the timer has read such a     *)
(* time; PauseInv, which needs LifeInv to know that no command is left     *)
(* over.                                                                   *)
(*                                                                         *)
(* Recordings: FreshInv, which answers are the last search's; BlockInv,    *)
(* that while no block is missing every file is saved, lost by the stick,  *)
(* waiting or in work; DoneInv, which needs it when the thread has what    *)
(* was announced, and says where a success is believed; ReportInv, where   *)
(* the progress can be 100.                                                *)
(***************************************************************************)
EXTENDS Playback, Recordings, SequenceTheorems, TLAPS

Requests == {"PLAY", "PAUSE"}
Commands == Requests \cup {"POS"}

\* One frame beyond the end, and a second before the start.
Times == -1 .. PlayRange + NptMax

MonPlaces ==
  {"top", "teardown", "join", "login", "open", "play", "playing", "loop", "count",
   "judge", "heart", "leave", "disable", "exit", "done"}

PlayerType ==
  /\ iPlayStreamType \in {"preview", "playback"}
  /\ iMonitorPlayThreadRunFlag \in BOOLEAN /\ iStreamState \in BOOLEAN
  /\ iPlayState \in {"IDLE", "PLAY", "PAUSE"} /\ iRtspHeartCount \in 0 .. FileMax
  /\ iPlayRange \in {0, PlayRange}
  /\ iCurrentPlayTime \in Times /\ loaded \in -1 .. PlayRange
  /\ iCurrentPlayTime <= PlayRange \/ (recvPc \in {"check", "clamp"} /\ ctlPc # "none")
  /\ tQueue \in Seq(Requests) /\ cmd \in Commands
  /\ heart \in 0 .. FileMax
  /\ late \in BOOLEAN /\ early \in BOOLEAN

PlaceType ==
  /\ ctlPc \in {"none", "opening", "ready", "command", "timer", "closing"} /\ monPc \in MonPlaces
  /\ iThreadExitFlag \in BOOLEAN /\ iReconnectFlag \in BOOLEAN /\ RHandle \in BOOLEAN
  /\ conn \in {"closed", "live", "dead"} /\ sent \in {"none", "PLAY", "PAUSE", "TEARDOWN"}
  /\ iEnableCBFunFlag \in BOOLEAN
  /\ recvPc \in {"done", "wait", "call", "time", "add", "check", "clamp", "send"}
  /\ up \in BOOLEAN /\ decEnded \in BOOLEAN

WindowType ==
  /\ label \in {"pause", "resume"} /\ timer \in BOOLEAN /\ reopen \in BOOLEAN
  /\ m_iTotolTime \in {0, PlayRange} /\ m_iTimeCount \in 0 .. Grace + 1
  /\ iTime \in Times /\ reached \in BOOLEAN

TypeInv == PlayerType /\ PlaceType /\ WindowType

\* Where the monitor thread holds a session, and that without one nobody receives.
SessionInv ==
  /\ NoSessionLeak
  /\ monPc \in {"teardown", "join", "open"} => RHandle
  /\ monPc \in {"login", "done"} => ~RHandle
  /\ ~RHandle \/ monPc = "open" => recvPc = "done"

\* Before the player can be freed the callback is disabled, and stays so.
LifeInv ==
  /\ iThreadExitFlag => monPc \in {"teardown", "join", "done"}
  /\ ctlPc = "none" => iThreadExitFlag \/ monPc = "done"
  /\ iThreadExitFlag \/ ctlPc = "none" \/ monPc = "exit" => ~iEnableCBFunFlag

\* Only the monitor thread's leaving sets the time to the recording's length, but
\* for what a frame adds before it is taken back.
TimeInv ==
  ~iThreadExitFlag /\ monPc \notin {"disable", "exit"} /\ ctlPc # "none"
    => iCurrentPlayTime < PlayRange \/ recvPc \in {"check", "clamp"}

\* Why the timer has read a time beyond the end.
ReadInv ==
  ctlPc = "timer" /\ iTime >= PlayRange
    => reached \/ iThreadExitFlag \/ monPc \in {"disable", "exit"}

\* The monitor thread may still begin to play.
BeforePlay ==
  \/ ~iThreadExitFlag /\ monPc \in {"teardown", "join", "login", "open", "play", "playing"}
  \/ monPc = "top" /\ iMonitorPlayThreadRunFlag /\ iReconnectFlag

\* The last thing the recorder is told when the queue has been carried out: a pause?
EndsPaused == IF tQueue = <<>> THEN sent = "PAUSE" ELSE tQueue[Len(tQueue)] = "PAUSE"

PauseInv ==
  /\ iPlayStreamType = "preview" => tQueue = <<>> /\ ctlPc # "command"
  /\ ~iThreadExitFlag /\ monPc \in {"teardown", "join", "login", "open", "play", "playing"} \cup Inner
       => iReconnectFlag
  /\ monPc = "playing" => sent = "PLAY"
  /\ ctlPc = "opening" => iPlayState # "PAUSE"
  /\ ctlPc \notin {"none", "closing"} =>
       /\ BeforePlay => early \/ (tQueue = <<>> /\ ctlPc # "command")
       /\ monPc \in Inner /\ ~early =>
            IF ctlPc = "command" THEN (cmd = "PAUSE" <=> EndsPaused)
            ELSE (iPlayState = "PAUSE" <=> EndsPaused)

-----------------------------------------------------------------------------
(* What the windows and the threads do to a handle *)

\* The groups of variables are expanded everywhere.
USE DEF flags, play, control, monitor, session, receiver, outside, player

MediaStep ==
  \/ \E t \in {"preview", "playback"} : OpenMedia(t)
  \/ iPlayStreamType = "playback" /\ \E c \in Commands : PutNodeToWorkQueue(c)
  \/ SetPlayStateIdle \/ SetPlayState \/ CloseMedia \/ DestroyMedia
  \/ GetCurrentPlayTime \/ TimerReturns
  \/ Threads
  \/ UNCHANGED media

\* A button or a timer opens, closes or commands the handle, or leaves it alone.
LEMMA StepOfMedia == [Next]_vars => MediaStep
<1> SUFFICES ASSUME [Next]_vars PROVE MediaStep
  OBVIOUS
<1>1. CASE OpenPreview \/ OpenPlayMedia
  BY <1>1 DEF OpenPreview, OpenPlayMedia, MediaStep
<1>2. CASE ClosePreview \/ NextBtnClicked \/ StopBtnClicked
  BY <1>2 DEF ClosePreview, NextBtnClicked, StopBtnClicked, MediaStep
<1>3. CASE PauesBtnClicked \/ QuickBtnClicked \/ TimeSliderClicked
  BY <1>3 DEF PauesBtnClicked, QuickBtnClicked, TimeSliderClicked, Open, Commands, Requests,
     MediaStep
<1>4. CASE CheckPlayTimer \/ JudgePlayTime
  BY <1>4 DEF CheckPlayTimer, JudgePlayTime, TimerCloses, MediaStep
<1>5. CASE UNCHANGED vars
  BY <1>5 DEF vars, MediaStep
<1> QED
  BY <1>1, <1>2, <1>3, <1>4, <1>5 DEF Next, Buttons, GoOn, MediaStep

-----------------------------------------------------------------------------
(* The types *)

\* The player keeps its types: what is counted beyond the end is taken back by the
\* thread that has counted it.
LEMMA PlayerTypeStep == PlayerType /\ PlaceType /\ SessionInv /\ MediaStep => PlayerType'
<1> SUFFICES ASSUME PlayerType, PlaceType, SessionInv, MediaStep PROVE PlayerType'
  OBVIOUS
<1> USE DEF PlayerType, Times
<1>0. PlayRange \in Nat \ {0} /\ NptMax \in Nat /\ FileMax \in Nat
  BY MediaAssumption
<1>1. ASSUME NEW t \in {"preview", "playback"}, OpenMedia(t) PROVE PlayerType'
  <2>1. iPlayStreamType' \in {"preview", "playback"} /\ iPlayState' \in {"IDLE", "PLAY", "PAUSE"}
    BY <1>1 DEF OpenMedia
  <2>2. iMonitorPlayThreadRunFlag' \in BOOLEAN /\ iStreamState' \in BOOLEAN
    BY <1>1 DEF OpenMedia
  <2>3. iRtspHeartCount' = 0 /\ iPlayRange' = 0 /\ iCurrentPlayTime' = 0
    BY <1>1 DEF OpenMedia
  <2>4. tQueue' \in Seq(Requests) /\ cmd' = cmd /\ heart' = heart /\ loaded' = loaded
    BY <1>1 DEF OpenMedia
  <2>5. late' \in BOOLEAN /\ early' \in BOOLEAN
    BY <1>1 DEF OpenMedia
  <2> QED
    BY <1>0, <2>1, <2>2, <2>3, <2>4, <2>5
<1>2. ASSUME iPlayStreamType = "playback", NEW c \in Commands, PutNodeToWorkQueue(c) PROVE PlayerType'
  <2>1. StateOf(c) \in Requests
    BY DEF StateOf, Requests
  <2>2. tQueue' \in Seq(Requests)
    BY <1>2, <2>1, AppendProperties DEF PutNodeToWorkQueue
  <2>3. early' \in BOOLEAN
    BY <1>2 DEF PutNodeToWorkQueue
  <2> QED
    BY <1>2, <2>2, <2>3 DEF PutNodeToWorkQueue
<1>3. CASE SetPlayStateIdle
  BY <1>3 DEF SetPlayStateIdle
<1>4. CASE SetPlayState
  BY <1>0, <1>4 DEF SetPlayState, StateOf, Commands, Requests
<1>5. CASE CloseMedia
  BY <1>5 DEF CloseMedia
<1>6. CASE DestroyMedia
  <2>1. iPlayStreamType' \in {"preview", "playback"} /\ iPlayState' \in {"IDLE", "PLAY", "PAUSE"}
    BY <1>6 DEF DestroyMedia, Freed
  <2>2. iMonitorPlayThreadRunFlag' \in BOOLEAN /\ iStreamState' \in BOOLEAN
    BY <1>6 DEF DestroyMedia, Freed
  <2>3. iRtspHeartCount' = 0 /\ iPlayRange' = 0 /\ iCurrentPlayTime' = 0
    BY <1>6 DEF DestroyMedia, Freed
  <2>4. tQueue' \in Seq(Requests) /\ cmd' = cmd /\ heart' = heart /\ loaded' = loaded
    BY <1>6 DEF DestroyMedia, Freed
  <2>5. late' \in BOOLEAN /\ early' \in BOOLEAN
    BY <1>6 DEF DestroyMedia, Freed
  <2> QED
    BY <1>0, <2>1, <2>2, <2>3, <2>4, <2>5
<1>7. CASE Top
  BY <1>7 DEF Top, Mon
<1>8. CASE CloseStream
  BY <1>8 DEF CloseStream, Mon
<1>9. CASE Join
  BY <1>9 DEF Join, Mon
<1>10. CASE Login
  BY <1>0, <1>10 DEF Login, Mon
<1>11. CASE LoginFails
  BY <1>11 DEF LoginFails, Mon
<1>12. CASE OpenStream
  BY <1>12 DEF OpenStream, Mon, SessionInv
<1>13. CASE OpenStreamFails
  BY <1>13 DEF OpenStreamFails, Mon
<1>14. CASE Play
  BY <1>14 DEF Play, Mon
<1>15. CASE PlayFails
  BY <1>15 DEF PlayFails, Mon
<1>16. CASE Playing
  BY <1>16 DEF Playing, Mon
<1>17. CASE Loop
  BY <1>17 DEF Loop, Mon
<1>18. CASE Count
  BY <1>0, <1>18 DEF Count, Mon
<1>19. CASE Judge
  <2>1. Bounded(heart + 1) \in 0 .. FileMax
    BY <1>0 DEF Bounded
  <2>2. heart' = 0 /\ iRtspHeartCount' \in 0 .. FileMax
    BY <1>0, <2>1, <1>19 DEF Judge
  <2>3. iStreamState' \in BOOLEAN
    BY <1>19 DEF Judge
  <2>4. late' \in BOOLEAN
    BY <1>19 DEF Judge
  <2>5. UNCHANGED <<flags, play, iPlayState, tQueue, iPlayStreamType, cmd, early, receiver, ctlPc>>
    BY <1>19 DEF Judge, Mon
  <2> QED
    BY <1>0, <2>2, <2>3, <2>4, <2>5
<1>20. CASE SendHeart
  BY <1>20 DEF SendHeart, Mon
<1>21. CASE SendHeartFails
  BY <1>21 DEF SendHeartFails, Mon
<1>22. CASE Leave
  BY <1>0, <1>22 DEF Leave, Mon
<1>23. CASE Disable
  BY <1>23 DEF Disable, Mon
<1>24. CASE Exit
  BY <1>24 DEF Exit, Mon
<1>25. CASE FrameArrives
  BY <1>25 DEF FrameArrives, Recv
<1>26. CASE RtpSetDataCallBack
  <2>1. UNCHANGED <<iPlayStreamType, iMonitorPlayThreadRunFlag, iPlayState, iPlayRange, tQueue, cmd, heart, early,
                    iCurrentPlayTime, loaded, ctlPc>>
    BY <1>26 DEF RtpSetDataCallBack, Recv
  <2>2. iRtspHeartCount' \in 0 .. FileMax
    BY <1>0, <1>26 DEF RtpSetDataCallBack
  <2>3. iStreamState' \in BOOLEAN
    BY <1>26 DEF RtpSetDataCallBack
  <2>4. late' \in BOOLEAN
    BY <1>26 DEF RtpSetDataCallBack
  <2>5. recvPc = "call"
    BY <1>26 DEF RtpSetDataCallBack
  <2> QED
    BY <2>1, <2>2, <2>3, <2>4, <2>5
<1>27. CASE SendVideoStream
  BY <1>27 DEF SendVideoStream, Recv
<1>28. CASE RecvEnds
  BY <1>28 DEF RecvEnds, Recv
<1>29. CASE UpChanges
  BY <1>29 DEF UpChanges
<1>30. CASE DecoderEnds
  BY <1>30 DEF DecoderEnds
<1>31. CASE UNCHANGED media
  BY <1>31 DEF media
<1>32. CASE GetCurrentPlayTime
  BY <1>32 DEF GetCurrentPlayTime
<1>33. CASE TimerReturns
  BY <1>33 DEF TimerReturns
<1>34. CASE LoadPlayTime
  <2>1. loaded' \in -1 .. PlayRange
    BY <1>0, <1>34 DEF LoadPlayTime
  <2> QED
    BY <1>34, <2>1 DEF LoadPlayTime, Recv
<1>35. CASE AddPlayTime
  <2>1. loaded' \in -1 .. PlayRange
    BY <1>0, <1>35 DEF AddPlayTime
  <2>2. iCurrentPlayTime' \in Times /\ recvPc' = "check"
    BY <1>0, <1>35 DEF AddPlayTime, StorePlayTime, Recv
  <2>3. ctlPc' = "none" => iCurrentPlayTime' <= PlayRange
    BY <1>35 DEF AddPlayTime, StorePlayTime, Recv
  <2>4. UNCHANGED <<iPlayStreamType, flags, iPlayState, iRtspHeartCount, iStreamState, iPlayRange, tQueue, cmd, heart,
                    late, early>>
    BY <1>35 DEF AddPlayTime, StorePlayTime, Recv
  <2> QED
    BY <2>1, <2>2, <2>3, <2>4
<1>36. CASE CheckRange
  BY <1>0, <1>36 DEF CheckRange, Recv
<1>37. CASE ClampPlayTime
  <2>1. iCurrentPlayTime' \in Times /\ iCurrentPlayTime' <= PlayRange
    BY <1>0, <1>37 DEF ClampPlayTime, StorePlayTime
  <2>2. UNCHANGED <<iPlayStreamType, flags, iPlayState, iRtspHeartCount, iStreamState, iPlayRange, tQueue, cmd, heart,
                    late, early, loaded>>
    BY <1>37 DEF ClampPlayTime, StorePlayTime, Recv
  <2> QED
    BY <2>1, <2>2
<1> QED
  BY <1>1, <1>2, <1>3, <1>4, <1>5, <1>6, <1>7, <1>8, <1>9, <1>10, <1>11, <1>12, <1>13, <1>14, <1>15, <1>16, <1>17, <1>18, <1>19, <1>20, <1>21, <1>22, <1>23, <1>24, <1>25, <1>26, <1>27, <1>28, <1>29, <1>30, <1>31, <1>32, <1>33, <1>34, <1>35, <1>36, <1>37 DEF MediaStep, Threads, Monitor, Receive

\* The threads' places, the session and its connection keep their types.
LEMMA PlaceTypeStep == PlayerType /\ PlaceType /\ MediaStep => PlaceType'
<1> SUFFICES ASSUME PlayerType, PlaceType, MediaStep PROVE PlaceType'
  OBVIOUS
<1> USE DEF PlaceType, MonPlaces
<1>1. ASSUME NEW t \in {"preview", "playback"}, OpenMedia(t) PROVE PlaceType'
  BY <1>1 DEF OpenMedia
<1>2. ASSUME iPlayStreamType = "playback", NEW c \in Commands, PutNodeToWorkQueue(c) PROVE PlaceType'
  BY <1>2 DEF PutNodeToWorkQueue
<1>3. CASE SetPlayStateIdle
  BY <1>3 DEF SetPlayStateIdle
<1>4. CASE SetPlayState
  BY <1>4 DEF SetPlayState, StateOf
<1>5. CASE CloseMedia
  BY <1>5 DEF CloseMedia
<1>6. CASE DestroyMedia
  <2>1. decEnded' \in BOOLEAN
    BY <1>6 DEF DestroyMedia
  <2>2. ctlPc' = "none" /\ UNCHANGED <<iThreadExitFlag, monitor, session, receiver, up>>
    BY <1>6 DEF DestroyMedia
  <2> QED
    BY <2>1, <2>2
<1>7. CASE Top
  BY <1>7 DEF Top, Mon
<1>8. CASE CloseStream
  BY <1>8 DEF CloseStream, Mon
<1>9. CASE Join
  <2>1. monPc' \in {"done", "login"} /\ RHandle' \in BOOLEAN
    BY <1>9 DEF Join, Mon
  <2>2. UNCHANGED <<ctlPc, iThreadExitFlag, iReconnectFlag, conn, sent, iEnableCBFunFlag, recvPc, up, decEnded>>
    BY <1>9 DEF Join, Mon
  <2> QED
    BY <2>1, <2>2
<1>10. CASE Login
  BY <1>10 DEF Login, Mon
<1>11. CASE LoginFails
  BY <1>11 DEF LoginFails, Mon
<1>12. CASE OpenStream
  BY <1>12 DEF OpenStream, Mon
<1>13. CASE OpenStreamFails
  <2>1. monPc' = "top" /\ RHandle' \in BOOLEAN /\ conn' = "closed"
    BY <1>13 DEF OpenStreamFails, Mon
  <2>2. UNCHANGED <<ctlPc, iThreadExitFlag, iReconnectFlag, sent, iEnableCBFunFlag, recvPc, up, decEnded>>
    BY <1>13 DEF OpenStreamFails, Mon
  <2> QED
    BY <2>1, <2>2
<1>14. CASE Play
  BY <1>14 DEF Play, Mon
<1>15. CASE PlayFails
  BY <1>15 DEF PlayFails, Mon
<1>16. CASE Playing
  BY <1>16 DEF Playing, Mon
<1>17. CASE Loop
  <2>1. tQueue # <<>> => Head(tQueue) \in {"PLAY", "PAUSE"}
    BY DEF PlayerType, Requests
  <2>2. sent' \in {"none", "PLAY", "PAUSE", "TEARDOWN"}
    BY <1>17, <2>1 DEF Loop
  <2>3. monPc' \in {"count", "top"}
    BY <1>17 DEF Loop, Mon
  <2>4. UNCHANGED <<ctlPc, iThreadExitFlag, iReconnectFlag, RHandle, conn, iEnableCBFunFlag, recvPc, up, decEnded>>
    BY <1>17 DEF Loop, Mon
  <2> QED
    BY <2>2, <2>3, <2>4
<1>18. CASE Count
  BY <1>18 DEF Count, Mon
<1>19. CASE Judge
  <2>1. monPc' \in {"top", "heart", "loop"}
    BY <1>19 DEF Judge, Mon
  <2>2. iReconnectFlag' \in BOOLEAN
    BY <1>19 DEF Judge
  <2>3. UNCHANGED <<ctlPc, iThreadExitFlag, RHandle, conn, sent, iEnableCBFunFlag, recvPc, up, decEnded>>
    BY <1>19 DEF Judge, Mon
  <2> QED
    BY <2>1, <2>2, <2>3
<1>20. CASE SendHeart
  BY <1>20 DEF SendHeart, Mon
<1>21. CASE SendHeartFails
  BY <1>21 DEF SendHeartFails, Mon
<1>22. CASE Leave
  BY <1>22 DEF Leave, Mon
<1>23. CASE Disable
  <2>1. monPc' = "exit" /\ iEnableCBFunFlag' \in BOOLEAN
    BY <1>23 DEF Disable, Mon
  <2>2. UNCHANGED <<ctlPc, iThreadExitFlag, iReconnectFlag, RHandle, conn, sent, recvPc, up, decEnded>>
    BY <1>23 DEF Disable, Mon
  <2> QED
    BY <2>1, <2>2
<1>24. CASE Exit
  BY <1>24 DEF Exit, Mon
<1>25. CASE FrameArrives
  BY <1>25 DEF FrameArrives, Recv
<1>26. CASE RtpSetDataCallBack
  BY <1>26 DEF RtpSetDataCallBack, Recv
<1>27. CASE SendVideoStream
  BY <1>27 DEF SendVideoStream, Recv
<1>28. CASE RecvEnds
  BY <1>28 DEF RecvEnds, Recv
<1>29. CASE UpChanges
  BY <1>29 DEF UpChanges
<1>30. CASE DecoderEnds
  BY <1>30 DEF DecoderEnds
<1>31. CASE UNCHANGED media
  BY <1>31 DEF media
<1>32. CASE GetCurrentPlayTime
  BY <1>32 DEF GetCurrentPlayTime
<1>33. CASE TimerReturns
  BY <1>33 DEF TimerReturns
<1>34. CASE LoadPlayTime
  BY <1>34 DEF LoadPlayTime, Recv
<1>35. CASE AddPlayTime
  BY <1>35 DEF AddPlayTime, StorePlayTime, Recv
<1>36. CASE CheckRange
  BY <1>36 DEF CheckRange, Recv
<1>37. CASE ClampPlayTime
  BY <1>37 DEF ClampPlayTime, StorePlayTime, Recv
<1> QED
  BY <1>1, <1>2, <1>3, <1>4, <1>5, <1>6, <1>7, <1>8, <1>9, <1>10, <1>11, <1>12, <1>13, <1>14, <1>15, <1>16, <1>17, <1>18, <1>19, <1>20, <1>21, <1>22, <1>23, <1>24, <1>25, <1>26, <1>27, <1>28, <1>29, <1>30, <1>31, <1>32, <1>33, <1>34, <1>35, <1>36, <1>37 DEF MediaStep, Threads, Monitor, Receive

\* A step keeps the session where it is held.
LEMMA SessionStep == PlaceType /\ SessionInv /\ MediaStep => SessionInv'
<1> SUFFICES ASSUME PlaceType, SessionInv, MediaStep PROVE SessionInv'
  OBVIOUS
<1> USE DEF SessionInv, NoSessionLeak, PlaceType
<1>1. ASSUME NEW t \in {"preview", "playback"}, OpenMedia(t) PROVE SessionInv'
  BY <1>1 DEF OpenMedia
<1>2. ASSUME iPlayStreamType = "playback", NEW c \in Commands, PutNodeToWorkQueue(c) PROVE SessionInv'
  BY <1>2 DEF PutNodeToWorkQueue
<1>3. CASE SetPlayStateIdle
  BY <1>3 DEF SetPlayStateIdle
<1>4. CASE SetPlayState
  BY <1>4 DEF SetPlayState, StateOf
<1>5. CASE CloseMedia
  BY <1>5 DEF CloseMedia
<1>6. CASE DestroyMedia
  BY <1>6 DEF DestroyMedia, Freed
<1>7. CASE Top
  BY <1>7 DEF Top, Mon
<1>8. CASE CloseStream
  BY <1>8 DEF CloseStream, Mon
<1>9. CASE Join
  BY <1>9 DEF Join, Mon
<1>10. CASE Login
  BY <1>10 DEF Login, Mon
<1>11. CASE LoginFails
  BY <1>11 DEF LoginFails, Mon
<1>12. CASE OpenStream
  BY <1>12 DEF OpenStream, Mon
<1>13. CASE OpenStreamFails
  BY <1>13 DEF OpenStreamFails, Mon
<1>14. CASE Play
  BY <1>14 DEF Play, Mon
<1>15. CASE PlayFails
  BY <1>15 DEF PlayFails, Mon
<1>16. CASE Playing
  BY <1>16 DEF Playing, Mon
<1>17. CASE Loop
  BY <1>17 DEF Loop, Mon
<1>18. CASE Count
  BY <1>18 DEF Count, Mon
<1>19. CASE Judge
  BY <1>19 DEF Judge, Mon
<1>20. CASE SendHeart
  BY <1>20 DEF SendHeart, Mon
<1>21. CASE SendHeartFails
  BY <1>21 DEF SendHeartFails, Mon
<1>22. CASE Leave
  BY <1>22 DEF Leave, Mon
<1>23. CASE Disable
  BY <1>23 DEF Disable, Mon
<1>24. CASE Exit
  BY <1>24 DEF Exit, Mon
<1>25. CASE FrameArrives
  BY <1>25 DEF FrameArrives, Recv
<1>26. CASE RtpSetDataCallBack
  BY <1>26 DEF RtpSetDataCallBack, Recv
<1>27. CASE SendVideoStream
  BY <1>27 DEF SendVideoStream, Recv
<1>28. CASE RecvEnds
  BY <1>28 DEF RecvEnds, Recv
<1>29. CASE UpChanges
  BY <1>29 DEF UpChanges
<1>30. CASE DecoderEnds
  BY <1>30 DEF DecoderEnds
<1>31. CASE UNCHANGED media
  BY <1>31 DEF media
<1>32. CASE GetCurrentPlayTime
  BY <1>32 DEF GetCurrentPlayTime
<1>33. CASE TimerReturns
  BY <1>33 DEF TimerReturns
<1>34. CASE LoadPlayTime
  BY <1>34 DEF LoadPlayTime, Recv
<1>35. CASE AddPlayTime
  BY <1>35 DEF AddPlayTime, StorePlayTime, Recv
<1>36. CASE CheckRange
  BY <1>36 DEF CheckRange, Recv
<1>37. CASE ClampPlayTime
  BY <1>37 DEF ClampPlayTime, StorePlayTime, Recv
<1> QED
  BY <1>1, <1>2, <1>3, <1>4, <1>5, <1>6, <1>7, <1>8, <1>9, <1>10, <1>11, <1>12, <1>13, <1>14, <1>15, <1>16, <1>17, <1>18, <1>19, <1>20, <1>21, <1>22, <1>23, <1>24, <1>25, <1>26, <1>27, <1>28, <1>29, <1>30, <1>31, <1>32, <1>33, <1>34, <1>35, <1>36, <1>37 DEF MediaStep, Threads, Monitor, Receive

\* A step that lets the player be freed has disabled the callback before.
LEMMA LifeStep == PlaceType /\ LifeInv /\ MediaStep => LifeInv'
<1> SUFFICES ASSUME PlaceType, LifeInv, MediaStep PROVE LifeInv'
  OBVIOUS
<1> USE DEF LifeInv, PlaceType
<1>1. ASSUME NEW t \in {"preview", "playback"}, OpenMedia(t) PROVE LifeInv'
  BY <1>1 DEF OpenMedia
<1>2. ASSUME iPlayStreamType = "playback", NEW c \in Commands, PutNodeToWorkQueue(c) PROVE LifeInv'
  BY <1>2 DEF PutNodeToWorkQueue
<1>3. CASE SetPlayStateIdle
  BY <1>3 DEF SetPlayStateIdle
<1>4. CASE SetPlayState
  BY <1>4 DEF SetPlayState, StateOf
<1>5. CASE CloseMedia
  BY <1>5 DEF CloseMedia
<1>6. CASE DestroyMedia
  BY <1>6 DEF DestroyMedia, Freed
<1>7. CASE Top
  BY <1>7 DEF Top, Mon
<1>8. CASE CloseStream
  BY <1>8 DEF CloseStream, Mon
<1>9. CASE Join
  BY <1>9 DEF Join, Mon
<1>10. CASE Login
  BY <1>10 DEF Login, Mon
<1>11. CASE LoginFails
  BY <1>11 DEF LoginFails, Mon
<1>12. CASE OpenStream
  BY <1>12 DEF OpenStream, Mon
<1>13. CASE OpenStreamFails
  BY <1>13 DEF OpenStreamFails, Mon
<1>14. CASE Play
  BY <1>14 DEF Play, Mon
<1>15. CASE PlayFails
  BY <1>15 DEF PlayFails, Mon
<1>16. CASE Playing
  BY <1>16 DEF Playing, Mon
<1>17. CASE Loop
  BY <1>17 DEF Loop, Mon
<1>18. CASE Count
  BY <1>18 DEF Count, Mon
<1>19. CASE Judge
  BY <1>19 DEF Judge, Mon
<1>20. CASE SendHeart
  BY <1>20 DEF SendHeart, Mon
<1>21. CASE SendHeartFails
  BY <1>21 DEF SendHeartFails, Mon
<1>22. CASE Leave
  BY <1>22 DEF Leave, Mon
<1>23. CASE Disable
  BY <1>23 DEF Disable, Mon
<1>24. CASE Exit
  BY <1>24 DEF Exit, Mon
<1>25. CASE FrameArrives
  BY <1>25 DEF FrameArrives, Recv
<1>26. CASE RtpSetDataCallBack
  BY <1>26 DEF RtpSetDataCallBack, Recv
<1>27. CASE SendVideoStream
  BY <1>27 DEF SendVideoStream, Recv
<1>28. CASE RecvEnds
  BY <1>28 DEF RecvEnds, Recv
<1>29. CASE UpChanges
  BY <1>29 DEF UpChanges
<1>30. CASE DecoderEnds
  BY <1>30 DEF DecoderEnds
<1>31. CASE UNCHANGED media
  BY <1>31 DEF media
<1>32. CASE GetCurrentPlayTime
  BY <1>32 DEF GetCurrentPlayTime
<1>33. CASE TimerReturns
  BY <1>33 DEF TimerReturns
<1>34. CASE LoadPlayTime
  BY <1>34 DEF LoadPlayTime, Recv
<1>35. CASE AddPlayTime
  BY <1>35 DEF AddPlayTime, StorePlayTime, Recv
<1>36. CASE CheckRange
  BY <1>36 DEF CheckRange, Recv
<1>37. CASE ClampPlayTime
  BY <1>37 DEF ClampPlayTime, StorePlayTime, Recv
<1> QED
  BY <1>1, <1>2, <1>3, <1>4, <1>5, <1>6, <1>7, <1>8, <1>9, <1>10, <1>11, <1>12, <1>13, <1>14, <1>15, <1>16, <1>17, <1>18, <1>19, <1>20, <1>21, <1>22, <1>23, <1>24, <1>25, <1>26, <1>27, <1>28, <1>29, <1>30, <1>31, <1>32, <1>33, <1>34, <1>35, <1>36, <1>37 DEF MediaStep, Threads, Monitor, Receive

\* A step leaves the time below the length until the monitor thread leaves.
LEMMA TimeStep == PlayerType /\ PlaceType /\ SessionInv /\ LifeInv /\ TimeInv /\ MediaStep => TimeInv'
<1> SUFFICES ASSUME PlayerType, PlaceType, SessionInv, LifeInv, TimeInv, MediaStep PROVE TimeInv'
  OBVIOUS
<1> USE DEF TimeInv, LifeInv
<1>0. PlayRange \in Nat \ {0} /\ iCurrentPlayTime \in Int /\ iPlayRange \in {0, PlayRange}
  BY MediaAssumption DEF PlayerType, Times
<1>1. ASSUME NEW t \in {"preview", "playback"}, OpenMedia(t) PROVE TimeInv'
  BY <1>0, <1>1 DEF OpenMedia
<1>2. ASSUME iPlayStreamType = "playback", NEW c \in Commands, PutNodeToWorkQueue(c) PROVE TimeInv'
  BY <1>2 DEF PutNodeToWorkQueue
<1>3. CASE SetPlayStateIdle
  BY <1>3 DEF SetPlayStateIdle
<1>4. CASE SetPlayState
  BY <1>0, <1>4 DEF SetPlayState, StateOf
<1>5. CASE CloseMedia
  BY <1>5 DEF CloseMedia
<1>6. CASE DestroyMedia
  BY <1>6 DEF DestroyMedia, Freed
<1>7. CASE Top
  BY <1>7 DEF Top, Mon
<1>8. CASE CloseStream
  BY <1>8 DEF CloseStream, Mon
<1>9. CASE Join
  BY <1>9 DEF Join, Mon
<1>10. CASE Login
  BY <1>10 DEF Login, Mon
<1>11. CASE LoginFails
  BY <1>11 DEF LoginFails, Mon
<1>12. CASE OpenStream
  BY <1>12 DEF OpenStream, Mon, SessionInv
<1>13. CASE OpenStreamFails
  BY <1>13 DEF OpenStreamFails, Mon
<1>14. CASE Play
  BY <1>14 DEF Play, Mon
<1>15. CASE PlayFails
  BY <1>15 DEF PlayFails, Mon
<1>16. CASE Playing
  BY <1>16 DEF Playing, Mon
<1>17. CASE Loop
  BY <1>17 DEF Loop, Mon
<1>18. CASE Count
  BY <1>18 DEF Count, Mon
<1>19. CASE Judge
  BY <1>19 DEF Judge, Mon
<1>20. CASE SendHeart
  BY <1>20 DEF SendHeart, Mon
<1>21. CASE SendHeartFails
  BY <1>21 DEF SendHeartFails, Mon
<1>22. CASE Leave
  BY <1>22 DEF Leave, Mon
<1>23. CASE Disable
  BY <1>23 DEF Disable, Mon
<1>24. CASE Exit
  BY <1>24 DEF Exit, Mon
<1>25. CASE FrameArrives
  BY <1>25 DEF FrameArrives, Recv
<1>26. CASE RtpSetDataCallBack
  BY <1>0, <1>26 DEF RtpSetDataCallBack, Recv, PlaceType
<1>27. CASE SendVideoStream
  BY <1>27 DEF SendVideoStream, Recv
<1>28. CASE RecvEnds
  BY <1>28 DEF RecvEnds, Recv
<1>29. CASE UpChanges
  BY <1>29 DEF UpChanges
<1>30. CASE DecoderEnds
  BY <1>30 DEF DecoderEnds
<1>31. CASE UNCHANGED media
  BY <1>31 DEF media
<1>32. CASE GetCurrentPlayTime
  BY <1>32 DEF GetCurrentPlayTime
<1>33. CASE TimerReturns
  BY <1>33 DEF TimerReturns
<1>34. CASE LoadPlayTime
  BY <1>34 DEF LoadPlayTime, Recv
<1>35. CASE AddPlayTime
  BY <1>35 DEF AddPlayTime, StorePlayTime, Recv
<1>36. CASE CheckRange
  BY <1>0, <1>36 DEF CheckRange, Recv
<1>37. CASE ClampPlayTime
  BY <1>0, <1>37 DEF ClampPlayTime, StorePlayTime, Recv
<1> QED
  BY <1>1, <1>2, <1>3, <1>4, <1>5, <1>6, <1>7, <1>8, <1>9, <1>10, <1>11, <1>12, <1>13, <1>14, <1>15, <1>16, <1>17, <1>18, <1>19, <1>20, <1>21, <1>22, <1>23, <1>24, <1>25, <1>26, <1>27, <1>28, <1>29, <1>30, <1>31, <1>32, <1>33, <1>34, <1>35, <1>36, <1>37 DEF MediaStep, Threads, Monitor, Receive

\* A step keeps what the handle says and what the recorder will have been told in
\* agreement.
LEMMA PauseStep == PlayerType /\ PlaceType /\ LifeInv /\ PauseInv /\ MediaStep => PauseInv'
<1> SUFFICES ASSUME PlayerType, PlaceType, LifeInv, PauseInv, MediaStep PROVE PauseInv'
  OBVIOUS
<1> USE DEF PauseInv, LifeInv, BeforePlay, EndsPaused, Inner, PlayerType
<1>1. ASSUME NEW t \in {"preview", "playback"}, OpenMedia(t) PROVE PauseInv'
  BY <1>1 DEF OpenMedia
<1>2. ASSUME iPlayStreamType = "playback", NEW c \in Commands, PutNodeToWorkQueue(c) PROVE PauseInv'
  <2>1. tQueue' = Append(tQueue, StateOf(c)) /\ tQueue \in Seq(Requests)
    BY <1>2 DEF PutNodeToWorkQueue
  <2>2. tQueue' # <<>> /\ tQueue'[Len(tQueue')] = StateOf(c)
    BY <2>1
  <2>3. EndsPaused' <=> c = "PAUSE"
    BY <2>2 DEF StateOf
  <2>4. /\ early' = (monPc \notin Inner /\ iReconnectFlag)
        /\ cmd' = c /\ ctlPc' = "command" /\ ctlPc = "ready"
    BY <1>2 DEF PutNodeToWorkQueue
  <2>5. UNCHANGED <<monPc, iPlayState, sent, iPlayStreamType, iReconnectFlag, flags>>
    BY <1>2 DEF PutNodeToWorkQueue
  <2> HIDE DEF EndsPaused
  <2> QED
    BY <2>3, <2>4, <2>5, <1>2
<1>3. CASE SetPlayStateIdle
  BY <1>3 DEF SetPlayStateIdle
<1>4. CASE SetPlayState
  BY <1>4 DEF SetPlayState, StateOf
<1>5. CASE CloseMedia
  BY <1>5 DEF CloseMedia
<1>6. CASE DestroyMedia
  <2>1. monPc' \notin Inner /\ ~BeforePlay' /\ monPc' # "playing"
    BY <1>6 DEF DestroyMedia, Freed
  <2>2. ctlPc' = "none" /\ tQueue' = <<>>
    BY <1>6 DEF DestroyMedia, Freed
  <2> QED
    BY <2>1, <2>2
<1>7. CASE Top
  BY <1>7 DEF Top, Mon
<1>8. CASE CloseStream
  BY <1>8 DEF CloseStream, Mon
<1>9. CASE Join
  BY <1>9 DEF Join, Mon
<1>10. CASE Login
  BY <1>10 DEF Login, Mon
<1>11. CASE LoginFails
  BY <1>11 DEF LoginFails, Mon
<1>12. CASE OpenStream
  BY <1>12 DEF OpenStream, Mon
<1>13. CASE OpenStreamFails
  BY <1>13 DEF OpenStreamFails, Mon
<1>14. CASE Play
  BY <1>14 DEF Play, Mon
<1>15. CASE PlayFails
  BY <1>15 DEF PlayFails, Mon
<1>16. CASE Playing
  BY <1>16 DEF Playing, Mon
<1>17. CASE Loop
  BY <1>17 DEF Loop, Mon
<1>18. CASE Count
  BY <1>18 DEF Count, Mon
<1>19. CASE Judge
  BY <1>19 DEF Judge, Mon
<1>20. CASE SendHeart
  BY <1>20 DEF SendHeart, Mon
<1>21. CASE SendHeartFails
  BY <1>21 DEF SendHeartFails, Mon
<1>22. CASE Leave
  BY <1>22 DEF Leave, Mon
<1>23. CASE Disable
  BY <1>23 DEF Disable, Mon
<1>24. CASE Exit
  BY <1>24 DEF Exit, Mon
<1>25. CASE FrameArrives
  BY <1>25 DEF FrameArrives, Recv
<1>26. CASE RtpSetDataCallBack
  BY <1>26 DEF RtpSetDataCallBack, Recv
<1>27. CASE SendVideoStream
  BY <1>27 DEF SendVideoStream, Recv
<1>28. CASE RecvEnds
  BY <1>28 DEF RecvEnds, Recv
<1>29. CASE UpChanges
  BY <1>29 DEF UpChanges
<1>30. CASE DecoderEnds
  BY <1>30 DEF DecoderEnds
<1>31. CASE UNCHANGED media
  BY <1>31 DEF media
<1>32. CASE GetCurrentPlayTime
  BY <1>32 DEF GetCurrentPlayTime
<1>33. CASE TimerReturns
  BY <1>33 DEF TimerReturns
<1>34. CASE LoadPlayTime
  BY <1>34 DEF LoadPlayTime, Recv
<1>35. CASE AddPlayTime
  BY <1>35 DEF AddPlayTime, StorePlayTime, Recv
<1>36. CASE CheckRange
  BY <1>36 DEF CheckRange, Recv
<1>37. CASE ClampPlayTime
  BY <1>37 DEF ClampPlayTime, StorePlayTime, Recv
<1> QED
  BY <1>1, <1>2, <1>3, <1>4, <1>5, <1>6, <1>7, <1>8, <1>9, <1>10, <1>11, <1>12, <1>13, <1>14, <1>15, <1>16, <1>17, <1>18, <1>19, <1>20, <1>21, <1>22, <1>23, <1>24, <1>25, <1>26, <1>27, <1>28, <1>29, <1>30, <1>31, <1>32, <1>33, <1>34, <1>35, <1>36, <1>37 DEF MediaStep, Threads, Monitor, Receive

-----------------------------------------------------------------------------
(* The window's variables *)

\* The window keeps its types: it stores the length as the handle knows it.
LEMMA WindowTypeStep == TypeInv /\ [Next]_vars => WindowType'
<1> SUFFICES ASSUME TypeInv, [Next]_vars PROVE WindowType'
  OBVIOUS
<1> USE DEF WindowType, TypeInv, tick
<1>0. PlayRange \in Nat /\ NptMax \in Nat /\ Grace \in Nat /\ iPlayRange \in {0, PlayRange}
  BY MediaAssumption, GraceAssumption DEF PlayerType
<1>1. CASE UNCHANGED window
  BY <1>1 DEF window
<1>2. CASE OpenPlayMedia \/ NextBtnClicked \/ StopBtnClicked
  <2> USE DEF OpenPlayMedia, NextBtnClicked, StopBtnClicked
  <2>1. m_iTotolTime' = 0 /\ m_iTimeCount' = 0 /\ UNCHANGED <<iTime, reached>>
    BY <1>2
  <2>2. label' \in {"pause", "resume"}
    BY <1>2
  <2>3. timer' \in BOOLEAN /\ reopen' \in BOOLEAN
    BY <1>2
  <2> QED
    BY <1>0, <2>1, <2>2, <2>3
<1>3. CASE PauesBtnClicked
  BY <1>3 DEF PauesBtnClicked
<1>4. CASE CheckPlayTimer
  <2>1. m_iTimeCount' \in 0 .. Grace + 1
    BY <1>0, <1>4 DEF CheckPlayTimer
  <2>2. iTime' \in Times
    BY <1>4 DEF CheckPlayTimer, PlayerType
  <2>3. reached' \in BOOLEAN
    BY <1>4, Zenon DEF CheckPlayTimer
  <2>4. UNCHANGED <<label, timer, m_iTotolTime, reopen>>
    BY <1>4 DEF CheckPlayTimer
  <2> QED
    BY <2>1, <2>2, <2>3, <2>4
<1>5. CASE JudgePlayTime
  <2> USE DEF JudgePlayTime, TimerCloses
  <2>1. m_iTotolTime' \in {0, PlayRange} /\ m_iTimeCount' \in 0 .. Grace + 1
    BY <1>0, <1>5 DEF Total
  <2>2. iTime' = 0 /\ reached' = FALSE
    BY <1>5
  <2>3. timer' \in BOOLEAN /\ UNCHANGED <<label, reopen>>
    BY <1>5
  <2>4. 0 \in Times
    BY <1>0 DEF Times
  <2> QED
    BY <2>1, <2>2, <2>3, <2>4
<1> QED
  BY <1>1, <1>2, <1>3, <1>4, <1>5
  DEF Next, Buttons, vars, OpenPreview, ClosePreview, QuickBtnClicked, TimeSliderClicked

\* A monitor thread that has left the loops for good is gone while the timer runs.
LEMMA GoneStays ==
  ASSUME MediaStep, LifeInv, ctlPc' = "timer", iThreadExitFlag \/ monPc \in {"disable", "exit"}
  PROVE  iThreadExitFlag' \/ monPc' \in {"disable", "exit"}
BY DEF LifeInv, MediaStep, Threads, Monitor, Receive, OpenMedia, PutNodeToWorkQueue, SetPlayStateIdle,
   SetPlayState, GetCurrentPlayTime, TimerReturns, CloseMedia, DestroyMedia, Top, CloseStream, Join,
   Login, LoginFails, OpenStream, OpenStreamFails, Play, PlayFails, Playing, Loop, Count, Judge,
   SendHeart, SendHeartFails, Leave, Disable, Exit, Mon, FrameArrives, RtpSetDataCallBack,
   LoadPlayTime, AddPlayTime, CheckRange, ClampPlayTime, StorePlayTime, SendVideoStream, RecvEnds,
   Recv, UpChanges, DecoderEnds, media

\* The timer reads a time beyond the end only for a reason.
LEMMA ReadStep == TypeInv /\ LifeInv /\ TimeInv /\ ReadInv /\ [Next]_vars => ReadInv'
<1> SUFFICES ASSUME TypeInv, LifeInv, TimeInv, ReadInv, [Next]_vars, ctlPc' = "timer", iTime' >= PlayRange
             PROVE  reached' \/ iThreadExitFlag' \/ monPc' \in {"disable", "exit"}
  BY DEF ReadInv
<1> USE DEF tick
<1>0. PlayRange \in Nat \ {0} /\ iPlayRange \in {0, PlayRange} /\ iCurrentPlayTime \in Int
  BY MediaAssumption DEF TypeInv, PlayerType, Times
<1>1. CASE CheckPlayTimer
  <2>1. iCurrentPlayTime >= PlayRange /\ ctlPc = "ready"
    BY <1>1 DEF CheckPlayTimer, Open
  <2>2. recvPc \in {"check", "clamp"} \/ iThreadExitFlag \/ monPc \in {"disable", "exit"}
    BY <1>0, <2>1 DEF TimeInv
  <2>3. iCurrentPlayTime >= iPlayRange
    BY <1>0, <2>1
  <2>5. reached' = (recvPc \in {"check", "clamp"} /\ iCurrentPlayTime >= iPlayRange)
    BY <1>1, Zenon DEF CheckPlayTimer
  <2>4. UNCHANGED <<iThreadExitFlag, monPc>>
    BY <1>1 DEF CheckPlayTimer, GetCurrentPlayTime
  <2> QED
    BY <2>2, <2>3, <2>4, <2>5, Zenon
<1>2. CASE JudgePlayTime
  BY <1>0, <1>2 DEF JudgePlayTime, TimerCloses
<1>3. CASE ctlPc = "timer" /\ UNCHANGED <<iTime, reached>>
  <2>1. reached \/ iThreadExitFlag \/ monPc \in {"disable", "exit"}
    BY <1>3 DEF ReadInv
  <2> QED
    BY <1>3, <2>1, StepOfMedia, GoneStays
<1>4. ctlPc # "timer" => CheckPlayTimer
  BY DEF Next, Buttons, vars, window, OpenPreview, ClosePreview, OpenPlayMedia, NextBtnClicked,
     PauesBtnClicked, QuickBtnClicked, TimeSliderClicked, StopBtnClicked, JudgePlayTime, TimerCloses,
     GoOn, Threads, Monitor, Receive, OpenMedia, PutNodeToWorkQueue, SetPlayStateIdle,
     SetPlayState, GetCurrentPlayTime, TimerReturns, CloseMedia, DestroyMedia, Top, CloseStream, Join,
     Login, LoginFails, OpenStream, OpenStreamFails, Play, PlayFails, Playing, Loop, Count, Judge,
     SendHeart, SendHeartFails, Leave, Disable, Exit, Mon, FrameArrives, RtpSetDataCallBack,
     LoadPlayTime, AddPlayTime, CheckRange, ClampPlayTime, StorePlayTime, SendVideoStream, RecvEnds,
     Recv, UpChanges, DecoderEnds, media
<1>5. CheckPlayTimer \/ JudgePlayTime \/ UNCHANGED <<iTime, reached>>
  BY DEF Next, Buttons, vars, window, OpenPreview, ClosePreview, OpenPlayMedia, NextBtnClicked,
     PauesBtnClicked, QuickBtnClicked, TimeSliderClicked, StopBtnClicked
<1> QED
  BY <1>1, <1>2, <1>3, <1>4, <1>5

-----------------------------------------------------------------------------
(* The theorems *)

IInv == TypeInv /\ SessionInv /\ LifeInv /\ TimeInv /\ ReadInv /\ PauseInv

\* The invariant holds of a program in which no handle was opened.
LEMMA InitIInv == Init => IInv
<1> SUFFICES ASSUME Init PROVE IInv
  OBVIOUS
<1> USE DEF Init, MediaInit
<1>1. PlayerType
  <2>1. tQueue \in Seq(Requests)
    OBVIOUS
  <2>2. cmd \in Commands /\ iPlayStreamType \in {"preview", "playback"}
    BY DEF Commands, Requests
  <2>3. iRtspHeartCount \in 0 .. FileMax /\ heart \in 0 .. FileMax
    BY MediaAssumption
  <2>4. /\ iPlayRange \in {0, PlayRange} /\ iCurrentPlayTime \in Times /\ loaded \in -1 .. PlayRange
        /\ iCurrentPlayTime <= PlayRange
    BY MediaAssumption DEF Times
  <2>5. late \in BOOLEAN /\ early \in BOOLEAN
    OBVIOUS
  <2>6. iMonitorPlayThreadRunFlag \in BOOLEAN /\ iStreamState \in BOOLEAN
    OBVIOUS
  <2> QED
    BY <2>1, <2>2, <2>3, <2>4, <2>5, <2>6 DEF PlayerType
<1>2. PlaceType
  BY DEF PlaceType, MonPlaces
<1>3. WindowType
  <2>1. m_iTotolTime \in {0, PlayRange} /\ m_iTimeCount \in 0 .. Grace + 1 /\ iTime \in Times
    BY GraceAssumption, MediaAssumption DEF Times
  <2>2. timer \in BOOLEAN /\ reopen \in BOOLEAN /\ reached \in BOOLEAN /\ label \in {"pause", "resume"}
    OBVIOUS
  <2> QED
    BY <2>1, <2>2 DEF WindowType
<1>4. SessionInv /\ LifeInv /\ TimeInv /\ ReadInv
  BY DEF SessionInv, NoSessionLeak, LifeInv, TimeInv, ReadInv
<1>5. PauseInv
  BY DEF PauseInv, BeforePlay, Inner
<1> QED
  BY <1>1, <1>2, <1>3, <1>4, <1>5 DEF IInv, TypeInv

\* Every step keeps the invariant.
LEMMA NextIInv == IInv /\ [Next]_vars => IInv'
BY StepOfMedia, PlayerTypeStep, PlaceTypeStep, WindowTypeStep, SessionStep, LifeStep, TimeStep,
   ReadStep, PauseStep DEF IInv, TypeInv

\* The invariant, for every instance.
THEOREM InvariantHolds == Spec => []IInv
BY InitIInv, NextIInv, PTL DEF Spec

\* Every variable of a handle and of the window keeps its type.  In particular the
\* time a playback shows is never more than one frame beyond the recording nor more
\* than a second before its start, however callbacks, slider and reconnects
\* interleave, and beyond it only between a frame's counting and its taking back.
THEOREM TypeCorrect == Spec => []TypeInv
<1>1. IInv => TypeInv
  BY DEF IInv
<1> QED
  BY InvariantHolds, <1>1, PTL

\* Whatever step of setting up a session fails, none is lost or freed twice.
THEOREM NoSessionEverLeaks == Spec => []NoSessionLeak
<1>1. IInv => NoSessionLeak
  BY DEF IInv, SessionInv
<1> QED
  BY InvariantHolds, <1>1, PTL

\* However many commands wait, the recorder is paused when the handle says so.
THEOREM PauseAlwaysAgrees == Spec => []PauseAgrees
<1>1. IInv => PauseAgrees
  BY DEF IInv, PauseInv, EndsPaused, PauseAgrees
<1> QED
  BY InvariantHolds, <1>1, PTL

\* No callback begins on a player that CMP_DestroyMedia has freed.
THEOREM FreedIsNeverCalled == Spec => NoCallOfDestroyed
<1>1. IInv /\ [Next]_vars => [recvPc # "call" /\ recvPc' = "call" => ctlPc # "none"]_media
  <2> SUFFICES ASSUME IInv, MediaStep, recvPc # "call", recvPc' = "call" PROVE ctlPc # "none"
    BY StepOfMedia
  <2>1. FrameArrives
    BY DEF MediaStep, Threads, Monitor, Receive, OpenMedia, PutNodeToWorkQueue, SetPlayStateIdle,
       SetPlayState, GetCurrentPlayTime, TimerReturns, CloseMedia, DestroyMedia, Top, CloseStream,
       Join, Login, LoginFails, OpenStream, OpenStreamFails, Play, PlayFails, Playing, Loop, Count, Judge, SendHeart,
       SendHeartFails, Leave, Disable, Exit, RtpSetDataCallBack, LoadPlayTime,
       AddPlayTime, CheckRange, ClampPlayTime, SendVideoStream, RecvEnds, Recv, UpChanges,
       DecoderEnds, media
  <2> QED
    BY <2>1 DEF FrameArrives, IInv, LifeInv
<1> QED
  BY InvariantHolds, <1>1, PTL DEF Spec, NoCallOfDestroyed

\* The window's timer closes a recording only when the monitor thread has given it
\* up, the stream is missing beyond the grace, a frame had just been counted that
\* reached the end when the timer looked, or the length is not known.
THEOREM AlwaysClosedForAReason == Spec => ClosedForAReason
<1> DEFINE Reason ==
      \/ monPc \in {"disable", "exit", "teardown", "join", "done"}
      \/ ~iStreamState /\ m_iTimeCount > Grace
      \/ reached
      \/ Total = 0
<1>1. IInv /\ [Next]_vars => [ctlPc = "timer" /\ ctlPc' = "closing" => Reason]_vars
  <2> SUFFICES ASSUME IInv, [Next]_vars, ctlPc = "timer", ctlPc' = "closing" PROVE Reason
    OBVIOUS
  <2>0. PlayRange \in Nat \ {0} /\ iPlayRange \in {0, PlayRange} /\ m_iTotolTime \in {0, PlayRange}
    BY MediaAssumption DEF IInv, TypeInv, PlayerType, WindowType
  <2>1. JudgePlayTime
    BY DEF Next, Buttons, vars, OpenPreview, ClosePreview, OpenPlayMedia, NextBtnClicked, Open,
       PauesBtnClicked, QuickBtnClicked, TimeSliderClicked, StopBtnClicked, CheckPlayTimer,
       GoOn, Threads, Monitor, Receive, OpenMedia, PutNodeToWorkQueue, SetPlayStateIdle,
       SetPlayState, GetCurrentPlayTime, DestroyMedia, Top, CloseStream, Join,
       Login, LoginFails, OpenStream, OpenStreamFails, Play, PlayFails, Playing, Loop, Count, Judge,
       SendHeart, SendHeartFails, Leave, Disable, Exit, Mon, FrameArrives, RtpSetDataCallBack,
       LoadPlayTime, AddPlayTime, CheckRange, ClampPlayTime, StorePlayTime, SendVideoStream, RecvEnds,
       Recv, UpChanges, DecoderEnds, media
  <2>2. iTime = Total \/ (~iStreamState /\ m_iTimeCount > Grace)
    BY <2>1 DEF JudgePlayTime, TimerCloses, TimerReturns
  <2>3. CASE iTime = Total /\ Total # 0
    <3>1. iTime = PlayRange
      BY <2>0, <2>3 DEF Total
    <3>2. reached \/ iThreadExitFlag \/ monPc \in {"disable", "exit"}
      BY <2>0, <3>1 DEF IInv, ReadInv
    <3> QED
      BY <3>2 DEF IInv, LifeInv
  <2> QED
    BY <2>2, <2>3
<1> QED
  BY InvariantHolds, <1>1, PTL DEF Spec, ClosedForAReason

-----------------------------------------------------------------------------
(* Search and download (Recordings) *)

SearchType ==
  /\ winPc \in {"ready", "clean", "send", "drain", "start", "full", "destroy", "join"}
  /\ g_eFileSearch \in {"IDLE", "SEARCHING"} /\ m_iWaitFileCnt \in Nat
  /\ srhTimer \in BOOLEAN /\ rows \in BOOLEAN /\ overdue \in BOOLEAN
  /\ m_FileString \in SUBSET BOOLEAN
  /\ wire \in Seq(BOOLEAN) /\ ptFileQueue \in Seq(BOOLEAN)
  /\ procPc \in {"idle", "new", "old"}

\* Answers of the last search only: without overdue ones nothing else is on its
\* way, in the queue once it is cleaned, or read once the search is sent.
Fresh == Seq({TRUE})

FreshInv ==
  /\ rows => winPc \notin {"clean", "send"}
  /\ ~overdue =>
       /\ wire \in Fresh /\ procPc # "old"
       /\ winPc # "clean" => ptFileQueue \in Fresh
       /\ winPc \notin {"clean", "send"} => FALSE \notin m_FileString

\* The blocks that were accepted, and those that will be unless the data breaks
\* off; and whether a file is in work that lacks none.
Due  == iFileSize + left + toCome
InFile == {"data", "recv", "flush"}
Work == IF (left > 0 \/ ftpPc \in InFile) /\ ~lack THEN 1 ELSE 0

\* As long as no block is missing, so is no file.
AllThere == whole + lost + todo + Work = files

BlockInv ==
  /\ todo <= toCome
  /\ ftpPc = "top" => left = 0 /\ ~lack
  /\ ftpPc = "setup" => left > 0
  /\ honest => Due <= DownloadFileSize
  /\ honest /\ Due = DownloadFileSize => AllThere

\* At 100 all files are there but for the one in work, and the window believes the
\* thread only after it has ended - but for the moment before SetDowning.
AllDone == honest => left = 0 /\ todo = 0 /\ AllThere

DoneInv ==
  /\ iPos = 100 => ftpPc \in {"flush", "report", "result", "ended"} /\ AllDone
  /\ winPc # "start" /\ (g_eFileDownState = "SUCC" \/ message = "succeeded")
       => ftpPc = "ended" /\ AllDone

ReportInv == g_iFileProgress /\ ~leftover => ftpPc \in {"result", "ended"}

-----------------------------------------------------------------------------
(* The search *)

LEMMA FreshMeans ==
  ASSUME NEW s \in Fresh
  PROVE  /\ s \in Seq(BOOLEAN) /\ Append(s, TRUE) \in Fresh
         /\ s # <<>> => Head(s) \in {TRUE} /\ Tail(s) \in Fresh
<1>1. s \in Seq({TRUE})  BY DEF Fresh
<1>2. s \in Seq(BOOLEAN)
  <2>1. {TRUE} \subseteq BOOLEAN  OBVIOUS
  <2> QED  BY <1>1, <2>1, SeqMonotonic
<1>3. Append(s, TRUE) \in Seq({TRUE})  BY <1>1, AppendProperties
<1>4. s # <<>> => Head(s) \in {TRUE} /\ Tail(s) \in Seq({TRUE})
  BY <1>1, HeadTailProperties
<1> QED  BY <1>2, <1>3, <1>4, Zenon DEF Fresh

\* What the recorder answers to a search is appended to what is on its way.
LEMMA AnswersAdded ==
  ASSUME NEW n \in Nat, NEW s
  PROVE  /\ s \in Seq(BOOLEAN) => s \o [i \in 1 .. n |-> TRUE] \in Seq(BOOLEAN)
         /\ s \in Fresh => s \o [i \in 1 .. n |-> TRUE] \in Fresh
<1>1. [i \in 1 .. n |-> TRUE] \in Seq(BOOLEAN)  OBVIOUS
<1>2. [i \in 1 .. n |-> TRUE] \in Seq({TRUE})  OBVIOUS
<1>3. s \in Seq(BOOLEAN) => s \o [i \in 1 .. n |-> TRUE] \in Seq(BOOLEAN)  BY <1>1
<1>4. s \in Seq({TRUE}) => s \o [i \in 1 .. n |-> TRUE] \in Seq({TRUE})  BY <1>2
<1> QED  BY <1>3, <1>4 DEF Fresh

\* A step of the FTP thread is none of the window's and none of the search's.
LEMMA ThreadFrame ==
  ASSUME Thread
  PROVE  UNCHANGED <<winPc, search, answers, message, amount>>
<1>1. CASE UsbIsGone \/ SetupFails \/ WriteFails \/ RecvFails
  BY <1>1 DEF UsbIsGone, SetupFails, WriteFails, RecvFails, Fail, Ftp
<1>2. CASE UsbIsThere \/ GetNode \/ Setup \/ RecvEnd \/ Stop \/ Flush \/ SetFileDownProgress
  BY <1>2 DEF UsbIsThere, GetNode, Setup, RecvEnd, Stop, Flush, SetFileDownProgress, Ftp
<1>3. CASE RecvBlock \/ WriteShort  BY <1>3 DEF RecvBlock, Accepted, WriteShort, Ftp
<1>4. CASE SetFileDownState  BY <1>4 DEF SetFileDownState, job
<1> QED  BY <1>1, <1>2, <1>3, <1>4, Zenon DEF Thread

\* The steps of the download leave the search alone.
LEMMA DownloadFrame ==
  ASSUME DownBtnClicked \/ Window \/ Thread \/ UsbChanges
  PROVE  /\ UNCHANGED <<search, answers>>
         /\ winPc \in {"clean", "send", "drain"} \/ winPc' \in {"clean", "send", "drain"}
              => winPc' = winPc
<1>1. UNCHANGED <<search, answers>>
  BY ThreadFrame, Zenon DEF DownBtnClicked, Window, SetDowning, CheckDownProcessFun, ShowResult,
     FTP_DestoryConnect, JoinThread, UsbChanges
<1>2. CASE Thread \/ UsbChanges
  <2>1. winPc' = winPc  BY <1>2, ThreadFrame DEF UsbChanges
  <2> QED  BY <1>1, <2>1
<1>3. CASE DownBtnClicked \/ Window
  <2>1. /\ winPc \notin {"clean", "send", "drain"}
        /\ winPc' \notin {"clean", "send", "drain"}
    BY <1>3 DEF DownBtnClicked, Window, SetDowning, CheckDownProcessFun, ShowResult,
       FTP_DestoryConnect, JoinThread
  <2> QED  BY <1>1, <2>1
<1> QED  BY <1>2, <1>3

LEMMA SearchTypeStep == ASSUME SearchType, [RecNext]_recVars PROVE SearchType'
<1>w. wire \in Seq(BOOLEAN)  BY DEF SearchType
<1>q. ptFileQueue \in Seq(BOOLEAN)  BY DEF SearchType
<1>1. CASE SearchBtnClicked
  <2>1. wire' \in Seq(BOOLEAN)
    <3>1. wire' = [i \in 1 .. Len(wire) |-> FALSE]  BY <1>1, <1>w DEF SearchBtnClicked
    <3>2. Len(wire) \in Nat  BY <1>w
    <3> QED  BY <3>1, <3>2
  <2>2. ptFileQueue' \in Seq(BOOLEAN)
    <3>1. ptFileQueue' = [i \in 1 .. Len(ptFileQueue) |-> FALSE]  BY <1>1, <1>q DEF SearchBtnClicked
    <3>2. Len(ptFileQueue) \in Nat  BY <1>q
    <3> QED  BY <3>1, <3>2
  <2>3. overdue' \in BOOLEAN  BY <1>1 DEF SearchBtnClicked
  <2>4. /\ winPc' = "clean" /\ g_eFileSearch' = "SEARCHING" /\ m_iWaitFileCnt' = 0
        /\ procPc' \in {"idle", "old"}
    BY <1>1 DEF SearchBtnClicked
  <2>5. rows' = FALSE /\ UNCHANGED <<srhTimer, m_FileString>>  BY <1>1 DEF SearchBtnClicked
  <2> QED  BY <2>1, <2>2, <2>3, <2>4, <2>5 DEF SearchType
<1>2. CASE NVR_CleanFileInfo
  <2>1. ptFileQueue' \in Seq(BOOLEAN)  BY <1>2 DEF NVR_CleanFileInfo
  <2>2. winPc' = "send" /\ UNCHANGED <<g_eFileSearch, m_iWaitFileCnt, srhTimer, m_FileString, rows, answers>>
    BY <1>2 DEF NVR_CleanFileInfo
  <2> QED  BY <2>1, <2>2 DEF SearchType, answers
<1>3. CASE SendSearch
  <2>1. wire' \in Seq(BOOLEAN)
    <3>1. PICK n \in 0 .. MaxAnswer - Len(wire) : wire' = wire \o [i \in 1 .. n |-> TRUE]
      BY <1>3 DEF SendSearch
    <3>2. n \in Nat  BY <3>1, <1>w, RecordingsAssumption
    <3> QED  BY <1>w, <3>1, <3>2, AnswersAdded
  <2>2. winPc' = "ready" /\ m_FileString' = {} /\ srhTimer' = TRUE  BY <1>3 DEF SendSearch
  <2>3. UNCHANGED <<g_eFileSearch, m_iWaitFileCnt, rows, ptFileQueue, procPc, overdue>>
    BY <1>3 DEF SendSearch
  <2> QED  BY <2>1, <2>2, <2>3 DEF SearchType
<1>4. CASE FileSrhResultTimer
  <2>1. /\ winPc' \in {"ready", "drain"} /\ m_iWaitFileCnt' = m_iWaitFileCnt + 1
        /\ g_eFileSearch' \in {g_eFileSearch, "IDLE"}
        /\ UNCHANGED <<m_FileString, rows, ptFileQueue, answers>>
    BY <1>4 DEF FileSrhResultTimer
  <2>2. srhTimer' \in BOOLEAN
    <3>1. srhTimer' = srhTimer \/ srhTimer' = FALSE  BY <1>4 DEF FileSrhResultTimer
    <3>2. srhTimer \in BOOLEAN  BY DEF SearchType
    <3> QED  BY <3>1, <3>2
  <2> QED  BY <2>1, <2>2 DEF SearchType, answers
<1>5. CASE NVR_GetFileInfo
  <2>1. Head(ptFileQueue) \in BOOLEAN  BY <1>5, <1>q DEF NVR_GetFileInfo
  <2>2. Tail(ptFileQueue) \in Seq(BOOLEAN)  BY <1>5, <1>q DEF NVR_GetFileInfo
  <2>3. m_FileString' \in SUBSET BOOLEAN  BY <1>5, <2>1 DEF NVR_GetFileInfo, SearchType
  <2>4. ptFileQueue' \in Seq(BOOLEAN)  BY <1>5, <2>2 DEF NVR_GetFileInfo
  <2>5. UNCHANGED <<winPc, g_eFileSearch, m_iWaitFileCnt, srhTimer, rows, answers>>
    BY <1>5 DEF NVR_GetFileInfo
  <2> QED  BY <2>3, <2>4, <2>5 DEF SearchType, answers
<1>6. CASE FilesFound
  <2>1. winPc' = "ready" /\ rows' = TRUE /\ g_eFileSearch' = "IDLE" /\ srhTimer' = FALSE
    BY <1>6 DEF FilesFound
  <2>2. UNCHANGED <<m_iWaitFileCnt, m_FileString, ptFileQueue, answers>>  BY <1>6 DEF FilesFound
  <2> QED  BY <2>1, <2>2 DEF SearchType, answers
<1>7. CASE PmsgProc
  <2>0. wire # <<>> /\ wire' = Tail(wire)  BY <1>7, Zenon DEF PmsgProc
  <2>1. wire' \in Seq(BOOLEAN)  BY <2>0, <1>w, HeadTailProperties
  <2>2. procPc' \in {"idle", "new", "old"}  BY <1>7, Zenon DEF PmsgProc
  <2>3. UNCHANGED <<winPc, search, overdue>>  BY <1>7, Zenon DEF PmsgProc
  <2> QED  BY <2>1, <2>2, <2>3 DEF SearchType, search
<1>8. CASE PutFileInfo
  <2>1. ptFileQueue' \in Seq(BOOLEAN)
    <3>1. (procPc = "new") \in BOOLEAN  OBVIOUS
    <3>2. ptFileQueue' = Append(ptFileQueue, procPc = "new")  BY <1>8 DEF PutFileInfo
    <3> QED  BY <1>q, <3>1, <3>2
  <2>2. procPc' = "idle" /\ UNCHANGED <<winPc, g_eFileSearch, m_iWaitFileCnt, srhTimer, m_FileString,
                                         rows, wire, overdue>>
    BY <1>8 DEF PutFileInfo
  <2> QED  BY <2>1, <2>2 DEF SearchType
<1>9. CASE DownBtnClicked \/ Window \/ Thread \/ UsbChanges
  <2>1. UNCHANGED <<search, answers>>  BY <1>9, DownloadFrame
  <2>2. winPc' \in {"ready", "start", "full", "destroy", "join", winPc}
    BY <1>9, ThreadFrame DEF DownBtnClicked, Window, SetDowning, CheckDownProcessFun, ShowResult,
       FTP_DestoryConnect, JoinThread, UsbChanges
  <2> QED  BY <2>1, <2>2 DEF SearchType, search, answers
<1>10. CASE UNCHANGED recVars
  BY <1>10 DEF SearchType, recVars, search, answers
<1> QED  BY <1>1, <1>2, <1>3, <1>4, <1>5, <1>6, <1>7, <1>8, <1>9, <1>10 DEF RecNext, Search

LEMMA FreshStep == ASSUME SearchType, FreshInv, [RecNext]_recVars PROVE FreshInv'
<1>1. rows' => winPc' \notin {"clean", "send"}
  <2>1. CASE SearchBtnClicked \/ FilesFound  BY <2>1 DEF SearchBtnClicked, FilesFound
  <2>2. CASE NVR_CleanFileInfo \/ SendSearch
    BY <2>2 DEF NVR_CleanFileInfo, SendSearch, FreshInv
  <2>3. CASE FileSrhResultTimer
    <3>1. winPc' \in {"ready", "drain"}  BY <2>3 DEF FileSrhResultTimer
    <3> QED  BY <3>1
  <2>4. CASE NVR_GetFileInfo \/ PmsgProc \/ PutFileInfo
    <3>1. UNCHANGED <<winPc, rows>>
      <4>1. CASE PmsgProc
        <5>1. UNCHANGED <<winPc, search>>  BY <4>1, Zenon DEF PmsgProc
        <5> QED  BY <5>1 DEF search
      <4>2. CASE NVR_GetFileInfo \/ PutFileInfo  BY <4>2 DEF NVR_GetFileInfo, PutFileInfo
      <4> QED  BY <2>4, <4>1, <4>2
    <3> QED  BY <3>1 DEF FreshInv
  <2>5. CASE DownBtnClicked \/ Window \/ Thread \/ UsbChanges
    <3>1. rows' = rows  BY <2>5, DownloadFrame DEF search
    <3>2. winPc' \in {"clean", "send"} => winPc' = winPc  BY <2>5, DownloadFrame
    <3> QED  BY <3>1, <3>2 DEF FreshInv
  <2>6. CASE UNCHANGED recVars  BY <2>6 DEF recVars, search, FreshInv
  <2> QED  BY <2>1, <2>2, <2>3, <2>4, <2>5, <2>6 DEF RecNext, Search
<1>2. ASSUME ~overdue'
      PROVE  /\ wire' \in Fresh /\ procPc' # "old"
             /\ winPc' # "clean" => ptFileQueue' \in Fresh
             /\ winPc' \notin {"clean", "send"} => FALSE \notin m_FileString'
  <2>1. CASE SearchBtnClicked
    <3>1. wire = <<>> /\ procPc = "idle"  BY <1>2, <2>1 DEF SearchBtnClicked
    <3>2. wire' = <<>>  BY <2>1, <3>1 DEF SearchBtnClicked
    <3>3. wire' \in Fresh  BY <3>2 DEF Fresh
    <3>4. procPc' = "idle" /\ winPc' = "clean"  BY <2>1, <3>1 DEF SearchBtnClicked
    <3> QED  BY <3>3, <3>4
  <2>2. CASE ~SearchBtnClicked
    <3>0. ~overdue
      <4>1. overdue' = overdue
        <5>1. CASE DownBtnClicked \/ Window \/ Thread \/ UsbChanges
          BY <5>1, DownloadFrame DEF answers
        <5>2. CASE PmsgProc  BY <5>2, Zenon DEF PmsgProc
        <5>3. CASE Search \/ FileSrhResultTimer \/ PutFileInfo \/ UNCHANGED recVars
          BY <5>3 DEF Search, NVR_CleanFileInfo, SendSearch, FileSrhResultTimer,
             NVR_GetFileInfo, FilesFound, PutFileInfo, recVars, answers
        <5> QED  BY <2>2, <5>1, <5>2, <5>3, Zenon DEF RecNext
      <4> QED  BY <1>2, <4>1
    <3>a. wire \in Fresh  BY <3>0 DEF FreshInv
    <3>b. procPc # "old"  BY <3>0 DEF FreshInv
    <3>c. winPc # "clean" => ptFileQueue \in Fresh  BY <3>0 DEF FreshInv
    <3>d. winPc \notin {"clean", "send"} => FALSE \notin m_FileString  BY <3>0 DEF FreshInv
    <3>1. CASE NVR_CleanFileInfo
      <4>1. ptFileQueue' = <<>> /\ winPc' = "send" /\ UNCHANGED <<wire, procPc>>
        BY <3>1 DEF NVR_CleanFileInfo, answers
      <4>2. ptFileQueue' \in Fresh  BY <4>1 DEF Fresh
      <4> QED  BY <3>a, <3>b, <4>1, <4>2
    <3>2. CASE SendSearch
      <4>1. PICK n \in 0 .. MaxAnswer - Len(wire) : wire' = wire \o [i \in 1 .. n |-> TRUE]
        BY <3>2 DEF SendSearch
      <4>2. n \in Nat
        <5>1. Len(wire) \in Nat  BY DEF SearchType
        <5> QED  BY <4>1, <5>1, RecordingsAssumption
      <4>3. wire' \in Fresh  BY <3>a, <4>1, <4>2, AnswersAdded
      <4>4. m_FileString' = {} /\ winPc = "send" /\ UNCHANGED <<ptFileQueue, procPc>>
        BY <3>2 DEF SendSearch
      <4> QED  BY <3>b, <3>c, <4>3, <4>4
    <3>3. CASE FileSrhResultTimer \/ FilesFound
      <4>1. UNCHANGED <<m_FileString, ptFileQueue, wire, procPc>> /\ winPc \notin {"clean", "send"}
        BY <3>3 DEF FileSrhResultTimer, FilesFound, answers
      <4> QED  BY <3>a, <3>b, <3>c, <3>d, <4>1
    <3>4. CASE NVR_GetFileInfo
      <4>1. winPc = "drain" /\ ptFileQueue # <<>> /\ UNCHANGED <<winPc, wire, procPc>>
        BY <3>4 DEF NVR_GetFileInfo, answers
      <4>2. m_FileString' = m_FileString \cup {Head(ptFileQueue)} /\ ptFileQueue' = Tail(ptFileQueue)
        BY <3>4 DEF NVR_GetFileInfo
      <4>3. ptFileQueue \in Fresh  BY <3>c, <4>1
      <4>4. Head(ptFileQueue) \in {TRUE} /\ Tail(ptFileQueue) \in Fresh
        BY <4>1, <4>3, FreshMeans, Zenon
      <4>5. FALSE \notin m_FileString'  BY <3>d, <4>1, <4>2, <4>4
      <4> QED  BY <3>a, <3>b, <4>1, <4>2, <4>4, <4>5
    <3>5. CASE PmsgProc
      <4>1. wire # <<>> /\ wire' = Tail(wire)  BY <3>5, Zenon DEF PmsgProc
      <4>2. Head(wire) \in {TRUE} /\ Tail(wire) \in Fresh  BY <3>a, <4>1, FreshMeans, Zenon
      <4>3. procPc' # "old"
        <5>1. Head(wire)
          <6>1. Head(wire) = TRUE  BY <4>2, Zenon
          <6> QED  BY <6>1, Zenon
        <5>2. procPc' = "idle" \/ procPc' = "new"  BY <3>5, <5>1, Zenon DEF PmsgProc
        <5> QED  BY <5>2
      <4>4. UNCHANGED <<winPc, ptFileQueue, m_FileString>>
        <5>1. UNCHANGED <<winPc, search>>  BY <3>5, Zenon DEF PmsgProc
        <5> QED  BY <5>1 DEF search
      <4> QED  BY <3>c, <3>d, <4>1, <4>2, <4>3, <4>4
    <3>6. CASE PutFileInfo
      <4>1. procPc = "new"  BY <3>6, <3>b DEF PutFileInfo, SearchType
      <4>2. ptFileQueue' = Append(ptFileQueue, TRUE)  BY <3>6, <4>1 DEF PutFileInfo
      <4>3. ptFileQueue \in Fresh => ptFileQueue' \in Fresh  BY <4>2, FreshMeans
      <4>4. procPc' = "idle" /\ UNCHANGED <<winPc, wire, m_FileString>>  BY <3>6 DEF PutFileInfo
      <4> QED  BY <3>a, <3>c, <3>d, <4>3, <4>4
    <3>7. CASE DownBtnClicked \/ Window \/ Thread \/ UsbChanges
      <4>1. UNCHANGED <<wire, procPc, ptFileQueue, m_FileString>>
        BY <3>7, DownloadFrame DEF search, answers
      <4>2. winPc \in {"clean", "send"} => winPc' = winPc  BY <3>7, DownloadFrame
      <4> QED  BY <3>a, <3>b, <3>c, <3>d, <4>1, <4>2
    <3>8. CASE UNCHANGED recVars
      <4>1. UNCHANGED <<wire, procPc, ptFileQueue, m_FileString, winPc>>
        BY <3>8 DEF recVars, search, answers
      <4> QED  BY <3>a, <3>b, <3>c, <3>d, <4>1
    <3> QED
      BY <2>2, <3>1, <3>2, <3>3, <3>4, <3>5, <3>6, <3>7, <3>8 DEF RecNext, Search
  <2> QED  BY <2>1, <2>2
<1> QED  BY <1>1, <1>2 DEF FreshInv

-----------------------------------------------------------------------------
(* The download *)

\* The steps of the search leave the download alone, but for its message.
LEMMA SearchFrame ==
  ASSUME SearchBtnClicked \/ FileSrhResultTimer \/ Search \/ PmsgProc \/ PutFileInfo
  PROVE  /\ UNCHANGED download
         /\ message' \in {message, "other"}
         /\ winPc' = "start" <=> winPc = "start"
<1>1. UNCHANGED download
  BY Zenon DEF SearchBtnClicked, FileSrhResultTimer, Search, NVR_CleanFileInfo, SendSearch,
     NVR_GetFileInfo, FilesFound, PmsgProc, PutFileInfo
<1>2. CASE PmsgProc \/ PutFileInfo
  <2>1. UNCHANGED <<winPc, message>>  BY <1>2, Zenon DEF PmsgProc, PutFileInfo
  <2> QED  BY <1>1, <2>1
<1>3. CASE SearchBtnClicked \/ FileSrhResultTimer \/ Search
  <2>1. message' \in {message, "other"} /\ winPc # "start" /\ winPc' # "start"
    BY <1>3 DEF SearchBtnClicked, FileSrhResultTimer, Search, NVR_CleanFileInfo, SendSearch,
       NVR_GetFileInfo, FilesFound
  <2> QED  BY <1>1, <2>1
<1> QED  BY <1>2, <1>3

Counts == <<files, todo, toCome, left, DownloadFileSize, iFileSize, honest, lack, whole, lost>>

CountType ==
  /\ files \in Nat /\ todo \in Nat /\ toCome \in Nat /\ left \in Nat
  /\ DownloadFileSize \in Nat /\ iFileSize \in Nat /\ whole \in Nat /\ lost \in Nat

\* Only six steps count; the others open a file, or keep it open.
LEMMA CountFrame ==
  ASSUME [RecNext]_recVars,
         ~DownBtnClicked, ~JoinThread, ~GetNode, ~RecvBlock, ~WriteShort, ~RecvEnd, ~Flush
  PROVE  /\ UNCHANGED Counts
         /\ ftpPc' \in {"top", "setup"} => ftpPc' = ftpPc
         /\ ftpPc' \in InFile => ftpPc \in InFile \cup {"setup"}
         /\ ftpPc \in InFile => ftpPc' \in InFile
<1>1. CASE SearchBtnClicked \/ FileSrhResultTimer \/ Search \/ PmsgProc \/ PutFileInfo
  BY <1>1, SearchFrame DEF download, job, amount, saved, ftp, Counts
<1>2. CASE SetDowning \/ CheckDownProcessFun \/ ShowResult \/ FTP_DestoryConnect
  BY <1>2 DEF SetDowning, CheckDownProcessFun, ShowResult, FTP_DestoryConnect,
     job, amount, saved, ftp, Counts
<1>3. CASE UsbIsGone \/ SetupFails \/ WriteFails \/ RecvFails
  BY <1>3 DEF UsbIsGone, SetupFails, WriteFails, RecvFails, Fail, Ftp, amount, saved, Counts, InFile
<1>4. CASE UsbIsThere \/ Setup \/ Stop \/ SetFileDownProgress
  BY <1>4 DEF UsbIsThere, Setup, Stop, SetFileDownProgress, Ftp, amount, saved, Counts, InFile
<1>5. CASE SetFileDownState \/ UsbChanges
  BY <1>5 DEF SetFileDownState, UsbChanges, job, amount, saved, ftp, Counts, InFile
<1>6. CASE UNCHANGED recVars  BY <1>6 DEF recVars, job, amount, saved, ftp, Counts
<1> QED  BY <1>1, <1>2, <1>3, <1>4, <1>5, <1>6, Zenon DEF RecNext, Window, Thread

\* What GetNode takes, a file of at least one block, leaves one for every file.
LEMMA NodeCounts ==
  ASSUME CountType, BlockInv, GetNode
  PROVE  /\ left = 0 /\ left' \in Nat /\ left' >= 1 /\ todo >= 1 /\ todo' = todo - 1
         /\ toCome' = toCome - left' /\ toCome' \in Nat /\ todo' <= toCome'
         /\ UNCHANGED <<files, DownloadFileSize, iFileSize, honest, lack, whole, lost>>
         /\ ftpPc = "top" /\ ftpPc' = "setup"
<1>1. /\ ftpPc = "top" /\ todo > 0 /\ todo' = todo - 1 /\ toCome' = toCome - left'
      /\ left' \in {n \in 1 .. MaxSize : toCome - n \in todo - 1 .. (todo - 1) * MaxSize}
      /\ UNCHANGED <<amount, iFileSize, saved>> /\ ftpPc' = "setup"
  BY DEF GetNode, Ftp
<1>2. left' \in 1 .. MaxSize /\ toCome - left' \in todo - 1 .. (todo - 1) * MaxSize  BY <1>1
<1>3. MaxSize \in Nat /\ todo \in Nat /\ toCome \in Nat  BY RecordingsAssumption DEF CountType
<1>4. (todo - 1) * MaxSize \in Int  BY <1>3
<1>5. left' \in Nat /\ left' >= 1  BY <1>2, <1>3
<1>6. toCome - left' \in Int /\ todo - 1 <= toCome - left'
  <2> DEFINE most == (todo - 1) * MaxSize
  <2>1. toCome - left' \in todo - 1 .. most /\ most \in Int  BY <1>2, <1>4, Zenon
  <2>2. todo - 1 \in Int  BY <1>3
  <2> HIDE DEF most
  <2> QED  BY <2>1, <2>2
<1>7. left = 0  BY <1>1 DEF BlockInv
<1>8. todo' = todo - 1 /\ toCome' = toCome - left' /\ todo > 0 /\ ftpPc = "top" /\ ftpPc' = "setup"
  BY <1>1
<1>9. UNCHANGED <<files, DownloadFileSize, iFileSize, honest, lack, whole, lost>>
  BY <1>1 DEF amount, saved
<1>10. todo >= 1 /\ todo' <= toCome' /\ todo' >= 0  BY <1>3, <1>6, <1>8
<1>11. toCome' \in Nat  BY <1>3, <1>6, <1>8, <1>10
<1> QED  BY <1>5, <1>7, <1>8, <1>9, <1>10, <1>11

LEMMA StartCounts ==
  ASSUME DownBtnClicked
  PROVE  /\ CountType' /\ todo' = files' /\ files' <= toCome' /\ left' = 0 /\ iFileSize' = 0
         /\ whole' = 0 /\ lost' = 0 /\ ~lack' /\ ftpPc' = "top"
         /\ honest' => DownloadFileSize' = toCome'
<1>1. PICK n \in 1 .. MaxFile : \E size \in n .. n * MaxSize : \E said \in 0 .. size :
         /\ files' = n /\ todo' = n /\ toCome' = size
         /\ DownloadFileSize' = said /\ honest' = (said = size)
  BY DEF DownBtnClicked
<1>2. PICK size \in n .. n * MaxSize : \E said \in 0 .. size :
         /\ files' = n /\ todo' = n /\ toCome' = size
         /\ DownloadFileSize' = said /\ honest' = (said = size)
  BY <1>1
<1>3. PICK said \in 0 .. size :
         /\ files' = n /\ todo' = n /\ toCome' = size
         /\ DownloadFileSize' = said /\ honest' = (said = size)
  BY <1>2
<1>4. n \in Nat /\ MaxSize \in Nat  BY RecordingsAssumption
<1>5. n * MaxSize \in Int  BY <1>4
<1>6. size \in Nat /\ n <= size  BY <1>4, <1>5
<1>7. said \in Nat  BY <1>6
<1>8. iFileSize' = 0 /\ left' = 0 /\ whole' = 0 /\ lost' = 0 /\ ~lack' /\ ftpPc' = "top"
  BY DEF DownBtnClicked
<1>9. files' = n /\ todo' = n /\ toCome' = size /\ DownloadFileSize' = said  BY <1>3
<1>10. honest' => said = size  BY <1>3
<1> QED  BY <1>4, <1>6, <1>7, <1>8, <1>9, <1>10 DEF CountType

LEMMA BlockCounts ==
  ASSUME RecvBlock
  PROVE  /\ ftpPc = "recv" /\ left > 0 /\ iFileSize' = iFileSize + 1 /\ left' = left - 1
         /\ UNCHANGED <<files, todo, toCome, DownloadFileSize, honest, lack, whole, lost>>
         /\ ftpPc' \in {"data", "flush"}
         /\ IF iFileSize + 1 = DownloadFileSize THEN iPos' = 100 /\ ftpPc' = "flush" ELSE iPos' = 1
BY DEF RecvBlock, Accepted, Block, Ftp, amount

LEMMA ShortCounts ==
  ASSUME WriteShort
  PROVE  /\ ftpPc = "recv" /\ left > 0 /\ left' = left - 1
         /\ UNCHANGED <<files, todo, toCome, DownloadFileSize, iFileSize, honest, whole, lost>>
         /\ ftpPc' = "data" /\ iPos' = 1
BY DEF WriteShort, Block, Ftp, amount

LEMMA EndCounts ==
  ASSUME RecvEnd
  PROVE  /\ left' = 0 /\ ftpPc = "recv" /\ ftpPc' = "flush" /\ iPos' = iPos
         /\ UNCHANGED <<files, todo, toCome, DownloadFileSize, iFileSize, honest, whole, lost>>
         /\ ~(left > 0) => (lack' <=> lack)
BY DEF RecvEnd, Ftp, amount

LEMMA FlushCounts ==
  ASSUME Flush
  PROVE  /\ left' = 0 /\ ftpPc = "flush" /\ ftpPc' \in {"report", "top"} /\ iPos' = iPos /\ ~lack'
         /\ iPos = 100 => ftpPc' = "report"
         /\ UNCHANGED <<files, todo, toCome, DownloadFileSize, iFileSize, honest>>
         /\ IF left = 0 /\ ~lack
            THEN \/ whole' = whole + 1 /\ lost' = lost
                 \/ whole' = whole /\ lost' = lost + 1
            ELSE whole' = whole /\ lost' = lost
BY DEF Flush, Final, Ftp, amount

LEMMA JoinCounts ==
  ASSUME JoinThread
  PROVE  /\ files' = 0 /\ todo' = 0 /\ toCome' = 0 /\ left' = 0 /\ whole' = 0 /\ lost' = 0
         /\ DownloadFileSize' = 0 /\ iFileSize' = 0 /\ iPos' = 0
         /\ ftpPc = "ended" /\ ftpPc' = "ended" /\ UNCHANGED <<g_eFileDownState, message>>
BY DEF JoinThread

LEMMA CountStep == ASSUME CountType, BlockInv, [RecNext]_recVars PROVE CountType'
<1>1. CASE DownBtnClicked  BY <1>1, StartCounts
<1>2. CASE JoinThread  BY <1>2, JoinCounts DEF CountType
<1>3. CASE GetNode  BY <1>3, NodeCounts DEF CountType
<1>4. CASE RecvBlock  BY <1>4, BlockCounts DEF CountType
<1>5. CASE WriteShort  BY <1>5, ShortCounts DEF CountType
<1>6. CASE RecvEnd  BY <1>6, EndCounts DEF CountType
<1>7. CASE Flush  BY <1>7, FlushCounts DEF CountType
<1>8. CASE ~(DownBtnClicked \/ JoinThread \/ GetNode \/ RecvBlock \/ WriteShort \/ RecvEnd \/ Flush)
  BY <1>8, CountFrame DEF CountType, Counts
<1> QED  BY <1>1, <1>2, <1>3, <1>4, <1>5, <1>6, <1>7, <1>8

\* The sums of the counts, as facts of arithmetic.
LEMMA ZeroSum == \A x \in Nat : 0 + 0 + x = x /\ 0 + x + 0 = x /\ 0 + 0 + x + 0 = x
OBVIOUS

LEMMA StartSum == \A x, y, z \in Nat : x + y + (z - 1) + 1 = x + y + z + 0
OBVIOUS

\* A file that is closed counts as one that was saved, unless it lacks a block.
LEMMA FlushKeeps ==
  ASSUME CountType, Flush, left = 0, AllThere
  PROVE  AllThere'
<1>t. whole \in Nat /\ lost \in Nat /\ todo \in Nat  BY DEF CountType
<1>1. /\ ftpPc = "flush" /\ ftpPc' \in {"report", "top"} /\ left' = 0
      /\ UNCHANGED <<files, todo>>
  BY FlushCounts
<1>2. Work' = 0  BY <1>1 DEF Work, InFile
<1>3. whole + lost + todo + Work = files  BY DEF AllThere
<1>4. CASE lack
  <2>1. Work = 0  BY <1>4 DEF Work
  <2>2. UNCHANGED <<whole, lost>>  BY <1>4, FlushCounts
  <2>3. whole' + lost' + todo' + Work' = files'  BY ONLY <1>1, <1>2, <1>3, <2>1, <2>2, Zenon
  <2> QED  BY <2>3 DEF AllThere
<1>5. CASE ~lack
  <2>1. Work = 1  BY <1>1, <1>5 DEF Work, InFile
  <2>2. \/ whole' = whole + 1 /\ lost' = lost
        \/ whole' = whole /\ lost' = lost + 1
    BY <1>5, FlushCounts
  <2>3. whole' + lost' + todo + 0 = whole + lost + todo + 1
    <3>1. CASE whole' = whole + 1 /\ lost' = lost  BY ONLY <1>t, <3>1
    <3>2. CASE whole' = whole /\ lost' = lost + 1  BY ONLY <1>t, <3>2
    <3> QED  BY ONLY <2>2, <3>1, <3>2
  <2>4. whole' + lost' + todo' + Work' = files'  BY ONLY <1>1, <1>2, <1>3, <2>1, <2>3, Zenon
  <2> QED  BY <2>4 DEF AllThere
<1> QED  BY <1>4, <1>5

LEMMA BlockStep == ASSUME CountType, BlockInv, [RecNext]_recVars PROVE BlockInv'
<1>t. /\ files \in Nat /\ todo \in Nat /\ toCome \in Nat /\ left \in Nat
      /\ DownloadFileSize \in Nat /\ iFileSize \in Nat /\ whole \in Nat /\ lost \in Nat
  BY DEF CountType
<1>b. /\ todo <= toCome
      /\ honest => iFileSize + left + toCome <= DownloadFileSize
      /\ honest /\ iFileSize + left + toCome = DownloadFileSize
           => whole + lost + todo + Work = files
  BY DEF BlockInv, AllThere, Due
<1>c. (ftpPc = "top" => left = 0 /\ ~lack) /\ (ftpPc = "setup" => left > 0)  BY DEF BlockInv
<1>d. Due' = iFileSize' + left' + toCome'  BY DEF Due
<1>g. ASSUME todo' <= toCome', ftpPc' = "top" => left' = 0 /\ ~lack', ftpPc' = "setup" => left' > 0,
             honest' => Due' <= DownloadFileSize',
             honest' /\ Due' = DownloadFileSize' => whole' + lost' + todo' + Work' = files'
      PROVE  BlockInv'
  BY <1>g DEF BlockInv, AllThere
<1>1. CASE DownBtnClicked
  <2>1. /\ files' \in Nat /\ todo' = files' /\ toCome' \in Nat /\ files' <= toCome'
        /\ left' = 0 /\ iFileSize' = 0 /\ whole' = 0 /\ lost' = 0 /\ ~lack' /\ ftpPc' = "top"
    BY <1>1, StartCounts DEF CountType
  <2>i. iFileSize' = 0 /\ left' = 0 /\ toCome' \in Nat  BY ONLY <2>1
  <2>h. honest' => DownloadFileSize' = toCome'  BY <1>1, StartCounts
  <2>2. Due' = toCome'  BY <2>i, <1>d, ZeroSum, Zenon
  <2>s. Work' = 0  BY <2>1 DEF Work, InFile
  <2>3. honest' => Due' <= DownloadFileSize'  BY <2>1, <2>2, <2>h
  <2>4. whole' + lost' + todo' + Work' = files'  BY <2>1, <2>s, ZeroSum, Zenon
  <2> QED  BY <2>1, <2>3, <2>4, <1>g
<1>2. CASE JoinThread
  <2>j. left' = 0 /\ iFileSize' = 0 /\ toCome' = 0 /\ ftpPc' = "ended"  BY <1>2, JoinCounts
  <2>1. Due' = 0  BY ONLY <2>j, <1>d
  <2>2. Work' = 0  BY <2>j DEF Work, InFile
  <2> QED  BY <1>2, <2>1, <2>2, <1>g, JoinCounts
<1>3. CASE GetNode
  <2>1. /\ left = 0 /\ left' \in Nat /\ left' >= 1 /\ todo >= 1 /\ todo' = todo - 1
        /\ toCome' = toCome - left' /\ todo' <= toCome' /\ ftpPc = "top" /\ ftpPc' = "setup"
    BY <1>3, NodeCounts
  <2>2. UNCHANGED <<files, DownloadFileSize, iFileSize, whole, lost>>  BY <1>3, NodeCounts
  <2>3. honest' = honest /\ lack' = lack  BY <1>3, NodeCounts
  <2>4. Due' = iFileSize + left + toCome
    <3>l. ASSUME NEW l \in Nat PROVE iFileSize + l + (toCome - l) = iFileSize + 0 + toCome
      BY ONLY <1>t
    <3>1. Due' = iFileSize + left' + (toCome - left')  BY ONLY <1>d, <2>1, <2>2, Zenon
    <3>2. @ = iFileSize + 0 + toCome  BY ONLY <2>1, <3>l, Zenon
    <3> QED  BY ONLY <2>1, <3>1, <3>2, Zenon
  <2>g. left' > 0 /\ ~(left > 0)  BY ONLY <2>1
  <2>n. ~lack  BY <1>c, <2>1
  <2>s. Work' = 1 /\ Work = 0
    <3>1. ftpPc \notin InFile  BY <2>1 DEF InFile
    <3> QED  BY <2>g, <2>n, <2>3, <3>1 DEF Work
  <2>w. whole' + lost' + todo' + Work' = whole + lost + todo + Work
    <3>n. whole \in Nat /\ lost \in Nat /\ todo \in Nat  BY ONLY <1>t
    <3>1. whole' + lost' + todo' + Work' = whole + lost + (todo - 1) + 1
      BY ONLY <2>1, <2>2, <2>s, Zenon
    <3>2. @ = whole + lost + todo + 0  BY ONLY <3>n, StartSum, Zenon
    <3> QED  BY ONLY <2>s, <3>1, <3>2, Zenon
  <2>5. honest' => Due' <= DownloadFileSize'  BY ONLY <1>b, <2>2, <2>3, <2>4
  <2>6. honest' /\ Due' = DownloadFileSize' => whole' + lost' + todo' + Work' = files'
    BY ONLY <1>b, <2>2, <2>3, <2>4, <2>w
  <2> QED  BY <2>1, <2>g, <2>5, <2>6, <1>g
<1>4. CASE RecvBlock
  <2>1. /\ left > 0 /\ iFileSize' = iFileSize + 1 /\ left' = left - 1
        /\ UNCHANGED <<files, todo, toCome, DownloadFileSize, whole, lost>>
        /\ ftpPc = "recv" /\ ftpPc' \in {"data", "flush"}
    BY <1>4, BlockCounts
  <2>2. honest' = honest /\ lack' = lack  BY <1>4, BlockCounts
  <2>3. Due' = iFileSize + left + toCome
    <3>1. Due' = (iFileSize + 1) + (left - 1) + toCome  BY ONLY <1>d, <2>1, Zenon
    <3>2. @ = iFileSize + left + toCome  BY ONLY <1>t
    <3> QED  BY ONLY <3>1, <3>2, Zenon
  <2>4. Work' = Work
    <3>1. ftpPc \in InFile /\ ftpPc' \in InFile  BY <2>1 DEF InFile
    <3> QED  BY <2>2, <3>1 DEF Work
  <2>5. honest' => Due' <= DownloadFileSize'  BY ONLY <1>b, <2>1, <2>2, <2>3
  <2>6. honest' /\ Due' = DownloadFileSize' => whole' + lost' + todo' + Work' = files'
    BY ONLY <1>b, <2>1, <2>2, <2>3, <2>4
  <2>7. ftpPc' \notin {"top", "setup"} /\ todo' <= toCome'  BY <1>b, <2>1
  <2> QED  BY <2>5, <2>6, <2>7, <1>g
<1>5. CASE WriteShort
  <2>1. /\ left > 0 /\ left' = left - 1 /\ ftpPc' = "data"
        /\ UNCHANGED <<todo, toCome, DownloadFileSize, iFileSize>>
    BY <1>5, ShortCounts
  <2>2. honest' = honest  BY <1>5, ShortCounts
  <2>3. honest' => Due' < DownloadFileSize'
    <3>1. Due' = iFileSize + (left - 1) + toCome  BY ONLY <1>d, <2>1, Zenon
    <3>2. Due' < iFileSize + left + toCome  BY ONLY <1>t, <3>1
    <3>3. iFileSize + left + toCome \in Int /\ Due' \in Int  BY ONLY <1>t, <3>1
    <3> QED  BY ONLY <1>t, <1>b, <2>1, <2>2, <3>2, <3>3
  <2>4. Due' \in Int /\ DownloadFileSize' \in Int  BY ONLY <1>t, <1>d, <2>1
  <2>5. todo' <= toCome'  BY <1>b, <2>1
  <2>6. honest' => Due' <= DownloadFileSize' /\ Due' # DownloadFileSize'  BY ONLY <2>3, <2>4
  <2> QED  BY <2>1, <2>5, <2>6, <1>g
<1>6. CASE RecvEnd \/ Flush
  <2>1. /\ left' = 0 /\ UNCHANGED <<files, todo, toCome, DownloadFileSize, iFileSize>>
        /\ honest' = honest /\ ftpPc' # "setup"
    BY <1>6, EndCounts, FlushCounts
  <2>t. todo' <= toCome' /\ (ftpPc' = "top" => left' = 0 /\ ~lack')
    BY <1>b, <1>6, <2>1, EndCounts, FlushCounts
  <2>2. Due' = iFileSize + 0 + toCome  BY ONLY <1>d, <2>1, Zenon
  <2>3. honest' => Due' <= DownloadFileSize'  BY ONLY <1>t, <1>b, <2>1, <2>2
  <2>4. ASSUME honest', Due' = DownloadFileSize'
        PROVE  whole' + lost' + todo' + Work' = files'
    <3>1. left = 0 /\ honest
      <4>1. iFileSize + 0 + toCome = DownloadFileSize /\ honest  BY <2>1, <2>2, <2>4
      <4> QED  BY <1>t, <1>b, <4>1
    <3>2. iFileSize + left + toCome = DownloadFileSize  BY <2>1, <2>2, <2>4, <3>1
    <3>3. whole + lost + todo + Work = files  BY ONLY <1>b, <3>1, <3>2
    <3>4. CASE RecvEnd
      <4>1. /\ ftpPc = "recv" /\ ftpPc' = "flush" /\ (lack' <=> lack)
            /\ UNCHANGED <<whole, lost>>
        BY <3>1, <3>4, EndCounts
      <4>2. Work' = Work  BY <2>1, <3>1, <4>1 DEF Work, InFile
      <4> QED  BY ONLY <2>1, <3>3, <4>1, <4>2, Zenon
    <3>5. CASE Flush
      <4>1. AllThere'  BY <3>1, <3>3, <3>5, FlushKeeps DEF AllThere
      <4> QED  BY <4>1 DEF AllThere
    <3> QED  BY <1>6, <3>4, <3>5
  <2> QED  BY <2>1, <2>t, <2>3, <2>4, <1>g
<1>7. CASE ~(DownBtnClicked \/ JoinThread \/ GetNode \/ RecvBlock \/ WriteShort \/ RecvEnd \/ Flush)
  <2>1. UNCHANGED <<files, todo, toCome, left, DownloadFileSize, iFileSize, whole, lost>>
    BY <1>7, CountFrame DEF Counts
  <2>2. honest' = honest /\ lack' = lack  BY <1>7, CountFrame DEF Counts
  <2>3. ftpPc' \in {"top", "setup"} => ftpPc' = ftpPc  BY <1>7, CountFrame
  <2>4. Due' = iFileSize + left + toCome  BY <1>d, <2>1
  <2>5. Work' = Work
    <3>1. left > 0 \/ ftpPc \in InFile <=> left' > 0 \/ ftpPc' \in InFile
      <4>1. ftpPc' \in InFile => ftpPc \in InFile \cup {"setup"}  BY <1>7, CountFrame
      <4>2. ftpPc \in InFile => ftpPc' \in InFile  BY <1>7, CountFrame
      <4> QED  BY <1>c, <2>1, <4>1, <4>2
    <3> QED  BY <2>2, <3>1 DEF Work
  <2>6. honest' => Due' <= DownloadFileSize'  BY ONLY <1>b, <2>1, <2>2, <2>4
  <2>7. honest' /\ Due' = DownloadFileSize' => whole' + lost' + todo' + Work' = files'
    BY ONLY <1>b, <2>1, <2>2, <2>4, <2>5
  <2>8. todo' <= toCome'  BY <1>b, <2>1
  <2>9. /\ ftpPc' = "top" => left' = 0 /\ ~lack'
        /\ ftpPc' = "setup" => left' > 0
    BY <1>c, <2>1, <2>2, <2>3
  <2> QED  BY <2>6, <2>7, <2>8, <2>9, <1>g
<1> QED  BY <1>1, <1>2, <1>3, <1>4, <1>5, <1>6, <1>7

\* When the last block of what was announced was accepted, no file is missing.
LEMMA LastBlock ==
  ASSUME CountType, BlockInv, BlockInv', RecvBlock, iFileSize + 1 = DownloadFileSize
  PROVE  AllDone'
<1> SUFFICES ASSUME honest' PROVE left' = 0 /\ todo' = 0 /\ AllThere'
  BY DEF AllDone
<1>t. /\ todo \in Nat /\ toCome \in Nat /\ left \in Nat
      /\ DownloadFileSize \in Nat /\ iFileSize \in Nat
  BY DEF CountType
<1>1. /\ left > 0 /\ iFileSize' = iFileSize + 1 /\ left' = left - 1
      /\ UNCHANGED <<todo, toCome, DownloadFileSize>>
  BY BlockCounts
<1>2. iFileSize' + left' + toCome' <= DownloadFileSize'  BY DEF BlockInv, Due
<1>3. left' = 0 /\ toCome' = 0  BY <1>t, <1>1, <1>2
<1>4. todo' = 0
  <2>1. todo' <= toCome'  BY DEF BlockInv
  <2> QED  BY <1>t, <1>1, <1>3, <2>1
<1>5. iFileSize' + left' + toCome' = DownloadFileSize'  BY <1>t, <1>1, <1>3
<1>6. AllThere'  BY <1>5 DEF BlockInv, Due
<1> QED  BY <1>3, <1>4, <1>6

\* A failure of the thread, and what it then says.
LEMMA FailSays ==
  ASSUME UsbIsGone \/ SetupFails \/ WriteFails \/ RecvFails
  PROVE  /\ ftpPc \in {"top", "setup", "data", "recv"} /\ ftpPc' \in {"report", "flush"} /\ iPos' # 100
         /\ UNCHANGED <<winPc, g_eFileDownState, message>>
         /\ g_iFileProgress' = g_iFileProgress /\ leftover' = leftover
<1>1. /\ ftpPc \in {"top", "setup", "data", "recv"} /\ ftpPc' \in {"report", "flush"} /\ iPos' # 100
      /\ UNCHANGED <<winPc, g_eFileDownState, message>>
  BY DEF UsbIsGone, SetupFails, WriteFails, RecvFails, Fail, Ftp
<1>2. g_iFileProgress' = g_iFileProgress /\ leftover' = leftover
  BY DEF UsbIsGone, SetupFails, WriteFails, RecvFails, Fail
<1> QED  BY <1>1, <1>2

\* The other steps of the thread within a file, which leave the progress alone.
LEMMA PlaceKept ==
  ASSUME UsbIsThere \/ GetNode \/ Setup \/ RecvEnd \/ Stop \/ Flush
  PROVE  /\ ftpPc \in {"top", "setup", "data", "recv", "flush"} /\ iPos' = iPos
         /\ UNCHANGED <<winPc, g_eFileDownState, message>>
BY DEF UsbIsThere, GetNode, Setup, RecvEnd, Stop, Flush, Ftp

\* What was there stays there while nothing is counted.
LEMMA DoneFrame ==
  ASSUME UNCHANGED job, ftpPc' \in InFile <=> ftpPc \in InFile
  PROVE  AllDone' = AllDone
<1>1. UNCHANGED <<files, todo, left, whole, lost>>  BY DEF job, amount, saved
<1>2. honest' = honest /\ lack' = lack  BY DEF job, amount, saved
<1>3. Work' = Work  BY <1>1, <1>2 DEF Work
<1>4. (whole' + lost' + todo' + Work' = files') <=> (whole + lost + todo + Work = files)
  BY <1>1, <1>3
<1> QED  BY <1>1, <1>2, <1>4 DEF AllDone, AllThere

LEMMA DoneStep ==
  ASSUME CountType, BlockInv, BlockInv', DoneInv, [RecNext]_recVars
  PROVE  DoneInv'
<1> DEFINE Said == g_eFileDownState = "SUCC" \/ message = "succeeded"
<1>a. iPos = 100 => ftpPc \in {"flush", "report", "result", "ended"} /\ AllDone  BY DEF DoneInv
<1>b. winPc # "start" /\ Said => ftpPc = "ended" /\ AllDone  BY DEF DoneInv
<1>g. ASSUME iPos' = 100 => ftpPc' \in {"flush", "report", "result", "ended"} /\ AllDone',
             winPc' # "start" /\ Said' => ftpPc' = "ended" /\ AllDone'
      PROVE  DoneInv'
  BY <1>g DEF DoneInv
<1>1. CASE DownBtnClicked
  <2>1. winPc' = "start" /\ iPos' = 0  BY <1>1 DEF DownBtnClicked
  <2> QED  BY <2>1 DEF DoneInv
<1>2. CASE JoinThread
  <2>1. /\ iPos' = 0 /\ ftpPc' = "ended" /\ left' = 0 /\ todo' = 0
        /\ whole' = 0 /\ lost' = 0 /\ files' = 0
    BY <1>2, JoinCounts
  <2>2. Work' = 0  BY <2>1 DEF Work, InFile
  <2>3. AllDone'  BY <2>1, <2>2 DEF AllDone, AllThere
  <2> QED  BY <2>1, <2>3 DEF DoneInv
<1>3. CASE RecvBlock \/ WriteShort
  <2>1. UNCHANGED <<winPc, g_eFileDownState, message>> /\ ftpPc = "recv"
    BY <1>3 DEF RecvBlock, Accepted, WriteShort, Block, Ftp
  <2>2. ~(winPc # "start" /\ Said)  BY <1>b, <2>1
  <2>3. ~(winPc' # "start" /\ Said')  BY <2>1, <2>2
  <2>4. ASSUME iPos' = 100 PROVE ftpPc' = "flush" /\ AllDone'
    <3>1. RecvBlock  BY <1>3, <2>4, ShortCounts
    <3>2. iFileSize + 1 = DownloadFileSize /\ ftpPc' = "flush"  BY <2>4, <3>1, BlockCounts
    <3> QED  BY <3>1, <3>2, LastBlock
  <2> QED  BY <2>3, <2>4, <1>g
<1>4. CASE UsbIsGone \/ SetupFails \/ WriteFails \/ RecvFails
  <2>1. /\ ftpPc # "ended" /\ iPos' # 100
        /\ UNCHANGED <<winPc, g_eFileDownState, message>>
    BY <1>4, FailSays
  <2>2. ~(winPc' # "start" /\ Said')  BY <1>b, <2>1
  <2> QED  BY <2>1, <2>2, <1>g
<1>5. CASE UsbIsThere \/ GetNode \/ Setup \/ RecvEnd \/ Stop
  <2>1. /\ ftpPc \in {"top", "setup", "data", "recv"} /\ iPos' = iPos
        /\ UNCHANGED <<winPc, g_eFileDownState, message>>
    BY <1>5 DEF UsbIsThere, GetNode, Setup, RecvEnd, Stop, Ftp
  <2>2. ~(winPc' # "start" /\ Said')  BY <1>b, <2>1
  <2>3. iPos' # 100  BY <1>a, <2>1
  <2> QED  BY <2>2, <2>3, <1>g
<1>6. CASE Flush
  <2>1. /\ ftpPc = "flush" /\ iPos' = iPos /\ UNCHANGED <<winPc, g_eFileDownState, message>>
    BY <1>6, PlaceKept, FlushCounts
  <2>2. ~(winPc' # "start" /\ Said')  BY <1>b, <2>1
  <2>3. ASSUME iPos = 100 PROVE ftpPc' = "report" /\ AllDone'
    <3>1. ftpPc' = "report"  BY <1>6, <2>3, FlushCounts
    <3> SUFFICES ASSUME honest' PROVE left' = 0 /\ todo' = 0 /\ AllThere'
      BY <3>1 DEF AllDone
    <3>2. honest' = honest /\ left' = 0 /\ todo' = todo  BY <1>6, FlushCounts
    <3>3. left = 0 /\ todo = 0 /\ AllThere  BY <1>a, <2>3, <3>2 DEF AllDone
    <3>4. AllThere'  BY <1>6, <3>3, FlushKeeps
    <3> QED  BY <3>2, <3>3, <3>4
  <2> QED  BY <2>1, <2>2, <2>3, <1>g
<1>7. CASE SetFileDownProgress
  <2>1. /\ ftpPc = "report" /\ ftpPc' = "result" /\ iPos' = iPos
        /\ UNCHANGED <<winPc, g_eFileDownState, message, job>>
    BY <1>7 DEF SetFileDownProgress, Ftp, job
  <2>2. ~(winPc' # "start" /\ Said')  BY <1>b, <2>1
  <2>3. AllDone' = AllDone  BY <2>1, DoneFrame DEF InFile
  <2> QED  BY <1>a, <2>1, <2>2, <2>3, <1>g
<1>8. CASE SetFileDownState
  <2>1. /\ ftpPc = "result" /\ ftpPc' = "ended" /\ iPos' = iPos
        /\ UNCHANGED <<winPc, message, job>>
        /\ g_eFileDownState' = "SUCC" => iPos = 100
    BY <1>8 DEF SetFileDownState
  <2>2. AllDone' = AllDone  BY <2>1, DoneFrame DEF InFile
  <2>3. ~(winPc # "start" /\ Said)  BY <1>b, <2>1
  <2>4. winPc' # "start" /\ Said' => iPos = 100  BY <2>1, <2>3
  <2> QED  BY <1>a, <2>1, <2>2, <2>4, <1>g
<1>9. CASE SetDowning
  <2>1. g_eFileDownState' = "DOWNING" /\ message' = "other" /\ UNCHANGED <<job, ftp>>
    BY <1>9 DEF SetDowning
  <2>2. ftpPc' = ftpPc /\ iPos' = iPos  BY <2>1 DEF ftp
  <2>3. AllDone' = AllDone  BY <2>1, <2>2, DoneFrame
  <2>4. ~Said'  BY <2>1
  <2> QED  BY <1>a, <2>2, <2>3, <2>4, <1>g
<1>10. CASE FTP_DestoryConnect
  <2>1. /\ winPc = "destroy" /\ g_eFileDownState' = "IDLE"
        /\ UNCHANGED <<message, job, ftpPc, iPos>>
    BY <1>10 DEF FTP_DestoryConnect
  <2>2. AllDone' = AllDone  BY <2>1, DoneFrame
  <2>3. Said' => Said  BY <2>1
  <2> QED  BY <1>a, <1>b, <2>1, <2>2, <2>3, <1>g
<1>11. CASE ShowResult
  <2>1. /\ winPc = "full" /\ UNCHANGED <<progress, job, ftp>>
        /\ message' = "succeeded" => g_eFileDownState = "SUCC"
    BY <1>11 DEF ShowResult
  <2>2. ftpPc' = ftpPc /\ iPos' = iPos /\ g_eFileDownState' = g_eFileDownState
    BY <2>1 DEF ftp, progress
  <2>3. AllDone' = AllDone  BY <2>1, <2>2, DoneFrame
  <2>4. Said' => Said  BY <2>1, <2>2
  <2> QED  BY <1>a, <1>b, <2>1, <2>2, <2>3, <2>4, <1>g
<1>12. CASE CheckDownProcessFun
  <2>1. winPc = "ready" /\ UNCHANGED <<progress, message, job, ftp>>  BY <1>12 DEF CheckDownProcessFun
  <2>2. Said' = Said /\ ftpPc' = ftpPc /\ iPos' = iPos  BY <2>1 DEF ftp, progress
  <2>3. AllDone' = AllDone  BY <2>1, <2>2, DoneFrame
  <2> QED  BY <1>a, <1>b, <2>1, <2>2, <2>3, <1>g
<1>13. CASE \/ SearchBtnClicked \/ FileSrhResultTimer \/ Search \/ PmsgProc \/ PutFileInfo
            \/ UsbChanges \/ UNCHANGED recVars
  <2>1. UNCHANGED <<progress, job, ftp>>
    <3>1. CASE UsbChanges \/ UNCHANGED recVars  BY <3>1 DEF UsbChanges, recVars
    <3>2. CASE ~(UsbChanges \/ UNCHANGED recVars)  BY <1>13, <3>2, SearchFrame DEF download
    <3> QED  BY <3>1, <3>2
  <2>2. message' \in {message, "other"} /\ (winPc' = "start" <=> winPc = "start")
    <3>1. CASE UsbChanges \/ UNCHANGED recVars  BY <3>1 DEF UsbChanges, recVars
    <3>2. CASE ~(UsbChanges \/ UNCHANGED recVars)  BY <1>13, <3>2, SearchFrame
    <3> QED  BY <3>1, <3>2
  <2>3. ftpPc' = ftpPc /\ iPos' = iPos /\ g_eFileDownState' = g_eFileDownState
    BY <2>1 DEF ftp, progress
  <2>4. AllDone' = AllDone  BY <2>1, <2>3, DoneFrame
  <2>5. Said' => Said  BY <2>2, <2>3
  <2> QED  BY <1>a, <1>b, <2>2, <2>3, <2>4, <2>5, <1>g
<1> QED
  BY <1>1, <1>2, <1>3, <1>4, <1>5, <1>6, <1>7, <1>8, <1>9, <1>10, <1>11, <1>12, <1>13, Zenon
  DEF RecNext, Window, Thread

LEMMA ReportStep == ASSUME ReportInv, [RecNext]_recVars PROVE ReportInv'
<1>1. CASE DownBtnClicked
  <2>1. leftover' = g_iFileProgress  BY <1>1 DEF DownBtnClicked
  <2>2. g_iFileProgress' = g_iFileProgress  BY <1>1 DEF DownBtnClicked
  <2> QED  BY <2>1, <2>2 DEF ReportInv
<1>2. CASE RecvBlock \/ WriteShort
  <2>1. \/ g_iFileProgress' = FALSE
        \/ g_iFileProgress' = g_iFileProgress /\ leftover' = leftover
    BY <1>2 DEF RecvBlock, Accepted, WriteShort
  <2>2. ftpPc = "recv"  BY <1>2, Zenon DEF RecvBlock, Accepted, WriteShort, Block
  <2> QED  BY <2>1, <2>2 DEF ReportInv
<1>3. CASE UsbIsGone \/ SetupFails \/ WriteFails \/ RecvFails  BY <1>3, FailSays DEF ReportInv
<1>4. CASE UsbIsThere \/ GetNode \/ Setup \/ RecvEnd \/ Stop \/ Flush
  <2>1. ftpPc \in {"top", "setup", "data", "recv", "flush"}
    BY <1>4, PlaceKept
  <2>2. g_iFileProgress' = g_iFileProgress /\ leftover' = leftover
    BY <1>4 DEF UsbIsThere, GetNode, Setup, RecvEnd, Stop, Flush
  <2> QED  BY <2>1, <2>2 DEF ReportInv
<1>5. CASE SetFileDownProgress \/ SetFileDownState \/ JoinThread
  <2>1. ftpPc' \in {"result", "ended"}
    BY <1>5 DEF SetFileDownProgress, SetFileDownState, JoinThread, Ftp
  <2> QED  BY <2>1 DEF ReportInv
<1>6. CASE SetDowning \/ FTP_DestoryConnect
  <2>1. g_iFileProgress' = g_iFileProgress /\ leftover' = leftover  BY <1>6 DEF SetDowning, FTP_DestoryConnect
  <2>2. ftpPc' = ftpPc  BY <1>6 DEF SetDowning, FTP_DestoryConnect, ftp
  <2> QED  BY <2>1, <2>2 DEF ReportInv
<1>7. CASE \/ SearchBtnClicked \/ FileSrhResultTimer \/ Search \/ PmsgProc \/ PutFileInfo
           \/ CheckDownProcessFun \/ ShowResult \/ UsbChanges \/ UNCHANGED recVars
  <2>1. UNCHANGED <<progress, ftp>>
    <3>1. CASE CheckDownProcessFun \/ ShowResult \/ UsbChanges \/ UNCHANGED recVars
      BY <3>1 DEF CheckDownProcessFun, ShowResult, UsbChanges, recVars
    <3>2. CASE SearchBtnClicked \/ FileSrhResultTimer \/ Search \/ PmsgProc \/ PutFileInfo
      BY <3>2, SearchFrame DEF download
    <3> QED  BY <1>7, <3>1, <3>2
  <2>2. g_iFileProgress' = g_iFileProgress /\ leftover' = leftover  BY <2>1 DEF progress
  <2>3. ftpPc' = ftpPc  BY <2>1 DEF ftp
  <2> QED  BY <2>2, <2>3 DEF ReportInv
<1> QED
  BY <1>1, <1>2, <1>3, <1>4, <1>5, <1>6, <1>7, Zenon DEF RecNext, Window, Thread

-----------------------------------------------------------------------------
(* The theorems on recordings *)

RecInv ==
  /\ SearchType /\ FreshInv
  /\ CountType /\ BlockInv /\ DoneInv /\ ReportInv

LEMMA InitRecInv == ASSUME RecInit PROVE RecInv
<1>1. SearchType
  <2>1. wire \in Seq(BOOLEAN) /\ ptFileQueue \in Seq(BOOLEAN)  BY EmptySeq DEF RecInit
  <2> QED  BY <2>1 DEF RecInit, SearchType
<1>2. FreshInv
  <2>1. wire \in Fresh /\ ptFileQueue \in Fresh  BY EmptySeq DEF RecInit, Fresh
  <2> QED  BY <2>1 DEF RecInit, FreshInv
<1>3. CountType  BY DEF RecInit, CountType
<1>4. Due = 0 /\ Work = 0  BY DEF RecInit, Due, Work, InFile
<1>5. BlockInv  BY <1>4 DEF RecInit, BlockInv, AllThere
<1>6. DoneInv  BY DEF RecInit, DoneInv
<1>7. ReportInv  BY DEF RecInit, ReportInv
<1> QED  BY <1>1, <1>2, <1>3, <1>5, <1>6, <1>7 DEF RecInv

LEMMA RecInvStep == ASSUME RecInv, [RecNext]_recVars PROVE RecInv'
<1>1. SearchType' /\ FreshInv'  BY SearchTypeStep, FreshStep DEF RecInv
<1>2. CountType' /\ BlockInv'  BY CountStep, BlockStep DEF RecInv
<1>3. DoneInv' /\ ReportInv'  BY <1>2, DoneStep, ReportStep DEF RecInv
<1> QED  BY <1>1, <1>2, <1>3 DEF RecInv

LEMMA RecInvAlways == RecSpec => []RecInv
BY InitRecInv, RecInvStep, PTL DEF RecSpec

\* However late the recorder answers, and however the client thread's queueing falls
\* between the window's steps, the list is of the last search - unless answers
\* were outstanding when it began.
THEOREM ListIsFresh == RecSpec => []ListIsOfThisSearch
<1>1. ASSUME RecInv PROVE ListIsOfThisSearch
  BY <1>1 DEF RecInv, FreshInv, ListIsOfThisSearch
<1> QED  BY <1>1, RecInvAlways, PTL

\* For any number and sizes of files, wherever the stick takes only a part of a block
\* or none, the recorder breaks off or the connection fails: a download that is said
\* to have succeeded has had every block of every file accepted, unless the sizes it
\* was told are wrong - so each file is whole on the stick, or the stick did not take
\* its end in fflush, fsync or fclose, to whose results the code does not look; and
\* state and progress of one download are never taken for another's.
THEOREM SuccessMeansWhole == RecSpec => []SuccessIsWhole
<1>1. ASSUME RecInv PROVE SuccessIsWhole
  <2> SUFFICES ASSUME message = "succeeded", winPc # "start", honest PROVE whole + lost = files
    BY DEF SuccessIsWhole
  <2>1. ftpPc = "ended" /\ left = 0 /\ todo = 0 /\ AllThere  BY <1>1 DEF RecInv, DoneInv, AllDone
  <2>2. Work = 0  BY <2>1 DEF Work, InFile
  <2>3. whole \in Nat /\ lost \in Nat /\ files \in Nat  BY <1>1 DEF RecInv, CountType
  <2> QED  BY <2>1, <2>2, <2>3 DEF AllThere
<1> QED  BY <1>1, RecInvAlways, PTL

\* The window takes a download for ended only when the thread has reported its end,
\* or on the progress that the download before it has left.
THEOREM EndIsReported == RecSpec => EndedByReport
<1> DEFINE A == winPc = "ready" /\ winPc' = "full" => ftpPc \in {"result", "ended"} \/ leftover
<1>1. ASSUME RecInv, [RecNext]_recVars PROVE A
  <2> SUFFICES ASSUME winPc = "ready", winPc' = "full" PROVE ftpPc \in {"result", "ended"} \/ leftover
    OBVIOUS
  <2>1. CheckDownProcessFun
    <3>1. ~(SearchBtnClicked \/ FileSrhResultTimer \/ Search)
      BY DEF SearchBtnClicked, FileSrhResultTimer, Search, NVR_CleanFileInfo, SendSearch,
         NVR_GetFileInfo, FilesFound
    <3>2. ~(PmsgProc \/ PutFileInfo)
      <4>1. PmsgProc \/ PutFileInfo => winPc' = winPc  BY Zenon DEF PmsgProc, PutFileInfo
      <4> QED  BY <4>1
    <3>3. ~(DownBtnClicked \/ SetDowning \/ ShowResult \/ FTP_DestoryConnect \/ JoinThread)
      BY DEF DownBtnClicked, SetDowning, ShowResult, FTP_DestoryConnect, JoinThread
    <3>4. ~(Thread \/ UsbChanges \/ UNCHANGED recVars)
      BY ThreadFrame DEF UsbChanges, recVars
    <3> QED  BY <1>1, <3>1, <3>2, <3>3, <3>4, Zenon DEF RecNext, Window
  <2>2. g_iFileProgress  BY <2>1 DEF CheckDownProcessFun
  <2> QED  BY <1>1, <2>2 DEF RecInv, ReportInv
<1>2. RecInv /\ [RecNext]_recVars => [A]_recVars  BY <1>1
<1> HIDE DEF A
<1>3. RecSpec => [][A]_recVars  BY <1>2, RecInvAlways, PTL DEF RecSpec
<1> QED  BY <1>3 DEF EndedByReport, A
=============================================================================
