------------------------------- MODULE Media -------------------------------
(***************************************************************************)
(* One media handle of src/cctv/CMPlayer/CMPlayer.cpp: the main thread      *)
(* that opens, commands and closes it, its MonitorPlayThread, and the       *)
(* receive thread of the RTSP session (src/cctv/rtsp/rtsp.c), which calls   *)
(* RtpSetDataCallBack for each frame.  A preview shows a camera and is      *)
(* connected to again when it breaks off; a playback shows a recording and  *)
(* ends instead.                                                            *)
(*                                                                         *)
(* None of the fields is protected by a mutex.  A step is what a thread     *)
(* does between two accesses that another thread can tell apart; counting   *)
(* up iRtspHeartCount or iCurrentPlayTime is a read and a write, and what   *)
(* was counted beyond the end is seen before it is taken back.  Left to     *)
(* chance are iRunCount, which spaces the heartbeats, and how many frames   *)
(* after a jump do not count as time.  Time passes in seconds, of which a   *)
(* recording has PlayRange; the states FAST_FORWARD and SLOW_FORWARD are    *)
(* PLAY.  A new handle is opened when the threads of the one before have    *)
(* ended: it shares nothing with them.                                      *)
(***************************************************************************)
EXTENDS Integers, Sequences

CONSTANTS
  PreviewMax,  \* turns without a frame after which a preview is broken off; 40
  FileMax,     \* the same for a playback; 100
  NearEndMax,  \* and near the end of the recording; 20
  PlayRange,   \* seconds of a recording, if the recorder says so
  NptMax,      \* seconds a frame can add; 5
  NearEnd,     \* the seconds that count as its end; 30
  MaxQueue     \* bound: commands that wait

ASSUME MediaAssumption ==
  /\ PreviewMax \in Nat \ {0} /\ NearEndMax \in Nat \ {0}
  /\ FileMax \in Nat /\ FileMax >= PreviewMax /\ FileMax >= NearEndMax
  /\ PlayRange \in Nat \ {0} /\ NearEnd \in 1 .. PlayRange
  /\ NptMax \in Nat \ {0}
  /\ MaxQueue \in Nat \ {0}

VARIABLES
  iPlayStreamType,             \* "preview" or "playback"
  iMonitorPlayThreadRunFlag, iThreadExitFlag,
  iPlayState, iRtspHeartCount, iStreamState,
  iPlayRange, iCurrentPlayTime,
  tQueue,                      \* the work queue
  ctlPc, cmd,                  \* main thread, and the command it is giving
  monPc, iReconnectFlag, heart,\* monitor thread, and the count it has read
  RHandle,                     \* it holds a session
  sessions,                    \* sessions that were set up and not freed
  conn,                        \* the session's connection
  sent,                        \* what the recorder was last told
  iEnableCBFunFlag,
  recvPc, loaded,              \* receive thread, and the play time it has read
  up,                          \* the camera or recorder answers
  decEnded,                    \* the decoder thread has ended and its queue is full
  late, early                  \* history: see below

flags   == <<iMonitorPlayThreadRunFlag, iThreadExitFlag>>
play    == <<iPlayRange, iCurrentPlayTime>>
control == <<iPlayStreamType, ctlPc, cmd, early>>
monitor == <<monPc, iReconnectFlag, heart, RHandle, sessions>>
session == <<conn, sent, iEnableCBFunFlag>>
receiver == <<recvPc, loaded>>
outside == <<up, decEnded>>
player  == <<flags, play, iPlayState, iRtspHeartCount, iStreamState, tQueue>>
media   == <<player, control, monitor, session, receiver, outside, late>>

\* The monitor's inner loop, in which the stream runs.
Inner == {"loop", "count", "judge", "heart"}

\* The state a command sets, and the request that carries it out: a change of
\* speed is PLAY, and so is a jump ("POS"), which sets the time as well.
StateOf(c) == IF c = "PAUSE" THEN c ELSE "PLAY"

MediaInit ==
  /\ iPlayStreamType = "preview"
  /\ iMonitorPlayThreadRunFlag = FALSE /\ iThreadExitFlag = FALSE
  /\ iPlayState = "IDLE" /\ iRtspHeartCount = 0 /\ iStreamState = FALSE
  /\ iPlayRange = 0 /\ iCurrentPlayTime = 0
  /\ tQueue = <<>> /\ ctlPc = "none" /\ cmd = "PLAY"
  /\ monPc = "done" /\ iReconnectFlag = TRUE /\ heart = 0
  /\ RHandle = FALSE /\ sessions = 0
  /\ conn = "closed" /\ sent = "none" /\ iEnableCBFunFlag = FALSE
  /\ recvPc = "done" /\ loaded = 0
  /\ up \in BOOLEAN /\ decEnded = FALSE
  /\ late = FALSE /\ early = FALSE

-----------------------------------------------------------------------------
(* The main thread *)

\* What is left of a player's fields says nothing.
Freed ==
  /\ early' = FALSE /\ late' = FALSE
  /\ iPlayStreamType' = "preview" /\ iMonitorPlayThreadRunFlag' = FALSE
  /\ iPlayState' = "IDLE" /\ iRtspHeartCount' = 0 /\ iStreamState' = FALSE
  /\ iPlayRange' = 0 /\ iCurrentPlayTime' = 0 /\ tQueue' = <<>>

\* CMP_CreateMedia with CMP_OpenMediaPreview or CMP_OpenMediaFile, up to the
\* creation of the monitor thread.
OpenMedia(type) ==
  /\ ctlPc = "none" /\ monPc = "done"
  /\ iPlayStreamType' = type
  /\ iMonitorPlayThreadRunFlag' = TRUE /\ iThreadExitFlag' = FALSE
  /\ iPlayState' = "IDLE" /\ iRtspHeartCount' = 0 /\ iStreamState' = FALSE
  /\ iPlayRange' = 0 /\ iCurrentPlayTime' = 0
  /\ tQueue' = <<>> /\ ctlPc' = "opening"
  /\ monPc' = "top" /\ iReconnectFlag' = TRUE
  /\ early' = FALSE /\ late' = FALSE
  /\ UNCHANGED <<cmd, heart, RHandle, sessions, session, receiver, outside>>

\* The thread may be running when its creator sets this.
SetPlayStateIdle ==
  /\ ctlPc = "opening" /\ ctlPc' = "ready" /\ iPlayState' = "IDLE"
  /\ UNCHANGED <<iPlayStreamType, cmd, early, flags, play, iRtspHeartCount, iStreamState,
                 tQueue, monitor, session, receiver, outside, late>>

\* CMP_PlayMedia, CMP_PauseMedia, CMP_SetPlaySpeed, CMP_SetPosition.  "early": the
\* last command was given before the monitor thread had begun to play.
PutNodeToWorkQueue(c) ==
  /\ ctlPc = "ready" /\ Len(tQueue) < MaxQueue
  /\ tQueue' = Append(tQueue, StateOf(c)) /\ cmd' = c /\ ctlPc' = "command"
  /\ early' = (monPc \notin Inner /\ iReconnectFlag)
  /\ UNCHANGED <<iPlayStreamType, flags, play, iPlayState, iRtspHeartCount, iStreamState,
                 monitor, session, receiver, outside, late>>

\* Mutant: a command is only queued.
SetPlayStateNot ==
  /\ ctlPc = "command" /\ ctlPc' = "ready"
  /\ UNCHANGED <<iPlayStreamType, cmd, early, player, monitor, session, receiver, outside,
                 late>>

SetPlayState ==
  /\ ctlPc = "command" /\ ctlPc' = "ready" /\ iPlayState' = StateOf(cmd) /\ cmd' = "PLAY"
  /\ IF cmd = "POS"
     THEN iCurrentPlayTime' \in 0 .. PlayRange - 1 ELSE UNCHANGED iCurrentPlayTime
  /\ UNCHANGED <<iPlayStreamType, early, flags, iPlayRange, iRtspHeartCount,
                 iStreamState, tQueue, monitor, session, receiver, outside, late>>

\* CMP_GetCurrentPlayTime, by a timer that goes on to ask for more.
GetCurrentPlayTime ==
  /\ ctlPc = "ready" /\ ctlPc' = "timer"
  /\ UNCHANGED <<iPlayStreamType, cmd, early, player, monitor, session, receiver, outside,
                 late>>

TimerReturns ==
  /\ ctlPc = "timer" /\ ctlPc' = "ready"
  /\ UNCHANGED <<iPlayStreamType, cmd, early, player, monitor, session, receiver, outside,
                 late>>

CloseMedia ==
  /\ ctlPc \in {"ready", "timer"} /\ ctlPc' = "closing" /\ iMonitorPlayThreadRunFlag' = FALSE
  /\ early' = FALSE
  /\ UNCHANGED <<iPlayStreamType, cmd, iThreadExitFlag, play, iPlayState,
                 iRtspHeartCount, iStreamState, tQueue, monitor, session, receiver, outside,
                 late>>

\* CMP_CloseMedia has waited for the flag; CMP_DestroyMedia frees the player and
\* the queue the receive thread may be waiting in.
DestroyMedia ==
  /\ ctlPc = "closing" /\ iThreadExitFlag
  /\ ctlPc' = "none" /\ Freed
  /\ decEnded' \in {decEnded, FALSE}
  /\ UNCHANGED <<cmd, iThreadExitFlag, monitor, session, receiver, up>>

-----------------------------------------------------------------------------
(* MonitorPlayThread *)

Mon(pc) == monPc' = pc /\ UNCHANGED <<control, outside>>

\* RTSP_CloseStream, RTSP_Logout: a session left over from the turn before.
Top ==
  /\ monPc = "top"
  /\ Mon(IF ~(iMonitorPlayThreadRunFlag /\ iReconnectFlag) THEN "leave"
         ELSE IF RHandle THEN "teardown" ELSE "login")
  /\ UNCHANGED <<player, iReconnectFlag, heart, RHandle, sessions, session, receiver, late>>

CloseStream ==
  /\ monPc = "teardown" /\ Mon("join") /\ sent' = "TEARDOWN" /\ conn' = "closed"
  /\ UNCHANGED <<player, iReconnectFlag, heart, RHandle, sessions, iEnableCBFunFlag,
                 receiver, late>>

\* RTSP_Logout joins the receive thread before it frees the session.
Join ==
  /\ monPc = "join" /\ recvPc = "done"
  /\ Mon(IF iThreadExitFlag THEN "done" ELSE "login")
  /\ RHandle' = FALSE /\ sessions' = sessions - 1
  /\ UNCHANGED <<player, iReconnectFlag, heart, session, receiver, late>>

\* RTSP_Login: OPTIONS and DESCRIBE, both answered.  The description may lack the
\* range; one that had it has it again.  Nothing reads a preview's.
Login ==
  /\ monPc = "login" /\ up /\ Mon("open")
  /\ RHandle' = TRUE /\ sessions' = sessions + 1
  /\ conn' = "live" /\ sent' = "none" /\ iEnableCBFunFlag' = FALSE
  /\ iPlayRange' \in {iPlayRange, IF iPlayStreamType = "playback" THEN PlayRange ELSE 0}
  /\ UNCHANGED <<flags, iPlayState, iRtspHeartCount, iStreamState, iCurrentPlayTime, tQueue,
                 iReconnectFlag, heart, receiver, late>>

\* Mutant: a camera that does not answer is given up like a recording.
LoginFailsForGood ==
  /\ monPc = "login" /\ ~up /\ Mon("top") /\ iReconnectFlag' = FALSE
  /\ UNCHANGED <<player, heart, RHandle, sessions, session, receiver, late>>

LoginFails ==
  /\ monPc = "login" /\ ~up /\ Mon("top")
  /\ iReconnectFlag' = (iReconnectFlag /\ iPlayStreamType = "preview")
  /\ UNCHANGED <<player, heart, RHandle, sessions, session, receiver, late>>

OpenStream ==
  /\ monPc = "open" /\ conn = "live" /\ Mon("play")
  /\ iEnableCBFunFlag' = TRUE /\ recvPc' = "wait"
  /\ UNCHANGED <<player, iReconnectFlag, heart, RHandle, sessions, conn, sent, loaded, late>>

\* Mutant: the session is forgotten.
OpenStreamFailsForgets ==
  /\ monPc = "open" /\ conn = "dead" /\ Mon("top") /\ RHandle' = FALSE
  /\ UNCHANGED <<player, iReconnectFlag, heart, sessions, session, receiver, late>>

\* SETUP is not answered; a playback tries again, too.
OpenStreamFails ==
  /\ monPc = "open" /\ conn = "dead" /\ Mon("top")
  /\ RHandle' = FALSE /\ sessions' = sessions - 1 /\ conn' = "closed"
  /\ UNCHANGED <<player, iReconnectFlag, heart, sent, iEnableCBFunFlag, receiver, late>>

\* Nobody waits for the answers to what follows: on a connection that is dead a
\* request may still be sent.
Play ==
  /\ monPc = "play" /\ conn # "closed" /\ Mon("playing") /\ sent' = "PLAY"
  /\ UNCHANGED <<player, iReconnectFlag, heart, RHandle, sessions, conn, iEnableCBFunFlag,
                 receiver, late>>

PlayFails ==
  /\ monPc = "play" /\ conn # "live" /\ Mon("top")
  /\ UNCHANGED <<player, iReconnectFlag, heart, RHandle, sessions, session, receiver, late>>

Playing ==
  /\ monPc = "playing" /\ Mon("loop") /\ iPlayState' = "PLAY" /\ late' = FALSE
  /\ UNCHANGED <<flags, play, iRtspHeartCount, iStreamState, tQueue, iReconnectFlag, heart,
                 RHandle, sessions, session, receiver>>

\* Mutant: only the connection ends the loop.
LoopGoesOn ==
  /\ monPc = "loop" /\ Mon("count")
  /\ UNCHANGED <<player, iReconnectFlag, heart, RHandle, sessions, session, receiver, late>>

\* A turn: one command of the queue, if there is one.  Whether it could be sent
\* is not looked at.
Loop ==
  /\ monPc = "loop" /\ Mon(IF iMonitorPlayThreadRunFlag THEN "count" ELSE "top")
  /\ IF iMonitorPlayThreadRunFlag /\ tQueue # <<>>
     THEN tQueue' = Tail(tQueue) /\ sent' = Head(tQueue)
     ELSE UNCHANGED <<tQueue, sent>>
  /\ UNCHANGED <<flags, play, iPlayState, iRtspHeartCount, iStreamState, iReconnectFlag,
                 heart, RHandle, sessions, conn, iEnableCBFunFlag, receiver, late>>

Count ==
  /\ monPc = "count" /\ Mon("judge") /\ heart' = iRtspHeartCount
  /\ UNCHANGED <<player, iReconnectFlag, RHandle, sessions, session, receiver, late>>

NearTheEnd == iCurrentPlayTime \in iPlayRange - NearEnd .. iPlayRange

Silent(n) ==
  IF iPlayStreamType = "preview" THEN n >= PreviewMax
  ELSE iPlayState # "PAUSE" /\ n >= IF NearTheEnd THEN NearEndMax ELSE FileMax

\* Beyond FileMax the count makes no difference.
Bounded(n) == IF n > FileMax THEN FileMax ELSE n

\* The count of a playback that is given up is not read again.
Judge ==
  LET n == Bounded(heart + 1) IN
  /\ monPc = "judge" /\ heart' = 0
  /\ IF Silent(n)
     THEN /\ Mon("top") /\ iStreamState' = FALSE /\ late' = FALSE
          /\ iRtspHeartCount' = 0
          /\ iReconnectFlag' = (iPlayStreamType = "preview")
     ELSE /\ (Mon("heart") \/ Mon("loop")) /\ iRtspHeartCount' = n
          /\ UNCHANGED <<iStreamState, late, iReconnectFlag>>
  /\ UNCHANGED <<flags, play, iPlayState, tQueue, RHandle, sessions, session, receiver>>

SendHeart ==
  /\ monPc = "heart" /\ conn # "closed" /\ Mon("loop")
  /\ UNCHANGED <<player, iReconnectFlag, heart, RHandle, sessions, session, receiver, late>>

SendHeartFails ==
  /\ monPc = "heart" /\ conn # "live" /\ Mon("top")
  /\ iReconnectFlag' = (iPlayStreamType = "preview")
  /\ iStreamState' = FALSE /\ late' = FALSE
  /\ UNCHANGED <<flags, play, iPlayState, iRtspHeartCount, tQueue, heart, RHandle, sessions,
                 session, receiver>>

Leave ==
  /\ monPc = "leave" /\ Mon("disable")
  /\ iCurrentPlayTime' = IF iPlayStreamType = "playback" THEN iPlayRange ELSE iCurrentPlayTime
  /\ UNCHANGED <<flags, iPlayRange, iPlayState, iRtspHeartCount, iStreamState,
                 tQueue, iReconnectFlag, heart, RHandle, sessions, session, receiver, late>>

\* Mutant: the callback stays enabled.
DisableNot ==
  /\ monPc = "disable" /\ Mon("exit")
  /\ UNCHANGED <<player, iReconnectFlag, heart, RHandle, sessions, session, receiver, late>>

\* RTSP_CBFunEnable, before the flag that lets the main thread free the player.
Disable ==
  /\ monPc = "disable" /\ Mon("exit")
  /\ iEnableCBFunFlag' = FALSE
  /\ UNCHANGED <<player, iReconnectFlag, heart, RHandle, sessions, conn, sent, receiver, late>>

Exit ==
  /\ monPc = "exit" /\ Mon(IF RHandle THEN "teardown" ELSE "done")
  /\ iThreadExitFlag' = TRUE
  /\ UNCHANGED <<iMonitorPlayThreadRunFlag, play, iPlayState, iRtspHeartCount, iStreamState,
                 tQueue, iReconnectFlag, heart, RHandle, sessions, session, receiver, late>>

Monitor ==
  \/ Top \/ CloseStream \/ Join \/ Login \/ LoginFails \/ OpenStream \/ OpenStreamFails
  \/ Play \/ PlayFails \/ Playing \/ Loop \/ Count \/ Judge \/ SendHeart \/ SendHeartFails
  \/ Leave \/ Disable \/ Exit

-----------------------------------------------------------------------------
(* The receive thread *)

Recv(pc) == recvPc' = pc /\ UNCHANGED <<control, monitor, outside, sent, iEnableCBFunFlag>>

\* A frame is complete and the callback enabled; after a pause or a teardown
\* there may be frames on their way.
FrameArrives ==
  /\ recvPc = "wait" /\ conn = "live" /\ sent # "none" /\ iEnableCBFunFlag
  /\ Recv("call") /\ UNCHANGED <<player, loaded, conn, late>>

\* RtpSetDataCallBack: what it does to a player that is freed is not modelled.
\* "late": it came when the monitor thread had given the stream up.  A frame of a
\* recording counts as time, unless it comes soon after a jump.
RtpSetDataCallBack ==
  /\ recvPc = "call" /\ UNCHANGED <<loaded, conn>>
  /\ IF ctlPc = "none" THEN Recv("send") /\ UNCHANGED <<player, late>>
     ELSE /\ Recv("send") \/ (iPlayStreamType = "playback" /\ Recv("time"))
          /\ iRtspHeartCount' = 0 /\ iStreamState' = TRUE
          /\ late' = (late \/ monPc \notin Inner)
          /\ UNCHANGED <<flags, play, iPlayState, tQueue>>

StorePlayTime(t) ==
  /\ iCurrentPlayTime' = IF ctlPc = "none" THEN iCurrentPlayTime ELSE t
  /\ UNCHANGED <<flags, iPlayRange, iPlayState, iRtspHeartCount, iStreamState, tQueue, conn,
                 late>>

\* iCurrentPlayTime += uiNpt reads it ...
LoadPlayTime ==
  /\ recvPc = "time" /\ Recv("add") /\ loaded' = iCurrentPlayTime
  /\ UNCHANGED <<player, conn, late>>

\* ... and stores it ...
AddPlayTime ==
  /\ recvPc = "add" /\ Recv("check") /\ loaded' = 0
  /\ \E n \in 0 .. NptMax : StorePlayTime(loaded + n)

\* ... and when that is the end or beyond ...
CheckRange ==
  /\ recvPc = "check" /\ Recv(IF iCurrentPlayTime >= iPlayRange THEN "clamp" ELSE "send")
  /\ UNCHANGED <<player, loaded, conn, late>>

\* Mutant: the end is not taken back by a second.
ClampToEnd ==
  /\ recvPc = "clamp" /\ Recv("send") /\ StorePlayTime(iPlayRange) /\ UNCHANGED loaded

\* ... it is set back to a second before the end: -1 when the range is not known.
ClampPlayTime ==
  /\ recvPc = "clamp" /\ Recv("send") /\ StorePlayTime(iPlayRange - 1) /\ UNCHANGED loaded

\* VDEC_SendVideoStream waits for ever when no one empties the queue.
SendVideoStream ==
  /\ recvPc = "send" /\ ~decEnded /\ Recv("wait") /\ UNCHANGED <<player, loaded, conn, late>>

\* recv fails or times out; the thread closes the socket itself.
RecvEnds ==
  /\ recvPc = "wait" /\ conn # "live" /\ Recv("done") /\ conn' = "closed"
  /\ UNCHANGED <<player, loaded, late>>

Receive ==
  \/ RtpSetDataCallBack \/ LoadPlayTime \/ AddPlayTime \/ CheckRange \/ ClampPlayTime
  \/ SendVideoStream \/ RecvEnds

-----------------------------------------------------------------------------
(* What happens outside *)

UpChanges ==
  /\ up' = ~up /\ conn' = IF up /\ conn = "live" THEN "dead" ELSE conn
  /\ UNCHANGED <<player, control, monitor, sent, iEnableCBFunFlag, receiver, decEnded, late>>

\* The decoder ends without memory for its frames; it makes a difference when a
\* frame finds the queue full.
DecoderEnds ==
  /\ ctlPc # "none" /\ recvPc = "send" /\ ~decEnded /\ decEnded' = TRUE
  /\ UNCHANGED <<player, control, monitor, session, receiver, up, late>>

Threads == Monitor \/ FrameArrives \/ Receive \/ UpChanges \/ DecoderEnds

\* What the main thread has begun with a handle.
GoOn == SetPlayStateIdle \/ SetPlayState \/ DestroyMedia

\* The threads run, and who plays sends frames again and again.
MediaFair ==
  /\ WF_media(Monitor) /\ WF_media(Receive)
  /\ SF_media(FrameArrives /\ sent = "PLAY")

-----------------------------------------------------------------------------
(* Properties *)

\* Whatever step of setting it up fails, the monitor thread holds every session
\* that was not freed, and never more than one.
NoSessionLeak == sessions = IF RHandle THEN 1 ELSE 0

\* No callback begins on a player that is freed, although CMP_CloseMedia does not
\* wait for the thread that calls it.
NoCallOfDestroyed == [][recvPc # "call" /\ recvPc' = "call" => ctlPc # "none"]_media

\* When the commands are carried out, the recorder is paused exactly when the
\* handle says so - unless a command was given before the stream began to play.
PauseAgrees ==
  monPc \in Inner /\ tQueue = <<>> /\ ctlPc = "ready" /\ conn = "live" /\ ~early
    => (iPlayState = "PAUSE" <=> sent = "PAUSE")

\* Closing a handle returns while its decoder lives.
CloseReturns == ctlPc = "closing" ~> ctlPc = "none" \/ decEnded

\* A camera that is there and stays delivers pictures again and again, whatever
\* broke off before, on either side.
CameraComesBack ==
  <>[](up /\ iPlayStreamType = "preview" /\ ctlPc = "ready" /\ ~decEnded)
    => []<><<RtpSetDataCallBack>>_media
=============================================================================
