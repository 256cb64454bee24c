------------------------------ MODULE Playback ------------------------------
(***************************************************************************)
(* Who opens media handles: the CCTV window, which shows a camera, and the   *)
(* window of recorded videos (src/cctv/CCTV/VideoManaWid.cxx), which plays a *)
(* recording with the buttons pause, stop, faster or slower, next, the time  *)
(* slider, and a timer that closes the recording at its end.  Both run on    *)
(* the main thread; the handle is Media's.                                   *)
(*                                                                         *)
(* CMP_CloseMedia waits on the main thread: no button and no timer of the    *)
(* window is served until it has returned.                                   *)
(***************************************************************************)
EXTENDS Media

CONSTANT Grace  \* ticks for which a missing stream is let pass; 5

ASSUME GraceAssumption == Grace \in Nat

VARIABLES
  label,         \* of the pause button: "pause", or "resume" when it is paused
  timer,         \* CheckPlayTimer is armed
  m_iTotolTime, m_iTimeCount,
  iTime,         \* the play time the timer has read
  reached,       \* history: a frame had just been counted that reached the end
  reopen         \* another recording is opened as soon as this one is closed

tick   == <<m_iTotolTime, m_iTimeCount, iTime, reached>>
window == <<label, timer, tick, reopen>>
vars   == <<media, window>>

Init ==
  /\ MediaInit
  /\ label = "pause" /\ timer = FALSE
  /\ m_iTotolTime = 0 /\ m_iTimeCount = 0 /\ iTime = 0 /\ reached = FALSE
  /\ reopen = FALSE

\* m_pHplay is a handle and the main thread is not at work on it.
Open == ctlPc = "ready" /\ iPlayStreamType = "playback"

-----------------------------------------------------------------------------
(* The CCTV window *)

OpenPreview == OpenMedia("preview") /\ ~reopen /\ UNCHANGED window

ClosePreview == ctlPc = "ready" /\ iPlayStreamType = "preview" /\ CloseMedia /\ UNCHANGED window

-----------------------------------------------------------------------------
(* The window of recorded videos *)

\* OpenPlayMedia, when nothing is played.  The monitor thread has hardly begun:
\* the length of the recording is not known.
OpenPlayMedia ==
  /\ OpenMedia("playback")
  /\ label' = "pause" /\ timer' = TRUE
  /\ m_iTotolTime' = 0 /\ m_iTimeCount' = 0 /\ reopen' = FALSE /\ UNCHANGED <<iTime, reached>>

\* PrevBtnClicked, PlayBtnClicked, NextBtnClicked: what is played is closed first.
NextBtnClicked ==
  /\ Open /\ CloseMedia
  /\ timer' = FALSE /\ reopen' = TRUE /\ m_iTotolTime' = 0 /\ m_iTimeCount' = 0
  /\ UNCHANGED <<label, iTime, reached>>

PauesBtnClicked ==
  /\ Open
  /\ IF label = "pause"
     THEN PutNodeToWorkQueue("PAUSE") /\ label' = "resume" /\ timer' = FALSE
     ELSE PutNodeToWorkQueue("PLAY") /\ label' = "pause" /\ timer' = TRUE
  /\ UNCHANGED <<tick, reopen>>

\* SlowBtnClicked, QuickBtnClicked.
QuickBtnClicked ==
  /\ Open /\ iPlayState # "PAUSE" /\ PutNodeToWorkQueue("PLAY") /\ UNCHANGED window

\* A paused recording goes on playing, too; the button keeps its label.
TimeSliderClicked ==
  /\ Open /\ iPlayRange > 0 /\ PutNodeToWorkQueue("POS") /\ UNCHANGED window

StopBtnClicked ==
  /\ Open /\ CloseMedia /\ label' = "pause" /\ timer' = FALSE
  /\ m_iTotolTime' = 0 /\ m_iTimeCount' = 0 /\ UNCHANGED <<iTime, reached, reopen>>

\* CheckPlayTimer, once a second.  A count above Grace stands for all of them.
CheckPlayTimer ==
  /\ Open /\ timer /\ GetCurrentPlayTime
  /\ m_iTimeCount' = IF m_iTimeCount > Grace THEN m_iTimeCount ELSE m_iTimeCount + 1
  /\ iTime' = iCurrentPlayTime
  /\ reached' = (recvPc \in {"check", "clamp"} /\ iCurrentPlayTime >= iPlayRange)
  /\ UNCHANGED <<label, timer, m_iTotolTime, reopen>>

\* The length, if the timer has not learnt it before.
Total == IF m_iTotolTime <= 0 THEN iPlayRange ELSE m_iTotolTime

TimerCloses(over) ==
  /\ ctlPc = "timer" /\ iTime' = 0 /\ reached' = FALSE
  /\ \/ over /\ CloseMedia /\ timer' = FALSE /\ m_iTotolTime' = 0 /\ m_iTimeCount' = 0
     \/ ~over /\ TimerReturns /\ m_iTotolTime' = Total /\ UNCHANGED <<timer, m_iTimeCount>>
  /\ UNCHANGED <<label, reopen>>

\* Mutant: a recording ends when its time has come, and else only by hand.
JudgePlayTimeOnly == TimerCloses(iTime + 1 = Total)

\* The recording is closed or the timer armed again.  The counts of one that is
\* closed are read by no one: OpenPlayMedia begins anew.
JudgePlayTime == TimerCloses(iTime = Total \/ (~iStreamState /\ m_iTimeCount > Grace))

Buttons ==
  \/ NextBtnClicked \/ PauesBtnClicked \/ QuickBtnClicked \/ TimeSliderClicked \/ StopBtnClicked

-----------------------------------------------------------------------------

Next ==
  \/ OpenPreview \/ ClosePreview
  \/ (OpenPlayMedia \/ Buttons \/ CheckPlayTimer \/ JudgePlayTime)
  \/ GoOn /\ UNCHANGED window
  \/ Threads /\ UNCHANGED window

Spec == Init /\ [][Next]_vars

\* The threads run, what the main thread has begun it ends, the timer comes when it
\* is free, and a second lasts longer than what it has begun.
FairSpec ==
  Spec /\ MediaFair /\ WF_vars((GoOn /\ UNCHANGED window) \/ JudgePlayTime) /\ SF_vars(CheckPlayTimer)

-----------------------------------------------------------------------------
(* Properties *)

\* A recording whose monitor thread has ended is closed by the window - unless
\* the button says "resume", or a frame came after the thread had given up.
EndedIsClosed ==
  iThreadExitFlag /\ iPlayStreamType = "playback" /\ ctlPc # "none"
    ~> ctlPc = "none" \/ label = "resume" \/ late

\* The window closes a recording of its own accord only when the monitor thread
\* has given it up, or the stream is missing beyond the grace, or a frame had just
\* been counted that reaches the end when the timer looked - or its length is not
\* known, which the code takes for the end.
ClosedForAReason ==
  [][ctlPc = "timer" /\ ctlPc' = "closing" =>
       \/ monPc \in {"disable", "exit", "teardown", "join", "done"}
       \/ ~iStreamState /\ m_iTimeCount > Grace
       \/ reached
       \/ Total = 0]_vars
=============================================================================
