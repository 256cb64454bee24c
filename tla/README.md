# Verification of the CCTV terminal

The program under `src/cctv` is the CCTV terminal of a train: an embedded FLTK
application on an i.MX6 that shows up to 32 cameras in one- and four-picture
styles, raises alarm pictures, talks to six network video recorders (NVR), plays
and downloads recordings and shares the screen with the driver's displays (DMI,
HMI). This directory holds TLA+ models of its control, TLC runs that check them
on small instances and TLAPS proofs for all instances.

## 1. The system

### 1.1 Parts and their interaction

| part | code | state | who runs it |
|---|---|---|---|
| picture control | `CCTV/CCTVWid.cxx` | wanted and current picture style and cameras, eight media handles, cycle flag, alarm lock, FLTK timers | main thread: button and timer callbacks |
| media | `CMPlayer/CMPlayer.cpp` | one `T_CMP_PLAYER_INFO` per handle, connection count, work queue | main thread, one monitor thread and one work thread per handle |
| decoder | `vdec/vdec.c` | `iDecState`, `iDispEnable`, packet queue, VPU instance, frame buffers | one decoder thread per channel |
| display | `vdec/ipuapi.c` | two-place mailbox of frames, `iDispFlag` | one display thread per IPU task |
| packet queue | `vdec/commondef.c` | linked list with a mutex and a limit of 100 | feeder and decoder |
| shared state | `state/state.c` | alarm masks, camera states, configuration, display state, update state | globals without locks, written by several threads |
| multicast input | `pmsg/pmsgproc.c`, `pmsg/multicast.c` | none: decodes datagrams of the passenger information system into `state.c` | multicast thread |
| NVR connection | `pmsg/pmsgcli.c`, `CCTV/NVRMsgProc.cxx` | TCP connection with reassembly buffer and heartbeat; a command queue and a file queue per NVR | six client threads, one command thread |
| resource update | `pmsg/pmsgcli.c` (`SrvProcessThread`) | listening and accepted socket, time-out counter, update state | server thread |
| display arbitration | `CCTV/CCTV.cxx`, `event/` | `g_iDispState`, the window's own last seen state | main thread and UDP receiver |
| recordings | `CCTV/VideoManaWid.cxx` | file search state, play state, download handle and progress | main thread and the FTP thread |
| FTP | `ftp/ftpApi.c` | transfer state, progress, exit flags | one thread per transfer |
| RTSP/RTP | `rtsp/` | session, sequence numbers, request/answer buffers | receive threads |
| log | `log/log.c` | log file, index of the oldest record | any thread |

The main thread never blocks for long: it writes wishes into globals, and timers
or other threads fulfil them. Picture control calls media; media creates a
decoder channel and an RTSP session; the RTSP thread feeds packets to the
channel's queue; the decoder thread feeds decoded frames to the display thread,
which returns them. The multicast thread and the NVR threads write the shared
state, timers of the window read it.

### 1.2 What is hard, and what makes each part correct

* **Picture control.** Four independent sources (buttons, cycle timer, alarm
  timer, window switch) write the wanted picture; one timer applies it. Correct
  when handles follow indexes, no handle is lost, one layer draws, the alarm
  picture wins, timers are neither doubled nor lost, and every wish that stays
  is fulfilled - as long as the poll of the display state is not misled (2.1).
* **Decoder and display.** Two threads pass a handful of frame buffers to each
  other and a third thread switches both off and on without a lock. Correct when
  a buffer has one owner, pictures stay in order, buffers always come back,
  hidden means hidden, and closing returns.
* **Packet queue.** Bounded, blocking, with searches for I frames that drop what
  comes before. Correct as a FIFO that loses only what it says it loses and
  never blocks for ever.
* **NVR connection.** Messages split and joined by TCP, reconnects, a queue
  popped outside its lock. Correct when each message is delivered once, whole
  and to the right recorder.
* **Media handles and playback.** Three threads share a player without a lock:
  the main thread opens, commands and closes it, the monitor thread sets up the
  session and judges the stream by a counter the receive thread resets. Correct
  when sessions are neither lost nor freed twice, no callback begins on a freed
  player, commands take effect, closing returns, a camera comes back by itself
  and a recording that has ended is closed.
* **Display arbitration, resource update, file search, download.** Answers that
  come late, after a time-out or for an earlier request; threads that end by
  themselves; correct when a late answer does no harm and the state shown to the
  driver is that of the last operation.

The list `hazards` in `PROJECT.json` has each of these at its line.

## 2. The modules

### 2.1 `PlayCtrl` - picture control

All callbacks of the FLTK loop that change the picture, one action each
(`SVPlayBtnClicked`, `MVPlayBtnClicked`, `CycleBtnClicked`, `CameBtnClicked`,
`PlayWidClicked`, `WarnIconClicked` for the four alarm icons, `MoniBtnClicked`,
`MoniSysBackBtnClicked`, `HideCCTVResp`, `ShowCCTVResp`, `GetBackVideoTimer`,
`UpdateWarnInfoTimer`, `UpdatePlayStateTimer`), and the multicast thread's change
of the alarm state (`ParseBroadcastSysData`). The variables are the globals of
`CCTVWid.cxx` under the names the comments give. `PlayCtrlFun` and the functions
it dispatches to are action operators (`StyleToFour`, `StyleToSingle`,
`FourPlayStyle`, `SinglePlayStyle`), one per branch of the code.

`HideCCTVResp` and `ShowCCTVResp` are called by `CheckDispStateTimer` on a change
of the display state alone (`disp` is what it last acted on), whatever is visible.
It can be misled in two ways: the state changed between the start-up's reading and
its first call, so that the window is up and `disp` says away (`Init`); or the
password window's message box outlived the hiding (`box`) and its confirming shows
the window although the screen was given away (`PsdConfirmCBFun`). The next
showing then arms every timer a second time, or shows the window beside the
management window (`"both"`), whose Back button creates a medium over a handle that
is open. `odd` is true from then to the next hiding, which closes all media that are
held and removes all timeouts of each kind; `nOdd` counts how often it happened. The
properties say what holds while the poll is not misled, and how far things go when
it is: no timer is ever armed three times, and at most one medium is lost each time.

Abstractions, each with its reason:

* A media handle is the camera it was opened for and whether it draws. What it
  does inside is `FrameFlow`'s.
* `g_pHplay[4..7]` are left out: only `CycControlTimer` fills them and nothing
  arms it.
* `waitPlay` carries the due order of FLTK timers: the 0.15 s/0.2 s timer runs
  before a 0.4 s alarm timer or a cycle timer of at least 1 s armed with or
  after it fires twice. It is kept for timers that are armed once.
* Camera buttons without a camera are hidden (2231-2250), so they are not
  clicked. The click-rate limit only drops clicks. The password and
  audio/video windows cover the CCTV window: there are simply no clicks.
* The alarm state changes in one step; torn reads of the masks are left out.

### 2.2 `FrameFlow` - one video channel

Three threads with program counters: `decPc` for `vpu_vdec_loop`, `ipuPc` for
`ipu_Task_loop`, `ctlPc` for the main thread inside `CMP_SetWndDisplayEnable` or
`CMP_CloseMedia`. A step is what a thread does between two accesses to something
another thread can change; what a thread does under `hIndexMutex` is one step.
The VPU is external: it outputs any frame whose display flag is clear, or none.

* Of the packet queue a call's outcome is kept: a packet, an I frame, nothing.
* The guard of `SetWndDisplayEnable` is the early return of
  `CMP_SetWndDisplayEnable` (nothing to change, nothing done).
* The `iDecState` comparison chain of one loop turn reads the state once.
* `ipu_createtask` may fail (`CreateFails`): the decoder then goes on without a task,
  and what it outputs meanwhile is seen by nobody (`OutputUnseen`). `ipuFailed`
  remembers that it happened.
* `older` records which of two flagged frames the VPU output first; it is a
  history variable for the order property and no step depends on it.

### 2.3 `PacketQueue` - packets for the decoder

The queue between the stream thread (`VDEC_SendVideoStream`) and the head of
`vpu_vdec_loop`, with `VDEC_VideoDecDisp` beside them. One step is one critical
section of the queue's mutex or one access to a flag no mutex protects, so that
`packet_queue_put` checks and inserts in two steps, and
`packet_queue_get_first_IFrame` searches and removes in two. `FrameFlow` starts
where this module ends: at `dec_fill_bsbuffer`.

* A packet is its number and its I frame flag; `IsIFrame` is "every `Gop`-th".
* Both threads compare `iDecState` with one state after the other; each
  comparison is a step (the fields are not `volatile`, so a build may also read
  once, which is the case where nothing changes in between).
* `VDEC_StopVideoDec` is left out: `CMP_CloseMedia` calls it after the stream has
  ended.

### 2.4 `DispState` - whose screen it is

Start-up (`main_cctv`), DHMI's messages through the socket (`OnMsg...`), the poll
`CheckDispStateTimer` with `HideCCTVResp` and `ShowCCTVResp`, and the windows the
driver can open: the password window with its message box, the audio/video and
the recordings window. A message box runs an event loop inside a callback, hence
`box` in `windows` while the poll goes on. DHMI is external and may send any
message at any time. `odd` and `everOdd` are history: the poll was misled.

### 2.5 `CmdQueue`, `CmdFifo` - the NVR queues

`PutNodeToCmdQueue`, `GetNodeFromCmdQueue` and `CleanNodeFromCmdQueue` with the
fields of the list as variables and every access that another thread can disturb
as a step: the code unlinks after it has released the mutex. `CmdFifo` is what
the queue promises; `CmdQueue` implements it step by step until a put begins
while the only node is being unlinked (`raced`).

### 2.6 `PmsgRecv`, `PmsgConn` - the NVR connection

Two views of `CliProcessThread`. `PmsgRecv` has the contents: bytes, the
reassembly buffer and the loop that cuts messages out of it, one turn per step;
of a head it keeps the start flag and the length, in one byte each. `PmsgConn`
(specification `ConnSpec`, so that `PmsgProofs` can extend both)
has the sockets: descriptors as the kernel gives them (the lowest free one), the
shared fields `iSockfd` and `iConnectStatus`, silence and errors, and the command
thread, which checks the status, loads the descriptor and sends on it in three
steps: `send()` looks the number up in the kernel's table when it is called.
`overtaken` is history: the connection of the loaded number was closed since, or
had been when it was loaded. `iPreLeaveLen` survives a reconnect, so `PmsgRecv` lets
a connection begin with old bytes (`stale`).

### 2.7 `ResUpdate` - the resource update server

`SrvProcessThread`, one turn of its loop per step but for the two stores of
`SetResUpdateState`, and `CheckResUpdateTimer`, which shows the state. The update
program is external: it sends reports, falls silent, closes, or connects anew
without closing. TCP keeps no borders: `Receive` takes any number of the bytes that
have come, at most the size of the buffer, and what the code does with them follows
from where they begin and end. The code never looks at `recv`'s length: of a report of which
three or four bytes came it reads the state or the progress as 0, from the
cleared buffer; fewer bytes, or the rest of a report, are no head and are dropped with
all that follows; of several reports only the first is read. `heard` is history: the
first piece of the latest report began a `recv` and held its state.

### 2.8 `Media`, `Playback` - media handles and playing recordings

`Media` is one handle of `CMPlayer.cpp` with three program counters: `ctlPc` for
the main thread inside a call, `monPc` for `MonitorPlayThread`, `recvPc` for the
receive thread of the RTSP session. One action per request of the session
(`Login`, `OpenStream`, `Play`, `SendHeart`, `CloseStream`, `Join` for
`RTSP_Logout`), each with its failure, one per access of the monitor's loop
(`Loop`, `Count`, `Judge`), and the leaving in the order of the code: the time is
set to the length, the callback disabled, the exit flag set, and only then the
session closed. `Playback` EXTENDS it with those who call it: the CCTV window
that shows a camera, and the buttons, the slider and `CheckPlayTimer` of the
window of recorded videos.

* A session is one connection: `live`, `dead` (the other side is gone) or
  `closed`. Each request of `rtspApi.c` succeeds or fails as a whole; requests
  whose answer nobody awaits succeed on a dead connection or fail.
* Time passes in units of which a recording has `PlayRange`, or none when the
  description lacks the range (`Login`). A frame adds up to `NptMax` units. The
  callback reads the time, stores the sum, checks it against the length and takes it
  back in steps of their own (`LoadPlayTime`, `StorePlayTime`, `CheckRange`,
  `ClampPlayTime`), so that the main thread can see a sum beyond the length; with a
  length of 0 it is taken back to a second before the start, as in the code.
* `CheckPlayTimer` reads the play time and judges in two steps (`CheckPlayTimer`,
  `JudgePlayTime`). Heartbeats come at any turn (`iRunCount` is left out).
* What a callback does to a freed player is not modelled, only whether one begins.
* Fast and slow play are states of their own in the code; nothing asks for more
  than whether the state is PAUSE.
* A handle is opened when the threads of the one before have ended; the code
  starts the new one at once, on a player of its own, so they share nothing.
* `early` (the last command was given before the stream played), `late` (a frame
  came after the monitor had given the stream up) and `reached` (the time the timer
  read was a sum not yet taken back) are history.

### 2.9 `Recordings` - search and download

The same window's search (`SearchBtnClicked`, `FileSrhResultTimer`, the answers
that `PmsgProc` queues) and download (`DownBtnClicked`, `CheckDownProcessFun`,
`FTP_DownloadDataRecvThread`, `PftpProc`). An answer is whether it belongs to the
last search; `PmsgProc` tests the search state and queues in two steps. A file is
a number of blocks; `DownloadFileSize` is what the recorder said, which may be
less. `fwrite` accepts a block (`RecvBlock`), a part of it (`WriteShort`: the rest is not
written again) or none (`WriteFails`), but what it accepted is only buffered: `Flush`
is `fflush`, `fsync` and `fclose`, whose results the code ignores, and a stick that is
full or was pulled does not take the end of the file then (`lost`). The test for the
stick (`UsbIsThere`, `UsbIsGone`) comes before the block, as a step of its own. `PftpProc` stores progress and state in two steps, and the timer reads them
in two. A search is not begun during a download: they share nothing but the main
thread. `overdue`, `honest`, `lack`, `whole`, `lost`, `broken` and `leftover` are history.
`PlaybackProofs` extends this module as well, hence its `RecSpec` and `RecvBlock`.

### 2.10 Runs

| run | instance | what it shows |
|---|---|---|
| `PlayCtrl` | 3 groups x 2 positions, 3 cameras, 4 alarm points of which five sets are active together, more cameras of them than pictures, a poll misled at most once (about 0.5 million states) | four safety invariants, two action properties, and that a cycle reaches every camera |
| `FrameFlow` | 3 frames, 2 pictures of bitstream (about 0.95 million states) | ownership, order, display follows the wish, closing returns, a shown picture moves |
| `FrameFlowLost` | 3 frames | *violated*: `UnshownIsReleased`, see the findings |
| `PacketQueue` | 5 packets, every third an I frame, limit 2, 1 kept undecoded (about 0.4 million states) | order, the search still holds when it is used, gaps end at an I frame, a put returns, a waiting I frame is decoded |
| `DispState` | 4 messages of DHMI, 2 in the socket | windows, timers and time client follow the display state unless the poll was misled |
| `CmdQueue` | 5 commands, with cleaning | order, harm only by the race; until the race the list implements `CmdFifo` |
| `PmsgRecv` | heads of 2 bytes, data of 0 to 2, buffer of 5, 3 messages on each of 2 connections | what is sent is delivered once and whole |
| `PmsgConn` | 2 recorders, 2 descriptors, 2 failures, 2 commands | no descriptor is lost; a command goes astray only when its connection was closed under it; the status comes to say whether the recorder is there |
| `ResUpdate` | 2 connections, 2 reports each of 5 bytes, reads of at most 9, time-out after 1 | the last report counts if it began a `recv`, a running update ends |
| `ResUpdateEnd` | 1 connection, 2 reports | *violated*: the close turns a success into a failure |
| `Playback` | time-outs of 2, 3 and 2 turns, a recording of 2 units, a frame adds at most 1, 1 waiting command, grace of 1 tick (about 0.73 million states) | no session is lost, no callback begins on a freed player, commands take effect, closing returns, a camera comes back, a recording is closed when it has ended and for no other reason |
| `Recordings` | 2 polls, 2 answers, 2 files of at most 2 blocks (about 1.9 million states) | the list is of the last search, a success means that every block was accepted, a download ends and not before its end |

Bounds. Three groups of two positions with three cameras have a first, an inner
and a last group, the merge of the last group into the first, and an empty
position in the inner one, so that a picture is closed without another being
opened; three alarm cameras are more than the pictures, and two of the points share
one. Points without a camera and any other sets of points are covered by the proofs
alone. One misled poll reaches the double arming, the window `"both"` and the lost
medium; the proofs are for any number of them. Three frames fill both
mailbox places and leave one in the display thread's hand, so that the fourth
place (the decoder's hand) starves and waits; with `QueueMax = NFrame` the queue
can be exactly full.

The limits of `PacketQueue` keep the code's order (kept undecoded < limit <
stream), and five packets hold two I frames with a gap between them. Five
commands let the race empty the list, put behind it and clean. The buffer of
`PmsgRecv` is the smallest the assumption allows, so every off-by-one in it
shows; three messages of two connections cover joined, cut and stale ones. Two
recorders are the fewest that can take each other's descriptor. A time-out of one
quiet turn and reads of up to nine bytes of five-byte reports reach every cut of a report
(in its head, before its state, before its progress, in its rest), reports that come
together and the close in `ResUpdate`. The time-outs of `Playback` keep the code's order (preview
and near the end < playback), two units have a beginning and an end, and with one
waiting command the next is given while one is carried out; the proofs cover any
number. Two files of up to two blocks let the data break off within a file,
between files and at the last block. Where a history is bounded (`MaxPut`,
`MaxConn`, `MaxSend`) the system may stop, and those configurations do not check
deadlock.

Fairness. `FairSpec` of `PlayCtrl` is weak fairness of the timers: FLTK calls a
due timer. Nobody is obliged to click; that nobody does, and no alarm changes, is
the premise of `CycleReachesEveryCamera` alone. `FairSpec` of `FrameFlow` is weak
fairness of the decoder and display threads as wholes and of the main thread
inside a call; that the camera keeps sending and the VPU outputs, without which
no picture can move, is in the premise of `PictureMoves`.
`PacketQueue`: the decoder thread and a put that can go on; the stream may end
and nobody must show a picture. `DispState` checks safety only. `PmsgRecv`: the
receive loop. `PmsgConn`: the client threads and a send once begun, each thread
as a whole, without fairness of network errors: silence alone must be enough.
`ResUpdate`: the server's loop and the window's timer.
`Playback`: the monitor and the receive thread, and what the main thread has
begun; a recorder that was told to play sends frames again and again (strong
fairness, as a pause may interrupt it); `CheckPlayTimer` strongly, because a
command keeps the main thread for a moment only and the timer comes each second.
Nobody must close a handle, no camera must come back, and no decoder ends by
fairness. `Recordings`: the FTP thread, what the main thread has begun, and the
timer when it is free; nothing of the recorder or the stick.

### 2.11 Findings

Two are runs that TLC must find violated; `PROJECT.json` quotes the line that
says otherwise.

* `FrameFlowLost`: frames refused by a hidden display are not given back to the
  VPU (`ipuapi.c:444`; the comment at 460 says they must be). `UnshownIsReleased`
  sets frames lost by a task that could not be created aside.
* `ResUpdateEnd`: a test that is always true makes every end of an update a
  failure (`pmsgcli.c:437`; the comment at 439 means abnormal ends only).

Other places where the code does not do what its comments say are part of the
models, and a property says how far the deviation goes:

* A style change chosen before an alarm is applied after it and replaces the
  alarm picture by the style's default (`CCTVWid.cxx:958`), which the lock of
  `CCTVWid.cxx:44` is to prevent. `AlarmShownUnlessStylePending`, proved, says that
  this is the only way to lose an alarm picture.
* The full-screen picture is opened beside the four pictures, also for a camera
  that is one of them, so five media exist (`CCTVWid.cxx:1097`, `1214`); the
  comments at 22 and 1089 want at most four and a borrowed handle. `MediaBound`,
  proved, says that it is never more than five, and one more for each misled poll.
* Hiding a picture races with the decoder's test-then-set of the display flag
  (`vdec.c:806`) and with its write-back of `iDecState` (`vdec.c:572`): the
  display stays on, or the hidden picture is decoded.
* The poll takes the state at its first call as already handled, so what came
  between the start-up's reading (`CCTV.cxx:45`) and that call is never acted on;
  and a callback that waits in a message box shows the window after the screen
  was given away (`PasswordWid.cxx:103`). `WindowFollowsUnlessOdd` shows that the
  windows go wrong in these two ways only, and until the next hiding. The next
  showing then arms all timers a second time (`CCTVWid.cxx:1849`), and the Back button
  of the management window may overwrite an open handle (`CCTVWid.cxx:564`):
  `TimersArmedOnce` and `NoMediaLeak` bound both.
* A put that meets the unlinking of the last node outside the mutex loses a
  command (`NVRMsgProc.cxx:178`), and a command can reach another recorder when its
  connection was closed after the descriptor was loaded, also if the own connection
  is long down or made anew (`pmsgcli.c:678`). `HarmOnlyByRace` and
  `AstrayOnlyIfOvertaken` delimit these.
* An update report that TCP cuts, or that comes together with another, is stored
  with state 0 or not at all (`pmsgcli.c:424`); `LastReportCounts` says which report
  does count.
* The tick of `CheckPlayTimer` that finds time and length both 0 closes a
  recording the recorder has not answered for (`VideoManaWid.cxx:258`), and so does the
  tick that reads the time between a frame's counting and its being taken back below
  the length (`CMPlayer.cpp:266`, `271`), while the stream runs. Both are among the
  reasons in `ClosedForAReason`.
* A frame that arrives after the monitor thread has given a recording up sets the
  stream state again (`CMPlayer.cpp:231`), and the window may wait for ever; so it
  may when the slider restarts a paused recording, whose timer stays off
  (`VideoManaWid.cxx:809`). `EndedIsClosed` shows that these are the only ways.
* A decoder thread that has ended for want of memory leaves the stream thread in
  `packet_queue_put`; the join in `RTSP_Logout` and so the main thread's
  `CMP_CloseMedia` may wait for ever (`CMPlayer.cpp:1027`): the exception of
  `CloseReturns`.
* The progress 100 of a download is not reset for the next one
  (`VideoManaWid.cxx:161`), which the first tick may end: `EndedByReport` and
  `leftover`. A download whose data break off, or whose size is not known, never
  reaches 100 and never ends (`ftpApi.c:1095`), nor does one of which the stick took
  only a part of a block (`ftpApi.c:1058`): the exceptions of `DownloadEnds`; one whose
  size is understated succeeds without its end, and one whose end the stick did not take
  when the file was flushed and closed succeeds as well (`ftpApi.c:1140`): the
  exceptions of `SuccessIsWhole`.
* An answer of a search that was given up is listed with the next one's
  (`NVRMsgProc.cxx:221`): the exception of `ListIsOfThisSearch`.

## 3. Proofs

Every safety invariant and every action property of the passing runs is a theorem
for all values of the constants.

| module | theorems | argument |
|---|---|---|
| `PlayCtrlProofs` | `TypeCorrect`, the safety invariants of the run `PlayCtrl` and its action properties `AlarmNotOverridden` and `AlarmShownUnlessStylePending` (`AlarmPictureShown`), and `AlarmStopsCycle`, `MediaOfStyle`, `HandlesOfWindow`, `MediaBound` | what the camera lookups return, then one step per action; four inductive invariants: `TimerInv` (timers, cycle flag and window together while the poll is not misled, and at most two of each kind in any case), `HandleInv` (handles, indexes, style and layers together), `LeakInv` (counting what is held and what the misled polls may have lost) and `AlarmWanted` (what is wanted between an alarm and the refresh; that the choice of the r-th alarm camera has a result follows by counting, `RankExists`) |
| `FrameFlowProofs` | `TypeCorrect`, `FramesHaveOneOwner`, `FramesStayInOrder`, `GivingBackNeverWaits`, `ShownPictureIsDisplayed` | `TypeInv` adds which places may be filled at which program counter (`CreatesFirst`: a task is created only when there is none); `FlowInv` says for each place that its frame is flagged, not queued, and younger than those before it; `GivingBackNeverWaits` follows by the pigeonhole principle from the distinctness of the queue; `ShownIsDisplayed` is inductive as it stands |
| `PacketQueueProofs` | `TypeCorrect`, `PacketsInOrder`, `SearchIsNotStale`, `QueueIsBounded`, `GapEndsWithIFrame` | every removal is a `Cut` of the head, whatever the search counted; `OrderInv` gives the numbers in the queue from the number of packets put; `MarkInv` says that only I frames are marked; `PlaceInv` what a place of the decoder knows of the queue; `GapInv` that when packets are missing before the first that waits the decoder is on its way to an I frame; `RoomInv` what the stream thread knows between the check and the insertion |
| `DispStateProofs` | `TypeCorrect`, `WindowsAlwaysFollow`, `TimersAlwaysFollow` | `TypeInv` bounds each place of the start-up and the dialogs; `ScreenInv` ties windows, timers and time client to the polled state and to `odd` |
| `CmdQueueProofs` | `TypeCorrect`, `TakenInOrderOnce`, `HarmNeedsRace`, `QueueImplementsFifo` | whatever the race does, links only lead to later nodes, so the nodes taken increase (`OrderInv`); until the race, `QuietInv`: the list is the run of nodes from `ptFirst` to the last one linked, all before it are freed or in hand, and what each place of putter and taker remembers is still so; `Chain` of such a list is that run (`ListRun`), and each step of the pointers is a step of `CmdFifo` or none |
| `PmsgProofs` | of `PmsgRecv`: `TypeCorrect`, `AlwaysRoom`, `AlwaysIncomplete`, `NothingIsLost`; of `PmsgConn`: `ConnTypeCorrect`, `NoFdEverLeaks`, `StatusAlwaysMeansSocket`, `AstrayIsOvertaken` | `BufInv`: the bytes kept are fewer than one message, hence the received ones fit; `StreamInv`: on a connection begun without old bytes, what is unread is the bytes of whole messages, so no head or length is ever bad and what was sent is what was delivered followed by what is unread; `ConnInv` ties a client thread's place, its descriptor, the shared fields and the kernel's table |
| `ResUpdateProofs` | `TypeCorrect`, `RunningAlwaysHasConn`, `LastReportAlwaysCounts` | `ReportInv`: the waiting connections are the newest ones in their order, what is unread of a connection ends with its last report, and when all is read the state is the last report's if it was heard, also while its rest is still to come (`HeardInPart`) |
| `PlaybackProofs` | of `Playback`: `TypeCorrect`, `NoSessionEverLeaks`, `PauseAlwaysAgrees`, `FreedIsNeverCalled`, `AlwaysClosedForAReason`; of `Recordings`: `ListIsFresh`, `SuccessMeansWhole`, `EndIsReported` | what the windows do to a handle is one of `MediaStep`; `SessionInv` says where a session is held, `LifeInv` which place each thread has when the player may be freed, `TimeInv` that the time reaches the length only by the leaving monitor thread or between a frame's counting and its taking back, `ReadInv` the same of the time the timer has read, `PauseInv` that the last command waiting, or else the last one sent, is what the handle says. `FreshInv` follows the answers from the connection to the list; `BlockInv` counts blocks against files: while what was accepted and what is to come is what was announced, every file is saved, refused by the stick at its end, waiting or in work; `DoneInv` and `ReportInv` say where 100 per cent and a success are believed |

The constants are arbitrary under the named assumptions `GeometryAssumption`,
`PointAssumption`, `StateAssumption`, `OddAssumption`, `FrameAssumption`, `QueueAssumption`, `NetAssumption`,
`PutAssumption`, `BufferAssumption`, `ConnAssumption`, `UpdateAssumption`,
`MediaAssumption`, `GraceAssumption` and `RecordingsAssumption`. Few of the
properties are inductive. `HandlesFollowIndexes` is not: whether a full-screen
handle may be closed depends on the style and on which layer draws, hence
`HandleInv`. Nor is `OneOwner`: that the display thread's frame is not queued needs
that a place holds a frame only at certain program counters.

`PauseAgrees` speaks of an empty queue only, and its history variable says that no
command came early, not that none is left from before the stream played; both are
parts of `PauseInv`. `SuccessIsWhole` is about two counts that meet only when the
last block has come: `honest` bounds the blocks of all files, not of one, so the
invariant has to say that a file can be missing only while a block is.
`ClosedForAReason` is about a time that is read in one step and acted on in another;
`ReadInv` carries the reason from the one to the other.
`AlarmShownUnlessStylePending` is about one step, but what that step shows was
wanted by another many steps before, with any number of changes of the shown
pictures in between: `AlarmWanted` holds throughout. `SearchStillHolds` needs that
the stream thread only appends and that numbers in the queue are distinct.

The type invariants are proved and not among the runs' properties; so are
`StatusMeansSocket`, `LeftIsIncomplete`, `PutNeverWaits`, `RoomToReceive`,
`RunningHasConn` and `QueueBound`. They, and the inductive invariants, were checked
with TLC before they were proved.

Recursion. `Chain` of `CmdQueue` and `FlattenSeq`, by which `PmsgRecv` puts messages on
the wire, are recursive functions. What they are on the lists and sequences that occur is
proved from their definitions: that a function of the kind exists is shown by
giving one (`ChainDef`, `JoinsExists`), and a fact about every natural number by a least
counterexample (`Least`, `SetInduction`), since the library's induction theorems
take operators as parameters.

Only model-checked: the liveness properties, which rest on fairness (TLAPS has no
ENABLED): `CycleReachesEveryCamera`, `StopReturns`, `PictureMoves`, `PutReturns`,
`IFrameIsDecoded`, `SentIsDelivered`, `StatusFollows`, `UpdateEnds`, `CloseReturns`,
`CameraComesBack`, `EndedIsClosed` and `DownloadEnds`. The two runs that expect a
violation are refutations and need no proof.

## 4. Plan

Done: `PlayCtrl`, `FrameFlow`, `PacketQueue`, `DispState`, `CmdQueue` against
`CmdFifo`, `PmsgRecv`, `PmsgConn`, `ResUpdate`, `Media` with `Playback`,
`Recordings`, and the proofs above. Next, in this order:

1. Theorems: the safety parts the liveness properties stand on (that every place
   of a thread has a next step, so that only waiting for another thread can stop
   it), and, for `PacketQueue`, the implementation of a FIFO that drops a prefix.
2. `Rtp`: splitting the interleaved stream and assembling frames from packets
   (`rtsp.c`, `rtp.c`), where the 16-bit sequence number wraps.
3. `McastInput` (alarm masks written by one thread and read by another), the
   alarm lists with their repetitions, the message handlers of `NVRMsgProc.cxx`.
4. `LogFile` (the ring of records).

Abstract specifications worth stating: a FIFO for `PacketQueue` as well; "the
screen belongs to one of two programs" for `DispState`; a transfer (idle,
running, done, failed) for FTP and the resource update.

The runs are kept to a dozen and the properties to forty, so that the whole
project is checked again in less than half an hour. A component that is added
takes the place of shallower properties, or shares a run.

## 5. Not modelled

The alarm lists and their repetition, `PmsgProc`'s byte copies into `state.c`, the
multicast decoding, assembling frames from RTP packets, the log file and the FTP
upload (which no window uses): see the plan. Drawing, layout and texts; `fb.c`, register programming and memory allocation of
the VPU; ini parsing; the debug output; vendored tables and digests. A part's
note in `PROJECT.json` says what of it is left out and why.
