----------------------------- MODULE FrameFlow -----------------------------
(***************************************************************************)
(* One video channel: its decoder thread (src/cctv/vdec/vdec.c), the        *)
(* display thread of its IPU task (src/cctv/vdec/ipuapi.c) and the main     *)
(* thread that shows, hides and closes it (CMP_SetWndDisplayEnable and      *)
(* CMP_CloseMedia in src/cctv/CMPlayer/CMPlayer.cpp).                       *)
(*                                                                         *)
(* The VPU decodes into NFrame frame buffers.  It never reuses a buffer     *)
(* whose display flag is set, so every frame it outputs must come back: the *)
(* decoder passes it to the two-place mailbox First/Sec, the display thread *)
(* takes it from there, and whoever is finished with it queues its index in *)
(* tPackIpu, from where the decoder clears the flag.                        *)
(*                                                                         *)
(* Abstractions.  Of the packet queue only the outcome of a call matters    *)
(* here: a packet, an I frame, or neither.  The bitstream buffer holds up   *)
(* to MaxBits pictures.  The VPU is external: it outputs some buffer whose  *)
(* flag is clear, or no picture, or fails.  A step is what one thread does  *)
(* between two accesses to state that another thread can change.            *)
(***************************************************************************)
EXTENDS Integers, Sequences

CONSTANTS
  NFrame,    \* iRegfbcount
  MaxBits,   \* pictures that fit into the bitstream buffer
  QueueMax   \* packet_queue_put waits while the queue holds more; 100

Frame == 0 .. NFrame - 1
None  == -1

ASSUME FrameAssumption ==
  /\ NFrame \in Nat \ {0} /\ MaxBits \in Nat \ {0}
  /\ QueueMax \in Nat /\ NFrame <= QueueMax

VARIABLES
  iDispEnable,    \* wanted by the main thread
  iDecState,      \* E_NO_DEC, E_DEC_START, E_DEC_STARTING, E_DEC_DISP
  iTaskExitFlag,  \* the decoder thread has to end
  hIpuHandel,     \* the IPU task exists
  iDispFlag,      \* the IPU task's own copy of iDispEnable
  iFirstIndex, iSecIndex,  \* the mailbox
  iNowIndex,      \* the frame the display thread is working on
  ipuExit,        \* the IPU task's iTaskExitFlag
  tPackIpu,       \* indexes of finished frames, on their way to the decoder
  flagged,        \* frames whose display flag is set in the VPU
  older,          \* <<f, g>>: both flagged and f was output before g
  bits,           \* pictures in the bitstream buffer
  hand,           \* the frame the decoder thread has just got
  next, got,      \* its pending write to iDecState, whether it has a packet
  iHaveParseAndAlloc, \* the stream is parsed and the frame buffers exist
  ipuFailed,      \* an IPU task could not be created
  decPc, ipuPc, ctlPc

control == <<iDispEnable, iDecState, iTaskExitFlag>>
ipu     == <<hIpuHandel, iDispFlag, iFirstIndex, iSecIndex, iNowIndex, ipuExit, ipuPc>>
vpu     == <<flagged, older, bits>>
setup   == <<iHaveParseAndAlloc, ipuFailed>>
decoder == <<hand, next, got, setup, decPc>>
vars    == <<control, ipu, tPackIpu, vpu, decoder, ctlPc>>

\* A channel after VDEC_CreateVideoDecCh, VDEC_VideoDecDisp(0, 0) and
\* VDEC_StartVideoDec: hidden, not decoding.
Init ==
  /\ iDispEnable = FALSE /\ iDecState = "NO_DEC" /\ iTaskExitFlag = FALSE
  /\ hIpuHandel = FALSE /\ iDispFlag = FALSE
  /\ iFirstIndex = None /\ iSecIndex = None /\ iNowIndex = None
  /\ ipuExit = FALSE /\ ipuPc = "none"
  /\ tPackIpu = <<>>
  /\ flagged = {} /\ older = {} /\ bits = 0
  /\ hand = None /\ next = "NO_DEC" /\ got = FALSE /\ decPc = "top"
  /\ iHaveParseAndAlloc = FALSE /\ ipuFailed = FALSE
  /\ ctlPc = "ready"

-----------------------------------------------------------------------------
(* The main thread *)

\* CMP_SetWndDisplayEnable(h, 1, 1) or (h, 0, 0), then VDEC_VideoDecDisp:
\* iDispEnable, iDecState and the IPU task's iDispFlag are set one by one.
SetWndDisplayEnable(on) ==
  /\ ctlPc = "ready"
  /\ iDispEnable # on \/ (iDecState # "NO_DEC") # on
  /\ iDispEnable' = on
  /\ ctlPc' = "dec"
  /\ UNCHANGED <<iDecState, iTaskExitFlag, ipu, tPackIpu, vpu, decoder>>

SetDecState ==
  /\ ctlPc = "dec"
  /\ iDecState' = IF iDispEnable THEN "START" ELSE "NO_DEC"
  /\ ctlPc' = "flag"
  /\ UNCHANGED <<iDispEnable, iTaskExitFlag, ipu, tPackIpu, vpu, decoder>>

\* ipu_enableDisp or ipu_disableDisp: nothing without an IPU task.
SetDispFlag ==
  /\ ctlPc \in {"flag", "stopflag"}
  /\ iDispFlag' = (hIpuHandel /\ iDispEnable)
  /\ ctlPc' = IF ctlPc = "flag" THEN "ready" ELSE "join"
  /\ UNCHANGED <<control, hIpuHandel, iFirstIndex, iSecIndex, iNowIndex, ipuExit,
                 ipuPc, tPackIpu, vpu, decoder>>

\* CMP_CloseMedia: VDEC_StopVideoDec sets iTaskExitFlag, clears iDispEnable and
\* iDispFlag and joins the decoder thread.
StopVideoDec ==
  /\ ctlPc = "ready" /\ ctlPc' = "stopdisp"
  /\ iTaskExitFlag' = TRUE
  /\ UNCHANGED <<iDispEnable, iDecState, ipu, tPackIpu, vpu, decoder>>

StopDisp ==
  /\ ctlPc = "stopdisp" /\ ctlPc' = "stopflag"
  /\ iDispEnable' = FALSE
  /\ UNCHANGED <<iDecState, iTaskExitFlag, ipu, tPackIpu, vpu, decoder>>

\* CMP_DestroyMedia, and later a new channel.
Reopen ==
  /\ ctlPc = "join" /\ decPc = "done"
  /\ iDispEnable' = FALSE /\ iDecState' = "NO_DEC" /\ iTaskExitFlag' = FALSE
  /\ hIpuHandel' = FALSE /\ iDispFlag' = FALSE
  /\ iFirstIndex' = None /\ iSecIndex' = None /\ iNowIndex' = None
  /\ ipuExit' = FALSE /\ ipuPc' = "none"
  /\ tPackIpu' = <<>>
  /\ flagged' = {} /\ older' = {} /\ bits' = 0
  /\ hand' = None /\ next' = "NO_DEC" /\ got' = FALSE /\ decPc' = "top"
  /\ iHaveParseAndAlloc' = FALSE /\ ipuFailed' = FALSE
  /\ ctlPc' = "ready"

-----------------------------------------------------------------------------
(* The decoder thread: getting a packet.  In E_NO_DEC it only drops packets.  *)

Fetch(g, s, pc) ==
  /\ got' = g /\ next' = s /\ decPc' = pc
  /\ UNCHANGED <<control, ipu, tPackIpu, vpu, hand, setup, ctlPc>>

Leave ==
  /\ decPc = "top" /\ iTaskExitFlag /\ decPc' = "leave"
  /\ UNCHANGED <<control, ipu, tPackIpu, vpu, hand, next, got, setup, ctlPc>>

\* E_DEC_START: skip to the last I frame, or flush the queue and go on anyway.
SkipToIFrame ==
  /\ decPc = "top" /\ ~iTaskExitFlag /\ iDecState = "START"
  /\ Fetch(TRUE, "STARTING", "write") \/ Fetch(FALSE, "DISP", "write")

\* E_DEC_STARTING: until another I frame comes or the queue is empty.
AwaitIFrame ==
  /\ decPc = "top" /\ ~iTaskExitFlag /\ iDecState = "STARTING"
  /\ \/ \E g \in BOOLEAN : Fetch(g, "DISP", "write")
     \/ Fetch(TRUE, next, "fill")

NextPacket ==
  /\ decPc = "top" /\ ~iTaskExitFlag /\ iDecState = "DISP"
  /\ Fetch(TRUE, next, "fill")

\* Mutant: the state found at the top of the loop stays.
WriteDecStateNot ==
  /\ decPc = "write"
  /\ decPc' = IF got THEN "fill" ELSE "top"
  /\ UNCHANGED <<control, ipu, tPackIpu, vpu, hand, next, got, setup, ctlPc>>

\* The state read at the top of the loop is written back changed, whatever
\* the main thread has stored in between.
WriteDecState ==
  /\ decPc = "write"
  /\ iDecState' = next
  /\ decPc' = IF got THEN "fill" ELSE "top"
  /\ UNCHANGED <<iDispEnable, iTaskExitFlag, ipu, tPackIpu, vpu, hand, next, got,
                 setup, ctlPc>>

\* dec_fill_bsbuffer: not every packet ends a picture.  The first packets are
\* parsed, then the frame buffers are allocated.
FillBitstream ==
  /\ decPc = "fill" /\ decPc' = "inner"
  /\ bits' \in {bits, bits + 1} /\ bits' <= MaxBits
  /\ iHaveParseAndAlloc' = TRUE
  /\ UNCHANGED <<ipuFailed, control, ipu, tPackIpu, flagged, older, hand, next, got, ctlPc>>

\* A full buffer drops the packet.
FillFails ==
  /\ decPc = "fill" /\ decPc' = "top"
  /\ UNCHANGED <<control, ipu, tPackIpu, vpu, hand, next, got, setup, ctlPc>>

ParseFails ==
  /\ decPc = "fill" /\ ~iHaveParseAndAlloc /\ decPc' = "top"
  /\ bits' \in {bits, bits + 1} /\ bits' <= MaxBits
  /\ UNCHANGED <<control, ipu, tPackIpu, flagged, older, hand, next, got,
                 setup, ctlPc>>

AllocFails ==
  /\ decPc = "fill" /\ ~iHaveParseAndAlloc /\ decPc' = "leave"
  /\ UNCHANGED <<control, ipu, tPackIpu, vpu, hand, next, got, setup, ctlPc>>

-----------------------------------------------------------------------------
(* The decoder thread: decoding what the bitstream buffer holds.             *)

\* vpu_DecClrDispFlag for every index queued in tPackIpu.
DecClrDispFlag ==
  /\ decPc = "inner" /\ tPackIpu # <<>>
  /\ tPackIpu' = Tail(tPackIpu)
  /\ flagged' = flagged \ {Head(tPackIpu)}
  /\ older' = {p \in older : Head(tPackIpu) \notin {p[1], p[2]}}
  /\ UNCHANGED <<control, ipu, bits, decoder, ctlPc>>

StartOneFrame ==
  /\ decPc = "inner" /\ tPackIpu = <<>> /\ decPc' = "start"
  /\ UNCHANGED <<control, ipu, tPackIpu, vpu, hand, next, got, setup, ctlPc>>

\* vpu_DecStartOneFrame and vpu_DecGetOutputInfo: picture f.
Output(f) ==
  /\ decPc = "start" /\ bits > 0 /\ f \notin flagged
  /\ flagged' = flagged \cup {f}
  /\ older' = older \cup {<<g, f>> : g \in flagged}
  /\ bits' = bits - 1
  /\ UNCHANGED <<tPackIpu, next, got, setup, ctlPc>>

\* The first picture gives the size for the IPU task.
OutputPicture ==
  /\ \E f \in Frame : Output(f) /\ hand' = f
  /\ decPc' = IF hIpuHandel THEN "send" ELSE "create"
  /\ UNCHANGED <<control, ipu>>

\* Another size ends the thread.
ResolutionChanged ==
  /\ hIpuHandel
  /\ \E f \in Frame : Output(f) /\ hand' = f
  /\ iTaskExitFlag' = TRUE /\ decPc' = "leave"
  /\ UNCHANGED <<iDispEnable, iDecState, ipu>>

\* Without an IPU task a picture of the size that failed is neither shown nor
\* given back: its flag stays set.
OutputUnseen ==
  /\ ~hIpuHandel /\ ipuFailed
  /\ \E f \in Frame : Output(f)
  /\ hand' = None /\ decPc' = "inner"
  /\ UNCHANGED <<control, ipu>>

\* No picture: too few bits, no free frame, or one decoded but not yet due.
NoPicture ==
  /\ decPc = "start" /\ decPc' = "top"
  /\ bits' \in {bits, bits - 1} /\ bits' >= 0
  /\ UNCHANGED <<control, ipu, tPackIpu, flagged, older, hand, next, got,
                 setup, ctlPc>>

DecodeFails ==
  /\ decPc = "start" /\ decPc' = "top"
  /\ iTaskExitFlag' = TRUE
  /\ UNCHANGED <<iDispEnable, iDecState, ipu, tPackIpu, vpu, hand, next, got,
                 setup, ctlPc>>

\* ipu_createtask fails: the size is stored already, so only a picture of
\* another size tries again.
CreateFails ==
  /\ decPc = "create" /\ decPc' = "inner"
  /\ hand' = None /\ ipuFailed' = TRUE
  /\ UNCHANGED <<control, ipu, tPackIpu, vpu, next, got, iHaveParseAndAlloc, ctlPc>>

\* It starts the display thread with the display off ...
CreateTask ==
  /\ decPc = "create" /\ decPc' = "ask"
  /\ hIpuHandel' = TRUE /\ iDispFlag' = FALSE
  /\ ipuExit' = FALSE /\ ipuPc' = "idle"
  /\ UNCHANGED <<control, iFirstIndex, iSecIndex, iNowIndex, tPackIpu, vpu, hand,
                 next, got, setup, ctlPc>>

\* Mutant: a new IPU task is left disabled.
AskDispEnableNever ==
  /\ decPc = "ask" /\ decPc' = "send"
  /\ UNCHANGED <<control, ipu, tPackIpu, vpu, hand, next, got, setup, ctlPc>>

\* ... and the decoder asks whether it is wanted meanwhile ...
AskDispEnable ==
  /\ decPc = "ask" /\ decPc' = IF iDispEnable THEN "enable" ELSE "send"
  /\ UNCHANGED <<control, ipu, tPackIpu, vpu, hand, next, got, setup, ctlPc>>

\* ... to enable it then.
EnableDisp ==
  /\ decPc = "enable" /\ decPc' = "send"
  /\ iDispFlag' = TRUE
  /\ UNCHANGED <<control, hIpuHandel, iFirstIndex, iSecIndex, iNowIndex, ipuExit, ipuPc,
                 tPackIpu, vpu, hand, next, got, setup, ctlPc>>

\* ipu_senddisaddr: without display the frame is left alone.
SendRefused ==
  /\ decPc = "send" /\ ~iDispFlag /\ decPc' = "inner"
  /\ hand' = None
  /\ UNCHANGED <<control, ipu, tPackIpu, vpu, next, got, setup, ctlPc>>

SendAccepted ==
  /\ decPc = "send" /\ iDispFlag /\ decPc' = "put"
  /\ UNCHANGED <<control, ipu, tPackIpu, vpu, hand, next, got, setup, ctlPc>>

\* Mutant: a full mailbox drops its oldest frame in place.
PutReplacesFirst ==
  /\ decPc = "put" /\ decPc' = "inner"
  /\ IF iFirstIndex = None
       THEN iFirstIndex' = hand /\ UNCHANGED <<iSecIndex, tPackIpu>>
       ELSE IF iSecIndex = None
         THEN iSecIndex' = hand /\ UNCHANGED <<iFirstIndex, tPackIpu>>
         ELSE /\ Len(tPackIpu) <= QueueMax /\ tPackIpu' = Append(tPackIpu, iFirstIndex)
              /\ iFirstIndex' = hand /\ UNCHANGED iSecIndex
  /\ hand' = None
  /\ UNCHANGED <<control, hIpuHandel, iDispFlag, iNowIndex, ipuExit, ipuPc, vpu,
                 next, got, setup, ctlPc>>

\* Under hIndexMutex: the mailbox keeps its oldest and the newest frame; a
\* frame overwritten before it was shown goes straight back.
Put ==
  /\ decPc = "put" /\ decPc' = "inner"
  /\ IF iFirstIndex = None
       THEN iFirstIndex' = hand /\ UNCHANGED <<iSecIndex, tPackIpu>>
       ELSE /\ iSecIndex' = hand
            /\ IF iSecIndex = None THEN UNCHANGED tPackIpu
               ELSE Len(tPackIpu) <= QueueMax /\ tPackIpu' = Append(tPackIpu, iSecIndex)
            /\ UNCHANGED iFirstIndex
  /\ hand' = None
  /\ UNCHANGED <<control, hIpuHandel, iDispFlag, iNowIndex, ipuExit, ipuPc, vpu,
                 next, got, setup, ctlPc>>

\* ipu_destroytask joins the display thread.
DestroyTask ==
  /\ decPc = "leave"
  /\ IF hIpuHandel THEN ipuExit' = TRUE /\ decPc' = "join"
                   ELSE decPc' = "done" /\ UNCHANGED ipuExit
  /\ UNCHANGED <<control, hIpuHandel, iDispFlag, iFirstIndex, iSecIndex, iNowIndex, ipuPc,
                 tPackIpu, vpu, hand, next, got, setup, ctlPc>>

\* Mutant: the handle of the freed task is kept.
FreeTaskKeepsHandle ==
  /\ decPc = "join" /\ ipuPc = "done" /\ decPc' = "leave"
  /\ UNCHANGED hIpuHandel /\ iDispFlag' = FALSE
  /\ iFirstIndex' = None /\ iSecIndex' = None /\ hand' = None
  /\ UNCHANGED <<control, iNowIndex, ipuExit, ipuPc, tPackIpu, vpu, next, got,
                 setup, ctlPc>>

FreeTask ==
  /\ decPc = "join" /\ ipuPc = "done" /\ decPc' = "leave"
  /\ hIpuHandel' = FALSE /\ iDispFlag' = FALSE
  /\ iFirstIndex' = None /\ iSecIndex' = None /\ hand' = None
  /\ UNCHANGED <<control, iNowIndex, ipuExit, ipuPc, tPackIpu, vpu, next, got,
                 setup, ctlPc>>

-----------------------------------------------------------------------------
(* The display thread                                                        *)

\* Mutant: the second place is copied but not emptied.
TakeKeepsSec ==
  /\ ipuPc = "idle" /\ ~ipuExit /\ iFirstIndex # None /\ iDispFlag
  /\ ipuPc' = "check"
  /\ iNowIndex' = iFirstIndex /\ iFirstIndex' = iSecIndex /\ iSecIndex' = iSecIndex
  /\ UNCHANGED <<control, hIpuHandel, iDispFlag, ipuExit, tPackIpu, vpu, decoder, ctlPc>>

\* Under hIndexMutex, once the display is on: take the older frame.
Take ==
  /\ ipuPc = "idle" /\ ~ipuExit /\ iFirstIndex # None /\ iDispFlag
  /\ ipuPc' = "check"
  /\ iNowIndex' = iFirstIndex /\ iFirstIndex' = iSecIndex /\ iSecIndex' = None
  /\ UNCHANGED <<control, hIpuHandel, iDispFlag, ipuExit, tPackIpu, vpu, decoder, ctlPc>>

\* VPU_DecClrDispFlagCallback
GiveBack ==
  /\ Len(tPackIpu) <= QueueMax
  /\ tPackIpu' = Append(tPackIpu, iNowIndex)
  /\ iNowIndex' = None
  /\ ipuPc' = "idle"
  /\ UNCHANGED <<control, hIpuHandel, iDispFlag, iFirstIndex, iSecIndex, ipuExit,
                 vpu, decoder, ctlPc>>

\* Switched off since it was taken.
GiveBackHidden == ipuPc = "check" /\ ~iDispFlag /\ GiveBack

CheckOn ==
  /\ ipuPc = "check" /\ iDispFlag /\ ipuPc' = "draw"
  /\ UNCHANGED <<control, hIpuHandel, iDispFlag, iFirstIndex, iSecIndex, iNowIndex, ipuExit,
                 tPackIpu, vpu, decoder, ctlPc>>

\* IPU_QUEUE_TASK scales the frame onto the screen.
Draw == ipuPc = "draw" /\ GiveBack

\* It fails: the loop goes on, without the callback.
DrawFails ==
  /\ ipuPc = "draw" /\ ipuPc' = "idle"
  /\ iNowIndex' = None
  /\ UNCHANGED <<control, hIpuHandel, iDispFlag, iFirstIndex, iSecIndex, ipuExit,
                 tPackIpu, vpu, decoder, ctlPc>>

IpuExit ==
  /\ ipuPc = "idle" /\ ipuExit /\ ipuPc' = "done"
  /\ UNCHANGED <<control, hIpuHandel, iDispFlag, iFirstIndex, iSecIndex, iNowIndex, ipuExit,
                 tPackIpu, vpu, decoder, ctlPc>>

-----------------------------------------------------------------------------
Decode ==
  \/ SkipToIFrame \/ AwaitIFrame \/ NextPacket \/ WriteDecState \/ FillBitstream
  \/ DecClrDispFlag \/ StartOneFrame \/ OutputPicture \/ NoPicture
  \/ CreateTask \/ AskDispEnable \/ EnableDisp \/ SendRefused \/ SendAccepted \/ Put
DecoderEnds == Leave \/ DestroyTask \/ FreeTask
DecoderFails ==
  \/ FillFails \/ ParseFails \/ AllocFails \/ DecodeFails \/ ResolutionChanged
  \/ OutputUnseen \/ CreateFails
Decoder == Decode \/ DecoderEnds \/ DecoderFails

Show == Take \/ GiveBackHidden \/ CheckOn \/ Draw
Ipu  == Show \/ DrawFails \/ IpuExit

Finish == SetDecState \/ SetDispFlag \/ StopDisp \/ Reopen
Main   == (\E on \in BOOLEAN : SetWndDisplayEnable(on)) \/ StopVideoDec \/ Finish

Next == Main \/ Decoder \/ Ipu

Spec == Init /\ [][Next]_vars

\* Every thread runs.
FairSpec == Spec /\ WF_vars(Decoder) /\ WF_vars(Ipu) /\ WF_vars(Finish)

-----------------------------------------------------------------------------
(* Properties *)

TypeOK ==
  /\ iDispEnable \in BOOLEAN /\ iTaskExitFlag \in BOOLEAN
  /\ iDecState \in {"NO_DEC", "START", "STARTING", "DISP"}
  /\ hIpuHandel \in BOOLEAN /\ iDispFlag \in BOOLEAN /\ ipuExit \in BOOLEAN
  /\ {iFirstIndex, iSecIndex, iNowIndex, hand} \subseteq Frame \cup {None}
  /\ tPackIpu \in Seq(Frame)
  /\ flagged \subseteq Frame /\ older \subseteq flagged \X flagged
  /\ bits \in 0 .. MaxBits
  /\ next \in {"NO_DEC", "STARTING", "DISP"} /\ got \in BOOLEAN
  /\ iHaveParseAndAlloc \in BOOLEAN /\ ipuFailed \in BOOLEAN
  /\ decPc \in {"top", "write", "fill", "inner", "start", "create", "ask", "enable", "send", "put",
                "leave", "join", "done"}
  /\ ipuPc \in {"none", "idle", "check", "draw", "done"}
  /\ ctlPc \in {"ready", "dec", "flag", "stopdisp", "stopflag", "join"}

\* The places a frame passes on its way to the screen, oldest first.
Place == <<iNowIndex, iFirstIndex, iSecIndex, hand>>

\* The frame has been given back and waits for the decoder.
Queued(f) == \E k \in 1 .. Len(tPackIpu) : tPackIpu[k] = f

\* A frame is in at most one place at a time, and while it is in one the VPU
\* does not decode into it: no index is lost twice, queued twice or drawn while
\* it is overwritten.
OneOwner ==
  /\ \A i, j \in 1 .. 4 : Place[i] # None /\ Place[i] = Place[j] => i = j
  /\ \A i \in 1 .. 4 : Place[i] # None => Place[i] \in flagged /\ ~Queued(Place[i])
  /\ \A k, m \in 1 .. Len(tPackIpu) : tPackIpu[k] = tPackIpu[m] => k = m
  /\ \A k \in 1 .. Len(tPackIpu) : tPackIpu[k] \in flagged

\* The mailbox drops frames but never swaps them: the picture never jumps back.
InOrder ==
  \A i, j \in 1 .. 4 :
    i < j /\ Place[i] # None /\ Place[j] # None => <<Place[i], Place[j]>> \in older

\* packet_queue_put of a finished frame never has to wait: the decoder, which
\* empties tPackIpu, calls it itself, holding hIndexMutex.
PutNeverWaits == Len(tPackIpu) <= QueueMax

\* When the main thread and the decoder are through with their own steps, an IPU
\* task of a shown picture displays, whichever of the two set its flag.
ShownIsDisplayed ==
  ctlPc = "ready" /\ iDispEnable /\ hIpuHandel /\ decPc \notin {"create", "ask", "enable"}
    => iDispFlag

\* Closing a channel always returns.
StopReturns == ctlPc = "stopdisp" ~> ctlPc = "ready"

\* No frame is lost: a flagged frame is in some place or on its way back.
NoFrameLost == \A f \in flagged : Queued(f) \/ \E i \in 1 .. 4 : Place[i] = f

\* The memory of a frame is released even if it is not displayed, as the comment
\* in ipu_senddisaddr asks: none is lost while no IPU task has failed to start.
UnshownIsReleased == ~ipuFailed => NoFrameLost

\* A picture that stays shown keeps moving, whatever was done to it before, while
\* the camera sends and the VPU decodes - unless a frame was lost.
PictureMoves ==
  /\ <>[][SetWndDisplayEnable(TRUE) \/ Finish \/ Decode \/ Show]_vars
  /\ <>[](iDispEnable /\ decPc # "done" /\ NoFrameLost)
  /\ SF_vars(NextPacket) /\ SF_vars(FillBitstream /\ bits' > bits) /\ SF_vars(OutputPicture)
  => []<><<Draw>>_vars

=============================================================================
