---------------------------- MODULE PacketQueue ----------------------------
(***************************************************************************)
(* The packets between the stream thread and the decoder thread: the queue   *)
(* of src/cctv/vdec/commondef.c, VDEC_SendVideoStream which fills it, the    *)
(* head of the decoder's loop which empties it, and VDEC_VideoDecDisp by     *)
(* which the main thread makes the decoder start and stop (src/cctv/vdec/    *)
(* vdec.c).  What the decoder does with a packet is FrameFlow's.             *)
(*                                                                         *)
(* One step is one critical section of the queue's mutex or one access to    *)
(* iDecState, iDispEnable or iTaskExitFlag, which no mutex protects: both    *)
(* threads compare iDecState with one state after the other and may find     *)
(* another value each time.  Packets are numbered as they come.              *)
(***************************************************************************)
EXTENDS Integers, Sequences, FiniteSetsExt

CONSTANTS
  Limit,      \* packets above which packet_queue_put waits; 100
  NoDecKeep,  \* packets above which an undecoded one is dropped; 50
  Gop,        \* every Gop-th packet is an I frame
  MaxPkt      \* packets of the stream

ASSUME QueueAssumption ==
  /\ Limit \in Nat /\ NoDecKeep \in 0 .. Limit /\ Gop \in Nat \ {0, 1} /\ MaxPkt \in Nat

VARIABLES
  tPacketQueue,
  iDecState, iDispEnable, iTaskExitFlag,
  ctlPc,               \* main thread: between its two assignments?
  feedPc, iIFrameFlag, \* stream thread, and the flag of the packet in its hand
  npkt,                \* packets it has got
  decPc, iPktNum, ptIFrameList, \* decoder thread
  next,                \* the state it will store
  iHaveParseAndAlloc,
  lastFed,             \* history: the last packet it took to decode
  flushed, torn,       \* history: flushed since then? did the comparisons of
                       \* this turn miss a state that changed in between?
  seen                 \* history: the last packet put before the last search

control == <<iDecState, iDispEnable, iTaskExitFlag>>
feeder  == <<feedPc, iIFrameFlag, npkt>>
decoder == <<decPc, iPktNum, ptIFrameList, next, iHaveParseAndAlloc>>
history == <<lastFed, flushed, torn, seen>>
vars    == <<tPacketQueue, control, ctlPc, feeder, decoder, history>>

None == 0

IsIFrame(n) == n % Gop = 1

Init ==
  /\ tPacketQueue = <<>>
  /\ iDecState = "NO_DEC" /\ iDispEnable = FALSE /\ iTaskExitFlag = FALSE
  /\ ctlPc = "ready"
  /\ feedPc = "idle" /\ iIFrameFlag = FALSE /\ npkt = 0
  /\ decPc = "num" /\ iPktNum = 0 /\ ptIFrameList = None /\ next = "DISP"
  /\ iHaveParseAndAlloc = FALSE
  /\ lastFed = 0 /\ flushed = FALSE /\ torn = FALSE /\ seen = 0

-----------------------------------------------------------------------------
(* The main thread: CMP_SetWndDisplayEnable and VDEC_VideoDecDisp *)

SetWndDisplayEnable(on) ==
  /\ ctlPc = "ready" /\ (iDispEnable # on \/ (iDecState # "NO_DEC") # on)
  /\ iDispEnable' = on /\ ctlPc' = "dec"
  /\ UNCHANGED <<tPacketQueue, iDecState, iTaskExitFlag, feeder, decoder, history>>

\* Mutant: the picture starts without looking for an I frame.
SetDecStateDisp ==
  /\ ctlPc = "dec" /\ ctlPc' = "ready"
  /\ iDecState' = IF iDispEnable THEN "DISP" ELSE "NO_DEC"
  /\ UNCHANGED <<tPacketQueue, iDispEnable, iTaskExitFlag, feeder, decoder, history>>

SetDecState ==
  /\ ctlPc = "dec" /\ ctlPc' = "ready"
  /\ iDecState' = IF iDispEnable THEN "START" ELSE "NO_DEC"
  /\ UNCHANGED <<tPacketQueue, iDispEnable, iTaskExitFlag, feeder, decoder, history>>

-----------------------------------------------------------------------------
(* The stream thread: VDEC_SendVideoStream *)

Feed(pc) == feedPc' = pc /\ UNCHANGED <<control, ctlPc, npkt, decoder, history>>

\* For a decoder that ends or has failed a packet is dropped.
NewPacket ==
  /\ feedPc = "idle" /\ npkt < MaxPkt /\ npkt' = npkt + 1 /\ iIFrameFlag' = FALSE
  /\ feedPc' = IF iTaskExitFlag THEN "idle" ELSE "isNoDec"
  /\ UNCHANGED <<tPacketQueue, control, ctlPc, decoder, history>>

\* I frames are marked in these three states, not while the picture shows.
FlagIf(here, s, else) ==
  /\ feedPc = here
  /\ IF iDecState = s THEN iIFrameFlag' = IsIFrame(npkt) /\ Feed("limit")
     ELSE UNCHANGED iIFrameFlag /\ Feed(else)
  /\ UNCHANGED tPacketQueue

FlagPacket ==
  \/ FlagIf("isNoDec", "NO_DEC", "isStart")
  \/ FlagIf("isStart", "START", "isStarting")
  \/ FlagIf("isStarting", "STARTING", "limit")

\* Mutant: a full queue loses its oldest packet.
CheckLimitDropsOldest ==
  /\ feedPc = "limit"
  /\ tPacketQueue' = IF Len(tPacketQueue) > Limit THEN Tail(tPacketQueue) ELSE tPacketQueue
  /\ Feed("insert") /\ UNCHANGED iIFrameFlag

\* packet_queue_put waits while the queue is full; the mutex is released and
\* taken again before the packet is put.
CheckLimit ==
  /\ feedPc = "limit" /\ Len(tPacketQueue) <= Limit
  /\ Feed("insert") /\ UNCHANGED <<tPacketQueue, iIFrameFlag>>

Insert ==
  /\ feedPc = "insert"
  /\ tPacketQueue' = Append(tPacketQueue, [num |-> npkt, iIFrameFlag |-> iIFrameFlag])
  /\ Feed("idle") /\ UNCHANGED iIFrameFlag

Feeder == NewPacket \/ FlagPacket \/ CheckLimit \/ Insert

-----------------------------------------------------------------------------
(* The decoder thread: vpu_vdec_loop up to dec_fill_bsbuffer *)

Dec(pc) == decPc' = pc /\ UNCHANGED <<ctlPc, feeder, iDispEnable, iTaskExitFlag, iHaveParseAndAlloc>>

GetPacketNum ==
  /\ decPc = "num" /\ ~iTaskExitFlag /\ Dec("isNoDec")
  /\ iPktNum' = Len(tPacketQueue) /\ torn' = FALSE
  /\ UNCHANGED <<tPacketQueue, iDecState, ptIFrameList, next, lastFed, flushed, seen>>

Compare(here, s, then, else) ==
  /\ decPc = here /\ Dec(IF iDecState = s THEN then ELSE else)
  /\ UNCHANGED <<tPacketQueue, iDecState, iPktNum, ptIFrameList, lastFed, flushed, seen>>

\* Mutant: the queue is left to fill.
CompareNoDecKeepsAll ==
  /\ Compare("isNoDec", "NO_DEC", IF iPktNum > Limit + 1 THEN "drop" ELSE "num", "isStart")
  /\ UNCHANGED <<next, torn>>

CompareNoDec ==
  /\ Compare("isNoDec", "NO_DEC", IF iPktNum > NoDecKeep THEN "drop" ELSE "num", "isStart")
  /\ UNCHANGED <<next, torn>>

CompareStart ==
  /\ Compare("isStart", "START", "find", "isStarting")
  /\ next' = "STARTING" /\ UNCHANGED torn

CompareStarting ==
  /\ Compare("isStarting", "STARTING", "look", "get")
  /\ next' = "DISP" /\ torn' = (iDecState \in {"NO_DEC", "START"})

Drop ==
  /\ decPc = "drop" /\ Dec("num")
  /\ tPacketQueue' = Tail(tPacketQueue)
  /\ UNCHANGED <<iDecState, iPktNum, ptIFrameList, next, history>>

\* packet_queue_get: packet i is the decoder's, those before it are freed.
TakeAt(i, pc) ==
  /\ lastFed' = tPacketQueue[i].num /\ flushed' = FALSE
  /\ tPacketQueue' = SubSeq(tPacketQueue, i + 1, Len(tPacketQueue))
  /\ Dec(pc)
  /\ UNCHANGED <<iDecState, iPktNum, ptIFrameList, next, torn, seen>>

Marked == {i \in DOMAIN tPacketQueue : tPacketQueue[i].iIFrameFlag}

\* Mutant: only the oldest packet is looked at.
FindIFrameFromeQueueHead ==
  IF 1 \in Marked THEN tPacketQueue[1].num ELSE None

\* The last I frame that is marked.
FindIFrameFromeQueue ==
  IF Marked = {} THEN None ELSE tPacketQueue[Max(Marked)].num

\* E_DEC_STARTING asks first whether there is another I frame.
Look ==
  /\ decPc = "look" /\ Dec(IF FindIFrameFromeQueue = None THEN "getStarting" ELSE "find")
  /\ UNCHANGED <<tPacketQueue, iDecState, iPktNum, ptIFrameList, next, history>>

\* packet_queue_get_first_IFrame finds it in one critical section ...
Find ==
  /\ decPc = "find" /\ Dec(IF FindIFrameFromeQueue = None THEN "flush" ELSE "take")
  /\ ptIFrameList' = FindIFrameFromeQueue
  /\ seen' = IF tPacketQueue = <<>> THEN seen ELSE tPacketQueue[Len(tPacketQueue)].num
  /\ UNCHANGED <<tPacketQueue, iDecState, iPktNum, next, lastFed, flushed, torn>>

\* Mutant: the packet found stays in the queue.
TakeKeeps ==
  /\ decPc = "take"
  /\ \E i \in DOMAIN tPacketQueue :
       /\ tPacketQueue[i].num = ptIFrameList
       /\ lastFed' = ptIFrameList /\ flushed' = FALSE
       /\ tPacketQueue' = SubSeq(tPacketQueue, i, Len(tPacketQueue)) /\ Dec("store")
       /\ UNCHANGED <<iDecState, iPktNum, ptIFrameList, next, torn, seen>>

\* ... and takes it in another, with those before it freed.
Take ==
  /\ decPc = "take"
  /\ \E i \in DOMAIN tPacketQueue : tPacketQueue[i].num = ptIFrameList /\ TakeAt(i, "store")

\* Without an I frame the queue is flushed, in a critical section of its own.
Flush ==
  /\ decPc = "flush"
  /\ tPacketQueue' = <<>> /\ flushed' = TRUE /\ next' = "DISP"
  /\ Dec(IF next = "STARTING" THEN "storeEmpty" ELSE "store")
  /\ UNCHANGED <<iDecState, iPktNum, ptIFrameList, lastFed, torn, seen>>

GetStarting ==
  /\ decPc = "getStarting"
  /\ IF tPacketQueue # <<>> THEN TakeAt(1, "decode")
     ELSE Dec("storeEmpty")
          /\ UNCHANGED <<tPacketQueue, iDecState, iPktNum, ptIFrameList, next, history>>

Get ==
  /\ decPc = "get"
  /\ IF tPacketQueue # <<>> THEN TakeAt(1, "decode")
     ELSE Dec("num")
          /\ UNCHANGED <<tPacketQueue, iDecState, iPktNum, ptIFrameList, next, history>>

\* The next state is stored, whatever the main thread stored meanwhile.
StoreDecState ==
  /\ decPc \in {"store", "storeEmpty"}
  /\ Dec(IF decPc = "store" THEN "decode" ELSE "num")
  /\ iDecState' = next
  /\ UNCHANGED <<tPacketQueue, iPktNum, ptIFrameList, next, history>>

\* A packet that cannot be filled in, parsed or decoded is skipped.
Decode ==
  /\ decPc = "decode" /\ decPc' = "num"
  /\ iHaveParseAndAlloc' \in {iHaveParseAndAlloc, TRUE}
  /\ UNCHANGED <<tPacketQueue, control, ctlPc, feeder, iPktNum, ptIFrameList, next, history>>

\* Without memory for its frames the thread ends, and no one is told.
AllocFails ==
  /\ decPc = "decode" /\ ~iHaveParseAndAlloc /\ decPc' = "ended"
  /\ UNCHANGED <<tPacketQueue, control, ctlPc, feeder, iPktNum, ptIFrameList, next,
                 iHaveParseAndAlloc, history>>

\* The VPU fails or the resolution changes.
DecodeFails ==
  /\ decPc = "decode" /\ decPc' = "num"
  /\ iHaveParseAndAlloc' = TRUE /\ iTaskExitFlag' = TRUE
  /\ UNCHANGED <<tPacketQueue, iDecState, iDispEnable, ctlPc, feeder, iPktNum,
                 ptIFrameList, next, history>>

Leave ==
  /\ decPc = "num" /\ iTaskExitFlag /\ Dec("ended")
  /\ UNCHANGED <<tPacketQueue, iDecState, iPktNum, ptIFrameList, next, history>>

Decoder ==
  \/ GetPacketNum \/ CompareNoDec \/ CompareStart \/ CompareStarting \/ Drop
  \/ Look \/ Find \/ Take \/ Flush \/ GetStarting \/ Get \/ StoreDecState
  \/ Decode \/ AllocFails \/ DecodeFails \/ Leave

Next ==
  \/ \E on \in BOOLEAN : SetWndDisplayEnable(on)
  \/ SetDecState \/ Feeder \/ Decoder

Spec == Init /\ [][Next]_vars

\* The threads go on; the stream may end.
FairSpec == Spec /\ WF_vars(Decoder) /\ WF_vars(CheckLimit)

-----------------------------------------------------------------------------
(* Properties *)

\* What waits is newer than what was decoded, in the order it came, without a
\* hole and nothing twice; the newest is the last that came, until the decoder ends.
InOrder ==
  \A i \in DOMAIN tPacketQueue :
    /\ tPacketQueue[i].num > lastFed
    /\ tPacketQueue[i].num = tPacketQueue[1].num + i - 1
    /\ ~iTaskExitFlag =>
         tPacketQueue[i].num = npkt - (IF feedPc = "idle" THEN 0 ELSE 1) - Len(tPacketQueue) + i

\* However late the stream thread puts what it had room for, the queue holds one
\* packet more than the limit at most.
QueueBound == Len(tPacketQueue) <= Limit + 1

\* What packet_queue_get_first_IFrame found with the mutex still holds when it
\* has the mutex again: the I frame is there, or there is none but newer ones.
SearchStillHolds ==
  /\ decPc = "take" => \E i \in Marked : tPacketQueue[i].num = ptIFrameList
  /\ decPc = "flush" => \A i \in Marked : tPacketQueue[i].num > seen

\* When packets were left out the decoder goes on with an I frame - unless it
\* found none and flushed, or the state changed between two comparisons.
GapOnlyBeforeIFrame ==
  [][lastFed' \notin {lastFed, lastFed + 1} /\ ~flushed /\ ~torn => IsIFrame(lastFed')]_vars

\* A put does not wait for ever while the decoder thread lives.
PutReturns == feedPc = "limit" ~> feedPc = "insert" \/ decPc = "ended"

\* When a picture is wanted, a marked I frame that waits for it is decoded, or a
\* later packet is - unless it came between the search and the flush, or the
\* decoder was already dropping packets.
IFrameIsDecoded ==
  \A n \in 1 .. MaxPkt :
    /\ iDecState = "START" /\ decPc \notin {"flush", "drop"}
    /\ \E i \in Marked : tPacketQueue[i].num = n
    ~> lastFed >= n \/ iDecState = "NO_DEC" \/ decPc = "ended"
=============================================================================
