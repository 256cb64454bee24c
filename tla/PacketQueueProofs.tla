------------------------- MODULE PacketQueueProofs -------------------------
(***************************************************************************)
(* The safety of the packet queue, for any limits, any distance of the I    *)
(* frames and any number of packets.  Whatever the decoder thread does to    *)
(* the queue removes packets at its head (Cut), and only Insert adds one.   *)
(* On top of the types: OrderInv, the numbers that wait; MarkInv, only I     *)
(* frames are marked; PlaceInv, what a place of the decoder thread says of   *)
(* the queue and the state; GapInv, what the decoder thread must still do    *)
(* when packets are missing before the first that waits.                    *)
(***************************************************************************)
EXTENDS PacketQueue, SequenceTheorems, WellFoundedInduction, TLAPS

DecStates == {"NO_DEC", "START", "STARTING", "DISP"}
Packet    == [num : Nat, iIFrameFlag : BOOLEAN]

ControlType ==
  /\ iDecState \in DecStates /\ iDispEnable \in BOOLEAN /\ iTaskExitFlag \in BOOLEAN
  /\ ctlPc \in {"ready", "dec"}

FeedType ==
  /\ feedPc \in {"idle", "isNoDec", "isStart", "isStarting", "limit", "insert"}
  /\ iIFrameFlag \in BOOLEAN /\ npkt \in Nat
  /\ feedPc # "idle" => npkt > 0

DecType ==
  /\ decPc \in {"num", "isNoDec", "isStart", "isStarting", "drop", "look", "find", "take",
                "flush", "getStarting", "get", "store", "storeEmpty", "decode", "ended"}
  /\ iPktNum \in Nat /\ next \in {"STARTING", "DISP"}
  /\ lastFed \in Nat /\ seen \in Nat
  /\ flushed \in BOOLEAN /\ torn \in BOOLEAN

TypeInv == tPacketQueue \in Seq(Packet) /\ ControlType /\ FeedType /\ DecType

\* Packets that are not in the stream thread's hand any more.
Held == npkt - (IF feedPc = "idle" THEN 0 ELSE 1)

\* Once the decoder has failed packets are dropped before the queue.
Feeding == feedPc # "idle" \/ ~iTaskExitFlag

OrderInv ==
  /\ lastFed <= Held /\ seen <= Held
  /\ \A i \in DOMAIN tPacketQueue : lastFed < tPacketQueue[i].num /\ tPacketQueue[i].num <= Held
  /\ \A i \in DOMAIN tPacketQueue : tPacketQueue[i].num = tPacketQueue[1].num + i - 1
  /\ Feeding => \A i \in DOMAIN tPacketQueue : tPacketQueue[i].num = Held - Len(tPacketQueue) + i

MarkInv ==
  /\ iIFrameFlag => IsIFrame(npkt)
  /\ \A i \in Marked : IsIFrame(tPacketQueue[i].num)

PlaceInv ==
  /\ iTaskExitFlag => decPc \in {"num", "ended"}
  /\ decPc = "isNoDec" => iPktNum <= Len(tPacketQueue)
  /\ decPc = "drop" => tPacketQueue # <<>> /\ iDecState \in {"NO_DEC", "START"}

\* No packet is missing between the last one decoded and those that wait.
Closed == lastFed = Held - Len(tPacketQueue)

\* One may be missing: the decoder thread will look for an I frame, or has found
\* two states in one turn.
Open ==
  \/ decPc \in {"find", "take", "flush"}
  \/ /\ iDecState \in {"NO_DEC", "START"}
     /\ decPc \in {"num", "isNoDec", "isStart", "isStarting", "drop", "get"}
     /\ decPc = "get" => torn

GapInv == ~iTaskExitFlag => Closed \/ flushed \/ Open

RoomInv ==
  /\ QueueBound
  /\ feedPc = "insert" => Len(tPacketQueue) <= Limit

-----------------------------------------------------------------------------
(* What the decoder thread does to the queue *)

\* k packets are removed at the head.
Cut(k) ==
  /\ tPacketQueue' \in Seq(Packet) /\ Len(tPacketQueue') = Len(tPacketQueue) - k
  /\ \A i \in 1 .. Len(tPacketQueue') : tPacketQueue'[i] = tPacketQueue[i + k]

LEMMA CutNone == TypeInv /\ UNCHANGED tPacketQueue => Cut(0)
<1> SUFFICES ASSUME TypeInv, UNCHANGED tPacketQueue PROVE Cut(0)  OBVIOUS
<1>1. tPacketQueue \in Seq(Packet) /\ Len(tPacketQueue) \in Nat  BY DEF TypeInv
<1>2. \A i \in 1 .. Len(tPacketQueue) : i + 0 = i  BY <1>1
<1> QED  BY <1>1, <1>2 DEF Cut

LEMMA CutTail == TypeInv /\ PlaceInv /\ Drop => 1 <= Len(tPacketQueue) /\ Cut(1)
<1> SUFFICES ASSUME TypeInv, PlaceInv, Drop PROVE 1 <= Len(tPacketQueue) /\ Cut(1)  OBVIOUS
<1>1. tPacketQueue \in Seq(Packet) /\ tPacketQueue # <<>>  BY DEF TypeInv, PlaceInv, Drop
<1>2. tPacketQueue' = Tail(tPacketQueue)  BY DEF Drop
<1>3. /\ Tail(tPacketQueue) \in Seq(Packet) /\ Len(Tail(tPacketQueue)) = Len(tPacketQueue) - 1
      /\ \A i \in 1 .. Len(Tail(tPacketQueue)) : Tail(tPacketQueue)[i] = tPacketQueue[i + 1]
  BY <1>1, HeadTailProperties
<1>4. 1 <= Len(tPacketQueue)  BY <1>1, EmptySeq
<1> QED  BY <1>2, <1>3, <1>4 DEF Cut

LEMMA CutTake ==
  ASSUME TypeInv, NEW i \in DOMAIN tPacketQueue, NEW pc, TakeAt(i, pc)
  PROVE  i \in 1 .. Len(tPacketQueue) /\ Cut(i)
<1> DEFINE n == Len(tPacketQueue)
<1>1. tPacketQueue \in Seq(Packet) /\ n \in Nat /\ i \in 1 .. n  BY DEF TypeInv
<1>2. tPacketQueue' = SubSeq(tPacketQueue, i + 1, n)  BY DEF TakeAt
<1>3. \A j \in i + 1 .. n : tPacketQueue[j] \in Packet  BY <1>1, ElementOfSeq
<1>4. /\ SubSeq(tPacketQueue, i + 1, n) \in Seq(Packet)
      /\ Len(SubSeq(tPacketQueue, i + 1, n)) = IF i + 1 <= n THEN n - (i + 1) + 1 ELSE 0
      /\ \A j \in 1 .. n - (i + 1) + 1 : SubSeq(tPacketQueue, i + 1, n)[j] = tPacketQueue[i + 1 + j - 1]
  <2>1. i + 1 \in Int /\ n \in Int  BY <1>1
  <2> QED  BY <1>3, <2>1, SubSeqProperties
<1>5. Len(SubSeq(tPacketQueue, i + 1, n)) = n - i  BY <1>1, <1>4
<1>6. \A j \in 1 .. n - i : i + 1 + j - 1 = j + i /\ j \in 1 .. n - (i + 1) + 1  BY <1>1
<1>7. \A j \in 1 .. n - i : SubSeq(tPacketQueue, i + 1, n)[j] = tPacketQueue[j + i]
  BY <1>4, <1>6
<1> HIDE DEF n
<1> QED  BY <1>1, <1>2, <1>4, <1>5, <1>7 DEF Cut, n

LEMMA CutAll == TypeInv /\ tPacketQueue' = <<>> => Cut(Len(tPacketQueue))
<1> SUFFICES ASSUME TypeInv, tPacketQueue' = <<>> PROVE Cut(Len(tPacketQueue))  OBVIOUS
<1>1. Len(tPacketQueue) \in Nat  BY DEF TypeInv
<1>2. tPacketQueue' \in Seq(Packet) /\ Len(tPacketQueue') = 0  OBVIOUS
<1> QED  BY <1>1, <1>2 DEF Cut

\* What the decoder thread takes is the last of the packets it removes.
LastOf(k) == lastFed' = lastFed \/ (k >= 1 /\ lastFed' = tPacketQueue[k].num)

LEMMA DecoderCuts ==
  ASSUME TypeInv, PlaceInv, Decoder
  PROVE  \E k \in 0 .. Len(tPacketQueue) : Cut(k) /\ LastOf(k)
<1> DEFINE n == Len(tPacketQueue)
           Goal == \E k \in 0 .. n : Cut(k) /\ LastOf(k)
<1> SUFFICES Goal  OBVIOUS
<1>n. n \in Nat  BY DEF TypeInv
<1>k. ASSUME NEW k \in 0 .. n, Cut(k), LastOf(k) PROVE Goal  BY <1>k
<1> HIDE DEF Goal
<1>1. ASSUME UNCHANGED <<tPacketQueue, lastFed>> PROVE Goal
  <2>1. Cut(0)  BY <1>1, CutNone
  <2>2. LastOf(0) /\ 0 \in 0 .. n  BY <1>n, <1>1 DEF LastOf
  <2> QED  BY <2>1, <2>2, <1>k
<1>2. ASSUME NEW i \in DOMAIN tPacketQueue, NEW pc, TakeAt(i, pc) PROVE Goal
  <2>1. i \in 1 .. n /\ Cut(i)  BY <1>2, CutTake
  <2>2. LastOf(i) /\ i \in 0 .. n  BY <1>n, <1>2, <2>1 DEF LastOf, TakeAt
  <2> QED  BY <2>1, <2>2, <1>k
<1>3. ASSUME Drop PROVE Goal
  <2>1. 1 <= n /\ Cut(1)  BY <1>3, CutTail
  <2>2. lastFed' = lastFed  BY <1>3 DEF Drop, history
  <2>3. LastOf(1) /\ 1 \in 0 .. n  BY <1>n, <2>1, <2>2 DEF LastOf
  <2> QED  BY <2>1, <2>3, <1>k
<1>4. ASSUME Flush PROVE Goal
  <2>1. tPacketQueue' = <<>> /\ lastFed' = lastFed  BY <1>4 DEF Flush
  <2>2. Cut(n)  BY <2>1, CutAll
  <2>3. LastOf(n) /\ n \in 0 .. n  BY <1>n, <2>1 DEF LastOf
  <2> QED  BY <2>2, <2>3, <1>k
<1>5. ASSUME tPacketQueue # <<>> PROVE 1 \in DOMAIN tPacketQueue
  <2>1. tPacketQueue \in Seq(Packet)  BY DEF TypeInv
  <2> QED  BY <1>5, <2>1, <1>n, EmptySeq
<1> HIDE DEF n
<1>6. CASE Take  BY <1>6, <1>2 DEF Take
<1>7. CASE GetStarting
  <2>1. CASE tPacketQueue # <<>>  BY <1>7, <2>1, <1>5, <1>2 DEF GetStarting
  <2>2. CASE tPacketQueue = <<>>
    <3>1. UNCHANGED <<tPacketQueue, lastFed>>  BY <1>7, <2>2 DEF GetStarting, history
    <3> QED  BY <3>1, <1>1
  <2> QED  BY <2>1, <2>2
<1>8. CASE Get
  <2>1. CASE tPacketQueue # <<>>  BY <1>8, <2>1, <1>5, <1>2 DEF Get
  <2>2. CASE tPacketQueue = <<>>
    <3>1. UNCHANGED <<tPacketQueue, lastFed>>  BY <1>8, <2>2 DEF Get, history
    <3> QED  BY <3>1, <1>1
  <2> QED  BY <2>1, <2>2
<1>9. CASE \/ GetPacketNum \/ CompareNoDec \/ CompareStart \/ CompareStarting
           \/ Look \/ Find \/ StoreDecState \/ Decode \/ AllocFails \/ DecodeFails \/ Leave
  <2>1. UNCHANGED <<tPacketQueue, lastFed>>
    BY <1>9 DEF GetPacketNum, CompareNoDec, CompareStart, CompareStarting, Compare, Look, Find,
                StoreDecState, Decode, AllocFails, DecodeFails, Leave, history
  <2> QED  BY <2>1, <1>1
<1> QED  BY <1>3, <1>4, <1>6, <1>7, <1>8, <1>9 DEF Decoder

\* The decoder thread leaves the stream thread's variables alone.
LEMMA DecoderFrame ==
  ASSUME Decoder
  PROVE  /\ UNCHANGED <<npkt, feedPc, iIFrameFlag, ctlPc, iDispEnable>>
         /\ iTaskExitFlag' = iTaskExitFlag \/ (decPc = "decode" /\ iTaskExitFlag' = TRUE)
<1> DEFINE Frame == UNCHANGED <<ctlPc, feeder, iDispEnable, iTaskExitFlag>>
<1>0. ASSUME NEW pc, Dec(pc) PROVE Frame  BY <1>0 DEF Dec
<1>1. UNCHANGED <<ctlPc, feeder, iDispEnable>>
      /\ (iTaskExitFlag' = iTaskExitFlag \/ (decPc = "decode" /\ iTaskExitFlag' = TRUE))
  <2>1. CASE Frame  BY <2>1
  <2> HIDE DEF Frame
  <2>2. CASE GetPacketNum \/ CompareNoDec \/ CompareStart \/ CompareStarting \/ Drop \/ Look \/ Find
             \/ Take \/ Flush \/ GetStarting \/ Get \/ StoreDecState \/ Leave
    <3>1. \E pc : Dec(pc)
      BY <2>2, Zenon DEF GetPacketNum, CompareNoDec, CompareStart, CompareStarting, Compare, Drop,
         Look, Find, Take, TakeAt, Flush, GetStarting, Get, StoreDecState, Leave
    <3> QED  BY <3>1, <1>0, <2>1
  <2>3. CASE Decode \/ AllocFails  BY <2>3 DEF Decode, AllocFails, control
  <2>4. CASE DecodeFails  BY <2>4 DEF DecodeFails
  <2> QED  BY <2>2, <2>3, <2>4 DEF Decoder
<1> QED  BY <1>1 DEF feeder

\* Only Find touches seen, and it leaves the queue as it is.
LEMMA DecoderSeen ==
  ASSUME TypeInv, Decoder
  PROVE  \/ seen' = seen
         \/ (Len(tPacketQueue) >= 1 /\ seen' = tPacketQueue[Len(tPacketQueue)].num)
<1> USE DEF Dec, history
<1>1. CASE GetPacketNum \/ Drop \/ Look \/ Flush  BY <1>1 DEF GetPacketNum, Drop, Look, Flush
<1>2. CASE CompareNoDec \/ CompareStart \/ CompareStarting
  BY <1>2 DEF CompareNoDec, CompareStart, CompareStarting, Compare
<1>3. CASE Take  BY <1>3 DEF Take, TakeAt
<1>4. CASE GetStarting \/ Get  BY <1>4 DEF GetStarting, Get, TakeAt
<1>5. CASE StoreDecState \/ Leave  BY <1>5 DEF StoreDecState, Leave
<1>6. CASE Decode \/ AllocFails \/ DecodeFails  BY <1>6 DEF Decode, AllocFails, DecodeFails
<1>7. CASE Find
  <2>1. CASE tPacketQueue = <<>>  BY <1>7, <2>1 DEF Find
  <2>2. CASE tPacketQueue # <<>>
    <3>1. Len(tPacketQueue) \in Nat /\ Len(tPacketQueue) # 0  BY <2>2, EmptySeq DEF TypeInv
    <3> QED  BY <1>7, <2>2, <3>1 DEF Find
  <2> QED  BY <2>1, <2>2
<1> QED  BY <1>1, <1>2, <1>3, <1>4, <1>5, <1>6, <1>7 DEF Decoder

-----------------------------------------------------------------------------
(* Types *)

LEMMA InitTypes == ASSUME Init PROVE TypeInv
<1>1. tPacketQueue \in Seq(Packet)  BY DEF Init
<1>2. ControlType  BY DEF Init, ControlType, DecStates
<1>3. FeedType  BY DEF Init, FeedType
<1>4. DecType  BY DEF Init, DecType
<1> QED  BY <1>1, <1>2, <1>3, <1>4 DEF TypeInv

LEMMA ControlTypes ==
  ASSUME TypeInv, (\E on \in BOOLEAN : SetWndDisplayEnable(on)) \/ SetDecState
  PROVE  TypeInv'
<1>1. ControlType'
  BY DEF TypeInv, ControlType, SetWndDisplayEnable, SetDecState, DecStates
<1>2. UNCHANGED <<tPacketQueue, feeder, decoder, history>>  BY DEF SetWndDisplayEnable, SetDecState
<1> QED  BY <1>1, <1>2 DEF TypeInv, FeedType, DecType, feeder, decoder, history

LEMMA FeederTypes == ASSUME TypeInv, Feeder PROVE TypeInv'
<1>1. UNCHANGED <<control, ctlPc, decoder, history>>
  BY DEF Feeder, NewPacket, FlagPacket, FlagIf, CheckLimit, Insert, Feed
<1>2. ControlType' /\ DecType'
  BY <1>1 DEF TypeInv, ControlType, DecType, control, decoder, history
<1>3. npkt' \in Nat /\ npkt' >= npkt
  BY DEF TypeInv, FeedType, Feeder, NewPacket, FlagPacket, FlagIf, CheckLimit, Insert, Feed
<1>4. iIFrameFlag' \in BOOLEAN
  <2>1. CASE FlagPacket  BY <2>1 DEF TypeInv, FeedType, FlagPacket, FlagIf, IsIFrame
  <2>2. CASE NewPacket \/ CheckLimit \/ Insert
    BY <2>2 DEF TypeInv, FeedType, NewPacket, CheckLimit, Insert, Feed
  <2> QED  BY <2>1, <2>2 DEF Feeder
<1>5. feedPc' \in {"idle", "isNoDec", "isStart", "isStarting", "limit", "insert"}
  BY DEF Feeder, NewPacket, FlagPacket, FlagIf, CheckLimit, Insert, Feed
<1>6. feedPc' # "idle" => npkt' > 0
  <2>1. CASE NewPacket  BY <2>1 DEF NewPacket, TypeInv, FeedType
  <2>2. CASE FlagPacket \/ CheckLimit \/ Insert
    BY <2>2 DEF TypeInv, FeedType, FlagPacket, FlagIf, CheckLimit, Insert, Feed
  <2> QED  BY <2>1, <2>2 DEF Feeder
<1>7. tPacketQueue' \in Seq(Packet)
  <2>1. CASE Insert
    <3>1. npkt \in Nat /\ iIFrameFlag \in BOOLEAN  BY DEF TypeInv, FeedType
    <3>2. [num |-> npkt, iIFrameFlag |-> iIFrameFlag] \in Packet  BY <3>1 DEF Packet
    <3>3. tPacketQueue \in Seq(Packet)  BY DEF TypeInv
    <3>4. tPacketQueue' = Append(tPacketQueue, [num |-> npkt, iIFrameFlag |-> iIFrameFlag])
      BY <2>1 DEF Insert
    <3> QED  BY <3>2, <3>3, <3>4, AppendProperties
  <2>2. CASE NewPacket \/ FlagPacket \/ CheckLimit
    <3>1. tPacketQueue' = tPacketQueue  BY <2>2 DEF NewPacket, FlagPacket, FlagIf, CheckLimit
    <3> QED  BY <3>1 DEF TypeInv
  <2> QED  BY <2>1, <2>2 DEF Feeder
<1>8. FeedType'  BY <1>3, <1>4, <1>5, <1>6 DEF FeedType
<1> QED  BY <1>2, <1>7, <1>8 DEF TypeInv

LEMMA DecoderTypes == ASSUME TypeInv, PlaceInv, Decoder PROVE TypeInv'
<1> USE DEF Dec, history
<1>f. UNCHANGED <<npkt, feedPc, iIFrameFlag, ctlPc, iDispEnable>>  BY DecoderFrame
<1>t. iTaskExitFlag' \in BOOLEAN  BY DecoderFrame DEF TypeInv, ControlType
<1>1. FeedType'  BY <1>f DEF TypeInv, FeedType
<1>2. PICK k \in 0 .. Len(tPacketQueue) : Cut(k) /\ LastOf(k)  BY DecoderCuts
<1>q. tPacketQueue \in Seq(Packet) /\ Len(tPacketQueue) \in Nat  BY DEF TypeInv
<1>3. tPacketQueue' \in Seq(Packet)  BY <1>2 DEF Cut
<1>4. \A j \in 1 .. Len(tPacketQueue) : tPacketQueue[j].num \in Nat
  <2> TAKE j \in 1 .. Len(tPacketQueue)
  <2>1. tPacketQueue[j] \in Packet  BY <1>q, ElementOfSeq
  <2> QED  BY <2>1 DEF Packet
<1>5. lastFed' \in Nat
  <2>1. CASE lastFed' = lastFed  BY <2>1 DEF TypeInv, DecType
  <2>2. CASE lastFed' # lastFed
    <3>1. k >= 1 /\ lastFed' = tPacketQueue[k].num  BY <1>2, <2>2 DEF LastOf
    <3>2. k \in 1 .. Len(tPacketQueue)  BY <1>q, <3>1, <1>2
    <3> QED  BY <1>4, <3>1, <3>2
  <2> QED  BY <2>1, <2>2
<1>6. seen' \in Nat
  <2>1. CASE seen' = seen  BY <2>1 DEF TypeInv, DecType
  <2>2. CASE seen' # seen
    <3>1. Len(tPacketQueue) \in 1 .. Len(tPacketQueue) /\ seen' = tPacketQueue[Len(tPacketQueue)].num
      BY <1>q, <2>2, DecoderSeen
    <3> QED  BY <1>4, <3>1
  <2> QED  BY <2>1, <2>2
<1>7. /\ decPc' \in {"num", "isNoDec", "isStart", "isStarting", "drop", "look", "find", "take",
                     "flush", "getStarting", "get", "store", "storeEmpty", "decode", "ended"}
      /\ iPktNum' \in Nat
      /\ next' \in {"STARTING", "DISP"}
      /\ iDecState' \in DecStates
  <2>0. iPktNum \in Nat /\ next \in {"STARTING", "DISP"} /\ iDecState \in DecStates /\ next \in DecStates
    BY DEF TypeInv, DecType, ControlType, DecStates
  <2>1. CASE GetPacketNum  BY <2>0, <2>1, <1>q DEF GetPacketNum
  <2>2. CASE CompareNoDec \/ CompareStart \/ CompareStarting
    BY <2>0, <2>2 DEF CompareNoDec, CompareStart, CompareStarting, Compare
  <2>3. CASE Drop \/ Look \/ Find \/ Flush  BY <2>0, <2>3 DEF Drop, Look, Find, Flush
  <2>4. CASE Take  BY <2>0, <2>4 DEF Take, TakeAt
  <2>5. CASE GetStarting \/ Get  BY <2>0, <2>5 DEF GetStarting, Get, TakeAt
  <2>6. CASE StoreDecState \/ Leave  BY <2>0, <2>6 DEF StoreDecState, Leave
  <2>7. CASE Decode \/ AllocFails \/ DecodeFails
    BY <2>0, <2>7 DEF Decode, AllocFails, DecodeFails, control
  <2> QED  BY <2>1, <2>2, <2>3, <2>4, <2>5, <2>6, <2>7 DEF Decoder
<1>8. flushed' \in BOOLEAN
  <2>0. flushed \in BOOLEAN  BY DEF TypeInv, DecType
  <2>1. CASE UNCHANGED flushed  BY <2>0, <2>1
  <2>2. CASE flushed' = TRUE \/ flushed' = FALSE  BY <2>2
  <2>3. UNCHANGED flushed \/ flushed' = TRUE \/ flushed' = FALSE
    BY DEF Decoder, GetPacketNum, CompareNoDec, CompareStart, CompareStarting, Compare, Drop, Look,
           Find, Take, TakeAt, Flush, GetStarting, Get, StoreDecState, Decode, AllocFails,
           DecodeFails, Leave
  <2> QED  BY <2>1, <2>2, <2>3
<1>9. torn' \in BOOLEAN
  <2>0. torn \in BOOLEAN  BY DEF TypeInv, DecType
  <2>1. CASE CompareStarting  BY <2>1 DEF CompareStarting
  <2>2. CASE ~CompareStarting
    <3>1. torn' = torn \/ torn' = FALSE
      BY <2>2 DEF Decoder, GetPacketNum, CompareNoDec, CompareStart, Compare, Drop, Look,
           Find, Take, TakeAt, Flush, GetStarting, Get, StoreDecState, Decode, AllocFails,
           DecodeFails, Leave
    <3> QED  BY <2>0, <3>1
  <2> QED  BY <2>1, <2>2
<1>10. DecType'  BY <1>5, <1>6, <1>7, <1>8, <1>9 DEF DecType
<1>11. ControlType'  BY <1>f, <1>t, <1>7 DEF TypeInv, ControlType
<1> QED  BY <1>1, <1>3, <1>10, <1>11 DEF TypeInv

LEMMA StutterTypes == ASSUME TypeInv, UNCHANGED vars PROVE TypeInv'
BY DEF TypeInv, ControlType, FeedType, DecType, vars, control, feeder, decoder, history

LEMMA TypeStep == ASSUME TypeInv, PlaceInv, [Next]_vars PROVE TypeInv'
BY ControlTypes, FeederTypes, DecoderTypes, StutterTypes DEF Next

-----------------------------------------------------------------------------
(* What the two threads do to the numbers and the marks *)

\* The steps that put nothing: the main thread's, the stream thread's but Insert,
\* the decoder thread's.
Quiet ==
  \/ \E on \in BOOLEAN : SetWndDisplayEnable(on)
  \/ SetDecState \/ NewPacket \/ FlagPacket \/ CheckLimit \/ Decoder \/ UNCHANGED vars

LEMMA NextIsQuiet == [Next]_vars => Quiet \/ Insert
BY DEF Next, Feeder, Quiet

\* The elements of the queue, and the numbers of packets, are what they are.
LEMMA Numbers ==
  ASSUME TypeInv
  PROVE  /\ Len(tPacketQueue) \in Nat /\ DOMAIN tPacketQueue = 1 .. Len(tPacketQueue)
         /\ \A i \in 1 .. Len(tPacketQueue) : tPacketQueue[i].num \in Nat
         /\ npkt \in Nat /\ Held \in Nat
<1>1. tPacketQueue \in Seq(Packet)  BY DEF TypeInv
<1>2. \A i \in 1 .. Len(tPacketQueue) : tPacketQueue[i].num \in Nat
  <2> TAKE i \in 1 .. Len(tPacketQueue)
  <2>1. tPacketQueue[i] \in Packet  BY <1>1, ElementOfSeq
  <2> QED  BY <2>1 DEF Packet
<1>3. npkt \in Nat /\ (feedPc # "idle" => npkt > 0)  BY DEF TypeInv, FeedType
<1>4. Held \in Nat
  <2>1. CASE feedPc = "idle"  BY <1>3, <2>1 DEF Held
  <2>2. CASE feedPc # "idle"  BY <1>3, <2>2 DEF Held
  <2> QED  BY <2>1, <2>2
<1> QED  BY <1>1, <1>2, <1>3, <1>4

\* A quiet step cuts the queue, and lets no packet out of the stream thread's hand
\* unless it is dropped for good.
LEMMA QuietCuts ==
  ASSUME TypeInv, PlaceInv, Quiet
  PROVE  \E k \in 0 .. Len(tPacketQueue) : Cut(k) /\ LastOf(k)
<1>1. CASE Decoder  BY <1>1, DecoderCuts
<1>2. CASE ~Decoder
  <2>1. UNCHANGED <<tPacketQueue, lastFed>>
    BY <1>2 DEF Quiet, SetWndDisplayEnable, SetDecState, NewPacket, FlagPacket, FlagIf,
                CheckLimit, Feed, vars, history
  <2>2. Cut(0)  BY <2>1, CutNone
  <2>3. LastOf(0) /\ 0 \in 0 .. Len(tPacketQueue)  BY <2>1, Numbers DEF LastOf
  <2> QED  BY <2>2, <2>3
<1> QED  BY <1>1, <1>2

LEMMA QuietHolds ==
  ASSUME TypeInv, Quiet
  PROVE  Held' \in Nat /\ Held' >= Held /\ (Feeding' => Feeding /\ Held' = Held)
<1>0. npkt \in Nat /\ Held \in Nat  BY Numbers
<1>1. CASE NewPacket
  <2>1. feedPc = "idle" /\ npkt' = npkt + 1 /\ Held = npkt  BY <1>0, <1>1 DEF NewPacket, Held
  <2>2. CASE iTaskExitFlag
    <3>1. feedPc' = "idle" /\ iTaskExitFlag'  BY <1>1, <2>2 DEF NewPacket, control
    <3>2. ~Feeding'  BY <3>1 DEF Feeding
    <3>3. Held' = npkt + 1  BY <1>0, <2>1, <3>1 DEF Held
    <3> QED  BY <1>0, <2>1, <3>2, <3>3
  <2>3. CASE ~iTaskExitFlag
    <3>1. feedPc' = "isNoDec"  BY <1>1, <2>3 DEF NewPacket
    <3>2. Held' = npkt  BY <1>0, <2>1, <3>1 DEF Held
    <3>3. Feeding  BY <2>3 DEF Feeding
    <3> QED  BY <1>0, <2>1, <3>2, <3>3
  <2> QED  BY <2>2, <2>3
<1>2. CASE FlagPacket \/ CheckLimit
  <2>1. feedPc # "idle" /\ feedPc' # "idle" /\ npkt' = npkt
    BY <1>2 DEF FlagPacket, FlagIf, CheckLimit, Feed
  <2>2. Held' = Held  BY <2>1 DEF Held
  <2> QED  BY <1>0, <2>1, <2>2 DEF Feeding
<1>3. CASE ~(NewPacket \/ FlagPacket \/ CheckLimit)
  <2>1. feedPc' = feedPc /\ npkt' = npkt /\ (~iTaskExitFlag' => ~iTaskExitFlag)
    <3>1. CASE Decoder
      <4>1. feedPc' = feedPc /\ npkt' = npkt  BY <3>1, DecoderFrame
      <4>2. iTaskExitFlag' = iTaskExitFlag \/ iTaskExitFlag' = TRUE  BY <3>1, DecoderFrame
      <4> QED  BY <4>1, <4>2
    <3>2. CASE ~Decoder
      BY <1>3, <3>2 DEF Quiet, SetWndDisplayEnable, SetDecState, vars, feeder, control
    <3> QED  BY <3>1, <3>2
  <2>2. Held' = Held  BY <2>1 DEF Held
  <2>3. Feeding' => Feeding  BY <2>1 DEF Feeding
  <2> QED  BY <1>0, <2>2, <2>3
<1> QED  BY <1>1, <1>2, <1>3

LEMMA QuietSeen ==
  ASSUME TypeInv, OrderInv, Quiet
  PROVE  seen' <= Held
<1>0. seen \in Nat /\ seen <= Held  BY DEF TypeInv, DecType, OrderInv
<1>1. CASE Decoder
  <2>1. CASE seen' = seen  BY <1>0, <2>1
  <2>2. CASE seen' # seen
    <3>1. Len(tPacketQueue) \in DOMAIN tPacketQueue
      <4>1. Len(tPacketQueue) >= 1  BY <1>1, <2>2, DecoderSeen
      <4> QED  BY <4>1, Numbers
    <3>2. seen' = tPacketQueue[Len(tPacketQueue)].num  BY <1>1, <2>2, DecoderSeen
    <3> QED  BY <3>1, <3>2 DEF OrderInv
  <2> QED  BY <2>1, <2>2
<1>2. CASE ~Decoder
  <2>1. seen' = seen
    BY <1>2 DEF Quiet, SetWndDisplayEnable, SetDecState, NewPacket, FlagPacket, FlagIf,
                CheckLimit, Feed, vars, history
  <2> QED  BY <1>0, <2>1
<1> QED  BY <1>1, <1>2

\* What Insert adds is the next number, and it is behind all others.
LEMMA InsertAdds ==
  ASSUME TypeInv, Insert
  PROVE  /\ Feeding /\ Held' = Held + 1 /\ npkt = Held + 1
         /\ UNCHANGED <<npkt, lastFed, seen, control, ctlPc, decoder, history>>
         /\ iIFrameFlag' = iIFrameFlag
         /\ Len(tPacketQueue') = Len(tPacketQueue) + 1
         /\ \A i \in 1 .. Len(tPacketQueue) : tPacketQueue'[i] = tPacketQueue[i]
         /\ tPacketQueue'[Len(tPacketQueue) + 1] = [num |-> npkt, iIFrameFlag |-> iIFrameFlag]
<1>1. feedPc = "insert" /\ feedPc' = "idle" /\ npkt' = npkt  BY DEF Insert, Feed
<1>2. npkt \in Nat  BY Numbers
<1>3. Held = npkt - 1 /\ Held' = npkt  BY <1>1, <1>2 DEF Held
<1>4. UNCHANGED <<npkt, lastFed, seen, control, ctlPc, decoder, history>>
  BY DEF Insert, Feed, history
<1>11. iIFrameFlag' = iIFrameFlag  BY DEF Insert
<1>5. tPacketQueue \in Seq(Packet)  BY DEF TypeInv
<1>6. [num |-> npkt, iIFrameFlag |-> iIFrameFlag] \in Packet  BY DEF TypeInv, FeedType, Packet
<1>7. tPacketQueue' = Append(tPacketQueue, [num |-> npkt, iIFrameFlag |-> iIFrameFlag])  BY DEF Insert
<1>8. /\ Len(tPacketQueue') = Len(tPacketQueue) + 1
      /\ \A i \in 1 .. Len(tPacketQueue) : tPacketQueue'[i] = tPacketQueue[i]
      /\ tPacketQueue'[Len(tPacketQueue) + 1] = [num |-> npkt, iIFrameFlag |-> iIFrameFlag]
  BY <1>5, <1>6, <1>7, AppendProperties
<1>9. Feeding  BY <1>1 DEF Feeding
<1>10. Held' = Held + 1 /\ npkt = Held + 1  BY <1>2, <1>3
<1> QED  BY <1>4, <1>8, <1>9, <1>10, <1>11

-----------------------------------------------------------------------------
(* The numbers that wait *)

LEMMA QuietOrder == ASSUME TypeInv, TypeInv', PlaceInv, OrderInv, Quiet PROVE OrderInv'
<1> DEFINE n == Len(tPacketQueue)
           m == Len(tPacketQueue')
           P(i) == tPacketQueue[i].num
           R(i) == tPacketQueue'[i].num
<1>1. PICK k \in 0 .. n : Cut(k) /\ LastOf(k)  BY QuietCuts
<1>2. n \in Nat /\ m = n - k /\ k \in Nat  BY <1>1, Numbers DEF Cut
<1>3. \A i \in 1 .. n : P(i) \in Nat /\ lastFed < P(i) /\ P(i) <= Held /\ P(i) = P(1) + i - 1
  BY Numbers DEF OrderInv
<1>4. \A i \in 1 .. m : R(i) = P(i + k) /\ i + k \in 1 .. n
  <2>1. \A i \in 1 .. m : i + k \in 1 .. n  BY <1>2
  <2>2. \A i \in 1 .. m : tPacketQueue'[i] = tPacketQueue[i + k]  BY <1>1 DEF Cut
  <2> QED  BY <2>1, <2>2
<1>5. lastFed' = lastFed \/ (k >= 1 /\ k \in 1 .. n /\ lastFed' = P(k))  BY <1>1, <1>2 DEF LastOf
<1>6. Feeding => \A i \in 1 .. n : P(i) = Held - n + i  BY Numbers DEF OrderInv
<1>7. DOMAIN tPacketQueue' = 1 .. m
  <2>1. tPacketQueue' \in Seq(Packet)  BY DEF TypeInv
  <2> QED  BY <2>1
<1>8. Held \in Nat /\ Held' \in Nat /\ Held' >= Held /\ (Feeding' => Feeding /\ Held' = Held)
  BY Numbers, QuietHolds
<1>9. lastFed \in Nat /\ lastFed <= Held  BY DEF TypeInv, DecType, OrderInv
<1>10. seen' \in Nat /\ seen' <= Held  BY QuietSeen DEF TypeInv, DecType
<1> HIDE DEF n, m, P, R
<1>11. lastFed' \in Nat /\ lastFed' <= Held  BY <1>3, <1>5, <1>9
<1>12. \A i \in 1 .. m : lastFed' < R(i) /\ R(i) <= Held
  <2> TAKE i \in 1 .. m
  <2>1. R(i) = P(i + k) /\ i + k \in 1 .. n /\ i \in Nat /\ i >= 1  BY <1>2, <1>4
  <2>2. CASE lastFed' = lastFed  BY <1>3, <2>1, <2>2
  <2>3. CASE k \in 1 .. n /\ lastFed' = P(k)
    <3>1. 1 \in 1 .. n  BY <1>2, <2>3
    <3>2. P(k) = P(1) + k - 1 /\ P(i + k) = P(1) + (i + k) - 1 /\ P(1) \in Nat /\ P(i + k) <= Held
      BY <1>3, <2>1, <2>3, <3>1
    <3>3. P(k) < P(i + k)  BY <1>2, <2>1, <3>2
    <3> QED  BY <2>1, <2>3, <3>2, <3>3
  <2> QED  BY <1>5, <2>2, <2>3
<1>13. \A i \in 1 .. m : R(i) = R(1) + i - 1
  <2> TAKE i \in 1 .. m
  <2>1. 1 \in 1 .. m /\ i \in Nat  BY <1>2
  <2>2. R(i) = P(i + k) /\ i + k \in 1 .. n /\ R(1) = P(1 + k) /\ 1 + k \in 1 .. n  BY <1>4, <2>1
  <2>3. P(i + k) = P(1) + (i + k) - 1 /\ P(1 + k) = P(1) + (1 + k) - 1  BY <1>3, <2>2
  <2>4. P(1) \in Nat
    <3>1. 1 \in 1 .. n  BY <1>2, <2>1
    <3> QED  BY <1>3, <3>1
  <2> QED  BY <1>2, <2>1, <2>2, <2>3, <2>4
<1>14. Feeding' => \A i \in 1 .. m : R(i) = Held' - m + i
  <2> SUFFICES ASSUME Feeding', NEW i \in 1 .. m PROVE R(i) = Held' - m + i  OBVIOUS
  <2>1. R(i) = P(i + k) /\ i + k \in 1 .. n /\ i \in Nat  BY <1>2, <1>4
  <2>2. P(i + k) = Held - n + (i + k) /\ Held' = Held  BY <1>6, <1>8, <2>1
  <2> QED  BY <1>2, <1>8, <2>1, <2>2
<1>15. lastFed' <= Held' /\ seen' <= Held'  BY <1>8, <1>10, <1>11
<1>16. \A i \in 1 .. m : lastFed' < R(i) /\ R(i) <= Held'
  <2> TAKE i \in 1 .. m
  <2>1. R(i) \in Nat  BY <1>3, <1>4
  <2> QED  BY <1>8, <1>12, <2>1
<1> QED  BY <1>7, <1>13, <1>14, <1>15, <1>16 DEF OrderInv, R, m

LEMMA InsertOrder == ASSUME TypeInv, TypeInv', OrderInv, Insert PROVE OrderInv'
<1> DEFINE n == Len(tPacketQueue)
           P(i) == tPacketQueue[i].num
           R(i) == tPacketQueue'[i].num
<1>1. Feeding /\ Held' = Held + 1 /\ UNCHANGED <<lastFed, seen>>  BY InsertAdds
<1>2. n \in Nat /\ Held \in Nat  BY Numbers
<1>3. DOMAIN tPacketQueue' = 1 .. n + 1 /\ Len(tPacketQueue') = n + 1
  <2>1. tPacketQueue' \in Seq(Packet)  BY DEF TypeInv
  <2>2. Len(tPacketQueue') = n + 1  BY InsertAdds
  <2> QED  BY <2>1, <2>2
<1>4. \A i \in 1 .. n : P(i) \in Nat /\ lastFed < P(i) /\ P(i) = Held - n + i
  BY <1>1, Numbers DEF OrderInv
<1>5. \A i \in 1 .. n : R(i) = P(i)  BY InsertAdds
<1>6. R(n + 1) = Held + 1
  <2>1. tPacketQueue'[n + 1] = [num |-> npkt, iIFrameFlag |-> iIFrameFlag] /\ npkt = Held + 1
    BY InsertAdds
  <2> QED  BY <2>1
<1>7. lastFed \in Nat /\ seen \in Nat /\ lastFed <= Held /\ seen <= Held  BY DEF TypeInv, DecType, OrderInv
<1> HIDE DEF n, P, R
<1>8. \A i \in 1 .. n + 1 : R(i) = Held' - (n + 1) + i
  <2> TAKE i \in 1 .. n + 1
  <2>1. CASE i \in 1 .. n  BY <1>1, <1>2, <1>4, <1>5, <2>1
  <2>2. CASE i = n + 1  BY <1>1, <1>2, <1>6, <2>2
  <2> QED  BY <1>2, <2>1, <2>2
<1>9. \A i \in 1 .. n + 1 : lastFed' < R(i) /\ R(i) <= Held'
  <2> TAKE i \in 1 .. n + 1
  <2>1. CASE i \in 1 .. n
    <3>1. R(i) = P(i) /\ P(i) = Held - n + i /\ lastFed < P(i) /\ P(i) \in Nat  BY <1>4, <1>5, <2>1
    <3>2. Held - n + i <= Held + 1  BY <1>2, <2>1
    <3> QED  BY <1>1, <3>1, <3>2
  <2>2. CASE i = n + 1  BY <1>1, <1>2, <1>6, <1>7, <2>2
  <2> QED  BY <1>2, <2>1, <2>2
<1>10. \A i \in 1 .. n + 1 : R(i) = R(1) + i - 1
  <2> TAKE i \in 1 .. n + 1
  <2>1. 1 \in 1 .. n + 1  BY <1>2
  <2>2. R(i) = Held' - (n + 1) + i /\ R(1) = Held' - (n + 1) + 1  BY <1>8, <2>1
  <2> QED  BY <1>1, <1>2, <2>2
<1>11. lastFed' <= Held' /\ seen' <= Held'  BY <1>1, <1>2, <1>7
<1> QED  BY <1>3, <1>8, <1>9, <1>10, <1>11 DEF OrderInv, R

LEMMA OrderStep == ASSUME TypeInv, TypeInv', PlaceInv, OrderInv, [Next]_vars PROVE OrderInv'
BY NextIsQuiet, QuietOrder, InsertOrder

-----------------------------------------------------------------------------
(* The marks, and the search for an I frame *)

\* A nonempty set of numbers has a least one.
LEMMA Least ==
  ASSUME NEW T, T \subseteq Nat, T # {}
  PROVE  \E m \in T : \A k \in T : m <= k
<1> DEFINE R == OpToRel(<, Nat)
<1>1. \A x, y \in Nat : y < x => <<y, x>> \in R  BY DEF OpToRel
<1>2. IsWellFoundedOn(R, Nat)  BY NatLessThanWellFounded
<1> HIDE DEF R
<1>3. PICK m \in T : \A k \in T : ~ (<<k, m>> \in R)  BY <1>2, WFMin
<1>4. ASSUME NEW k \in T PROVE m <= k
  <2>1. m \in Nat /\ k \in Nat  OBVIOUS
  <2>2. ~ (k < m)  BY <1>1, <1>3, <2>1, Zenon
  <2> QED  BY <2>1, <2>2
<1> QED  BY <1>4

\* A set of positions in the queue that is not empty has a last one.
LEMMA LastOfSome ==
  ASSUME NEW n \in Nat, NEW S \in SUBSET (1 .. n), S # {}
  PROVE  Max(S) \in S
<1> DEFINE T == {n - x : x \in S}
<1>1. T \subseteq Nat /\ T # {}  OBVIOUS
<1>2. PICK t \in T : \A u \in T : t <= u  BY <1>1, Least
<1>3. PICK x \in S : t = n - x  BY <1>2
<1>4. \A y \in S : x >= y
  <2> TAKE y \in S
  <2>1. n - x <= n - y  BY <1>2, <1>3
  <2> QED  BY <2>1
<1>5. \E z \in S : \A y \in S : z >= y  BY <1>4
<1> QED  BY <1>5 DEF Max

LEMMA MarkedIn == TypeInv => Marked \in SUBSET (1 .. Len(tPacketQueue))
BY Numbers DEF Marked

LEMMA CutMarks ==
  ASSUME TypeInv, TypeInv', NEW k \in 0 .. Len(tPacketQueue), Cut(k)
  PROVE  \A i \in Marked' : i + k \in Marked /\ tPacketQueue'[i] = tPacketQueue[i + k]
<1>1. tPacketQueue' \in Seq(Packet)  BY DEF TypeInv
<1>2. DOMAIN tPacketQueue' = 1 .. Len(tPacketQueue')  BY <1>1
<1>3. TAKE i \in Marked'
<1>4. i \in 1 .. Len(tPacketQueue') /\ tPacketQueue'[i].iIFrameFlag  BY <1>2, <1>3 DEF Marked
<1>5. Len(tPacketQueue) \in Nat /\ Len(tPacketQueue') = Len(tPacketQueue) - k  BY Numbers DEF Cut
<1>6. i + k \in 1 .. Len(tPacketQueue)  BY <1>4, <1>5
<1>7. tPacketQueue'[i] = tPacketQueue[i + k]  BY <1>4 DEF Cut
<1>8. tPacketQueue[i + k].iIFrameFlag  BY <1>4, <1>7
<1>9. i + k \in DOMAIN tPacketQueue  BY <1>6, Numbers
<1> QED  BY <1>7, <1>8, <1>9 DEF Marked

LEMMA InsertMarks ==
  ASSUME TypeInv, TypeInv', Insert
  PROVE  /\ \A i \in Marked : i \in Marked' /\ tPacketQueue'[i] = tPacketQueue[i]
         /\ \A i \in Marked' : \/ i \in Marked /\ tPacketQueue'[i] = tPacketQueue[i]
                               \/ iIFrameFlag /\ tPacketQueue'[i].num = npkt
<1> DEFINE n == Len(tPacketQueue)
<1>1. tPacketQueue' \in Seq(Packet)  BY DEF TypeInv
<1>2. n \in Nat /\ DOMAIN tPacketQueue = 1 .. n  BY Numbers
<1>3. Len(tPacketQueue') = n + 1  BY InsertAdds
<1>4. DOMAIN tPacketQueue' = 1 .. n + 1  BY <1>1, <1>3
<1>5. \A i \in 1 .. n : tPacketQueue'[i] = tPacketQueue[i]  BY InsertAdds
<1>6. tPacketQueue'[n + 1] = [num |-> npkt, iIFrameFlag |-> iIFrameFlag]  BY InsertAdds
<1>7. tPacketQueue'[n + 1].num = npkt  BY <1>6
<1>8. tPacketQueue'[n + 1].iIFrameFlag <=> iIFrameFlag  BY <1>6
<1> HIDE DEF n
<1>9. ASSUME NEW i \in Marked PROVE i \in Marked' /\ tPacketQueue'[i] = tPacketQueue[i]
  <2>1. i \in 1 .. n /\ tPacketQueue[i].iIFrameFlag  BY <1>2 DEF Marked
  <2>2. i \in 1 .. n + 1  BY <1>2, <2>1
  <2>3. tPacketQueue'[i] = tPacketQueue[i]  BY <1>5, <2>1
  <2>4. tPacketQueue'[i].iIFrameFlag  BY <2>1, <2>3
  <2> QED  BY <1>4, <2>2, <2>3, <2>4 DEF Marked
<1>10. ASSUME NEW i \in Marked'
       PROVE  \/ i \in Marked /\ tPacketQueue'[i] = tPacketQueue[i]
              \/ iIFrameFlag /\ tPacketQueue'[i].num = npkt
  <2>1. i \in 1 .. n + 1 /\ tPacketQueue'[i].iIFrameFlag  BY <1>4 DEF Marked
  <2>2. CASE i \in 1 .. n
    <3>1. tPacketQueue'[i] = tPacketQueue[i]  BY <1>5, <2>2
    <3>2. tPacketQueue[i].iIFrameFlag  BY <2>1, <3>1
    <3> QED  BY <1>2, <2>2, <3>1, <3>2 DEF Marked
  <2>3. CASE i = n + 1  BY <1>7, <1>8, <2>1, <2>3
  <2> QED  BY <1>2, <2>1, <2>2, <2>3
<1> QED  BY <1>9, <1>10

LEMMA MarkStep == ASSUME TypeInv, TypeInv', PlaceInv, MarkInv, [Next]_vars PROVE MarkInv'
<1>1. iIFrameFlag' => IsIFrame(npkt)'
  <2>1. CASE NewPacket  BY <2>1 DEF NewPacket
  <2>2. CASE FlagPacket
    <3>1. npkt' = npkt  BY <2>2 DEF FlagPacket, FlagIf, Feed
    <3>2. iIFrameFlag' = IsIFrame(npkt) \/ iIFrameFlag' = iIFrameFlag
      BY <2>2, Zenon DEF FlagPacket, FlagIf
    <3>3. iIFrameFlag' => IsIFrame(npkt)  BY <3>2 DEF MarkInv
    <3> QED  BY <3>1, <3>3 DEF IsIFrame
  <2>3. CASE ~(NewPacket \/ FlagPacket)
    <3>1. npkt' = npkt
      <4>1. CASE Decoder  BY <4>1, DecoderFrame
      <4>2. CASE ~Decoder
        BY <2>3, <4>2 DEF Next, Feeder, SetWndDisplayEnable, SetDecState, CheckLimit, Insert, Feed,
                          feeder, vars
      <4> QED  BY <4>1, <4>2
    <3>2. iIFrameFlag' = iIFrameFlag
      <4>1. CASE Decoder  BY <4>1, DecoderFrame
      <4>2. CASE ~Decoder
        BY <2>3, <4>2 DEF Next, Feeder, SetWndDisplayEnable, SetDecState, CheckLimit, Insert,
                          feeder, vars
      <4> QED  BY <4>1, <4>2
    <3> QED  BY <3>1, <3>2 DEF MarkInv, IsIFrame
  <2> QED  BY <2>1, <2>2, <2>3
<1>2. \A i \in Marked' : IsIFrame(tPacketQueue[i].num)'
  <2>1. CASE Quiet
    <3>1. PICK k \in 0 .. Len(tPacketQueue) : Cut(k) /\ LastOf(k)  BY <2>1, QuietCuts
    <3>2. \A i \in Marked' : i + k \in Marked /\ tPacketQueue'[i] = tPacketQueue[i + k]
      BY <3>1, CutMarks
    <3> QED  BY <3>2 DEF MarkInv, IsIFrame
  <2>2. CASE Insert
    <3>1. \A i \in Marked' : \/ i \in Marked /\ tPacketQueue'[i] = tPacketQueue[i]
                             \/ iIFrameFlag /\ tPacketQueue'[i].num = npkt
      BY <2>2, InsertMarks
    <3> QED  BY <3>1 DEF MarkInv, IsIFrame
  <2> QED  BY <2>1, <2>2, NextIsQuiet
<1> QED  BY <1>1, <1>2 DEF MarkInv

\* Between Find and Take, or Flush, only the other threads' steps come.
LEMMA SearchStep ==
  ASSUME TypeInv, TypeInv', OrderInv, SearchStillHolds, [Next]_vars
  PROVE  SearchStillHolds'
<1>1. CASE Find
  <2>1. tPacketQueue' = tPacketQueue /\ ptIFrameList' = FindIFrameFromeQueue
        /\ decPc' = IF FindIFrameFromeQueue = None THEN "flush" ELSE "take"
    BY <1>1 DEF Find, Dec
  <2>2. Marked' = Marked  BY <2>1 DEF Marked
  <2>3. CASE Marked = {}
    <3>1. decPc' = "flush"  BY <2>1, <2>3 DEF FindIFrameFromeQueue
    <3> QED  BY <2>2, <2>3, <3>1 DEF SearchStillHolds
  <2>4. CASE Marked # {}
    <3>1. Max(Marked) \in Marked  BY <2>4, MarkedIn, Numbers, LastOfSome
    <3>2. FindIFrameFromeQueue = tPacketQueue[Max(Marked)].num  BY <2>4 DEF FindIFrameFromeQueue
    <3>3. FindIFrameFromeQueue # None
      <4>1. Max(Marked) \in DOMAIN tPacketQueue  BY <3>1 DEF Marked
      <4>2. lastFed \in Nat /\ tPacketQueue[Max(Marked)].num \in Nat
        BY <4>1, Numbers DEF TypeInv, DecType
      <4>3. lastFed < tPacketQueue[Max(Marked)].num  BY <4>1 DEF OrderInv
      <4> QED  BY <3>2, <4>2, <4>3 DEF None
    <3>4. decPc' = "take"  BY <2>1, <3>3
    <3>5. \E i \in Marked' : tPacketQueue'[i].num = ptIFrameList'  BY <2>1, <2>2, <3>1, <3>2
    <3> QED  BY <3>4, <3>5 DEF SearchStillHolds
  <2> QED  BY <2>3, <2>4
<1>2. CASE Decoder /\ ~Find
  <2>1. decPc' \notin {"take", "flush"}
    <3>1. CASE GetPacketNum \/ Drop \/ Look  BY <3>1 DEF GetPacketNum, Drop, Look, Dec
    <3>2. CASE CompareNoDec \/ CompareStart \/ CompareStarting
      BY <3>2 DEF CompareNoDec, CompareStart, CompareStarting, Compare, Dec
    <3>3. CASE Take  BY <3>3 DEF Take, TakeAt, Dec
    <3>4. CASE Flush \/ StoreDecState  BY <3>4 DEF Flush, StoreDecState, Dec
    <3>5. CASE GetStarting \/ Get  BY <3>5 DEF GetStarting, Get, TakeAt, Dec
    <3>6. CASE Decode \/ AllocFails \/ DecodeFails \/ Leave
      BY <3>6 DEF Decode, AllocFails, DecodeFails, Leave, Dec
    <3> QED  BY <1>2, <3>1, <3>2, <3>3, <3>4, <3>5, <3>6 DEF Decoder
  <2> QED  BY <2>1 DEF SearchStillHolds
<1>3. CASE Insert
  <2>1. UNCHANGED <<decPc, ptIFrameList, seen>>  BY <1>3, InsertAdds DEF decoder
  <2>2. ASSUME decPc' = "take" PROVE \E i \in Marked' : tPacketQueue'[i].num = ptIFrameList'
    <3>1. PICK i \in Marked : tPacketQueue[i].num = ptIFrameList  BY <2>1, <2>2 DEF SearchStillHolds
    <3>2. i \in Marked' /\ tPacketQueue'[i] = tPacketQueue[i]  BY <1>3, InsertMarks
    <3> QED  BY <2>1, <3>1, <3>2
  <2>3. ASSUME decPc' = "flush", NEW i \in Marked' PROVE tPacketQueue'[i].num > seen'
    <3>1. CASE i \in Marked /\ tPacketQueue'[i] = tPacketQueue[i]
      BY <2>1, <2>3, <3>1 DEF SearchStillHolds
    <3>2. CASE tPacketQueue'[i].num = npkt
      <4>1. npkt = Held + 1 /\ Held \in Nat  BY <1>3, InsertAdds, Numbers
      <4>2. seen \in Nat /\ seen <= Held  BY DEF TypeInv, DecType, OrderInv
      <4> QED  BY <2>1, <3>2, <4>1, <4>2
    <3> QED  BY <1>3, <3>1, <3>2, InsertMarks
  <2> QED  BY <2>2, <2>3 DEF SearchStillHolds
<1>4. CASE ~Decoder /\ ~Insert
  <2>1. UNCHANGED <<tPacketQueue, decPc, ptIFrameList, seen>>
    BY <1>4 DEF Next, Feeder, SetWndDisplayEnable, SetDecState, NewPacket, FlagPacket, FlagIf,
                CheckLimit, Feed, vars, decoder, history
  <2>2. Marked' = Marked  BY <2>1 DEF Marked
  <2> QED  BY <2>1, <2>2 DEF SearchStillHolds
<1> QED  BY <1>1, <1>2, <1>3, <1>4

-----------------------------------------------------------------------------
(* Where the decoder thread is, and the packets that are missing *)

LEMMA PlaceStep == ASSUME TypeInv, TypeInv', PlaceInv, [Next]_vars PROVE PlaceInv'
<1>n. Len(tPacketQueue) \in Nat /\ Len(tPacketQueue') \in Nat  BY DEF TypeInv
<1>p. iPktNum \in Nat /\ NoDecKeep \in Nat  BY QueueAssumption DEF TypeInv, DecType
<1>1. iTaskExitFlag' => decPc' \in {"num", "ended"}
  <2>1. CASE Decoder
    <3>1. CASE DecodeFails \/ Decode \/ AllocFails
      BY <3>1 DEF DecodeFails, Decode, AllocFails
    <3>2. CASE Leave  BY <3>2 DEF Leave, Dec
    <3>3. CASE ~(DecodeFails \/ Decode \/ AllocFails \/ Leave)
      <4>1. decPc \notin {"num", "ended"} \/ ~iTaskExitFlag
        BY <2>1, <3>3 DEF Decoder, GetPacketNum, CompareNoDec, CompareStart, CompareStarting, Compare,
           Drop, Look, Find, Take, Flush, GetStarting, Get, StoreDecState
      <4>2. ~iTaskExitFlag  BY <4>1 DEF PlaceInv
      <4>3. iTaskExitFlag' = iTaskExitFlag
        <5>1. \E pc : Dec(pc)
          BY <2>1, <3>3, Zenon DEF Decoder, GetPacketNum, CompareNoDec, CompareStart, CompareStarting,
             Compare, Drop, Look, Find, Take, TakeAt, Flush, GetStarting, Get, StoreDecState
        <5> QED  BY <5>1 DEF Dec
      <4> QED  BY <4>2, <4>3
    <3> QED  BY <3>1, <3>2, <3>3
  <2>2. CASE ~Decoder
    <3>1. decPc' = decPc
      BY <2>2 DEF Next, Feeder, SetWndDisplayEnable, SetDecState, NewPacket, FlagPacket, FlagIf,
                  CheckLimit, Insert, Feed, vars, decoder
    <3>2. iTaskExitFlag' = iTaskExitFlag
      BY <2>2 DEF Next, Feeder, SetWndDisplayEnable, SetDecState, NewPacket, FlagPacket, FlagIf,
                  CheckLimit, Insert, Feed, vars, control
    <3> QED  BY <3>1, <3>2 DEF PlaceInv
  <2> QED  BY <2>1, <2>2
<1>2. CASE Decoder
  <2>1. decPc' = "isNoDec" => iPktNum' <= Len(tPacketQueue')
    <3>1. CASE GetPacketNum  BY <3>1, <1>n DEF GetPacketNum
    <3>2. CASE ~GetPacketNum
      <4>1. decPc' # "isNoDec"
        BY <1>2, <3>2 DEF Decoder, CompareNoDec, CompareStart, CompareStarting, Compare, Drop, Look,
           Find, Take, TakeAt, Flush, GetStarting, Get, StoreDecState, Decode, AllocFails,
           DecodeFails, Leave, Dec
      <4> QED  BY <4>1
    <3> QED  BY <3>1, <3>2
  <2>2. decPc' = "drop" => tPacketQueue' # <<>> /\ iDecState' \in {"NO_DEC", "START"}
    <3>1. CASE CompareNoDec
      <4> SUFFICES ASSUME decPc' = "drop" PROVE tPacketQueue' # <<>> /\ iDecState' = "NO_DEC"  OBVIOUS
      <4>1. decPc = "isNoDec" /\ iDecState = "NO_DEC" /\ iPktNum > NoDecKeep
            /\ UNCHANGED <<tPacketQueue, iDecState>>
        BY <3>1 DEF CompareNoDec, Compare, Dec
      <4>2. iPktNum <= Len(tPacketQueue)  BY <4>1 DEF PlaceInv
      <4>3. Len(tPacketQueue') # 0  BY <1>n, <1>p, <4>1, <4>2
      <4> QED  BY <4>1, <4>3
    <3>2. CASE ~CompareNoDec
      <4>1. decPc' # "drop"
        BY <1>2, <3>2 DEF Decoder, GetPacketNum, CompareStart, CompareStarting, Compare, Drop, Look,
           Find, Take, TakeAt, Flush, GetStarting, Get, StoreDecState, Decode, AllocFails,
           DecodeFails, Leave, Dec
      <4> QED  BY <4>1
    <3> QED  BY <3>1, <3>2
  <2> QED  BY <1>1, <2>1, <2>2 DEF PlaceInv
<1>3. CASE ~Decoder
  <2>1. decPc' = decPc /\ iPktNum' = iPktNum
    BY <1>3 DEF Next, Feeder, SetWndDisplayEnable, SetDecState, NewPacket, FlagPacket, FlagIf,
                CheckLimit, Insert, Feed, vars, decoder
  <2>2. Len(tPacketQueue') >= Len(tPacketQueue)
    <3>1. CASE Insert  BY <3>1, <1>n, InsertAdds
    <3>2. CASE ~Insert
      <4>1. tPacketQueue' = tPacketQueue
        BY <1>3, <3>2 DEF Next, Feeder, SetWndDisplayEnable, SetDecState, NewPacket, FlagPacket,
                          FlagIf, CheckLimit, Feed, vars
      <4> QED  BY <1>n, <4>1
    <3> QED  BY <3>1, <3>2
  <2>3. iDecState' = iDecState \/ iDecState' \in {"NO_DEC", "START"}
    BY <1>3 DEF Next, Feeder, SetWndDisplayEnable, SetDecState, NewPacket, FlagPacket, FlagIf,
                CheckLimit, Insert, Feed, vars, control
  <2>4. tPacketQueue # <<>> => tPacketQueue' # <<>>
    <3> SUFFICES ASSUME tPacketQueue # <<>> PROVE tPacketQueue' # <<>>  OBVIOUS
    <3>1. Len(tPacketQueue) # 0  BY EmptySeq DEF TypeInv
    <3>2. Len(tPacketQueue') # 0  BY <1>n, <2>2, <3>1
    <3> QED  BY <3>2
  <2>5. decPc' = "isNoDec" => iPktNum' <= Len(tPacketQueue')  BY <1>n, <1>p, <2>1, <2>2 DEF PlaceInv
  <2>6. decPc' = "drop" => tPacketQueue' # <<>> /\ iDecState' \in {"NO_DEC", "START"}
    BY <2>1, <2>3, <2>4 DEF PlaceInv
  <2> QED  BY <1>1, <2>5, <2>6 DEF PlaceInv
<1> QED  BY <1>2, <1>3

\* The steps that keep the queue, or put into it, leave no hole.
LEMMA StillClosed ==
  ASSUME TypeInv, PlaceInv, [Next]_vars, ~iTaskExitFlag', Closed,
         UNCHANGED tPacketQueue \/ Insert, UNCHANGED lastFed
  PROVE  Closed'
<1>1. Held \in Nat /\ Len(tPacketQueue) \in Nat  BY Numbers
<1>2. CASE Insert
  <2>1. Held' = Held + 1 /\ Len(tPacketQueue') = Len(tPacketQueue) + 1  BY <1>2, InsertAdds
  <2> QED  BY <1>1, <2>1 DEF Closed
<1>3. CASE Quiet /\ UNCHANGED tPacketQueue
  <2>1. Feeding'  BY DEF Feeding
  <2>2. Held' = Held  BY <1>3, <2>1, QuietHolds
  <2> QED  BY <1>3, <2>2 DEF Closed
<1> QED  BY <1>2, <1>3, NextIsQuiet

\* What the decoder thread takes without a failure closes the hole behind it.
LEMMA TakeCloses ==
  ASSUME TypeInv, OrderInv, ~iTaskExitFlag, Decoder,
         NEW i \in DOMAIN tPacketQueue, NEW pc, TakeAt(i, pc)
  PROVE  Closed' /\ lastFed' = Held - Len(tPacketQueue) + i
<1>1. Held \in Nat /\ Len(tPacketQueue) \in Nat  BY Numbers
<1>2. i \in 1 .. Len(tPacketQueue) /\ Cut(i)  BY CutTake
<1>3. Feeding  BY DEF Feeding
<1>4. lastFed' = Held - Len(tPacketQueue) + i  BY <1>3 DEF OrderInv, TakeAt
<1>5. Held' = Held
  <2>1. UNCHANGED <<npkt, feedPc>>  BY DecoderFrame
  <2> QED  BY <2>1 DEF Held
<1>6. Len(tPacketQueue') = Len(tPacketQueue) - i  BY <1>2 DEF Cut
<1>7. lastFed' = Held' - Len(tPacketQueue')  BY <1>1, <1>2, <1>4, <1>5, <1>6
<1> QED  BY <1>4, <1>7 DEF Closed

LEMMA GapStep ==
  ASSUME TypeInv, TypeInv', OrderInv, PlaceInv, GapInv, [Next]_vars
  PROVE  GapInv'
<1> SUFFICES ASSUME ~iTaskExitFlag' PROVE Closed' \/ flushed' \/ Open'  BY DEF GapInv
<1>0. ~iTaskExitFlag
  <2>1. CASE Decoder  BY <2>1, DecoderFrame
  <2>2. CASE ~Decoder
    BY <2>2 DEF Next, Feeder, SetWndDisplayEnable, SetDecState, NewPacket, FlagPacket, FlagIf,
                CheckLimit, Insert, Feed, vars, control
  <2> QED  BY <2>1, <2>2
<1>1. Closed \/ flushed \/ Open  BY <1>0 DEF GapInv
<1>2. CASE ~Decoder
  <2>1. (UNCHANGED tPacketQueue \/ Insert) /\ UNCHANGED <<lastFed, decPc>>
    BY <1>2 DEF Next, Feeder, SetWndDisplayEnable, SetDecState, NewPacket, FlagPacket, FlagIf,
                CheckLimit, Insert, Feed, vars, decoder, history
  <2>2. flushed' = flushed /\ torn' = torn
    BY <1>2 DEF Next, Feeder, SetWndDisplayEnable, SetDecState, NewPacket, FlagPacket, FlagIf,
                CheckLimit, Insert, Feed, vars, history
  <2>3. iDecState' = iDecState \/ iDecState' \in {"NO_DEC", "START"}
    BY <1>2 DEF Next, Feeder, SetWndDisplayEnable, SetDecState, NewPacket, FlagPacket, FlagIf,
                CheckLimit, Insert, Feed, vars, control
  <2>4. CASE Closed  BY <2>1, <2>4, StillClosed
  <2>5. CASE flushed  BY <2>2, <2>5
  <2>6. CASE Open  BY <2>1, <2>2, <2>3, <2>6 DEF Open
  <2> QED  BY <1>1, <2>4, <2>5, <2>6
<1>3. CASE Flush  BY <1>3 DEF Flush
<1>4. CASE Find
  <2>1. decPc' \in {"flush", "take"}  BY <1>4 DEF Find, Dec
  <2> QED  BY <2>1 DEF Open
<1>5. CASE Take
  <2>1. PICK i \in DOMAIN tPacketQueue : TakeAt(i, "store")  BY <1>5 DEF Take
  <2>2. Decoder  BY <1>5 DEF Decoder
  <2> QED  BY <1>0, <2>1, <2>2, TakeCloses
<1>6. CASE (GetStarting \/ Get) /\ tPacketQueue # <<>>
  <2>1. TakeAt(1, "decode")  BY <1>6 DEF GetStarting, Get
  <2>2. Decoder  BY <1>6 DEF Decoder
  <2>3. 1 \in DOMAIN tPacketQueue
    <3>1. Len(tPacketQueue) # 0  BY <1>6, EmptySeq DEF TypeInv
    <3> QED  BY <3>1, Numbers
  <2> QED  BY <1>0, <2>1, <2>2, <2>3, TakeCloses
<1>7. CASE Drop
  <2>1. iDecState \in {"NO_DEC", "START"}  BY <1>7 DEF Drop, PlaceInv
  <2>2. decPc' = "num" /\ iDecState' = iDecState  BY <1>7 DEF Drop, Dec
  <2> QED  BY <2>1, <2>2 DEF Open
<1>8. CASE \/ GetPacketNum \/ CompareNoDec \/ CompareStart \/ CompareStarting
           \/ Get /\ tPacketQueue = <<>>
  <2>1. UNCHANGED <<tPacketQueue, lastFed, iDecState>>
    BY <1>8 DEF GetPacketNum, CompareNoDec, CompareStart, CompareStarting, Compare, Get, history
  <2>2. flushed' = flushed
    BY <1>8 DEF GetPacketNum, CompareNoDec, CompareStart, CompareStarting, Compare, Get, history
  <2>3. CASE Closed  BY <2>1, <2>3, StillClosed
  <2>4. CASE flushed  BY <2>2, <2>4
  <2>5. CASE Open
    <3>1. CASE GetPacketNum
      <4>1. decPc = "num" /\ decPc' = "isNoDec"  BY <3>1 DEF GetPacketNum, Dec
      <4> QED  BY <2>1, <2>5, <4>1 DEF Open
    <3>2. CASE CompareNoDec \/ CompareStart
      <4>1. decPc \in {"isNoDec", "isStart"} /\ decPc' \in {"drop", "num", "isStart", "find", "isStarting"}
        BY <3>2 DEF CompareNoDec, CompareStart, Compare, Dec
      <4> QED  BY <2>1, <2>5, <4>1 DEF Open
    <3>3. CASE CompareStarting
      <4>1. iDecState \in {"NO_DEC", "START"}
        BY <2>5, <3>3 DEF Open, CompareStarting, Compare
      <4>2. decPc' = "get"  BY <3>3, <4>1 DEF CompareStarting, Compare, Dec
      <4>3. torn'  BY <3>3, <4>1 DEF CompareStarting
      <4> QED  BY <2>1, <4>1, <4>2, <4>3 DEF Open
    <3>4. CASE Get /\ tPacketQueue = <<>>
      <4>1. decPc = "get" /\ decPc' = "num"  BY <3>4 DEF Get, Dec
      <4> QED  BY <2>1, <2>5, <4>1 DEF Open
    <3> QED  BY <1>8, <3>1, <3>2, <3>3, <3>4
  <2> QED  BY <1>1, <2>3, <2>4, <2>5
<1>9. CASE \/ Look \/ StoreDecState \/ Decode \/ AllocFails
           \/ GetStarting /\ tPacketQueue = <<>>
  <2>1. UNCHANGED <<tPacketQueue, lastFed>>
    BY <1>9 DEF Look, StoreDecState, Decode, AllocFails, GetStarting, history
  <2>2. flushed' = flushed
    BY <1>9 DEF Look, StoreDecState, Decode, AllocFails, GetStarting, history
  <2>3. ~Open
    <3>1. decPc \in {"look", "store", "storeEmpty", "decode", "getStarting"}
      BY <1>9 DEF Look, StoreDecState, Decode, AllocFails, GetStarting
    <3> QED  BY <3>1 DEF Open
  <2>4. CASE Closed  BY <2>1, <2>4, StillClosed
  <2> QED  BY <1>1, <2>2, <2>3, <2>4
<1>10. CASE DecodeFails \/ Leave
  <2>1. iTaskExitFlag' \/ iTaskExitFlag  BY <1>10 DEF DecodeFails, Leave
  <2> QED  BY <1>0, <2>1
<1> QED  BY <1>2, <1>3, <1>4, <1>5, <1>6, <1>7, <1>8, <1>9, <1>10 DEF Decoder

LEMMA RoomStep == ASSUME TypeInv, PlaceInv, RoomInv, [Next]_vars PROVE RoomInv'
<1>1. Len(tPacketQueue) \in Nat /\ Limit \in Nat  BY Numbers, QueueAssumption
<1>2. CASE Insert
  <2>1. feedPc = "insert" /\ feedPc' = "idle"  BY <1>2 DEF Insert, Feed
  <2>2. Len(tPacketQueue') = Len(tPacketQueue) + 1  BY <1>2, InsertAdds
  <2>3. Len(tPacketQueue) <= Limit  BY <2>1 DEF RoomInv
  <2> QED  BY <1>1, <2>1, <2>2, <2>3 DEF RoomInv, QueueBound
<1>3. CASE Quiet
  <2>1. PICK k \in 0 .. Len(tPacketQueue) : Cut(k) /\ LastOf(k)  BY <1>3, QuietCuts
  <2>2. Len(tPacketQueue') = Len(tPacketQueue) - k  BY <2>1 DEF Cut
  <2>3. Len(tPacketQueue') <= Len(tPacketQueue) /\ Len(tPacketQueue') \in Nat  BY <1>1, <2>2
  <2>4. feedPc' = "insert" => Len(tPacketQueue) <= Limit
    <3>1. CASE CheckLimit  BY <3>1 DEF CheckLimit
    <3>2. CASE ~CheckLimit
      <4>1. feedPc' # "insert" \/ feedPc' = feedPc
        <5>1. CASE Decoder  BY <5>1, DecoderFrame
        <5>2. CASE ~Decoder
          BY <1>3, <3>2, <5>2 DEF Quiet, SetWndDisplayEnable, SetDecState, NewPacket, FlagPacket,
                                  FlagIf, Feed, vars, feeder
        <5> QED  BY <5>1, <5>2
      <4> QED  BY <4>1 DEF RoomInv
    <3> QED  BY <3>1, <3>2
  <2> QED  BY <1>1, <2>3, <2>4 DEF RoomInv, QueueBound
<1> QED  BY <1>2, <1>3, NextIsQuiet

-----------------------------------------------------------------------------
(* The theorems *)

Inv ==
  /\ TypeInv /\ OrderInv /\ MarkInv /\ PlaceInv
  /\ SearchStillHolds /\ GapInv /\ RoomInv

LEMMA InitInv == ASSUME Init PROVE Inv
<1>1. TypeInv  BY InitTypes
<1>2. Len(tPacketQueue) = 0 /\ DOMAIN tPacketQueue = {} /\ Marked = {}
  BY DEF Init, Marked
<1>3. OrderInv  BY <1>2 DEF Init, OrderInv, Held
<1>4. MarkInv  BY <1>2 DEF Init, MarkInv
<1>5. PlaceInv  BY DEF Init, PlaceInv
<1>6. SearchStillHolds  BY DEF Init, SearchStillHolds
<1>7. GapInv
  <2>1. Held = 0 /\ lastFed = 0  BY DEF Init, Held
  <2> QED  BY <1>2, <2>1 DEF GapInv, Closed
<1>8. RoomInv  BY <1>2, QueueAssumption DEF Init, RoomInv, QueueBound
<1> QED  BY <1>1, <1>3, <1>4, <1>5, <1>6, <1>7, <1>8 DEF Inv

LEMMA InvStep == ASSUME Inv, [Next]_vars PROVE Inv'
<1>1. TypeInv'  BY TypeStep DEF Inv
<1>2. OrderInv'  BY <1>1, OrderStep DEF Inv
<1>3. MarkInv'  BY <1>1, MarkStep DEF Inv
<1>4. PlaceInv'  BY <1>1, PlaceStep DEF Inv
<1>5. SearchStillHolds'  BY <1>1, SearchStep DEF Inv
<1>6. GapInv'  BY <1>1, GapStep DEF Inv
<1>7. RoomInv'  BY RoomStep DEF Inv
<1> QED  BY <1>1, <1>2, <1>3, <1>4, <1>5, <1>6, <1>7 DEF Inv

LEMMA InvAlways == Spec => []Inv
BY InitInv, InvStep, PTL DEF Spec

\* The variables of the two threads and of the main thread have their types, and
\* the stream thread has a packet whenever it is past NewPacket.
THEOREM TypeCorrect == Spec => []TypeInv
<1>1. Inv => TypeInv  BY DEF Inv
<1> QED  BY <1>1, InvAlways, PTL

\* The packets that wait are in the order in which they came, newer than what was
\* decoded and without a hole, whatever the threads do: dropping, seeking and
\* flushing cut the queue at its head (packet_queue_get and the get_first_IFrame).
THEOREM PacketsInOrder == Spec => []InOrder
<1>1. ASSUME Inv PROVE InOrder
  <2>1. \A i \in DOMAIN tPacketQueue : tPacketQueue[i].num > lastFed
    <3> TAKE i \in DOMAIN tPacketQueue
    <3>1. lastFed < tPacketQueue[i].num  BY <1>1 DEF Inv, OrderInv
    <3>2. lastFed \in Nat /\ tPacketQueue[i].num \in Nat  BY <1>1, Numbers DEF Inv, TypeInv, DecType
    <3> QED  BY <3>1, <3>2
  <2>2. \A i \in DOMAIN tPacketQueue : tPacketQueue[i].num = tPacketQueue[1].num + i - 1
    BY <1>1 DEF Inv, OrderInv
  <2>3. ASSUME ~iTaskExitFlag, NEW i \in DOMAIN tPacketQueue
        PROVE  tPacketQueue[i].num =
                 npkt - (IF feedPc = "idle" THEN 0 ELSE 1) - Len(tPacketQueue) + i
    <3>1. Feeding  BY <2>3 DEF Feeding
    <3>2. tPacketQueue[i].num = Held - Len(tPacketQueue) + i  BY <1>1, <3>1 DEF Inv, OrderInv
    <3> QED  BY <3>2 DEF Held
  <2> QED  BY <2>1, <2>2, <2>3 DEF InOrder
<1> QED  BY <1>1, InvAlways, PTL

\* What get_first_IFrame found with the mutex still holds when it has the mutex
\* again, though the stream thread puts packets in between.
THEOREM SearchIsNotStale == Spec => []SearchStillHolds
<1>1. Inv => SearchStillHolds  BY DEF Inv
<1> QED  BY <1>1, InvAlways, PTL

\* packet_queue_put lets the mutex go between its wait and its insertion, and
\* still the queue never exceeds its limit by more than one packet.
THEOREM QueueIsBounded == Spec => []QueueBound
<1>1. Inv => QueueBound  BY DEF Inv, RoomInv
<1> QED  BY <1>1, InvAlways, PTL

\* After packets were left out the decoder goes on with an I frame, unless it has
\* flushed or has compared two states in one turn.
THEOREM GapEndsWithIFrame == Spec => GapOnlyBeforeIFrame
<1> DEFINE A == lastFed' \notin {lastFed, lastFed + 1} /\ ~flushed /\ ~torn => IsIFrame(lastFed')
<1>1. ASSUME Inv, [Next]_vars PROVE A
  <2> SUFFICES ASSUME lastFed' \notin {lastFed, lastFed + 1}, ~flushed, ~torn
               PROVE  IsIFrame(lastFed')
    OBVIOUS
  <2>1. TypeInv /\ OrderInv /\ MarkInv /\ PlaceInv /\ SearchStillHolds /\ GapInv  BY <1>1 DEF Inv
  <2>2. Take \/ GetStarting \/ Get
    BY <1>1 DEF Next, SetWndDisplayEnable, SetDecState, Feeder, NewPacket, FlagPacket, FlagIf,
       CheckLimit, Insert, Feed, Decoder, GetPacketNum, CompareNoDec, CompareStart,
       CompareStarting, Compare, Drop, Look, Find, Flush, StoreDecState, Decode, AllocFails,
       DecodeFails, Leave, vars, history
  <2>3. CASE Take
    <3>1. lastFed' = ptIFrameList  BY <2>3 DEF Take, TakeAt
    <3>2. decPc = "take"  BY <2>3 DEF Take
    <3>3. PICK i \in Marked : tPacketQueue[i].num = ptIFrameList  BY <2>1, <3>2 DEF SearchStillHolds
    <3>4. IsIFrame(tPacketQueue[i].num)  BY <2>1, <3>3 DEF MarkInv
    <3> QED  BY <3>1, <3>3, <3>4
  <2>4. CASE GetStarting \/ Get
    <3>1. decPc \in {"getStarting", "get"}  BY <2>4 DEF GetStarting, Get
    <3>2. ~iTaskExitFlag  BY <2>1, <3>1 DEF PlaceInv
    <3>3. ~Open  BY <3>1 DEF Open
    <3>4. lastFed = Held - Len(tPacketQueue)  BY <2>1, <3>2, <3>3 DEF GapInv, Closed
    <3>5. tPacketQueue # <<>> /\ TakeAt(1, "decode")
      BY <2>4 DEF GetStarting, Get, history
    <3>6. 1 \in DOMAIN tPacketQueue
      <4>1. Len(tPacketQueue) # 0  BY <2>1, <3>5, EmptySeq DEF TypeInv
      <4> QED  BY <2>1, <4>1, Numbers
    <3>7. Decoder  BY <2>4 DEF Decoder
    <3>8. lastFed' = Held - Len(tPacketQueue) + 1  BY <2>1, <3>2, <3>5, <3>6, <3>7, TakeCloses
    <3>9. lastFed' = lastFed + 1  BY <3>4, <3>8
    <3> QED  BY <3>9
  <2> QED  BY <2>2, <2>3, <2>4
<1>2. Inv /\ [Next]_vars => [A]_vars  BY <1>1
<1> HIDE DEF A
<1>3. Spec => [][A]_vars  BY <1>2, InvAlways, PTL DEF Spec
<1> QED  BY <1>3 DEF GapOnlyBeforeIFrame, A
=============================================================================
