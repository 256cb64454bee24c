-------------------------- MODULE FrameFlowProofs --------------------------
(***************************************************************************)
(* Who owns a frame buffer, for any number of buffers.  FlowInv is the      *)
(* inductive invariant.  Besides the types, OneOwner and InOrder it says    *)
(* which thread holds a frame when, and that the second place of the        *)
(* mailbox is only used after the first.  At the end, that a picture which   *)
(* is to be shown is displayed: three threads, and no mutex.                 *)
(***************************************************************************)
EXTENDS FrameFlow, FiniteSetTheorems, TLAPS

-----------------------------------------------------------------------------
(* Types *)

\* The decoder and the display thread hold a frame while they work on it.
Holding ==
  /\ decPc \in {"create", "ask", "enable", "send", "put"} => hand \in Frame
  /\ ipuPc \in {"check", "draw"} => iNowIndex \in Frame

\* The decoder creates an IPU task only when it has none.
CreatesFirst == decPc = "create" => ~hIpuHandel

\* The second place of the mailbox is only used after the first.
SecAfterFirst == iSecIndex # None => iFirstIndex # None

TypeInv == TypeOK /\ Holding /\ SecAfterFirst /\ CreatesFirst

\* The channel starts well typed.
LEMMA TypeInit == Init => TypeInv
<1> SUFFICES ASSUME Init PROVE TypeInv
  OBVIOUS
<1>1. {iFirstIndex, iSecIndex, iNowIndex, hand} \subseteq Frame \cup {None}
  BY DEF Init
<1>2. tPackIpu \in Seq(Frame)
  BY DEF Init
<1>3. flagged \subseteq Frame /\ older \subseteq flagged \X flagged
  BY DEF Init
<1>4. bits \in 0 .. MaxBits
  BY FrameAssumption DEF Init
<1> QED  BY <1>1, <1>2, <1>3, <1>4 DEF Init, TypeInv, TypeOK, Holding, SecAfterFirst, CreatesFirst

\* What the main thread does keeps the types.
LEMMA TypeMain == TypeInv /\ Main => TypeInv'
<1> SUFFICES ASSUME TypeInv, Main PROVE TypeInv'
  OBVIOUS
<1> USE DEF TypeInv, TypeOK, Holding, SecAfterFirst, CreatesFirst, setup
<1>1. ASSUME NEW on \in BOOLEAN, SetWndDisplayEnable(on) PROVE TypeInv'
  BY <1>1 DEF SetWndDisplayEnable, ipu, vpu, decoder
<1>2. CASE SetDecState
  BY <1>2 DEF SetDecState, ipu, vpu, decoder
<1>3. CASE SetDispFlag
  <2>1. iDispFlag' \in BOOLEAN
    BY <1>3 DEF SetDispFlag
  <2>2. ctlPc' \in {"ready", "join"}
    BY <1>3 DEF SetDispFlag
  <2> QED  BY <1>3, <2>1, <2>2 DEF SetDispFlag, control, vpu, decoder
<1>4. CASE StopVideoDec \/ StopDisp
  <2>1. CASE StopVideoDec
    BY <2>1 DEF StopVideoDec, ipu, vpu, decoder
  <2>2. CASE StopDisp
    <3>1. iDispEnable' \in BOOLEAN /\ ctlPc' \in {"stopdisp", "stopflag"}
      BY <2>2 DEF StopDisp
    <3>2. UNCHANGED <<iDecState, iTaskExitFlag, ipu, tPackIpu, vpu, decoder>>
      BY <2>2 DEF StopDisp
    <3> QED  BY <3>1, <3>2 DEF ipu, vpu, decoder
  <2> QED  BY <1>4, <2>1, <2>2
<1>5. CASE Reopen
  <2>1. {iFirstIndex, iSecIndex, iNowIndex, hand}' \subseteq Frame \cup {None}
    BY <1>5 DEF Reopen
  <2>2. (tPackIpu \in Seq(Frame))'
    BY <1>5 DEF Reopen
  <2>3. (flagged \subseteq Frame /\ older \subseteq flagged \X flagged)'
    BY <1>5 DEF Reopen
  <2>4. (bits \in 0 .. MaxBits)'
    BY <1>5, FrameAssumption DEF Reopen
  <2> QED  BY <1>5, <2>1, <2>2, <2>3, <2>4 DEF Reopen
<1> QED  BY <1>1, <1>2, <1>3, <1>4, <1>5 DEF Main, Finish

\* What the display thread does keeps the types.
LEMMA TypeIpu == TypeInv /\ Ipu => TypeInv'
<1> SUFFICES ASSUME TypeInv, Ipu PROVE TypeInv'
  OBVIOUS
<1> USE DEF TypeInv, TypeOK, Holding, SecAfterFirst, CreatesFirst, setup
<1>1. CASE Take
  BY <1>1 DEF Take, control, vpu, decoder
<1>2. ASSUME GiveBack, iNowIndex \in Frame PROVE TypeInv'
  <2>1. tPackIpu' \in Seq(Frame)
    BY <1>2 DEF GiveBack
  <2> QED  BY <1>2, <2>1 DEF GiveBack, control, vpu, decoder
<1>3. CASE CheckOn \/ DrawFails \/ IpuExit
  BY <1>3 DEF CheckOn, DrawFails, IpuExit, control, vpu, decoder
<1> QED  BY <1>1, <1>2, <1>3 DEF Ipu, Show, GiveBackHidden, Draw

\* What the decoder thread does keeps the types.
LEMMA TypeDecoder == TypeInv /\ Decoder => TypeInv'
<1> SUFFICES ASSUME TypeInv, Decoder PROVE TypeInv'
  OBVIOUS
<1> USE DEF TypeInv, TypeOK, Holding, SecAfterFirst, CreatesFirst, setup
<1>1. CASE SkipToIFrame \/ AwaitIFrame \/ NextPacket
  <2>1. ASSUME NEW g \in BOOLEAN, NEW s \in {"NO_DEC", "STARTING", "DISP"},
               NEW pc \in {"write", "fill"}, Fetch(g, s, pc)
        PROVE  TypeInv'
    BY <2>1 DEF Fetch, control, ipu, vpu
  <2>2. CASE SkipToIFrame
    BY <2>1, <2>2 DEF SkipToIFrame
  <2>3. CASE AwaitIFrame
    BY <2>1, <2>3 DEF AwaitIFrame
  <2>4. CASE NextPacket
    BY <2>1, <2>4 DEF NextPacket
  <2> QED  BY <1>1, <2>2, <2>3, <2>4
<1>2. CASE WriteDecState
  BY <1>2 DEF WriteDecState, ipu, vpu
<1>3. CASE FillBitstream \/ ParseFails \/ NoPicture
  <2>1. bits' \in 0 .. MaxBits
    BY <1>3, FrameAssumption DEF FillBitstream, ParseFails, NoPicture
  <2>2. CASE FillBitstream
    BY <2>1, <2>2 DEF FillBitstream, control, ipu
  <2>3. CASE ParseFails
    BY <2>1, <2>3 DEF ParseFails, control, ipu
  <2>4. CASE NoPicture
    BY <2>1, <2>4 DEF NoPicture, control, ipu
  <2> QED  BY <1>3, <2>2, <2>3, <2>4
<1>4. CASE FillFails \/ AllocFails \/ DecodeFails \/ Leave \/ StartOneFrame
  <2>1. CASE FillFails \/ AllocFails
    BY <2>1 DEF FillFails, AllocFails, control, ipu, vpu
  <2>2. CASE DecodeFails
    BY <2>2 DEF DecodeFails, ipu, vpu
  <2>3. CASE Leave \/ StartOneFrame
    BY <2>3 DEF Leave, StartOneFrame, control, ipu, vpu
  <2> QED  BY <1>4, <2>1, <2>2, <2>3
<1>5. CASE DecClrDispFlag
  <2>1. Head(tPackIpu) \in Frame /\ tPackIpu' \in Seq(Frame)
    BY <1>5 DEF DecClrDispFlag
  <2>2. flagged' \subseteq Frame /\ older' \subseteq flagged' \X flagged'
    BY <1>5 DEF DecClrDispFlag
  <2> QED  BY <1>5, <2>1, <2>2 DEF DecClrDispFlag, control, ipu, decoder
<1>6. ASSUME NEW f \in Frame, Output(f)
      PROVE  /\ flagged' \subseteq Frame
             /\ older' \subseteq flagged' \X flagged' /\ bits' \in 0 .. MaxBits
  <2>1. bits' \in 0 .. MaxBits
    BY <1>6, FrameAssumption DEF Output
  <2>2. flagged' = flagged \cup {f} /\ older' = older \cup {<<g, f>> : g \in flagged}
    BY <1>6 DEF Output
  <2>3. flagged' \subseteq Frame  BY <2>2
  <2>4. older' \subseteq flagged' \X flagged'  BY <2>2
  <2> QED  BY ONLY <2>1, <2>2, <2>3, <2>4
<1>7. CASE OutputPicture
  BY <1>6, <1>7 DEF OutputPicture, Output, control, ipu
<1>8. CASE ResolutionChanged \/ OutputUnseen
  <2>1. CASE ResolutionChanged
    BY <1>6, <2>1 DEF ResolutionChanged, Output, ipu
  <2>2. CASE OutputUnseen
    BY <1>6, <2>2 DEF OutputUnseen, Output, control, ipu
  <2> QED  BY <1>8, <2>1, <2>2
<1>9. CASE CreateTask \/ CreateFails \/ AskDispEnable \/ EnableDisp
  <2>1. CASE CreateTask
    <3>1. /\ {hIpuHandel, iDispFlag, ipuExit}' \subseteq BOOLEAN
          /\ decPc = "create" /\ decPc' = "ask" /\ ipuPc' = "idle"
      BY <2>1 DEF CreateTask
    <3>2. UNCHANGED <<control, iFirstIndex, iSecIndex, iNowIndex, tPackIpu, vpu, hand, next,
                      got, setup, ctlPc>>
      BY <2>1 DEF CreateTask
    <3> QED  BY <3>1, <3>2 DEF control, vpu
  <2>2. CASE AskDispEnable
    BY <2>2 DEF AskDispEnable, control, ipu, vpu
  <2>3. CASE EnableDisp
    BY <2>3 DEF EnableDisp, control, vpu
  <2>4. CASE CreateFails
    BY <2>4 DEF CreateFails, control, ipu, vpu
  <2> QED  BY <1>9, <2>1, <2>2, <2>3, <2>4
<1>10. CASE SendRefused \/ SendAccepted
  BY <1>10 DEF SendRefused, SendAccepted, control, ipu, vpu
<1>11. CASE Put
  <2>1. hand \in Frame
    BY <1>11 DEF Put
  <2>2. tPackIpu' \in Seq(Frame)
    BY <1>11 DEF Put
  <2>3. iFirstIndex' \in Frame \cup {None} /\ iSecIndex' \in Frame \cup {None}
    BY <1>11, <2>1 DEF Put
  <2>4. hand' = None /\ iFirstIndex' # None
    BY <1>11, <2>1 DEF Put, Frame, None
  <2>5. /\ decPc' = "inner" /\ UNCHANGED <<ipuPc, hIpuHandel, iDispFlag, iNowIndex, ipuExit>>
        /\ UNCHANGED <<control, vpu, next, got, setup, ctlPc>>
    BY <1>11 DEF Put
  <2>6. TypeOK'  BY <2>2, <2>3, <2>4, <2>5 DEF control, vpu
  <2>7. Holding' /\ SecAfterFirst' /\ CreatesFirst'  BY <2>4, <2>5
  <2> QED  BY <2>6, <2>7
<1>12. CASE DestroyTask \/ FreeTask
  <2>1. CASE DestroyTask
    <3>1. ipuExit' \in BOOLEAN /\ decPc' \in {"join", "done"}
      BY <2>1 DEF DestroyTask
    <3> QED  BY <2>1, <3>1 DEF DestroyTask, control, vpu
  <2>2. CASE FreeTask
    <3>1. /\ {hIpuHandel, iDispFlag}' \subseteq BOOLEAN /\ decPc' = "leave"
          /\ iFirstIndex' = None /\ iSecIndex' = None /\ hand' = None
      BY <2>2 DEF FreeTask
    <3>2. UNCHANGED <<control, iNowIndex, ipuExit, ipuPc, tPackIpu, vpu, next, got, setup,
                      ctlPc>>
      BY <2>2 DEF FreeTask
    <3> QED  BY <3>1, <3>2 DEF control, vpu
  <2> QED  BY <1>12, <2>1, <2>2
<1> QED
  BY <1>1, <1>2, <1>3, <1>4, <1>5, <1>7, <1>8, <1>9, <1>10, <1>11, <1>12
     DEF Decoder, Decode, DecoderEnds, DecoderFails

\* Every step keeps the types.
LEMMA TypeStep == TypeInv /\ [Next]_vars => TypeInv'
<1>1. TypeInv /\ UNCHANGED vars => TypeInv'
  BY DEF TypeInv, TypeOK, Holding, SecAfterFirst, CreatesFirst, vars, control, ipu, vpu, decoder, setup
<1> QED  BY <1>1, TypeMain, TypeIpu, TypeDecoder DEF Next

\* The types of the channel.
THEOREM TypeCorrect == Spec => []TypeOK
<1>1. TypeInv => TypeOK  BY DEF TypeInv
<1> QED  BY <1>1, TypeInit, TypeStep, PTL DEF Spec

-----------------------------------------------------------------------------
(* Owners and order *)

Distinct(q) == \A k, m \in 1 .. Len(q) : q[k] = q[m] => k = m
In(f, q)    == \E k \in 1 .. Len(q) : q[k] = f

\* Appending a new element keeps a sequence free of duplicates.
LEMMA AppendDistinct ==
  ASSUME NEW S, NEW q \in Seq(S), Distinct(q), NEW f \in S, ~In(f, q)
  PROVE  Distinct(Append(q, f)) /\ \A g : In(g, Append(q, f)) <=> In(g, q) \/ g = f
<1>1. Len(Append(q, f)) = Len(q) + 1 /\ Append(q, f)[Len(q) + 1] = f
  OBVIOUS
<1>2. \A k \in 1 .. Len(q) : Append(q, f)[k] = q[k]
  OBVIOUS
<1>3. Len(q) \in Nat
  OBVIOUS
<1>4. 1 .. Len(q) + 1 = 1 .. Len(q) \cup {Len(q) + 1} /\ Len(q) + 1 \notin 1 .. Len(q)
  BY <1>3
<1> DEFINE r == Append(q, f)
<1> HIDE DEF r
<1>5. /\ Len(r) = Len(q) + 1 /\ r[Len(q) + 1] = f
      /\ \A k \in 1 .. Len(q) : r[k] = q[k]
  BY <1>1, <1>2 DEF r
<1>6. Distinct(r)
  BY <1>4, <1>5 DEF Distinct, In
<1>7. \A g : In(g, r) <=> In(g, q) \/ g = f
  BY <1>4, <1>5 DEF In
<1> QED  BY <1>6, <1>7 DEF r

\* Taking the head out of a sequence without duplicates removes it for good.
LEMMA TailDistinct ==
  ASSUME NEW S, NEW q \in Seq(S), q # <<>>, Distinct(q)
  PROVE  Distinct(Tail(q)) /\ \A g : In(g, Tail(q)) <=> In(g, q) /\ g # Head(q)
<1>1. Len(q) \in Nat \ {0} /\ Head(q) = q[1]
  OBVIOUS
<1>2. Len(Tail(q)) = Len(q) - 1 /\ \A k \in 1 .. Len(q) - 1 : Tail(q)[k] = q[k + 1]
  OBVIOUS
<1> DEFINE t == Tail(q)
<1> HIDE DEF t
<1>3. Len(t) = Len(q) - 1 /\ \A k \in 1 .. Len(q) - 1 : t[k] = q[k + 1]
  BY <1>2 DEF t
<1>4. Distinct(t)
  <2> SUFFICES ASSUME NEW k \in 1 .. Len(t), NEW m \in 1 .. Len(t), t[k] = t[m] PROVE k = m
    BY DEF Distinct
  <2>1. q[k + 1] = q[m + 1] /\ k + 1 \in 1 .. Len(q) /\ m + 1 \in 1 .. Len(q)
    BY <1>1, <1>3
  <2> QED  BY <2>1 DEF Distinct
<1>5. ASSUME NEW g, In(g, t) PROVE In(g, q) /\ g # Head(q)
  <2>1. PICK k \in 1 .. Len(t) : t[k] = g
    BY <1>5 DEF In
  <2>2. q[k + 1] = g /\ k + 1 \in 1 .. Len(q) /\ k + 1 # 1 /\ 1 \in 1 .. Len(q)
    BY <1>1, <1>3, <2>1
  <2> QED  BY <1>1, <2>2 DEF In, Distinct
<1>6. ASSUME NEW g, In(g, q), g # Head(q) PROVE In(g, t)
  <2>1. PICK k \in 1 .. Len(q) : q[k] = g
    BY <1>6 DEF In
  <2>2. k - 1 \in 1 .. Len(t) /\ k = (k - 1) + 1
    BY <1>1, <1>3, <1>6, <2>1
  <2>3. t[k - 1] = g
    BY <1>3, <2>1, <2>2
  <2> QED  BY <2>2, <2>3 DEF In
<1> QED  BY <1>4, <1>5, <1>6 DEF t

\* OneOwner and InOrder place by place.
Held(p)      == p # None => p \in flagged /\ ~In(p, tPackIpu)
Behind(p, q) == p # None /\ q # None => p # q /\ <<p, q>> \in older

FlowInv ==
  /\ Held(iNowIndex) /\ Held(iFirstIndex) /\ Held(iSecIndex) /\ Held(hand)
  /\ Behind(iNowIndex, iFirstIndex) /\ Behind(iNowIndex, iSecIndex)
  /\ Behind(iFirstIndex, iSecIndex)
  /\ Behind(iNowIndex, hand) /\ Behind(iFirstIndex, hand) /\ Behind(iSecIndex, hand)
  /\ Distinct(tPackIpu)
  /\ \A f : In(f, tPackIpu) => f \in flagged

\* FlowInv gives both properties.
LEMMA FlowMeans == FlowInv => OneOwner /\ InOrder
<1> SUFFICES ASSUME FlowInv PROVE OneOwner /\ InOrder
  OBVIOUS
<1>1. /\ Place[1] = iNowIndex /\ Place[2] = iFirstIndex
      /\ Place[3] = iSecIndex /\ Place[4] = hand
  BY DEF Place
<1>2. 1 .. 4 = {1, 2, 3, 4}
  OBVIOUS
<1>3. \A i \in 1 .. 4 : Held(Place[i])
  BY <1>1, <1>2 DEF FlowInv
<1>4. \A i, j \in 1 .. 4 : i < j => Behind(Place[i], Place[j])
  BY <1>1, <1>2 DEF FlowInv
<1>5. \A i, j \in 1 .. 4 : Place[i] # None /\ Place[i] = Place[j] => i = j
  <2> SUFFICES ASSUME NEW i \in 1 .. 4, NEW j \in 1 .. 4, i # j
               PROVE  ~(Place[i] # None /\ Place[i] = Place[j])
    OBVIOUS
  <2>1. i < j \/ j < i
    OBVIOUS
  <2> QED  BY <1>4, <2>1 DEF Behind
<1>6. \A i \in 1 .. 4 : Place[i] # None => Place[i] \in flagged /\ ~Queued(Place[i])
  BY <1>3 DEF Held, Queued, In
<1>7. /\ \A k, m \in 1 .. Len(tPackIpu) : tPackIpu[k] = tPackIpu[m] => k = m
      /\ \A k \in 1 .. Len(tPackIpu) : tPackIpu[k] \in flagged
  BY DEF FlowInv, Distinct, In
<1>8. InOrder
  BY <1>4 DEF InOrder, Behind
<1> QED  BY <1>5, <1>6, <1>7, <1>8 DEF OneOwner

\* No frame is out at first.
LEMMA FlowInit == Init => FlowInv
<1> SUFFICES ASSUME Init PROVE FlowInv
  OBVIOUS
<1>1. Len(tPackIpu) = 0
  BY DEF Init
<1> QED  BY <1>1 DEF Init, FlowInv, Held, Behind, Distinct, In

\* The main thread moves no frame; a new channel starts without any.
LEMMA FlowMain == FlowInv /\ Main => FlowInv'
<1> SUFFICES ASSUME FlowInv, Main PROVE FlowInv'
  OBVIOUS
<1>1. CASE UNCHANGED <<iNowIndex, iFirstIndex, iSecIndex, hand, tPackIpu, flagged, older>>
  BY <1>1 DEF FlowInv, Held, Behind
<1>2. CASE Reopen
  <2>1. Len(tPackIpu') = 0
    BY <1>2 DEF Reopen
  <2> QED  BY <1>2, <2>1 DEF Reopen, FlowInv, Held, Behind, Distinct, In
<1>3. CASE ~Reopen
  <2>1. UNCHANGED <<iNowIndex, iFirstIndex, iSecIndex, hand, tPackIpu, flagged, older>>
    BY <1>3 DEF Main, Finish, SetWndDisplayEnable, SetDecState, SetDispFlag, StopVideoDec,
                StopDisp, ipu, vpu, decoder
  <2> QED  BY <1>1, <2>1
<1> QED  BY <1>2, <1>3

\* The display thread takes the older frame and gives it back.
LEMMA FlowIpu == TypeInv /\ FlowInv /\ Ipu => FlowInv'
<1> SUFFICES ASSUME TypeInv, FlowInv, Ipu PROVE FlowInv'
  OBVIOUS
<1>1. CASE Take
  <2>1. /\ iNowIndex' = iFirstIndex /\ iFirstIndex' = iSecIndex /\ iSecIndex' = None
        /\ UNCHANGED <<hand, tPackIpu, flagged, older>>
    BY <1>1 DEF Take, vpu, decoder
  <2> QED  BY <2>1 DEF FlowInv, Held, Behind
<1>2. ASSUME GiveBack, iNowIndex \in Frame PROVE FlowInv'
  <2>1. /\ tPackIpu' = Append(tPackIpu, iNowIndex) /\ iNowIndex' = None
        /\ UNCHANGED <<iFirstIndex, iSecIndex, hand, flagged, older>>
    BY <1>2 DEF GiveBack, vpu, decoder
  <2>2. tPackIpu \in Seq(Frame) /\ iNowIndex # None
    BY <1>2 DEF TypeInv, TypeOK, Frame, None
  <2>3. Distinct(tPackIpu) /\ ~In(iNowIndex, tPackIpu) /\ iNowIndex \in flagged
    BY <2>2 DEF FlowInv, Held
  <2>4. Distinct(tPackIpu') /\ \A g : In(g, tPackIpu') <=> In(g, tPackIpu) \/ g = iNowIndex
    BY <1>2, <2>1, <2>2, <2>3, AppendDistinct
  <2> QED  BY <2>1, <2>2, <2>3, <2>4 DEF FlowInv, Held, Behind
<1>3. CASE CheckOn \/ DrawFails \/ IpuExit
  <2>1. /\ iNowIndex' \in {iNowIndex, None}
        /\ UNCHANGED <<iFirstIndex, iSecIndex, hand, tPackIpu, flagged, older>>
    BY <1>3 DEF CheckOn, DrawFails, IpuExit, vpu, decoder
  <2> QED  BY <2>1 DEF FlowInv, Held, Behind
<1> QED  BY <1>1, <1>2, <1>3 DEF Ipu, Show, GiveBackHidden, Draw, TypeInv, Holding

\* The decoder fills the mailbox with younger and younger frames.
LEMMA FlowDecoder == TypeInv /\ FlowInv /\ Decoder => FlowInv'
<1> SUFFICES ASSUME TypeInv, FlowInv, Decoder PROVE FlowInv'
  OBVIOUS
<1>1. CASE UNCHANGED <<iNowIndex, iFirstIndex, iSecIndex, hand, tPackIpu, flagged, older>>
  BY <1>1 DEF FlowInv, Held, Behind
<1>2. CASE SkipToIFrame \/ AwaitIFrame \/ NextPacket \/ WriteDecState
  BY <1>1, <1>2 DEF SkipToIFrame, AwaitIFrame, NextPacket, WriteDecState, Fetch, ipu, vpu
<1>3. CASE FillBitstream \/ ParseFails \/ NoPicture \/ FillFails \/ AllocFails \/ DecodeFails
  BY <1>1, <1>3 DEF FillBitstream, ParseFails, NoPicture, FillFails, AllocFails, DecodeFails,
                    ipu, vpu
<1>4. CASE Leave \/ StartOneFrame \/ CreateTask \/ AskDispEnable \/ EnableDisp \/ SendAccepted
           \/ DestroyTask
  BY <1>1, <1>4 DEF Leave, StartOneFrame, CreateTask, AskDispEnable, EnableDisp, SendAccepted,
                    DestroyTask, ipu, vpu
<1>5. CASE DecClrDispFlag
  <2> DEFINE h == Head(tPackIpu)
  <2>1. /\ tPackIpu' = Tail(tPackIpu) /\ flagged' = flagged \ {h}
        /\ older' = {p \in older : h \notin {p[1], p[2]}}
        /\ UNCHANGED <<iNowIndex, iFirstIndex, iSecIndex, hand>>
    BY <1>5 DEF DecClrDispFlag, ipu, decoder
  <2>2. tPackIpu \in Seq(Frame) /\ tPackIpu # <<>> /\ Distinct(tPackIpu)
    BY <1>5 DEF DecClrDispFlag, TypeInv, TypeOK, FlowInv
  <2>3. Distinct(tPackIpu') /\ \A g : In(g, tPackIpu') <=> In(g, tPackIpu) /\ g # h
    BY <2>1, <2>2, TailDistinct
  <2>4. In(h, tPackIpu)
    BY <2>2 DEF In
  <2> HIDE DEF h
  <2>5. ASSUME NEW p, Held(p) PROVE Held(p)' /\ (p # None => p # h)
    BY <2>1, <2>3, <2>4, <2>5 DEF Held
  <2>6. ASSUME NEW p, NEW q, Behind(p, q), p # None => p # h, q # None => q # h
        PROVE  Behind(p, q)'
    BY <2>1, <2>6 DEF Behind
  <2>7. /\ Held(iNowIndex)' /\ Held(iFirstIndex)' /\ Held(iSecIndex)' /\ Held(hand)'
        /\ iNowIndex # None => iNowIndex # h
        /\ iFirstIndex # None => iFirstIndex # h
        /\ iSecIndex # None => iSecIndex # h
        /\ hand # None => hand # h
    BY <2>1, <2>5 DEF FlowInv, Held
  <2> QED  BY <2>1, <2>3, <2>7 DEF FlowInv, Behind
<1>6. ASSUME NEW f \in Frame, Output(f), hand' \in {f, None},
             UNCHANGED <<iNowIndex, iFirstIndex, iSecIndex>>
      PROVE  FlowInv'
  <2>1. /\ hand' \in {f, None} /\ f \notin flagged /\ flagged' = flagged \cup {f}
        /\ older' = older \cup {<<g, f>> : g \in flagged}
        /\ UNCHANGED tPackIpu
    BY <1>6 DEF Output
  <2>2. ASSUME NEW p, Held(p) PROVE p # None => p # f /\ <<p, f>> \in older'
    BY <2>1, <2>2 DEF Held
  <2>3. ~In(f, tPackIpu)
    BY <2>1 DEF FlowInv
  <2>4. /\ Behind(iNowIndex, hand)' /\ Behind(iFirstIndex, hand)' /\ Behind(iSecIndex, hand)'
    BY <1>6, <2>1, <2>2 DEF FlowInv, Behind
  <2>5. Held(iNowIndex)' /\ Held(iFirstIndex)' /\ Held(iSecIndex)' /\ Held(hand)'
    BY <1>6, <2>1, <2>3 DEF FlowInv, Held
  <2>6. /\ Behind(iNowIndex, iFirstIndex)' /\ Behind(iNowIndex, iSecIndex)'
        /\ Behind(iFirstIndex, iSecIndex)'
    BY <1>6, <2>1 DEF FlowInv, Behind
  <2>7. (Distinct(tPackIpu) /\ \A g : In(g, tPackIpu) => g \in flagged)'
    BY <2>1 DEF FlowInv
  <2> QED  BY <2>4, <2>5, <2>6, <2>7 DEF FlowInv
<1>7. CASE OutputPicture \/ ResolutionChanged \/ OutputUnseen
  BY <1>6, <1>7 DEF OutputPicture, ResolutionChanged, OutputUnseen, ipu
<1>8. CASE CreateFails \/ SendRefused \/ FreeTask
  <2>1. /\ hand' = None /\ UNCHANGED <<iNowIndex, tPackIpu, flagged, older>>
        /\ \/ UNCHANGED <<iFirstIndex, iSecIndex>>
           \/ iFirstIndex' = None /\ iSecIndex' = None
    BY <1>8 DEF CreateFails, SendRefused, FreeTask, ipu, vpu
  <2> QED  BY <2>1 DEF FlowInv, Held, Behind
<1>9. CASE Put
  <2>1. hand' = None /\ UNCHANGED <<iNowIndex, flagged, older>>
    BY <1>9 DEF Put, vpu
  <2>2. CASE iFirstIndex = None
    <3>1. iFirstIndex' = hand /\ UNCHANGED <<iSecIndex, tPackIpu>> /\ iSecIndex = None
      BY <1>9, <2>2 DEF Put, TypeInv, SecAfterFirst
    <3> QED  BY <2>1, <3>1 DEF FlowInv, Held, Behind
  <2>3. CASE iFirstIndex # None /\ iSecIndex = None
    <3>1. iSecIndex' = hand /\ UNCHANGED <<iFirstIndex, tPackIpu>>
      BY <1>9, <2>3 DEF Put
    <3> QED  BY <2>1, <3>1 DEF FlowInv, Held, Behind
  <2>4. CASE iFirstIndex # None /\ iSecIndex # None
    <3>1. /\ iSecIndex' = hand /\ UNCHANGED iFirstIndex
          /\ tPackIpu' = Append(tPackIpu, iSecIndex)
      BY <1>9, <2>4 DEF Put
    <3>2. tPackIpu \in Seq(Frame) /\ iSecIndex \in Frame
      BY <2>4 DEF TypeInv, TypeOK
    <3>3. Distinct(tPackIpu) /\ ~In(iSecIndex, tPackIpu) /\ iSecIndex \in flagged
      BY <2>4 DEF FlowInv, Held
    <3>4. Distinct(tPackIpu') /\ \A g : In(g, tPackIpu') <=> In(g, tPackIpu) \/ g = iSecIndex
      BY <3>1, <3>2, <3>3, AppendDistinct
    <3> QED  BY <2>1, <2>4, <3>1, <3>3, <3>4 DEF FlowInv, Held, Behind
  <2> QED  BY <2>2, <2>3, <2>4
<1> QED
  BY <1>2, <1>3, <1>4, <1>5, <1>7, <1>8, <1>9 DEF Decoder, Decode, DecoderEnds, DecoderFails

\* Every step keeps FlowInv.
LEMMA FlowStep == TypeInv /\ FlowInv /\ [Next]_vars => FlowInv'
<1>1. FlowInv /\ UNCHANGED vars => FlowInv'
  BY DEF FlowInv, Held, Behind, vars, ipu, vpu, decoder
<1> QED  BY <1>1, FlowMain, FlowIpu, FlowDecoder DEF Next

\* The invariants hold in every state.
LEMMA FlowAlways == Spec => [](TypeInv /\ FlowInv)
BY TypeInit, TypeStep, FlowInit, FlowStep, PTL DEF Spec

\* No frame buffer is ever in two places, and none the VPU may decode into is
\* in any: whatever hides, shows or closes the channel meanwhile.
THEOREM FramesHaveOneOwner == Spec => []OneOwner
BY FlowAlways, FlowMeans, PTL

\* The display thread never gets a frame older than one it got before.
THEOREM FramesStayInOrder == Spec => []InOrder
BY FlowAlways, FlowMeans, PTL

\* A sequence over Frame without duplicates is no longer than NFrame.
LEMMA QueueBound ==
  ASSUME NEW q \in Seq(Frame), Distinct(q)
  PROVE  Len(q) <= NFrame
<1>1. Len(q) \in Nat /\ NFrame \in Nat
  BY FrameAssumption
<1>2. IsFiniteSet(1 .. Len(q)) /\ Cardinality(1 .. Len(q)) = Len(q)
  BY <1>1, FS_Interval
<1>3. IsFiniteSet(Frame) /\ Cardinality(Frame) = NFrame
  BY <1>1, FS_Interval, FrameAssumption DEF Frame
<1>4. q \in [1 .. Len(q) -> Frame]
  OBVIOUS
<1>5. CASE NFrame < Len(q)
  <2>1. PICK x, y \in 1 .. Len(q) : x # y /\ q[x] = q[y]
    BY <1>2, <1>3, <1>4, <1>5, FS_PigeonHole
  <2> QED  BY <2>1 DEF Distinct
<1> QED  BY <1>1, <1>5

\* Giving a frame back never waits, for any number of buffers up to the limit
\* of the queue.
THEOREM GivingBackNeverWaits == Spec => []PutNeverWaits
<1>1. TypeInv /\ FlowInv => PutNeverWaits
  <2> SUFFICES ASSUME TypeInv, FlowInv PROVE PutNeverWaits
    OBVIOUS
  <2>1. tPackIpu \in Seq(Frame) /\ Distinct(tPackIpu)
    BY DEF TypeInv, TypeOK, FlowInv
  <2>2. Len(tPackIpu) <= NFrame /\ Len(tPackIpu) \in Nat
    BY <2>1, QueueBound
  <2> QED  BY <2>2, FrameAssumption DEF PutNeverWaits
<1> QED  BY <1>1, FlowAlways, PTL

-----------------------------------------------------------------------------
(* Shown pictures *)

\* The main thread: its last step takes the task it finds, or there is none yet.
LEMMA ShownMain == ShownIsDisplayed /\ Main => ShownIsDisplayed'
<1> SUFFICES ASSUME ShownIsDisplayed, Main PROVE ShownIsDisplayed'
  OBVIOUS
<1> USE DEF ShownIsDisplayed
<1>1. ASSUME NEW on \in BOOLEAN, SetWndDisplayEnable(on) PROVE ctlPc' = "dec"
  BY <1>1 DEF SetWndDisplayEnable
<1>2. CASE SetDecState \/ StopVideoDec \/ StopDisp
  BY <1>2 DEF SetDecState, StopVideoDec, StopDisp
<1>3. CASE SetDispFlag
  BY <1>3 DEF SetDispFlag, control
<1>4. CASE Reopen
  BY <1>4 DEF Reopen
<1> QED  BY <1>1, <1>2, <1>3, <1>4 DEF Main, Finish

\* The decoder: it asks for iDispEnable after it has stored the new task.
LEMMA ShownDecoder == CreatesFirst /\ ShownIsDisplayed /\ Decoder => ShownIsDisplayed'
<1> SUFFICES ASSUME CreatesFirst, ShownIsDisplayed, Decoder PROVE ShownIsDisplayed'
  OBVIOUS
<1> USE DEF ShownIsDisplayed
<1>1. CASE /\ UNCHANGED <<ctlPc, iDispEnable, hIpuHandel, iDispFlag>>
           /\ decPc \in {"create", "ask", "enable"} => UNCHANGED decPc
  BY <1>1
<1>2. CASE SkipToIFrame \/ AwaitIFrame \/ NextPacket
  BY <1>1, <1>2 DEF SkipToIFrame, AwaitIFrame, NextPacket, Fetch, control, ipu
<1>3. CASE WriteDecState \/ DecodeFails
  BY <1>1, <1>3 DEF WriteDecState, DecodeFails, ipu
<1>4. CASE FillBitstream \/ ParseFails \/ NoPicture \/ FillFails \/ AllocFails
  BY <1>1, <1>4 DEF FillBitstream, ParseFails, NoPicture, FillFails, AllocFails, control, ipu
<1>5. CASE Leave \/ StartOneFrame \/ SendRefused \/ SendAccepted
  BY <1>1, <1>5 DEF Leave, StartOneFrame, SendRefused, SendAccepted, control, ipu
<1>6. CASE DecClrDispFlag
  BY <1>1, <1>6 DEF DecClrDispFlag, control, ipu, decoder
<1>7. CASE OutputPicture \/ OutputUnseen
  BY <1>1, <1>7 DEF OutputPicture, OutputUnseen, Output, control, ipu
<1>8. CASE ResolutionChanged
  BY <1>1, <1>8 DEF ResolutionChanged, Output, ipu
<1>9. CASE Put \/ DestroyTask
  BY <1>1, <1>9 DEF Put, DestroyTask, control
<1>10. CASE CreateTask \/ CreateFails
  BY <1>10 DEF CreateTask, CreateFails, CreatesFirst, control, ipu
<1>11. CASE AskDispEnable
  BY <1>11 DEF AskDispEnable, control
<1>12. CASE EnableDisp \/ FreeTask
  BY <1>12 DEF EnableDisp, FreeTask
<1> QED
  BY <1>2, <1>3, <1>4, <1>5, <1>6, <1>7, <1>8, <1>9, <1>10, <1>11, <1>12
     DEF Decoder, Decode, DecoderEnds, DecoderFails

\* The display thread changes none of it.
LEMMA ShownIpu == ShownIsDisplayed /\ Ipu => ShownIsDisplayed'
<1> SUFFICES ASSUME Ipu PROVE UNCHANGED <<ctlPc, iDispEnable, hIpuHandel, decPc, iDispFlag>>
  BY DEF ShownIsDisplayed
<1> QED
  BY DEF Ipu, Show, Take, GiveBackHidden, CheckOn, Draw, GiveBack, DrawFails, IpuExit,
         control, decoder

\* Whichever of the main thread and the decoder comes last to a new IPU task,
\* the task of a shown picture displays.
THEOREM ShownPictureIsDisplayed == Spec => []ShownIsDisplayed
<1>1. Init => ShownIsDisplayed
  BY DEF Init, ShownIsDisplayed
<1>2. ShownIsDisplayed /\ UNCHANGED vars => ShownIsDisplayed'
  BY DEF ShownIsDisplayed, vars, control, ipu, decoder
<1>3. TypeInv /\ ShownIsDisplayed /\ [Next]_vars => ShownIsDisplayed'
  BY <1>2, ShownMain, ShownDecoder, ShownIpu DEF Next, TypeInv
<1> QED  BY <1>1, <1>3, FlowAlways, PTL DEF Spec

=============================================================================
