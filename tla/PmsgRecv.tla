----------------------------- MODULE PmsgRecv -----------------------------
(***************************************************************************)
(* How the client thread of an NVR (CliProcessThread, src/cctv/pmsg/        *)
(* pmsgcli.c) cuts the bytes of a TCP connection into messages.  TCP hands   *)
(* over any piece of the stream; an incomplete message is kept in pcLeaveBuf *)
(* and put before the next piece - also when that piece is of another        *)
(* connection, since iPreLeaveLen is not reset.                             *)
(*                                                                         *)
(* A byte is a number.  A message is its head - the start flag, HeadLen - 2 *)
(* bytes nobody reads here, the length of the data - and its data.  One turn *)
(* of the loop over the received bytes is one action.                       *)
(***************************************************************************)
EXTENDS Integers, Sequences, SequencesExt

CONSTANTS
  HeadLen,   \* sizeof(T_PMSG_HEAD); 10 in the code
  MaxData,   \* the longest data accepted; 1048
  BufLen,    \* iBufLen; 2048
  Flag,      \* MSG_START_FLAG
  Data,      \* the data a message can have
  MaxSend,   \* messages the NVR sends on a connection
  MaxConn    \* connections

ASSUME BufferAssumption ==
  /\ HeadLen \in Nat /\ HeadLen >= 2 /\ MaxData \in Nat
  /\ BufLen \in Nat /\ BufLen > HeadLen + MaxData
  /\ Flag \in Nat \ (0 .. MaxData)
  /\ Data \subseteq {d \in Seq(Nat) : Len(d) <= MaxData}
  /\ MaxSend \in Nat /\ MaxConn \in Nat

VARIABLES
  iSocket,    \* is there a connection?
  pcLeaveBuf, \* its first iPreLeaveLen bytes
  pcRecvBuf,  \* received bytes from iOffset on; empty outside the loop
  stream,     \* sent on this connection and not received
  sent, got,  \* history: data sent and delivered on this connection
  stale,      \* history: the connection began with bytes of an older one
  conns       \* connections so far

recv == <<pcLeaveBuf, pcRecvBuf>>
vars == <<iSocket, recv, stream, sent, got, stale, conns>>

\* A message on the wire.
Message(d) ==
  [i \in 1 .. HeadLen |-> IF i = 1 THEN Flag ELSE IF i = HeadLen THEN Len(d) ELSE 0] \o d

Init ==
  /\ iSocket = FALSE /\ pcLeaveBuf = <<>> /\ pcRecvBuf = <<>>
  /\ stream = <<>> /\ sent = <<>> /\ got = <<>> /\ stale = FALSE /\ conns = 0

-----------------------------------------------------------------------------
\* connect succeeds; iPreLeaveLen is what it was.
CreateTcpSocket ==
  /\ ~iSocket /\ conns < MaxConn
  /\ iSocket' = TRUE /\ conns' = conns + 1
  /\ stream' = <<>> /\ sent' = <<>> /\ got' = <<>>
  /\ stale' = (pcLeaveBuf # <<>>)
  /\ UNCHANGED recv

\* The NVR sends a message.
NvrSends ==
  /\ iSocket /\ Len(sent) < MaxSend
  /\ \E d \in Data : sent' = Append(sent, d) /\ stream' = stream \o Message(d)
  /\ UNCHANGED <<iSocket, recv, got, stale, conns>>

Room == BufLen - Len(pcLeaveBuf) - 1

\* recv behind the bytes left, and the bytes left before them.  iPreLeaveLen
\* keeps its value until the loop sets it.
Receive ==
  /\ iSocket /\ pcRecvBuf = <<>> /\ stream # <<>>
  /\ \E n \in 1 .. Len(stream) :
       /\ n <= Room
       /\ pcRecvBuf' = pcLeaveBuf \o SubSeq(stream, 1, n)
       /\ stream' = SubSeq(stream, n + 1, Len(stream))
  /\ UNCHANGED <<iSocket, pcLeaveBuf, sent, got, stale, conns>>

\* recv fails, the heartbeat cannot be sent or nothing came for too long.
Disconnect ==
  /\ iSocket /\ pcRecvBuf = <<>>
  /\ iSocket' = FALSE
  /\ UNCHANGED <<recv, stream, sent, got, stale, conns>>

-----------------------------------------------------------------------------
(* The loop over the received bytes *)

DataLen == pcRecvBuf[HeadLen]

Rest == SubSeq(pcRecvBuf, HeadLen + DataLen + 1, Len(pcRecvBuf))

\* The loop ends and leaves l.
Leave(l) ==
  /\ pcLeaveBuf' = l /\ pcRecvBuf' = <<>>
  /\ UNCHANGED <<iSocket, stream, sent, got, stale, conns>>

ShortHead == pcRecvBuf # <<>> /\ Len(pcRecvBuf) < HeadLen /\ Leave(pcRecvBuf)

BadHead == Len(pcRecvBuf) >= HeadLen /\ pcRecvBuf[1] # Flag /\ Leave(<<>>)

BadLength ==
  /\ Len(pcRecvBuf) >= HeadLen /\ pcRecvBuf[1] = Flag /\ DataLen > MaxData
  /\ Leave(<<>>)

\* Mutant: an incomplete message is dropped.
PartOfDataDropped ==
  /\ Len(pcRecvBuf) >= HeadLen /\ pcRecvBuf[1] = Flag /\ DataLen <= MaxData
  /\ DataLen > Len(pcRecvBuf) - HeadLen
  /\ Leave(<<>>)

PartOfData ==
  /\ Len(pcRecvBuf) >= HeadLen /\ pcRecvBuf[1] = Flag /\ DataLen <= MaxData
  /\ DataLen > Len(pcRecvBuf) - HeadLen
  /\ Leave(pcRecvBuf)

\* Mutant: iOffset forgets the head.
DeliverForgetsHead ==
  /\ Len(pcRecvBuf) >= HeadLen /\ pcRecvBuf[1] = Flag /\ DataLen <= MaxData
  /\ DataLen <= Len(pcRecvBuf) - HeadLen
  /\ got' = Append(got, SubSeq(pcRecvBuf, HeadLen + 1, HeadLen + DataLen))
  /\ pcRecvBuf' = SubSeq(pcRecvBuf, DataLen + 1, Len(pcRecvBuf)) /\ pcLeaveBuf' = <<>>
  /\ UNCHANGED <<iSocket, stream, sent, stale, conns>>

\* pMsgProcFunc gets the message.
Deliver ==
  /\ Len(pcRecvBuf) >= HeadLen /\ pcRecvBuf[1] = Flag /\ DataLen <= MaxData
  /\ DataLen <= Len(pcRecvBuf) - HeadLen
  /\ got' = Append(got, SubSeq(pcRecvBuf, HeadLen + 1, HeadLen + DataLen))
  /\ pcRecvBuf' = Rest /\ pcLeaveBuf' = <<>>
  /\ UNCHANGED <<iSocket, stream, sent, stale, conns>>

Loop == ShortHead \/ BadHead \/ BadLength \/ PartOfData \/ Deliver

Next == CreateTcpSocket \/ NvrSends \/ Receive \/ Disconnect \/ Loop

Spec == Init /\ [][Next]_vars

\* The thread goes on receiving while there is something to receive.
FairSpec == Spec /\ WF_vars(Receive \/ Loop)

-----------------------------------------------------------------------------
(* Properties *)

Byte == Nat

TypeOK ==
  /\ iSocket \in BOOLEAN /\ stale \in BOOLEAN /\ conns \in 0 .. MaxConn
  /\ pcLeaveBuf \in Seq(Nat) /\ pcRecvBuf \in Seq(Nat) /\ stream \in Seq(Nat)
  /\ sent \in Seq(Data) /\ got \in Seq(Seq(Nat))
  /\ Len(pcRecvBuf) < BufLen

\* recv is never asked for no bytes: it would return 0, which CliProcessThread
\* takes for the end of the connection.
RoomToReceive == Room > 0

\* What is kept is an incomplete message, never a whole one that waits for
\* bytes that may not come.
LeftIsIncomplete ==
  pcRecvBuf = <<>> /\ Len(pcLeaveBuf) >= HeadLen =>
    pcLeaveBuf[1] = Flag /\ Len(pcLeaveBuf) < HeadLen + pcLeaveBuf[HeadLen]

\* Messages on the wire, one after the other.
Wire(data) == FlattenSeq([i \in 1 .. Len(data) |-> Message(data[i])])

\* Received and not delivered yet.
Kept == IF pcRecvBuf = <<>> THEN pcLeaveBuf ELSE pcRecvBuf

\* On a connection that began without old bytes, however TCP cuts the stream,
\* nothing is lost, doubled or altered: the messages delivered and what is
\* buffered and on the way are what was sent.
NothingLost == ~stale /\ iSocket => Wire(sent) = Wire(got) \o Kept \o stream

\* A message sent is delivered, unless the connection ends or began with old bytes.
SentIsDelivered ==
  \A n \in 1 .. MaxSend : Len(sent) >= n /\ iSocket ~> Len(got) >= n \/ ~iSocket \/ stale
=============================================================================
