---------------------------- MODULE ResUpdate ----------------------------
(***************************************************************************)
(* The resource update server (SrvProcessThread, src/cctv/pmsg/pmsgcli.c):  *)
(* an update program connects, reports how its update goes and closes; the  *)
(* state is kept in state.c and shown by CheckResUpdateTimer of the system  *)
(* window (src/cctv/CCTV/SysManageWid.cxx).                                 *)
(*                                                                         *)
(* A turn of the server's loop is one step, but for the two assignments of  *)
(* SetResUpdateState, between which the timer may read.  The update program  *)
(* is external: it may send, close, or start anew without having closed.    *)
(***************************************************************************)
EXTENDS Integers, Sequences

CONSTANTS
  HeartMax,  \* iHeartTimeout above which a quiet connection is closed; 200
  RecvMax,   \* bytes of acRecvBuf; 64
  ReportLen, \* bytes of a report: 3 of head, its state, its progress, and more; 9
  Report,    \* the reports it can send, with their state and progress
  MaxConn,   \* connections the update program opens
  MaxSend    \* messages it sends on a connection

UNKNOW == 0
START  == 1
ING    == 2
SUCC   == 3
FAIL   == 4

Running == {START, ING}
Conn    == 1 .. MaxConn
None    == 0

ASSUME UpdateAssumption ==
  /\ {HeartMax, RecvMax, MaxConn, MaxSend} \subseteq Nat \ {0}
  /\ ReportLen \in Nat /\ ReportLen > 4
  /\ Report \subseteq [state : START .. FAIL, progress : Nat]

Progress == {r.progress : r \in Report} \cup {0}

VARIABLES
  opened,        \* connections opened so far
  backlog,       \* opened and not yet accepted
  iConnSocket,   \* the accepted one, or None
  inbox, closed, \* per connection: reports on the way, has the program closed it?
  at,            \* bytes already received of the accepted connection's first report
  iHeartTimeout,
  setting,       \* the progress SetResUpdateState has still to store, or None - 1
  g_cResUpdateState, g_cResUpdateProgress,
  g_cState, g_cProgress, label, \* CheckResUpdateTimer: last seen, and shown
  nsent, lastSent, \* history, per connection: reports sent, the last one's state
  heard            \* history: of the latest report that came, was the first piece
                   \* the start of what recv returned, and long enough for the state?

net     == <<opened, backlog, inbox, closed>>
server  == <<iConnSocket, at, iHeartTimeout>>
shared  == <<g_cResUpdateState, g_cResUpdateProgress, setting>>
shown   == <<g_cState, g_cProgress, label>>
history == <<nsent, lastSent, heard>>
vars    == <<net, server, shared, shown, history>>

Idle == None - 1

\* The texts of CheckResUpdateTimer.
Text(s, p) ==
  CASE s = START -> <<"begun", 0>> [] s = ING -> <<"updating", p>> [] s = SUCC -> <<"succeeded", 0>>
    [] s = FAIL -> <<"failed", 0>> [] OTHER -> <<"none", 0>>

Init ==
  /\ opened = 0 /\ backlog = <<>>
  /\ inbox = [c \in Conn |-> <<>>] /\ closed = [c \in Conn |-> FALSE]
  /\ iConnSocket = None /\ at = 0 /\ iHeartTimeout = 0
  /\ setting = Idle /\ g_cResUpdateState = UNKNOW /\ g_cResUpdateProgress = 0
  /\ g_cState = UNKNOW /\ g_cProgress = 0 /\ label = <<"none", 0>>
  /\ nsent = [c \in Conn |-> 0] /\ lastSent = [c \in Conn |-> UNKNOW]
  /\ heard = [c \in Conn |-> FALSE]

-----------------------------------------------------------------------------
(* The update program *)

ProgramConnects ==
  /\ opened < MaxConn
  /\ opened' = opened + 1 /\ backlog' = Append(backlog, opened')
  /\ UNCHANGED <<inbox, closed, server, shared, shown, history>>

ProgramSends ==
  \E r \in Report :
    /\ opened # 0 /\ ~closed[opened] /\ nsent[opened] < MaxSend
    /\ inbox' = [inbox EXCEPT ![opened] = Append(@, r)]
    /\ nsent' = [nsent EXCEPT ![opened] = @ + 1]
    /\ lastSent' = [lastSent EXCEPT ![opened] = r.state]
    /\ UNCHANGED <<opened, backlog, closed, server, shared, shown, heard>>

ProgramCloses ==
  /\ opened # 0 /\ ~closed[opened]
  /\ closed' = [closed EXCEPT ![opened] = TRUE]
  /\ UNCHANGED <<opened, backlog, inbox, server, shared, shown, history>>

-----------------------------------------------------------------------------
(* SrvProcessThread *)

Readable(c) == inbox[c] # <<>> \/ closed[c]

\* SetResUpdateState stores the state first.
SetResUpdateState(s, p) ==
  g_cResUpdateState' = s /\ setting' = p /\ UNCHANGED g_cResUpdateProgress

StoreProgress ==
  /\ setting # Idle
  /\ g_cResUpdateProgress' = setting /\ setting' = Idle
  /\ UNCHANGED <<g_cResUpdateState, net, server, shown, history>>

Quiet == setting = Idle /\ backlog = <<>> /\ (iConnSocket # None => ~Readable(iConnSocket))

Tick == IF iHeartTimeout > HeartMax THEN iHeartTimeout ELSE iHeartTimeout + 1

\* Mutant: the counter starts anew in each turn.
SelectTimesOutResets ==
  /\ Quiet /\ iHeartTimeout' = 0
  /\ UNCHANGED <<iConnSocket, at, net, shared, shown, history>>

SelectTimesOut ==
  /\ Quiet /\ (iConnSocket # None => iHeartTimeout < HeartMax)
  /\ iHeartTimeout' = Tick
  /\ UNCHANGED <<iConnSocket, at, net, shared, shown, history>>

ConnTimesOut ==
  /\ Quiet /\ iConnSocket # None /\ iHeartTimeout >= HeartMax
  /\ iConnSocket' = None /\ at' = 0 /\ iHeartTimeout' = 0
  /\ SetResUpdateState(UNKNOW, 0)
  /\ UNCHANGED <<net, shown, history>>

\* A new connection replaces the old one, whatever that one still has to say.
Accept ==
  /\ setting = Idle /\ backlog # <<>>
  /\ iConnSocket' = Head(backlog) /\ backlog' = Tail(backlog)
  /\ at' = 0 /\ iHeartTimeout' = 0
  /\ UNCHANGED <<opened, inbox, closed, shared, shown, history>>

\* The history of a recv that ends k reports and gets b bytes of the next: it
\* stays what it was when only more of the same report came.
Hears(k, b, n, before) ==
  IF k + (IF b > 0 THEN 1 ELSE 0) = 1 THEN (IF at = 0 THEN n > 3 ELSE before) ELSE FALSE

\* Mutant: a report whose progress is smaller is not stored.
ReceiveGrowing(k, b) ==
  /\ setting = Idle /\ backlog = <<>>
  /\ iConnSocket # None
  /\ LET c == iConnSocket
         n == k * ReportLen + b - at
     IN  /\ k + (IF b > 0 THEN 1 ELSE 0) <= Len(inbox[c])
         /\ n \in 1 .. RecvMax
         /\ inbox' = [inbox EXCEPT ![c] = SubSeq(@, k + 1, Len(@))] /\ at' = b
         /\ heard' = [heard EXCEPT ![c] = Hears(k, b, n, @)]
         /\ IF at > 0 \/ n < 3 \/ inbox[c][1].progress < g_cResUpdateProgress THEN UNCHANGED shared
            ELSE SetResUpdateState(IF n > 3 THEN inbox[c][1].state ELSE UNKNOW,
                                   IF n > 4 THEN inbox[c][1].progress ELSE 0)
  /\ iHeartTimeout' = 0
  /\ UNCHANGED <<opened, backlog, closed, iConnSocket, shown, nsent, lastSent>>

\* TCP keeps no borders: recv takes n of the bytes that have come, at most RecvMax.
\* The length is not looked at.  The buffer was zeroed, so of a report of which 3
\* or 4 bytes came the state or the progress is read as 0; fewer bytes, or the
\* rest of a report, are no head and are dropped, with all that follows them; and
\* of several reports that came together only the first is read.
Receive(k, b) ==
  /\ setting = Idle /\ backlog = <<>>
  /\ iConnSocket # None
  /\ LET c == iConnSocket
         n == k * ReportLen + b - at
     IN  /\ k + (IF b > 0 THEN 1 ELSE 0) <= Len(inbox[c])
         /\ n \in 1 .. RecvMax
         /\ inbox' = [inbox EXCEPT ![c] = SubSeq(@, k + 1, Len(@))] /\ at' = b
         /\ heard' = [heard EXCEPT ![c] = Hears(k, b, n, @)]
         /\ IF at > 0 \/ n < 3 THEN UNCHANGED shared
            ELSE SetResUpdateState(IF n > 3 THEN inbox[c][1].state ELSE UNKNOW,
                                   IF n > 4 THEN inbox[c][1].progress ELSE 0)
  /\ iHeartTimeout' = 0
  /\ UNCHANGED <<opened, backlog, closed, iConnSocket, shown, nsent, lastSent>>

\* recv returns 0 (or an error): close.  The test of the state for SUCC and FAIL
\* uses || and is always true.
PeerClosed ==
  /\ setting = Idle /\ backlog = <<>>
  /\ iConnSocket # None /\ inbox[iConnSocket] = <<>> /\ closed[iConnSocket]
  /\ iConnSocket' = None
  /\ SetResUpdateState(FAIL, 0)
  /\ UNCHANGED <<net, at, iHeartTimeout, shown, history>>

-----------------------------------------------------------------------------
CheckResUpdateTimer ==
  /\ g_cState # g_cResUpdateState \/ g_cProgress # g_cResUpdateProgress
  /\ g_cState' = g_cResUpdateState /\ g_cProgress' = g_cResUpdateProgress
  /\ label' = Text(g_cResUpdateState, g_cResUpdateProgress)
  /\ UNCHANGED <<net, server, shared, history>>

Program == ProgramConnects \/ ProgramSends \/ ProgramCloses

Server ==
  \/ StoreProgress \/ SelectTimesOut \/ ConnTimesOut \/ Accept \/ PeerClosed
  \/ \E k \in 0 .. MaxSend, b \in 0 .. ReportLen - 1 : Receive(k, b)

Next == Program \/ Server \/ CheckResUpdateTimer

Spec == Init /\ [][Next]_vars

\* The server's loop goes round for ever, and FLTK calls the timer.
FairSpec == Spec /\ WF_vars(Server) /\ WF_vars(CheckResUpdateTimer)

-----------------------------------------------------------------------------
(* Properties *)

Labels == {Text(s, p) : s \in UNKNOW .. FAIL, p \in Progress}

TypeOK ==
  /\ opened \in 0 .. MaxConn /\ backlog \in Seq(Conn)
  /\ inbox \in [Conn -> Seq(Report)] /\ closed \in [Conn -> BOOLEAN]
  /\ iConnSocket \in Conn \cup {None} /\ at \in 0 .. ReportLen - 1
  /\ iHeartTimeout \in 0 .. HeartMax + 1 /\ setting \in Progress \cup {Idle}
  /\ {g_cResUpdateState, g_cState} \subseteq UNKNOW .. FAIL
  /\ {g_cResUpdateProgress, g_cProgress} \subseteq Progress
  /\ label \in Labels
  /\ nsent \in [Conn -> 0 .. MaxSend] /\ lastSent \in [Conn -> UNKNOW .. FAIL]
  /\ heard \in [Conn -> BOOLEAN]

\* An update that is said to run has a connection that can end it.
RunningHasConn == g_cResUpdateState \in Running => iConnSocket # None

\* When all was read, the state is the last one reported, if that report's first
\* piece was the start of a recv and held the state: neither the rest of a report
\* that came in pieces nor an earlier connection spoils it.
LastReportCounts ==
  LET c == iConnSocket
  IN  c # None /\ nsent[c] > 0 /\ inbox[c] = <<>> /\ heard[c] =>
        g_cResUpdateState = lastSent[c]

\* The update program stops sending at some time; then no update stays shown as
\* running: its end was reported, the connection closed or it timed out.
UpdateEnds == <>[](g_cResUpdateState \notin Running)

\* A success that was reported becomes a failure by another report only, not by
\* the close that ends the update.
FinishedStays ==
  [][g_cResUpdateState = SUCC /\ g_cResUpdateState' = FAIL => at' # at \/ inbox' # inbox]_vars
=============================================================================
