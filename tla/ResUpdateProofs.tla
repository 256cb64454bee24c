------------------------- MODULE ResUpdateProofs -------------------------
(***************************************************************************)
(* Theorems about the resource update server, for any reports, any number   *)
(* of connections and messages, any size of a read and any cut of a report.  *)
(***************************************************************************)
EXTENDS ResUpdate, TLAPS

LEMMA Constants ==
  /\ HeartMax \in Nat \ {0} /\ RecvMax \in Nat \ {0} /\ MaxConn \in Nat \ {0} /\ MaxSend \in Nat \ {0}
  /\ \A r \in Report : r.state \in START .. FAIL /\ r.progress \in Nat /\ r.progress \in Progress
  /\ 0 \in Progress /\ Progress \subseteq Nat /\ Idle \notin Progress /\ None \notin Conn
  /\ Conn \subseteq Nat /\ ReportLen \in Nat /\ ReportLen > 4
BY UpdateAssumption DEF UpdateAssumption, Progress, Idle, None, Conn, START, FAIL

-----------------------------------------------------------------------------
(* Types *)

\* A recv returns bytes of the accepted connection, of reports that came.
LEMMA ReceiveFacts ==
  ASSUME TypeOK, NEW k \in 0 .. MaxSend, NEW b \in 0 .. ReportLen - 1, Receive(k, b)
  PROVE  LET s == inbox[iConnSocket]
         IN  /\ iConnSocket \in Conn /\ s \in Seq(Report) /\ s # <<>> /\ k \in 0 .. Len(s)
             /\ b > 0 => k < Len(s)
             /\ k = 0 => b > at
<1> DEFINE s == inbox[iConnSocket]
<1>1. /\ iConnSocket # None /\ k + (IF b > 0 THEN 1 ELSE 0) <= Len(s)
      /\ k * ReportLen + b - at \in 1 .. RecvMax
  BY Zenon DEF Receive
<1>2. iConnSocket \in Conn /\ s \in Seq(Report)  BY <1>1 DEF TypeOK
<1>3. b \in Nat /\ at \in Nat /\ k \in Nat /\ Len(s) \in Nat
  BY <1>2, Constants DEF TypeOK
<1>4. (b > 0 => k + 1 <= Len(s)) /\ k <= Len(s)  BY <1>1, <1>3
<1>5. k = 0 => b > at
  <2> SUFFICES ASSUME k = 0 PROVE b > at  OBVIOUS
  <2>1. k * ReportLen = 0  BY Constants
  <2> QED BY <1>1, <1>3, <2>1, Constants
<1>6. Len(s) > 0  BY <1>3, <1>4, <1>5
<1>7. s # <<>>  BY <1>2, <1>6
<1> QED BY <1>2, <1>3, <1>4, <1>5, <1>7

LEMMA TypeInit == Init => TypeOK
<1> SUFFICES ASSUME Init PROVE TypeOK OBVIOUS
<1>1. opened \in 0 .. MaxConn /\ backlog \in Seq(Conn) /\ iHeartTimeout \in 0 .. HeartMax + 1
  BY Constants DEF Init
<1>2. inbox \in [Conn -> Seq(Report)] /\ closed \in [Conn -> BOOLEAN]
  BY DEF Init
<1>3. /\ iConnSocket \in Conn \cup {None} /\ at \in 0 .. ReportLen - 1 /\ setting \in Progress \cup {Idle}
      /\ {g_cResUpdateState, g_cState} \subseteq UNKNOW .. FAIL
      /\ {g_cResUpdateProgress, g_cProgress} \subseteq Progress
  <2>1. UNKNOW \in UNKNOW .. FAIL  BY DEF UNKNOW, FAIL
  <2> QED BY <2>1, Constants DEF Init
<1>4. label \in Labels
  <2>1. label = Text(UNKNOW, 0)  BY DEF Init, Text, UNKNOW, START, ING, SUCC, FAIL
  <2> QED BY <2>1, Constants DEF UNKNOW, FAIL, Labels
<1>5. /\ nsent \in [Conn -> 0 .. MaxSend] /\ lastSent \in [Conn -> UNKNOW .. FAIL]
      /\ heard \in [Conn -> BOOLEAN]
  BY Constants DEF Init, UNKNOW, FAIL
<1> QED BY <1>1, <1>2, <1>3, <1>4, <1>5 DEF TypeOK

LEMMA TypeStep == TypeOK /\ [Next]_vars => TypeOK'
<1> SUFFICES ASSUME TypeOK, [Next]_vars PROVE TypeOK' OBVIOUS
<1> USE Constants DEF TypeOK
<1>0. 0 \in 0 .. HeartMax + 1 /\ UNKNOW \in UNKNOW .. FAIL /\ FAIL \in UNKNOW .. FAIL
  BY DEF UNKNOW, FAIL
<1>z. 0 \in 0 .. ReportLen - 1  OBVIOUS
<1>1. CASE ProgramConnects
  <2>1. opened' \in Conn  BY <1>1 DEF ProgramConnects, Conn
  <2>2. opened' \in 0 .. MaxConn /\ backlog' \in Seq(Conn)
    BY <1>1, <2>1 DEF ProgramConnects
  <2> QED BY <1>1, <2>2 DEF ProgramConnects, server, shared, shown, history
<1>2. CASE ProgramSends
  <2>1. PICK r \in Report :
          /\ opened # 0 /\ ~closed[opened] /\ nsent[opened] < MaxSend
          /\ inbox' = [inbox EXCEPT ![opened] = Append(@, r)]
          /\ nsent' = [nsent EXCEPT ![opened] = @ + 1]
          /\ lastSent' = [lastSent EXCEPT ![opened] = r.state]
          /\ UNCHANGED <<opened, backlog, closed, server, shared, shown, heard>>
    BY <1>2 DEF ProgramSends
  <2>2. opened \in Conn /\ Append(inbox[opened], r) \in Seq(Report)
    BY <2>1 DEF Conn
  <2>3. nsent[opened] + 1 \in 0 .. MaxSend  BY <2>1, <2>2
  <2>4. r.state \in UNKNOW .. FAIL  BY DEF UNKNOW, START
  <2>5. inbox' \in [Conn -> Seq(Report)]  BY <2>1, <2>2
  <2>6. nsent' \in [Conn -> 0 .. MaxSend] /\ lastSent' \in [Conn -> UNKNOW .. FAIL]
    BY <2>1, <2>3, <2>4
  <2> QED BY <2>1, <2>5, <2>6 DEF server, shared, shown
<1>3. CASE ProgramCloses
  BY <1>3 DEF ProgramCloses, server, shared, shown, history
<1>4. CASE StoreProgress
  BY <1>4 DEF StoreProgress, net, server, shown, history
<1>5. CASE SelectTimesOut
  <2>1. iHeartTimeout' \in 0 .. HeartMax + 1  BY <1>5 DEF SelectTimesOut, Tick
  <2> QED BY <1>5, <2>1 DEF SelectTimesOut, net, shared, shown, history
<1>6. CASE ConnTimesOut
  BY <1>0, <1>z, <1>6 DEF ConnTimesOut, SetResUpdateState, net, shown, history
<1>7. CASE Accept
  <2>1. Head(backlog) \in Conn /\ Tail(backlog) \in Seq(Conn)  BY <1>7 DEF Accept
  <2> QED BY <1>0, <1>z, <1>7, <2>1 DEF Accept, shared, shown, history
<1>8. CASE PeerClosed
  BY <1>0, <1>8 DEF PeerClosed, SetResUpdateState, net, shown, history
<1>9. ASSUME NEW k \in 0 .. MaxSend, NEW b \in 0 .. ReportLen - 1, Receive(k, b)
      PROVE  TypeOK'
  <2>1. /\ iConnSocket \in Conn /\ inbox[iConnSocket] \in Seq(Report)
        /\ inbox[iConnSocket] # <<>>
    BY <1>9, ReceiveFacts
  <2>2. /\ inbox' = [inbox EXCEPT ![iConnSocket] = SubSeq(@, k + 1, Len(@))]
        /\ at' = b /\ iHeartTimeout' = 0
        /\ UNCHANGED <<opened, backlog, closed, iConnSocket, shown, nsent, lastSent>>
    BY <1>9 DEF Receive
  <2>3. SubSeq(inbox[iConnSocket], k + 1, Len(inbox[iConnSocket])) \in Seq(Report)
    BY <2>1
  <2>4. inbox' \in [Conn -> Seq(Report)]  BY <2>1, <2>2, <2>3
  <2>5. heard' \in [Conn -> BOOLEAN]
    <3>1. ASSUME NEW n, NEW h \in BOOLEAN PROVE Hears(k, b, n, h) \in BOOLEAN
      <4>1. Hears(k, b, n, h) \in {n > 3, h, FALSE}  BY Zenon DEF Hears
      <4>2. (n > 3) \in BOOLEAN  OBVIOUS
      <4> QED BY ONLY <3>1, <4>1, <4>2, h \in BOOLEAN, Zenon
    <3>2. heard' = [heard EXCEPT ![iConnSocket] = Hears(k, b, k * ReportLen + b - at, @)]
      BY <1>9 DEF Receive
    <3>3. heard[iConnSocket] \in BOOLEAN  BY <2>1
    <3>4. Hears(k, b, k * ReportLen + b - at, heard[iConnSocket]) \in BOOLEAN  BY <3>1, <3>3, Zenon
    <3> QED BY <2>1, <3>2, <3>4, Zenon
  <2>6. /\ g_cResUpdateState' \in UNKNOW .. FAIL /\ g_cResUpdateProgress' \in Progress
        /\ setting' \in Progress \cup {Idle}
    <3>1. CASE UNCHANGED shared  BY <3>1 DEF shared
    <3>2. CASE ~ UNCHANGED shared
      <4>1. inbox[iConnSocket][1] \in Report  BY <2>1
      <4>2. PICK s \in {inbox[iConnSocket][1].state, UNKNOW},
                 p \in {inbox[iConnSocket][1].progress, 0} : SetResUpdateState(s, p)
        BY <1>9, <3>2, Zenon DEF Receive
      <4>3. inbox[iConnSocket][1].state \in UNKNOW .. FAIL
        BY <4>1 DEF UNKNOW, START
      <4>4. inbox[iConnSocket][1].progress \in Progress /\ 0 \in Progress
            /\ UNKNOW \in UNKNOW .. FAIL
        BY <1>0, <4>1
      <4>5. s \in UNKNOW .. FAIL /\ p \in Progress
        BY ONLY <4>2, <4>3, <4>4
      <4>6. g_cResUpdateState' = s /\ setting' = p /\ UNCHANGED g_cResUpdateProgress
        BY <4>2 DEF SetResUpdateState
      <4>7. g_cResUpdateProgress \in Progress
        OBVIOUS
      <4> QED BY ONLY <4>5, <4>6, <4>7
    <3> QED BY <3>1, <3>2
  <2>7. at' \in 0 .. ReportLen - 1 /\ iHeartTimeout' \in 0 .. HeartMax + 1  BY <1>0, <2>2
  <2>8. UNCHANGED <<opened, backlog, closed, iConnSocket, g_cState, g_cProgress, label, nsent, lastSent>>
    BY <2>2 DEF shown
  <2> QED BY <2>4, <2>5, <2>6, <2>7, <2>8
<1>10. CASE CheckResUpdateTimer
  <2>1. label' \in Labels
    BY <1>10 DEF CheckResUpdateTimer, Labels
  <2> QED BY <1>10, <2>1 DEF CheckResUpdateTimer, net, server, shared, history
<1>11. CASE UNCHANGED vars
  BY <1>11 DEF vars, net, server, shared, shown, history
<1> QED
  BY <1>1, <1>2, <1>3, <1>4, <1>5, <1>6, <1>7, <1>8, <1>9, <1>10, <1>11
     DEF Next, Program, Server

\* Every variable keeps its type, in particular the counter of quiet turns stays
\* within its limit and the label is one of the window's texts.
THEOREM TypeCorrect == Spec => []TypeOK
<1> QED BY TypeInit, TypeStep, PTL DEF Spec

-----------------------------------------------------------------------------
(* An update that runs has a connection *)

\* While the state says that an update runs there is a connection that can still
\* end it: every place that gives the connection up stores another state.
THEOREM RunningAlwaysHasConn == Spec => []RunningHasConn
<1> USE Constants
<1>1. Init => RunningHasConn
  BY DEF Init, RunningHasConn, Running, UNKNOW, START, ING
<1>2. TypeOK /\ RunningHasConn /\ [Next]_vars => RunningHasConn'
  <2> SUFFICES ASSUME TypeOK, RunningHasConn, [Next]_vars PROVE RunningHasConn'
    OBVIOUS
  <2> USE DEF RunningHasConn
  <2>1. CASE UNCHANGED <<iConnSocket, g_cResUpdateState>>  BY <2>1
  <2>2. CASE ConnTimesOut
    BY <2>2 DEF ConnTimesOut, SetResUpdateState, Running, UNKNOW, START, ING
  <2>3. CASE Accept
    <3>1. Head(backlog) \in Conn  BY <2>3 DEF Accept, TypeOK
    <3> QED BY <2>3, <3>1 DEF Accept
  <2>4. CASE PeerClosed
    BY <2>4 DEF PeerClosed, SetResUpdateState, Running, FAIL, START, ING
  <2>5. ASSUME NEW k \in 0 .. MaxSend, NEW b \in 0 .. ReportLen - 1, Receive(k, b)
        PROVE  RunningHasConn'
    BY <2>5 DEF Receive
  <2> QED
    BY <2>1, <2>2, <2>3, <2>4, <2>5
       DEF Next, Program, Server, ProgramConnects, ProgramSends, ProgramCloses, StoreProgress,
           SelectTimesOut, CheckResUpdateTimer, vars, server, shared
<1> QED BY <1>1, <1>2, TypeCorrect, PTL DEF Spec

-----------------------------------------------------------------------------
(* The last report counts *)

\* What waits to be accepted are the newest connections, in their order.
Waiting ==
  /\ Len(backlog) <= opened
  /\ \A i \in 1 .. Len(backlog) : backlog[i] = opened - Len(backlog) + i
  /\ iConnSocket <= opened - Len(backlog)

\* The last report of a connection is the end of what was not read, and from a
\* connection that was not accepted nothing was read.
Unread ==
  \A c \in Conn :
    /\ inbox[c] # <<>> => inbox[c][Len(inbox[c])].state = lastSent[c]
    /\ c > opened - Len(backlog) /\ nsent[c] > 0 => inbox[c] # <<>>
    /\ c > opened => nsent[c] = 0
    /\ nsent[c] = 0 => inbox[c] = <<>>

\* Of a report that came in part and was heard, the state is stored already.
HeardInPart ==
  at > 0 =>
    /\ iConnSocket # None /\ inbox[iConnSocket] # <<>>
    /\ heard[iConnSocket] => g_cResUpdateState = inbox[iConnSocket][1].state

ReportInv == Waiting /\ Unread /\ HeardInPart /\ LastReportCounts

LEMMA ReportInit == Init => ReportInv
<1> SUFFICES ASSUME Init PROVE ReportInv OBVIOUS
<1> USE Constants DEF Init
<1>1. Waiting  BY DEF Waiting, None
<1>2. Unread  BY DEF Unread
<1>3. HeardInPart /\ LastReportCounts  BY DEF HeardInPart, LastReportCounts
<1> QED BY <1>1, <1>2, <1>3 DEF ReportInv

LEMMA ReportConnects == TypeOK /\ ReportInv /\ ProgramConnects => ReportInv'
<1> SUFFICES ASSUME TypeOK, ReportInv, ProgramConnects PROVE ReportInv' OBVIOUS
<1> USE Constants DEF ReportInv
<1>0. /\ opened \in Nat /\ backlog \in Seq(Conn) /\ iConnSocket \in Nat
      /\ opened + 1 \in Conn
  BY DEF ProgramConnects, TypeOK, None, Conn
<1>1. /\ opened' = opened + 1 /\ backlog' = Append(backlog, opened + 1)
      /\ UNCHANGED <<inbox, closed, server, shared, shown, history>>
  BY DEF ProgramConnects
<1>2. Len(backlog') = Len(backlog) + 1 /\ Len(backlog) \in Nat  BY <1>0, <1>1
<1>3. Waiting'
  <2>1. ASSUME NEW i \in 1 .. Len(backlog') PROVE backlog'[i] = opened' - Len(backlog') + i
    <3>1. CASE i = Len(backlog) + 1  BY <1>0, <1>1, <1>2, <3>1
    <3>2. CASE i \in 1 .. Len(backlog)  BY <1>0, <1>1, <1>2, <3>2 DEF Waiting
    <3> QED BY <1>2, <3>1, <3>2
  <2> QED BY <1>0, <1>1, <1>2, <2>1 DEF Waiting, server
<1>4. Unread'  BY <1>0, <1>1, <1>2 DEF Unread, history
<1>5. HeardInPart' /\ LastReportCounts'
  BY <1>1 DEF HeardInPart, LastReportCounts, server, shared, history
<1> QED BY <1>3, <1>4, <1>5

LEMMA ReportSends == TypeOK /\ ReportInv /\ ProgramSends => ReportInv'
<1> SUFFICES ASSUME TypeOK, ReportInv, ProgramSends PROVE ReportInv' OBVIOUS
<1> USE Constants DEF ReportInv
<1>1. PICK r \in Report :
        /\ opened # 0
        /\ inbox' = [inbox EXCEPT ![opened] = Append(@, r)]
        /\ nsent' = [nsent EXCEPT ![opened] = @ + 1]
        /\ lastSent' = [lastSent EXCEPT ![opened] = r.state]
        /\ UNCHANGED <<opened, backlog, closed, server, shared, shown, heard>>
  BY DEF ProgramSends
<1>2. /\ opened \in Conn /\ inbox \in [Conn -> Seq(Report)]
      /\ nsent \in [Conn -> 0 .. MaxSend] /\ lastSent \in [Conn -> UNKNOW .. FAIL]
  <2>1. opened \in 0 .. MaxConn  BY DEF TypeOK
  <2>2. opened \in Conn  BY <1>1, <2>1 DEF Conn
  <2> QED BY <2>2 DEF TypeOK
<1>3. /\ inbox'[opened] # <<>> /\ inbox'[opened][Len(inbox'[opened])] = r
      /\ nsent'[opened] > 0 /\ lastSent'[opened] = r.state
  <2>1. inbox[opened] \in Seq(Report) /\ nsent[opened] \in Nat  BY <1>2
  <2>2. /\ inbox'[opened] = Append(inbox[opened], r) /\ nsent'[opened] = nsent[opened] + 1
        /\ lastSent'[opened] = r.state
    BY <1>1, <1>2
  <2>3. /\ Len(Append(inbox[opened], r)) = Len(inbox[opened]) + 1
        /\ Append(inbox[opened], r)[Len(inbox[opened]) + 1] = r
        /\ Append(inbox[opened], r) # <<>>
    BY ONLY <2>1
  <2>4. inbox'[opened] # <<>> /\ inbox'[opened][Len(inbox'[opened])] = r
    BY ONLY <2>2, <2>3
  <2>5. nsent'[opened] > 0  BY ONLY <2>1, <2>2
  <2> QED BY <2>2, <2>4, <2>5
<1>4. \A c \in Conn : c # opened =>
        inbox'[c] = inbox[c] /\ nsent'[c] = nsent[c] /\ lastSent'[c] = lastSent[c]
  <2>1. \A c \in Conn : c # opened => inbox'[c] = inbox[c]  BY <1>1, <1>2, Zenon
  <2>2. \A c \in Conn : c # opened => nsent'[c] = nsent[c]  BY <1>1, <1>2, Zenon
  <2>3. \A c \in Conn : c # opened => lastSent'[c] = lastSent[c]  BY <1>1, <1>2, Zenon
  <2> QED BY <2>1, <2>2, <2>3, Zenon
<1>5. nsent'[opened] \in Nat  BY <1>1, <1>2
<1>6. Waiting' /\ HeardInPart'
  <2>1. Waiting'  BY <1>1 DEF Waiting, server
  <2>2. ASSUME iConnSocket \in Conn, inbox[iConnSocket] # <<>>
        PROVE  inbox'[iConnSocket] # <<>> /\ inbox'[iConnSocket][1] = inbox[iConnSocket][1]
    <3>1. inbox[iConnSocket] \in Seq(Report)  BY <1>2, <2>2
    <3>2. /\ Append(inbox[iConnSocket], r)[1] = inbox[iConnSocket][1]
          /\ Append(inbox[iConnSocket], r) # <<>>
      BY <2>2, <3>1
    <3>3. CASE iConnSocket = opened
      <4>1. inbox'[iConnSocket] = Append(inbox[iConnSocket], r)  BY <1>1, <1>2, <3>3
      <4> QED BY <3>2, <4>1
    <3>4. CASE iConnSocket # opened  BY <1>4, <2>2, <3>4
    <3> QED BY <3>3, <3>4
  <2>3. /\ at > 0 => iConnSocket \in Conn
        /\ UNCHANGED <<at, iConnSocket, heard, g_cResUpdateState>>
    BY <1>1 DEF HeardInPart, TypeOK, server, shared
  <2> QED BY <2>1, <2>2, <2>3 DEF HeardInPart
<1>7. Unread'
  <2> SUFFICES ASSUME NEW c \in Conn
               PROVE  /\ inbox'[c] # <<>> => inbox'[c][Len(inbox'[c])].state = lastSent'[c]
                      /\ c > opened - Len(backlog) /\ nsent'[c] > 0 => inbox'[c] # <<>>
                      /\ c > opened => nsent'[c] = 0
                      /\ nsent'[c] = 0 => inbox'[c] = <<>>
    BY <1>1 DEF Unread
  <2>1. CASE c = opened
    <3>1. inbox'[c] # <<>> /\ inbox'[c][Len(inbox'[c])].state = lastSent'[c]  BY <1>3, <2>1
    <3>2. nsent'[c] \in Nat /\ nsent'[c] # 0  BY <1>2, <1>3, <1>5, <2>1
    <3>3. ~ (c > opened)  BY <1>2, <2>1 DEF Conn
    <3> QED BY ONLY <3>1, <3>2, <3>3
  <2>2. CASE c # opened  BY <1>4, <2>2 DEF Unread
  <2> QED BY <2>1, <2>2
<1>8. LastReportCounts'
  <2>1. iConnSocket \in Conn \cup {None}  BY DEF TypeOK
  <2>2. CASE iConnSocket = opened  BY <1>1, <1>3, <2>2 DEF LastReportCounts, server
  <2>3. CASE iConnSocket # opened
    BY <1>1, <1>4, <2>1, <2>3 DEF LastReportCounts, server, shared
  <2> QED BY <2>2, <2>3
<1> QED BY <1>6, <1>7, <1>8

LEMMA ReportAccept == TypeOK /\ ReportInv /\ Accept => ReportInv'
<1> SUFFICES ASSUME TypeOK, ReportInv, Accept PROVE ReportInv' OBVIOUS
<1> USE Constants DEF ReportInv
<1>1. /\ backlog \in Seq(Conn) /\ backlog # <<>> /\ opened \in Nat
      /\ iConnSocket' = Head(backlog) /\ backlog' = Tail(backlog) /\ at' = 0
      /\ UNCHANGED <<opened, inbox, closed, shared, shown, history>>
  BY DEF Accept, TypeOK
<1>2. /\ Len(backlog) \in Nat \ {0} /\ Len(backlog') = Len(backlog) - 1
      /\ \A i \in 1 .. Len(backlog') : backlog'[i] = backlog[i + 1]
      /\ Head(backlog) = backlog[1]
  BY <1>1
<1>3. iConnSocket' = opened - Len(backlog) + 1  BY <1>1, <1>2 DEF Waiting
<1>4. Waiting'
  <2>1. ASSUME NEW i \in 1 .. Len(backlog') PROVE backlog'[i] = opened - Len(backlog') + i
    <3>1. i + 1 \in 1 .. Len(backlog)  BY <1>2
    <3> QED BY <1>1, <1>2, <3>1 DEF Waiting
  <2> QED BY <1>1, <1>2, <1>3, <2>1 DEF Waiting
<1>5. Unread'
  <2> SUFFICES ASSUME NEW c \in Conn, c > opened - Len(backlog'), nsent[c] > 0
               PROVE  inbox[c] # <<>>
    BY <1>1 DEF Unread, history
  <2>1. c > opened - Len(backlog)  BY <1>1, <1>2
  <2> QED BY <2>1 DEF Unread
<1>6. iConnSocket' \in Conn  BY <1>1 DEF TypeOK
<1>7. nsent[iConnSocket'] > 0 => inbox[iConnSocket'] # <<>>
  BY <1>1, <1>2, <1>3, <1>6 DEF Unread
<1>8. HeardInPart' /\ LastReportCounts'
  BY <1>1, <1>7 DEF HeardInPart, LastReportCounts, history
<1> QED BY <1>4, <1>5, <1>8

LEMMA ReportReceive ==
  ASSUME TypeOK, ReportInv, NEW k \in 0 .. MaxSend, NEW b \in 0 .. ReportLen - 1,
         Receive(k, b)
  PROVE  ReportInv'
<1> USE Constants DEF ReportInv
<1> DEFINE c0 == iConnSocket
           s  == inbox[c0]
           n  == k * ReportLen + b - at
<1>1. /\ c0 \in Conn /\ s \in Seq(Report) /\ inbox \in [Conn -> Seq(Report)]
      /\ heard \in [Conn -> BOOLEAN] /\ opened \in Nat /\ Len(backlog) \in Nat /\ Conn \subseteq Nat
  <2>1. c0 \in Conn /\ s \in Seq(Report)  BY ReceiveFacts, Zenon
  <2>2. /\ inbox \in [Conn -> Seq(Report)] /\ heard \in [Conn -> BOOLEAN]
        /\ opened \in Nat /\ backlog \in Seq(Conn)
    BY Constants DEF TypeOK
  <2> QED BY <2>1, <2>2, Constants
<1>2. k \in 0 .. Len(s) /\ s # <<>> /\ (b > 0 => k < Len(s)) /\ (k = 0 => b > at)
  BY ReceiveFacts
<1>3. /\ inbox' = [inbox EXCEPT ![c0] = SubSeq(s, k + 1, Len(s))]
      /\ heard' = [heard EXCEPT ![c0] = Hears(k, b, n, @)]
      /\ at' = b
      /\ UNCHANGED <<opened, backlog, closed, iConnSocket, nsent, lastSent>>
  BY DEF Receive
<1>4. /\ inbox'[c0] = SubSeq(s, k + 1, Len(s))
      /\ heard'[c0] = Hears(k, b, n, heard[c0])
      /\ \A c \in Conn : c # c0 => inbox'[c] = inbox[c]
  BY <1>1, <1>3, Zenon
<1>5. /\ Len(inbox'[c0]) = Len(s) - k
      /\ inbox'[c0] # <<>> => inbox'[c0][Len(inbox'[c0])] = s[Len(s)]
      /\ s = <<>> => inbox'[c0] = <<>>
  <2>1. /\ Len(SubSeq(s, k + 1, Len(s))) = Len(s) - k
        /\ \A i \in 1 .. Len(s) - k : SubSeq(s, k + 1, Len(s))[i] = s[i + k]
        /\ SubSeq(s, k + 1, Len(s)) \in Seq(Report)
    BY <1>1, <1>2
  <2>2. Len(s) \in Nat /\ Len(s) - k + k = Len(s) /\ Len(s) - k \in Nat  BY <1>1, <1>2
  <2>3. ASSUME inbox'[c0] # <<>> PROVE inbox'[c0][Len(inbox'[c0])] = s[Len(s)]
    <3>1. Len(s) - k \in 1 .. Len(s) - k  BY <1>4, <2>1, <2>2, <2>3
    <3> QED BY <1>4, <2>1, <2>2, <3>1
  <2>4. ASSUME s = <<>> PROVE inbox'[c0] = <<>>
    <3>1. Len(inbox'[c0]) = 0  BY <1>2, <1>4, <2>1, <2>4
    <3> QED BY <1>4, <2>1, <3>1
  <2> QED BY <1>4, <2>1, <2>3, <2>4
<1>6. Waiting'  BY <1>3 DEF Waiting
<1>7. Unread'
  <2> SUFFICES ASSUME NEW c \in Conn
               PROVE  /\ inbox'[c] # <<>> => inbox'[c][Len(inbox'[c])].state = lastSent[c]
                      /\ c > opened - Len(backlog) /\ nsent[c] > 0 => inbox'[c] # <<>>
                      /\ c > opened => nsent[c] = 0
                      /\ nsent[c] = 0 => inbox'[c] = <<>>
    BY <1>3 DEF Unread
  <2>1. CASE c = c0
    <3>1. c <= opened - Len(backlog)  BY <2>1 DEF Waiting
    <3>2. s # <<>> => s[Len(s)].state = lastSent[c]  BY <2>1 DEF Unread
    <3>3. (c > opened => nsent[c] = 0) /\ (nsent[c] = 0 => s = <<>>)  BY <2>1 DEF Unread
    <3>4. ~(c > opened - Len(backlog))  BY <1>1, <3>1
    <3> QED BY <1>5, <2>1, <3>2, <3>3, <3>4
  <2>2. CASE c # c0  BY <1>4, <2>2 DEF Unread
  <2> QED BY <2>1, <2>2
\* Whatever was heard of: the first of the reports that came, and it is stored.
<1>8. heard'[c0] => g_cResUpdateState' = s[1].state /\ ((k = 1 /\ b = 0) \/ (k = 0 /\ b > 0))
  <2> SUFFICES ASSUME heard'[c0]
               PROVE  g_cResUpdateState' = s[1].state /\ ((k = 1 /\ b = 0) \/ (k = 0 /\ b > 0))
    OBVIOUS
  <2>1. k + (IF b > 0 THEN 1 ELSE 0) = 1 /\ (IF at = 0 THEN n > 3 ELSE heard[c0])
    BY <1>4 DEF Hears
  <2>2. at \in Nat /\ b \in Nat /\ k \in Nat  BY Constants DEF TypeOK
  <2>3. (k = 1 /\ b = 0) \/ (k = 0 /\ b > 0)
    <3>1. k + (IF b > 0 THEN 1 ELSE 0) = 1  BY ONLY <2>1
    <3> HIDE DEF n
    <3> QED BY ONLY <2>2, <3>1
  <2>4. CASE at = 0
    <3>1. n > 3  BY <2>1, <2>4
    <3>2. n \in Int  BY <2>2
    <3>3. ~(at > 0 \/ n < 3)  BY <2>2, <2>4, <3>1, <3>2
    <3>4. SetResUpdateState(IF n > 3 THEN s[1].state ELSE UNKNOW,
                            IF n > 4 THEN s[1].progress ELSE 0)
      BY <3>3, Zenon DEF Receive
    <3> QED BY <2>3, <3>1, <3>4 DEF SetResUpdateState
  <2>5. CASE at # 0
    <3>1. at > 0 /\ heard[c0]  BY <2>1, <2>2, <2>5
    <3>2. UNCHANGED shared  BY <3>1, Zenon DEF Receive
    <3> QED BY <2>3, <3>1, <3>2 DEF shared, HeardInPart
  <2> QED BY <2>4, <2>5
<1>9. HeardInPart'
  <2> SUFFICES ASSUME b > 0
               PROVE  /\ c0 # None /\ inbox'[c0] # <<>>
                      /\ heard'[c0] => g_cResUpdateState' = inbox'[c0][1].state
    BY <1>3 DEF HeardInPart
  <2>1. /\ Len(SubSeq(s, k + 1, Len(s))) = Len(s) - k
        /\ k = 0 => SubSeq(s, k + 1, Len(s)) = s
    BY <1>1, <1>2
  <2>2. Len(s) - k # 0  BY <1>1, <1>2
  <2>3. inbox'[c0] # <<>>
    <3>1. Len(inbox'[c0]) # 0  BY <1>4, <2>1, <2>2
    <3> QED BY <3>1
  <2>4. heard'[c0] => g_cResUpdateState' = inbox'[c0][1].state
    <3> SUFFICES ASSUME heard'[c0] PROVE g_cResUpdateState' = inbox'[c0][1].state  OBVIOUS
    <3>1. k = 0 /\ g_cResUpdateState' = s[1].state  BY <1>8
    <3> QED BY <1>4, <2>1, <3>1
  <2> QED BY <1>1, <2>3, <2>4, Constants
<1>10. LastReportCounts'
  <2> SUFFICES ASSUME inbox'[c0] = <<>>, heard'[c0], nsent[c0] > 0
               PROVE  g_cResUpdateState' = lastSent[c0]
    BY <1>3 DEF LastReportCounts
  <2>1. Len(s) = k  BY <1>1, <1>2, <1>5
  <2>2. Len(s) = 1  BY <1>2, <1>8, <2>1
  <2>3. s[Len(s)].state = lastSent[c0]  BY <1>1, <1>2 DEF Unread
  <2> QED BY <1>8, <2>2, <2>3
<1> QED BY <1>6, <1>7, <1>9, <1>10

LEMMA ReportStep == TypeOK /\ ReportInv /\ [Next]_vars => ReportInv'
<1> SUFFICES ASSUME TypeOK, ReportInv, [Next]_vars PROVE ReportInv' OBVIOUS
<1>1. CASE UNCHANGED <<opened, backlog, inbox, iConnSocket, at, g_cResUpdateState, history>>
  BY <1>1 DEF ReportInv, Waiting, Unread, HeardInPart, LastReportCounts, history
<1>2. CASE /\ iConnSocket' = None /\ at' = 0
           /\ UNCHANGED <<opened, backlog, inbox, history>>
  <2>1. opened \in Nat /\ Len(backlog) \in Nat  BY DEF TypeOK
  <2>2. Waiting'  BY <1>2, <2>1 DEF ReportInv, Waiting, None
  <2> QED BY <1>2, <2>2 DEF ReportInv, Unread, HeardInPart, LastReportCounts, history
<1>3. CASE ConnTimesOut  BY <1>2, <1>3 DEF ConnTimesOut, net
<1>4. CASE PeerClosed
  <2>1. ~(at > 0)  BY <1>4 DEF PeerClosed, ReportInv, HeardInPart
  <2>2. at = 0  BY <2>1, Constants DEF TypeOK
  <2> QED BY <1>2, <1>4, <2>2 DEF PeerClosed, net
<1> QED
  BY <1>1, <1>3, <1>4, ReportConnects, ReportSends, ReportAccept, ReportReceive
     DEF Next, Program, Server, ProgramCloses, StoreProgress, SelectTimesOut,
         CheckResUpdateTimer, vars, net, server, shared

\* What the state says is what the accepted connection reported last, once all it
\* sent was read and if the recv that got the first byte of that report got it at
\* its start and with the state: for any cuts TCP makes, any number of reports and
\* any interleaving, connections that replace one another included.
THEOREM LastReportAlwaysCounts == Spec => []LastReportCounts
<1>1. Init => TypeOK /\ ReportInv  BY TypeInit, ReportInit
<1>2. TypeOK /\ ReportInv /\ [Next]_vars => (TypeOK /\ ReportInv)'  BY TypeStep, ReportStep
<1>3. ReportInv => LastReportCounts  BY DEF ReportInv
<1> QED BY <1>1, <1>2, <1>3, PTL DEF Spec
=============================================================================
