----------------------------- MODULE PmsgConn -----------------------------
(***************************************************************************)
(* The connections to the recorders (src/cctv/pmsg/pmsgcli.c): one client   *)
(* thread each (CliProcessThread) opens and closes the socket, and the one  *)
(* command thread (CmdProcessThread, src/cctv/CCTV/NVRMsgProc.cxx) sends     *)
(* through it (PMSG_SendPmsgData).  The two share iSockfd and               *)
(* iConnectStatus; the mutex of PMSG_SendPmsgData is not taken by the        *)
(* client thread when it closes, so it protects nothing here.               *)
(*                                                                         *)
(* A step ends before the next access to something another thread can       *)
(* change, the table of descriptors included.  Contents are PmsgRecv's;      *)
(* other users of descriptors (RTSP, FTP, files) are left out.              *)
(***************************************************************************)
EXTENDS Integers, FiniteSets, FiniteSetsExt

CONSTANTS
  Nvr,      \* recorders; 6 in the code
  MaxFd,    \* descriptors 1 .. MaxFd
  HearMax,  \* iHearCount above which a silent connection is closed; 1000
  MaxCmd,   \* commands sent
  MaxFail   \* how often a recorder goes away

Fd    == 1 .. MaxFd
NoFd  == 0
NoNvr == "none"

ASSUME ConnAssumption ==
  /\ IsFiniteSet(Nvr) /\ NoNvr \notin Nvr /\ MaxFd \in Nat /\ MaxFd >= Cardinality(Nvr)
  /\ HearMax \in Nat \ {0} /\ MaxCmd \in Nat /\ MaxFail \in Nat

VARIABLES
  socket,         \* kernel: the recorder a descriptor is connected to, or NoNvr
  up, failures,   \* does the recorder answer; how often it went away
  cliSocket,      \* client thread's own descriptor, its iSocket
  cliPc, iHearCount,
  iSockfd, iConnectStatus, \* shared with the command thread
  sndPc, target, sendFd, cmds, \* command thread: its place, the recorder its command
                           \* is for, and the descriptor it loaded for it
  astray,         \* history: recorders whose command reached another one
  overtaken       \* history: was sendFd closed since, or when it was loaded?

kernel == <<socket, up, failures>>
client == <<cliSocket, cliPc, iHearCount>>
shared == <<iSockfd, iConnectStatus>>
sender == <<sndPc, target, sendFd, cmds>>
history == <<astray, overtaken>>
connVars == <<kernel, client, shared, sender, history>>

ConnInit ==
  /\ socket = [f \in Fd |-> NoNvr] /\ up = Nvr /\ failures = 0
  /\ cliSocket = [n \in Nvr |-> NoFd] /\ cliPc = [n \in Nvr |-> "connect"]
  /\ iHearCount = [n \in Nvr |-> 0]
  /\ iSockfd = [n \in Nvr |-> NoFd] /\ iConnectStatus = [n \in Nvr |-> FALSE]
  /\ sndPc = "idle" /\ target = NoNvr /\ sendFd = NoFd /\ cmds = 0
  /\ astray = {} /\ overtaken = FALSE

-----------------------------------------------------------------------------
(* The recorders *)

GoesAway ==
  /\ failures < MaxFail /\ failures' = failures + 1
  /\ \E n \in up : up' = up \ {n}
  /\ UNCHANGED <<socket, client, shared, sender, history>>

ComesBack ==
  /\ \E n \in Nvr \ up : up' = up \cup {n}
  /\ UNCHANGED <<socket, failures, client, shared, sender, history>>

-----------------------------------------------------------------------------
(* CliProcessThread *)

Go(n, pc) == cliPc' = [cliPc EXCEPT ![n] = pc]

Free == {f \in Fd : socket[f] = NoNvr}

\* socket and connect: the lowest free descriptor.
Connect(n) ==
  /\ cliPc[n] = "connect" /\ n \in up /\ Free # {}
  /\ cliSocket' = [cliSocket EXCEPT ![n] = Min(Free)]
  /\ socket' = [socket EXCEPT ![Min(Free)] = n]
  /\ Go(n, "store")
  /\ UNCHANGED <<up, failures, iHearCount, shared, sender, history>>

StoreFd(n) ==
  /\ cliPc[n] = "store" /\ Go(n, "status")
  /\ iSockfd' = [iSockfd EXCEPT ![n] = cliSocket[n]]
  /\ UNCHANGED <<kernel, cliSocket, iHearCount, iConnectStatus, sender, history>>

\* Mutant: the status is set for the first connection only.
StoreStatusOnce(n) ==
  /\ cliPc[n] = "status" /\ Go(n, "loop")
  /\ iConnectStatus' = [iConnectStatus EXCEPT ![n] = (failures = 0)]
  /\ UNCHANGED <<kernel, cliSocket, iHearCount, iSockfd, sender, history>>

StoreStatus(n) ==
  /\ cliPc[n] = "status" /\ Go(n, "loop")
  /\ iConnectStatus' = [iConnectStatus EXCEPT ![n] = TRUE]
  /\ UNCHANGED <<kernel, cliSocket, iHearCount, iSockfd, sender, history>>

\* Two seconds later it is said to be unconnected again.
ConnectFails(n) ==
  /\ cliPc[n] = "connect" /\ n \notin up
  /\ iConnectStatus' = [iConnectStatus EXCEPT ![n] = FALSE]
  /\ UNCHANGED <<kernel, client, iSockfd, sender, history>>

\* Something came: the turn ends with a count of one.
Receives(n) ==
  /\ cliPc[n] = "loop" /\ n \in up
  /\ iHearCount' = [iHearCount EXCEPT ![n] = 1]
  /\ UNCHANGED <<kernel, cliSocket, cliPc, shared, sender, history>>

HearsNothing(n) ==
  /\ cliPc[n] = "loop" /\ iHearCount[n] < HearMax
  /\ iHearCount' = [iHearCount EXCEPT ![n] = @ + 1]
  /\ UNCHANGED <<kernel, cliSocket, cliPc, shared, sender, history>>

\* Mutant: the descriptor is forgotten, not closed.
CloseSocketForgets(n) ==
  /\ cliSocket' = [cliSocket EXCEPT ![n] = NoFd]
  /\ Go(n, "unset")
  /\ UNCHANGED <<socket, up, failures, iHearCount, shared, sender, history>>

CloseSocket(n) ==
  /\ socket' = [socket EXCEPT ![cliSocket[n]] = NoNvr]
  /\ cliSocket' = [cliSocket EXCEPT ![n] = NoFd]
  /\ Go(n, "unset")
  /\ overtaken' = (overtaken \/ (sndPc = "sending" /\ target = n))
  /\ UNCHANGED <<up, failures, iHearCount, shared, sender, astray>>

\* recv or the heartbeat fails; when, is up to the network.
CloseOnError(n) == cliPc[n] = "loop" /\ n \notin up /\ CloseSocket(n)

\* Nothing was heard for too long.
CloseOnSilence(n) == cliPc[n] = "loop" /\ iHearCount[n] >= HearMax /\ CloseSocket(n)

\* Mutant: iSockfd keeps the closed descriptor.
UnsetFdNot(n) ==
  /\ cliPc[n] = "unset" /\ Go(n, "down")
  /\ UNCHANGED <<kernel, cliSocket, iHearCount, shared, sender, history>>

UnsetFd(n) ==
  /\ cliPc[n] = "unset" /\ Go(n, "down")
  /\ iSockfd' = [iSockfd EXCEPT ![n] = NoFd]
  /\ UNCHANGED <<kernel, cliSocket, iHearCount, iConnectStatus, sender, history>>

\* iHearCount is 0 after all three paths; the turn that a failed heartbeat
\* belongs to still counts.
UnsetStatus(n) ==
  /\ cliPc[n] = "down" /\ Go(n, "connect")
  /\ iConnectStatus' = [iConnectStatus EXCEPT ![n] = FALSE]
  /\ \E c \in 0 .. 1 : iHearCount' = [iHearCount EXCEPT ![n] = c]
  /\ UNCHANGED <<kernel, cliSocket, iSockfd, sender, history>>

-----------------------------------------------------------------------------
(* PMSG_SendPmsgData in CmdProcessThread *)

\* A command for a recorder without a connection is dropped.
CheckStatus(n) ==
  /\ sndPc = "idle" /\ cmds < MaxCmd /\ cmds' = cmds + 1
  /\ IF iConnectStatus[n] THEN sndPc' = "send" /\ target' = n ELSE UNCHANGED <<sndPc, target>>
  /\ UNCHANGED <<sendFd, kernel, client, shared, history>>

\* The number is loaded as it is now, whatever was checked ...
LoadFd ==
  /\ sndPc = "send" /\ sndPc' = "sending"
  /\ sendFd' = iSockfd[target]
  /\ overtaken' = (cliPc[target] = "unset")
  /\ UNCHANGED <<target, cmds, kernel, client, shared, astray>>

\* ... and send looks it up in the table of descriptors later; what an invalid
\* descriptor returns is ignored.
Send ==
  /\ sndPc = "sending" /\ sndPc' = "idle" /\ target' = NoNvr /\ sendFd' = NoFd
  /\ astray' = IF sendFd \in Fd /\ socket[sendFd] \notin {target, NoNvr}
               THEN astray \cup {target} ELSE astray
  /\ overtaken' = FALSE
  /\ UNCHANGED <<kernel, client, shared, cmds>>

Client(n) ==
  Connect(n) \/ StoreFd(n) \/ StoreStatus(n) \/ ConnectFails(n)
  \/ Receives(n) \/ HearsNothing(n) \/ CloseOnSilence(n) \/ UnsetFd(n) \/ UnsetStatus(n)

ConnNext ==
  \/ GoesAway \/ ComesBack \/ LoadFd \/ Send
  \/ \E n \in Nvr : Client(n) \/ CloseOnError(n) \/ CheckStatus(n)

ConnSpec == ConnInit /\ [][ConnNext]_connVars

\* The threads go on; nothing makes the network report an error.
FairConnSpec == ConnSpec /\ WF_connVars(LoadFd \/ Send) /\ \A n \in Nvr : WF_connVars(Client(n))

-----------------------------------------------------------------------------
(* Properties *)

ConnTypeOK ==
  /\ socket \in [Fd -> Nvr \cup {NoNvr}] /\ up \subseteq Nvr /\ failures \in 0 .. MaxFail
  /\ cliSocket \in [Nvr -> Fd \cup {NoFd}] /\ iHearCount \in [Nvr -> 0 .. HearMax]
  /\ cliPc \in [Nvr -> {"connect", "store", "status", "loop", "unset", "down"}]
  /\ iSockfd \in [Nvr -> Fd \cup {NoFd}] /\ iConnectStatus \in [Nvr -> BOOLEAN]
  /\ sndPc \in {"idle", "send", "sending"} /\ target \in Nvr \cup {NoNvr}
  /\ sendFd \in Fd \cup {NoFd} /\ cmds \in 0 .. MaxCmd
  /\ astray \subseteq Nvr /\ overtaken \in BOOLEAN

\* A descriptor is open exactly while a client thread holds it, whatever path
\* closes it: none is lost, none closed twice or closed for another recorder.
NoFdLeak ==
  /\ \A f \in Fd : socket[f] # NoNvr => cliSocket[socket[f]] = f
  /\ \A n \in Nvr : cliSocket[n] # NoFd => socket[cliSocket[n]] = n

\* Who trusts iConnectStatus finds the recorder's own socket in iSockfd, but
\* for the steps in which it is being closed.
StatusMeansSocket ==
  \A n \in Nvr : iConnectStatus[n] /\ cliPc[n] \notin {"unset", "down"} =>
    iSockfd[n] # NoFd /\ socket[iSockfd[n]] = n

\* A command goes to another recorder only when its own connection was closed
\* under it: after the number was loaded, or before the client thread forgot the
\* number it had closed.  A number loaded later, or of a connection that stays,
\* leads nowhere else.
AstrayOnlyIfOvertaken ==
  [][astray' # astray => overtaken]_connVars

\* What iConnectStatus says comes true: a recorder that stays is connected to
\* again, and one that is gone, without a word, is not said to be there for ever.
StatusFollows ==
  \A n \in Nvr : /\ <>[](n \in up) => []<>(iConnectStatus[n])
                 /\ <>[](n \notin up) => <>[](~iConnectStatus[n])
=============================================================================
