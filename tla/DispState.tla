----------------------------- MODULE DispState -----------------------------
(***************************************************************************)
(* Who has the screen: the CCTV terminal or the driver's displays (DHMI:   *)
(* DMI or HMI).  g_iDispState (src/cctv/state/state.c) is written by the    *)
(* UDP receive thread (src/cctv/event) when DHMI says so and by the main    *)
(* thread when the driver switches; CheckDispStateTimer                     *)
(* (src/cctv/CCTV/CCTVWid.cxx) polls it and shows or hides the windows.     *)
(* Start-up (src/cctv/CCTV/CCTV.cxx) asks DHMI for the state, waits a while *)
(* and builds the window for what it then finds.                           *)
(*                                                                         *)
(* DHMI is external: it may send any of its messages at any time, or none;  *)
(* an answer only to a request.  Local UDP keeps the order.  Of the timers  *)
(* that hiding removes and showing arms, one stands for all.  The message   *)
(* box of the password window runs an event loop of its own, so timers fire *)
(* while its caller waits.                                                 *)
(***************************************************************************)
EXTENDS Integers, Sequences, FiniteSets

CONSTANTS
  MaxNet,   \* datagrams waiting in the socket
  MaxSend   \* datagrams DHMI sends

ASSUME NetAssumption == MaxNet \in Nat \ {0} /\ MaxSend \in Nat

State  == {"UNKNOWN", "DMI", "HMI", "CCTV"}
Away   == {"DMI", "HMI"}
Switch == {"DMI", "HMI", "CCTV"}

VARIABLES
  iDispState, \* g_iDispState
  sState,     \* s_iState, what the poll last acted on; "none" before its first call
  pc,         \* main thread: "init", "asked", "read", "run", "poll"
  iState,     \* main_cctv's copy of the state
  windows,    \* visible windows: "main", "pass", "av", "moni", and the box "box"
  rspType,    \* g_iPsdRspType: where the password leads
  timers,     \* armed refresh timers of the window
  ntp,        \* running ntpcli.exe
  net,        \* datagrams from DHMI not yet received
  sent,       \* datagrams DHMI has sent, up to MaxSend
  asked,      \* DHMI owes an answer
  odd,        \* the poll has been misled and has not hidden the window since
  everOdd     \* its first call has been misled

start == <<iState, asked>>
dhmi  == <<net, sent>>
shown == <<windows, rspType, timers, ntp, odd, everOdd>>
vars  == <<iDispState, sState, pc, start, shown, dhmi>>

Init ==
  /\ iDispState = "UNKNOWN" /\ sState = "none" /\ pc = "init" /\ iState = "UNKNOWN"
  /\ windows = {} /\ rspType = "none" /\ timers = 0 /\ ntp = 0
  /\ net = <<>> /\ sent = 0 /\ asked = FALSE
  /\ odd = FALSE /\ everOdd = FALSE

-----------------------------------------------------------------------------
(* Start-up *)

\* LMSG_Init starts the receive thread, then the state is asked for.
RequestState ==
  /\ pc = "init" /\ pc' = "asked"
  /\ asked' = TRUE
  /\ UNCHANGED <<iDispState, sState, iState, shown, dhmi>>

\* The wait is over, whatever has come.
ReadState ==
  /\ pc = "asked" /\ pc' = "read"
  /\ iState' = iDispState
  /\ UNCHANGED <<iDispState, sState, asked, shown, dhmi>>

\* The constructor arms the timers; HideCCTVResp removes them again.
StartAway ==
  /\ pc = "read" /\ iState \in Away /\ pc' = "run"
  /\ UNCHANGED <<iDispState, sState, start, shown, dhmi>>

StartHere ==
  /\ pc = "read" /\ iState \notin Away /\ pc' = "run"
  /\ iDispState' = "CCTV"
  /\ windows' = {"main"} /\ timers' = 1 /\ ntp' = 1
  /\ UNCHANGED <<sState, start, rspType, odd, everOdd, dhmi>>

-----------------------------------------------------------------------------
(* DHMI and the receive thread *)

DhmiSends(s) ==
  /\ sent < MaxSend /\ Len(net) < MaxNet
  /\ sent' = sent + 1 /\ net' = Append(net, s)

SwitchFromDhmi ==
  /\ \E s \in Switch : DhmiSends(s)
  /\ UNCHANGED <<iDispState, sState, pc, start, shown>>

AnswerFromDhmi ==
  /\ asked /\ asked' = FALSE
  /\ \E s \in Switch : DhmiSends(s)
  /\ UNCHANGED <<iDispState, sState, pc, iState, shown>>

\* OnMsgDhmiSwitchCCTV, -DMI, -HMI, OnMsgDhmiRespCctvRequestState
OnMsg ==
  /\ pc # "init" /\ net # <<>>
  /\ iDispState' = Head(net) /\ net' = Tail(net)
  /\ UNCHANGED <<sState, pc, start, shown, sent>>

-----------------------------------------------------------------------------
(* The poll *)

\* Mutant: the timers are left to run.
HideCCTVRespKeepsTimers ==
  /\ windows' = windows \cap {"box"}
  /\ UNCHANGED timers
  /\ ntp' = IF ntp = 0 THEN 0 ELSE ntp - 1
  /\ odd' = FALSE /\ UNCHANGED <<rspType, everOdd>>

\* hide and HideCCTVResp: every window but the box, all timers, one ntpcli.
HideCCTVResp ==
  /\ windows' = windows \cap {"box"}
  /\ timers' = 0
  /\ ntp' = IF ntp = 0 THEN 0 ELSE ntp - 1
  /\ odd' = FALSE /\ UNCHANGED <<rspType, everOdd>>

ShowCCTVResp ==
  /\ windows' = windows \cup {"main"}
  /\ timers' = timers + 1 /\ ntp' = ntp + 1
  /\ UNCHANGED <<rspType, odd, everOdd>>

\* The first call takes the state as handled, and so is misled if the window
\* was built for the other one.
FirstPoll ==
  /\ pc = "run" /\ sState = "none" /\ pc' = "poll"
  /\ sState' = iDispState
  /\ odd' = ((iDispState \in Away) # (windows = {}))
  /\ everOdd' = odd'
  /\ UNCHANGED <<iDispState, start, windows, rspType, timers, ntp, dhmi>>

\* CheckDispStateTimer.  A change is acted on whatever is visible.
CheckDispStateTimer ==
  /\ pc = "poll" \/ (pc = "run" /\ sState # "none")
  /\ pc' = "run"
  /\ sState' = iDispState
  /\ IF iDispState = sState THEN UNCHANGED shown
       ELSE IF iDispState \in Away THEN HideCCTVResp ELSE ShowCCTVResp
  /\ UNCHANGED <<iDispState, start, dhmi>>

-----------------------------------------------------------------------------
(* The driver.  A click needs a visible window that no box covers; nobody is   *)
(* quicker than the first poll, 0.3 s after the window is built.               *)

Clickable(w) == pc = "run" /\ sState # "none" /\ w \in windows /\ "box" \notin windows

\* A click hides its window and shows another one.
Swaps(w, v) == Clickable(w) /\ windows' = (windows \ {w}) \cup {v}

\* Mutant: the window behind the password stays.
AskPasswordKeepsMain ==
  /\ Clickable("main")
  /\ rspType' \in {"av", "DMI", "HMI"}
  /\ windows' = windows \cup {"pass"}
  /\ UNCHANGED <<iDispState, sState, pc, start, timers, ntp, odd, everOdd, dhmi>>

\* VideoBtnClicked, DMIBtnClicked, HMIBtnClicked: ask for the password.
AskPassword ==
  /\ Swaps("main", "pass")
  /\ rspType' \in {"av", "DMI", "HMI"}
  /\ UNCHANGED <<iDispState, sState, pc, start, timers, ntp, odd, everOdd, dhmi>>

PasswordCancelled ==
  /\ Swaps("pass", "main")
  /\ UNCHANGED <<iDispState, sState, pc, start, rspType, timers, ntp, odd, everOdd, dhmi>>

\* The right password on the way to DMI or HMI: first a box to be confirmed.
PasswordOpensBox ==
  /\ Clickable("pass") /\ rspType \in Away
  /\ windows' = windows \cup {"box"}
  /\ UNCHANGED <<iDispState, sState, pc, start, rspType, timers, ntp, odd, everOdd, dhmi>>

PasswordOpensAv ==
  /\ Swaps("pass", "av") /\ rspType = "av"
  /\ UNCHANGED <<iDispState, sState, pc, start, rspType, timers, ntp, odd, everOdd, dhmi>>

\* The box is confirmed: PsdConfirmCBFun shows the window, then ChangeWid
\* tells DHMI and takes the new state at once.  The poll is misled if it has
\* meanwhile given the screen away.
BoxConfirmed ==
  /\ pc = "run" /\ "box" \in windows
  /\ windows' = (windows \ {"box", "pass"}) \cup {"main"}
  /\ iDispState' = rspType
  /\ odd' = (odd \/ sState \in Away)
  /\ UNCHANGED <<sState, pc, start, rspType, timers, ntp, everOdd, dhmi>>

AvReturn ==
  /\ Swaps("av", "main")
  /\ UNCHANGED <<iDispState, sState, pc, start, rspType, timers, ntp, odd, everOdd, dhmi>>

MoniBtnClicked ==
  /\ Swaps("main", "moni") /\ timers' = 0
  /\ UNCHANGED <<iDispState, sState, pc, start, rspType, ntp, odd, everOdd, dhmi>>

MoniSysBackBtnClicked ==
  /\ Swaps("moni", "main") /\ timers' = timers + 1
  /\ UNCHANGED <<iDispState, sState, pc, start, rspType, ntp, odd, everOdd, dhmi>>

-----------------------------------------------------------------------------
Startup == RequestState \/ ReadState \/ StartAway \/ StartHere
Dhmi    == SwitchFromDhmi \/ AnswerFromDhmi
Poll    == FirstPoll \/ CheckDispStateTimer
Driver  == \/ AskPassword \/ PasswordCancelled \/ PasswordOpensBox \/ PasswordOpensAv
           \/ BoxConfirmed \/ AvReturn \/ MoniBtnClicked \/ MoniSysBackBtnClicked

Next == Startup \/ Dhmi \/ OnMsg \/ Poll \/ Driver

Spec == Init /\ [][Next]_vars

-----------------------------------------------------------------------------
(* Properties *)

Visible == windows \ {"box"}
Settled == pc = "run" /\ sState # "none"

TypeOK ==
  /\ iDispState \in State /\ sState \in Switch \cup {"none"} /\ iState \in State
  /\ pc \in {"init", "asked", "read", "run", "poll"}
  /\ windows \subseteq {"main", "pass", "av", "moni", "box"}
  /\ rspType \in {"none", "av", "DMI", "HMI"}
  /\ timers \in Nat /\ ntp \in Nat
  /\ net \in Seq(Switch) /\ Len(net) <= MaxNet /\ sent \in 0 .. MaxSend
  /\ {asked, odd, everOdd} \subseteq BOOLEAN

\* As the comment on CheckDispStateTimer has it, the windows follow the display
\* state: one is visible while CCTV has the screen, none otherwise.
WindowFollowsState ==
  Settled => Cardinality(Visible) = IF sState = "CCTV" THEN 1 ELSE 0

\* They do unless the poll is misled, and again after the next hiding.
WindowFollowsUnlessOdd == ~odd => WindowFollowsState

\* What showing starts, hiding stops, once: the refresh timers are armed while
\* the window or one of its dialogs is up, and not behind the management window
\* or while the screen is away; the time client runs while CCTV has the screen.
TimersFollowWindow ==
  Settled =>
    /\ ~odd => timers = IF sState = "CCTV" /\ "moni" \notin windows THEN 1 ELSE 0
    /\ ~everOdd => ntp = IF sState = "CCTV" THEN 1 ELSE 0

=============================================================================
