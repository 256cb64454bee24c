-------------------------- MODULE DispStateProofs --------------------------
(***************************************************************************)
(* Proofs about DispState, for any number of datagrams: the types, and that *)
(* the windows, the timers and the time client follow the display state as  *)
(* long as the poll is not misled, and again once it has hidden the window. *)
(***************************************************************************)
EXTENDS DispState, FiniteSetTheorems, TLAPS

Early == {"init", "asked", "read"}

\* Nothing is up before the window is built.
NothingYet ==
  pc \in Early => /\ sState = "none" /\ windows = {} /\ timers = 0 /\ ntp = 0
                  /\ ~odd /\ ~everOdd

\* The state the poll can find is a definite one.
Known == pc \notin Early \/ (pc = "read" /\ iState \in Away) => iDispState \in Switch

\* A box only asks about a switch to DHMI, and only after the first poll.
BoxAsks == "box" \in windows => rspType \in Away /\ sState # "none"

PollKnown == pc = "poll" => sState # "none"

TypeInv == TypeOK /\ NothingYet /\ Known /\ BoxAsks /\ PollKnown

LEMMA InitTyped == Init => TypeInv
<1> SUFFICES ASSUME Init PROVE TypeInv
  OBVIOUS
<1>1. net \in Seq(Switch) /\ Len(net) <= MaxNet /\ sent \in 0 .. MaxSend
  BY NetAssumption DEF Init
<1>2. {asked, odd, everOdd} \subseteq BOOLEAN  BY DEF Init
<1> QED
  BY <1>1, <1>2 DEF Init, TypeInv, TypeOK, NothingYet, Known, BoxAsks, PollKnown, State, Switch, Early, Away

LEMMA NextTyped == TypeInv /\ [Next]_vars => TypeInv'
<1> USE NetAssumption DEF State, Switch, Away, Early
<1> SUFFICES ASSUME TypeInv, [Next]_vars PROVE TypeInv'
  OBVIOUS
<1> USE DEF TypeInv, TypeOK, NothingYet, Known, BoxAsks, PollKnown
<1>1. CASE RequestState  BY <1>1 DEF RequestState, shown, dhmi
<1>2. CASE ReadState     BY <1>2 DEF ReadState, shown, dhmi
<1>3. CASE StartAway     BY <1>3 DEF StartAway, start, shown, dhmi
<1>4. CASE StartHere     BY <1>4 DEF StartHere, start, dhmi
<1>5. ASSUME NEW s \in Switch, DhmiSends(s)
      PROVE /\ net' \in Seq(Switch) /\ Len(net') <= MaxNet /\ sent' \in 0 .. MaxSend
  BY <1>5 DEF DhmiSends
<1>6. CASE SwitchFromDhmi BY <1>5, <1>6 DEF SwitchFromDhmi, start, shown
<1>7. CASE AnswerFromDhmi
  <2>1. net' \in Seq(Switch) /\ Len(net') <= MaxNet /\ sent' \in 0 .. MaxSend
    BY <1>5, <1>7 DEF AnswerFromDhmi
  <2>2. asked' = FALSE /\ UNCHANGED <<iDispState, sState, pc, iState, shown>>
    BY <1>7 DEF AnswerFromDhmi
  <2> QED BY <2>1, <2>2, ZenonT(60) DEF shown
<1>8. CASE OnMsg
  <2>1. Head(net) \in Switch /\ Tail(net) \in Seq(Switch) /\ Len(Tail(net)) <= MaxNet
    BY <1>8 DEF OnMsg
  <2> QED BY <1>8, <2>1 DEF OnMsg, start, shown
<1>9. CASE FirstPoll
  <2>1. odd' \in BOOLEAN /\ everOdd' \in BOOLEAN  BY <1>9 DEF FirstPoll
  <2> QED BY <1>9, <2>1 DEF FirstPoll, start, dhmi
<1>10. CASE CheckDispStateTimer
  <2>1. iDispState \in Switch  BY <1>10 DEF CheckDispStateTimer
  <2>2. CASE UNCHANGED shown
    BY <1>10, <2>1, <2>2 DEF CheckDispStateTimer, start, shown, dhmi
  <2>3. CASE HideCCTVResp
    <3>1. windows' \subseteq {"box"} /\ windows' \subseteq windows  BY <2>3 DEF HideCCTVResp
    <3>2. ntp' \in Nat /\ timers' = 0  BY <2>3 DEF HideCCTVResp
    <3>3. odd' = FALSE /\ UNCHANGED <<rspType, everOdd>>  BY <2>3 DEF HideCCTVResp
    <3>4. /\ pc \notin Early /\ pc' = "run" /\ sState' = iDispState
          /\ UNCHANGED <<iDispState, iState, asked, net, sent>>
      BY <1>10 DEF CheckDispStateTimer, start, dhmi
    <3>5. BoxAsks'  BY <3>1, <3>3, <3>4, <2>1
    <3>6. Known' /\ NothingYet' /\ PollKnown'  BY <3>4, <2>1
    <3>7. TypeOK'  BY <3>1, <3>2, <3>3, <3>4, <2>1
    <3> QED BY <3>5, <3>6, <3>7
  <2>4. CASE ShowCCTVResp
    BY <1>10, <2>1, <2>4 DEF CheckDispStateTimer, ShowCCTVResp, start, dhmi
  <2> QED BY <1>10, <2>2, <2>3, <2>4 DEF CheckDispStateTimer
<1>11. CASE AskPassword       BY <1>11 DEF AskPassword, Swaps, Clickable, start, dhmi
<1>12. CASE PasswordCancelled BY <1>12 DEF PasswordCancelled, Swaps, Clickable, start, dhmi
<1>13. CASE PasswordOpensBox  BY <1>13 DEF PasswordOpensBox, Clickable, start, dhmi
<1>14. CASE PasswordOpensAv   BY <1>14 DEF PasswordOpensAv, Swaps, Clickable, start, dhmi
<1>15. CASE BoxConfirmed
  <2>1. odd' \in BOOLEAN  BY <1>15 DEF BoxConfirmed
  <2> QED BY <1>15, <2>1 DEF BoxConfirmed, start, dhmi
<1>16. CASE AvReturn          BY <1>16 DEF AvReturn, Swaps, Clickable, start, dhmi
<1>17. CASE MoniBtnClicked    BY <1>17 DEF MoniBtnClicked, Swaps, Clickable, start, dhmi
<1>18. CASE MoniSysBackBtnClicked
  BY <1>18 DEF MoniSysBackBtnClicked, Swaps, Clickable, start, dhmi
<1>19. CASE UNCHANGED vars    BY <1>19 DEF vars, start, shown, dhmi
<1> QED
  BY <1>1, <1>2, <1>3, <1>4, <1>6, <1>7, <1>8, <1>9, <1>10, <1>11, <1>12, <1>13, <1>14,
     <1>15, <1>16, <1>17, <1>18, <1>19 DEF Next, Startup, Dhmi, Poll, Driver

\* The display state, the windows, the timers and the datagrams keep their types.
THEOREM TypeCorrect == Spec => []TypeOK
<1>1. Spec => []TypeInv  BY InitTyped, NextTyped, PTL DEF Spec
<1>2. TypeInv => TypeOK  BY DEF TypeInv
<1> QED BY <1>1, <1>2, PTL

-----------------------------------------------------------------------------
(* The screen.                                                               *)

Dialog == {"main", "pass", "av", "moni"}

\* What start-up leaves for the first poll.
Built ==
  sState = "none" => /\ ~odd /\ ~everOdd
                     /\ \/ windows = {} /\ timers = 0 /\ ntp = 0
                        \/ windows = {"main"} /\ timers = 1 /\ ntp = 1

\* One dialog is up while CCTV has the screen; a box stands before the password
\* window, or before the window once the screen has been away and back.
Here ==
  sState = "CCTV" /\ ~odd =>
    /\ \E w \in Dialog : Visible = {w}
    /\ "box" \in windows => Visible \subseteq {"main", "pass"}
    /\ timers = IF "moni" \in windows THEN 0 ELSE 1

Gone == sState \in Away /\ ~odd => Visible = {} /\ timers = 0

Clock ==
  sState # "none" /\ ~everOdd => ntp = IF sState = "CCTV" THEN 1 ELSE 0

ScreenInv == Built /\ Here /\ Gone /\ Clock

LEMMA ScreenInit == Init => ScreenInv
BY DEF Init, ScreenInv, Built, Here, Gone, Clock, Away, Visible

LEMMA ScreenNext == TypeInv /\ ScreenInv /\ [Next]_vars => ScreenInv'
<1> USE DEF Switch, Away, Early, Visible, Dialog
<1> SUFFICES ASSUME TypeInv, ScreenInv, [Next]_vars PROVE ScreenInv'
  OBVIOUS
<1>0. /\ windows \subseteq {"main", "pass", "av", "moni", "box"}
      /\ timers \in Nat /\ ntp \in Nat /\ odd \in BOOLEAN /\ everOdd \in BOOLEAN
      /\ sState \in Switch \cup {"none"}
  BY DEF TypeInv, TypeOK
<1>a. CASE UNCHANGED <<sState, windows, timers, ntp, odd, everOdd>>
  BY <1>a DEF ScreenInv, Built, Here, Gone, Clock
<1>1. CASE RequestState \/ ReadState \/ StartAway
  BY <1>1, <1>a DEF RequestState, ReadState, StartAway, shown
<1>2. CASE StartHere
  BY <1>2, <1>0 DEF StartHere, TypeInv, NothingYet, ScreenInv, Built, Here, Gone, Clock
<1>3. CASE SwitchFromDhmi \/ AnswerFromDhmi \/ OnMsg
  BY <1>3, <1>a DEF SwitchFromDhmi, AnswerFromDhmi, OnMsg, shown
<1>4. CASE FirstPoll
  <2>1. /\ pc = "run" /\ sState = "none" /\ sState' = iDispState
        /\ odd' = ((iDispState \in Away) # (windows = {})) /\ everOdd' = odd'
        /\ UNCHANGED <<windows, timers, ntp>>
    BY <1>4 DEF FirstPoll
  <2>2. iDispState \in Switch  BY <2>1 DEF TypeInv, Known
  <2>3. CASE windows = {}
    <3>1. timers = 0 /\ ntp = 0  BY <2>1, <2>3 DEF ScreenInv, Built
    <3>2. odd' = (iDispState \notin Away)  BY <2>1, <2>3
    <3> QED BY <2>1, <2>2, <2>3, <3>1, <3>2 DEF ScreenInv, Built, Here, Gone, Clock
  <2>4. CASE windows = {"main"}
    <3>1. timers = 1 /\ ntp = 1  BY <2>1, <2>4 DEF ScreenInv, Built
    <3>2. odd' = (iDispState \in Away)  BY <2>1, <2>4
    <3> QED BY <2>1, <2>2, <2>4, <3>1, <3>2 DEF ScreenInv, Built, Here, Gone, Clock
  <2> QED BY <2>1, <2>3, <2>4 DEF ScreenInv, Built
<1>5. CASE CheckDispStateTimer
  <2>1. iDispState \in Switch /\ sState' = iDispState
    BY <1>5 DEF CheckDispStateTimer, TypeInv, Known
  <2>2. CASE iDispState = sState
    BY <1>5, <1>a, <2>1, <2>2 DEF CheckDispStateTimer, shown
  <2>3. sState # "none"
    BY <1>5, <1>0, <2>1 DEF CheckDispStateTimer, TypeInv, PollKnown
  <2>4. CASE iDispState # sState /\ iDispState \in Away
    <3>1. HideCCTVResp  BY <1>5, <2>4 DEF CheckDispStateTimer
    <3>2. windows' \ {"box"} = {} /\ timers' = 0 /\ odd' = FALSE /\ everOdd' = everOdd
      BY <3>1 DEF HideCCTVResp
    <3>3. ~everOdd => ntp' = 0
      BY <3>1, <2>3, <1>0 DEF HideCCTVResp, ScreenInv, Clock
    <3> QED BY <2>1, <2>4, <3>2, <3>3 DEF ScreenInv, Built, Here, Gone, Clock
  <2>5. CASE iDispState # sState /\ iDispState = "CCTV"
    <3>1. ShowCCTVResp  BY <1>5, <2>5 DEF CheckDispStateTimer
    <3>2. sState \in Away  BY <1>0, <2>3, <2>5
    <3>3. ~odd => windows' \ {"box"} = {"main"} /\ timers' = 1
      <4>1. ~odd => windows \ {"box"} = {} /\ timers = 0  BY <3>2 DEF ScreenInv, Gone
      <4> QED BY <3>1, <4>1 DEF ShowCCTVResp
    <3>4. ~everOdd => ntp' = 1
      <4>1. ~everOdd => ntp = 0  BY <3>2, <2>3 DEF ScreenInv, Clock
      <4> QED BY <3>1, <4>1 DEF ShowCCTVResp
    <3>5. UNCHANGED <<odd, everOdd>>  BY <3>1 DEF ShowCCTVResp
    <3> QED BY <2>1, <2>5, <3>3, <3>4, <3>5 DEF ScreenInv, Built, Here, Gone, Clock
  <2> QED BY <2>1, <2>2, <2>4, <2>5
<1>6. ASSUME NEW w \in Dialog, NEW v \in Dialog, Clickable(w),
             windows' = (windows \ {w}) \cup {v}, UNCHANGED <<sState, ntp, odd, everOdd>>,
             v # "moni", w # "moni", timers' = timers
      PROVE ScreenInv'
  BY <1>0, <1>6 DEF Clickable, ScreenInv, Built, Here, Gone, Clock
<1>7. CASE AskPassword
  BY <1>6, <1>7 DEF AskPassword, Swaps, Clickable
<1>8. CASE PasswordCancelled
  BY <1>6, <1>8 DEF PasswordCancelled, Swaps, Clickable
<1>9. CASE PasswordOpensBox
  <2>1. windows' \ {"box"} = windows \ {"box"} /\ "pass" \in windows
    BY <1>9 DEF PasswordOpensBox, Clickable
  <2>2. UNCHANGED <<sState, timers, ntp, odd, everOdd>>  BY <1>9 DEF PasswordOpensBox
  <2>3. sState # "none"  BY <1>9 DEF PasswordOpensBox, Clickable
  <2>4. ("moni" \in windows') = ("moni" \in windows)  BY <2>1
  <2> QED BY <1>0, <2>1, <2>2, <2>3, <2>4 DEF ScreenInv, Built, Here, Gone, Clock
<1>10. CASE PasswordOpensAv
  BY <1>6, <1>10 DEF PasswordOpensAv, Swaps, Clickable
<1>11. CASE BoxConfirmed
  <2>1. /\ "box" \in windows /\ windows' = (windows \ {"box", "pass"}) \cup {"main"}
        /\ odd' = (odd \/ sState \in Away)
        /\ UNCHANGED <<sState, timers, ntp, everOdd>>
    BY <1>11 DEF BoxConfirmed
  <2>2. sState # "none"  BY <2>1 DEF TypeInv, BoxAsks
  <2>3. sState \in Away => odd'  BY <2>1
  <2>4. sState \notin Away => odd' = odd  BY <1>0, <2>1
  <2>5. sState = "CCTV" /\ ~odd => Visible' = {"main"} /\ "moni" \notin windows /\ "moni" \notin windows'
    BY <2>1 DEF ScreenInv, Here
  <2> QED BY <1>0, <2>1, <2>2, <2>3, <2>4, <2>5 DEF ScreenInv, Built, Here, Gone, Clock
<1>12. CASE AvReturn
  BY <1>6, <1>12 DEF AvReturn, Swaps, Clickable
<1>13. CASE MoniBtnClicked
  BY <1>0, <1>13 DEF MoniBtnClicked, Swaps, Clickable, ScreenInv, Built, Here, Gone, Clock
<1>14. CASE MoniSysBackBtnClicked
  BY <1>0, <1>14 DEF MoniSysBackBtnClicked, Swaps, Clickable, ScreenInv, Built, Here, Gone, Clock
<1>15. CASE UNCHANGED vars  BY <1>15, <1>a DEF vars, shown
<1> QED
  BY <1>1, <1>2, <1>3, <1>4, <1>5, <1>7, <1>8, <1>9, <1>10, <1>11, <1>12, <1>13, <1>14,
     <1>15 DEF Next, Startup, Dhmi, Poll, Driver

LEMMA ScreenAlways == Spec => [](TypeInv /\ ScreenInv)
<1>1. Init => TypeInv /\ ScreenInv  BY InitTyped, ScreenInit
<1>2. TypeInv /\ ScreenInv /\ [Next]_vars => (TypeInv /\ ScreenInv)'
  BY NextTyped, ScreenNext
<1> QED BY <1>1, <1>2, PTL DEF Spec

\* While the poll is not misled, and again after it has hidden the window, one
\* window is visible exactly when CCTV has the screen.
THEOREM WindowsAlwaysFollow == Spec => []WindowFollowsUnlessOdd
<1>1. TypeInv /\ ScreenInv => WindowFollowsUnlessOdd
  <2> SUFFICES ASSUME TypeInv, ScreenInv, ~odd, Settled
               PROVE Cardinality(Visible) = IF sState = "CCTV" THEN 1 ELSE 0
    BY DEF WindowFollowsUnlessOdd, WindowFollowsState
  <2>1. sState \in Switch  BY DEF TypeInv, TypeOK, Settled
  <2>2. CASE sState = "CCTV"
    <3>1. PICK w \in Dialog : Visible = {w}  BY <2>2 DEF ScreenInv, Here
    <3> QED BY <2>2, <3>1, FS_Singleton
  <2>3. CASE sState \in Away
    BY <2>3, FS_EmptySet DEF ScreenInv, Gone, Away
  <2> QED BY <2>1, <2>2, <2>3 DEF Switch, Away
<1> QED BY <1>1, ScreenAlways, PTL

\* Hiding and showing, whoever asks for it, leaves the refresh timers and the time
\* client started once or not at all.
THEOREM TimersAlwaysFollow == Spec => []TimersFollowWindow
<1>1. TypeInv /\ ScreenInv /\ Settled /\ ~odd
        => timers = IF sState = "CCTV" /\ "moni" \notin windows THEN 1 ELSE 0
  BY DEF TypeInv, TypeOK, ScreenInv, Here, Gone, Settled, Switch, Away
<1>2. ScreenInv /\ Settled /\ ~everOdd => ntp = IF sState = "CCTV" THEN 1 ELSE 0
  BY DEF ScreenInv, Clock, Settled
<1>3. TypeInv /\ ScreenInv => TimersFollowWindow  BY <1>1, <1>2 DEF TimersFollowWindow
<1> QED BY <1>3, ScreenAlways, PTL
=============================================================================
