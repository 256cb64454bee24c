------------------------------ MODULE PlayCtrl ------------------------------
(***************************************************************************)
(* The picture controller of the CCTV window (src/cctv/CCTV/CCTVWid.cxx).  *)
(*                                                                         *)
(* Everything here runs on the FLTK main loop: button callbacks and timer  *)
(* callbacks, one at a time, in any order.  Buttons, the cycle timer and   *)
(* the alarm timer only write the wanted picture (the g_..Next.. globals); *)
(* the 0.15 s timer UpdatePlayStateTimer applies it (PlayCtrlFun), opening *)
(* and closing media handles so that the shown picture (the g_..Cur..      *)
(* globals) follows.  The multicast thread changes the alarm state under   *)
(* the main loop's feet, and the poll of the display state hides and shows *)
(* the whole window.  It acts on a change of that state alone, whatever is *)
(* visible, and can be misled (module DispState): its first call takes the *)
(* state it finds as handled, and the password window shows the window     *)
(* itself when its message box is confirmed after the poll has hidden it.  *)
(*                                                                         *)
(* Abstractions.  A media handle is the camera it was opened for and       *)
(* whether its decoder draws on the screen; creating one succeeds.         *)
(* The four background handles g_pHplay[4..7] are left out: only           *)
(* CycControlTimer creates them and nothing ever arms it.  The click rate  *)
(* limit m_tLastTime only drops clicks, so a click may come at any time.   *)
(* An alarm state is the set of alarm points that are active; the order in *)
(* which their cameras are listed (the first PECU camera goes first) is    *)
(* left open.                                                              *)
(***************************************************************************)
EXTENDS Integers, FiniteSets

CONSTANTS
  NGroup,     \* groups of camera buttons; 8 in the code
  NPos,       \* positions in a group = pictures of the four-picture style; 4
  VideoNum,   \* GetVideoNum(): configured cameras
  UiGroup,    \* iUiGroup of every camera
  UiPos,      \* iUiPos of every camera
  Point,      \* alarm points: PECUs, fire sensors, doors, door clips
  PointCam,   \* the camera configured for an alarm point, or -1
  AlarmState, \* bound: the sets of alarm points that are active together
  MaxOdd      \* bound: times the poll is misled

Group == 0 .. NGroup - 1
Pos   == 0 .. NPos - 1
Video == 0 .. VideoNum - 1

\* What a camera-index variable can hold.  VideoNum itself is possible: the
\* alarm lookups refuse iVideoIdx > g_iVideoNum, not >=.
Idx == -1 .. VideoNum

ASSUME GeometryAssumption ==
  /\ NGroup \in Nat /\ NGroup > 1
  /\ NPos \in Nat \ {0}
  /\ VideoNum \in Nat \ {0}
  /\ UiGroup \in [Video -> Group]
  /\ UiPos \in [Video -> Pos]

ASSUME PointAssumption == IsFiniteSet(Point) /\ PointCam \in [Point -> Idx]

ASSUME StateAssumption == AlarmState \subseteq SUBSET Point

ASSUME OddAssumption == MaxOdd \in Nat \ {0}

VARIABLES
  window,      \* which is up: "cctv", "moni" (management), "both", "away" (DMI/HMI)
  disp,        \* s_iState, what the poll last acted on: "CCTV" or "away"
  box,         \* a message box of the password window outlives the hidden windows
  odd, nOdd,   \* history: the poll is misled and has not hidden the window since,
               \* and how often it was misled
  timers,      \* how many timeouts of each kind are armed in FLTK
  waitPlay,    \* timers armed, and only since UpdatePlayStateTimer last ran
  curStyle,    \* g_eCurPlayStyle
  nextStyle,   \* g_eNextPlayStyle
  hPlay,       \* g_pHplay[0..3]
  curFour,     \* g_aiCurFourVideoIdx
  nextFour,    \* g_aiNextFourVideoIdx
  hSingle,     \* g_hSinglePlay
  curSingle,   \* g_iCurSingleVideoIdx
  nextSingle,  \* g_iNextSingleVideoIdx
  hBack,       \* g_hBackSinglePlay
  backIdx,     \* g_iBackSingleVideoIdx
  cycFlag,     \* g_iVideoCycleFlag
  nMedia,      \* CMPlayer's g_iConnectNum: media created and not destroyed
  points,      \* active alarm points, written by the multicast thread
  seen,        \* the alarm state the window last handled (m_ac..WarnInfo)
  warnCams,    \* cameras of the handled alarms (the alarm icons m_ai..Idx)
  warnIdx,     \* the camera SinglePlayStyle takes for "the" alarm camera
  warnFreshed  \* g_iWarnFreshed

handles == <<hPlay, curFour, hSingle, curSingle, hBack, backIdx, nMedia>>
wanted  == <<nextStyle, nextFour, nextSingle>>
alarm   == <<seen, warnCams, warnIdx>>
display == <<disp, box, odd, nOdd>>
place   == <<window, display>>
vars == <<place, timers, waitPlay, curStyle, wanted, handles, cycFlag,
          points, alarm, warnFreshed>>

-----------------------------------------------------------------------------
(* Handles *)

NoMedia == [cam |-> -1, on |-> FALSE, live |-> FALSE]
Media(c, shown) == [cam |-> c, on |-> shown, live |-> TRUE]
MediaType == [cam : Idx, on : BOOLEAN, live : BOOLEAN]

\* Mutant: hiding a handle has no effect.
DisplayNeverHides(h, shown) == IF h.live /\ shown THEN [h EXCEPT !.on = TRUE] ELSE h

\* CMP_SetWndDisplayEnable: does nothing on a null handle.
Display(h, shown) == IF h.live THEN [h EXCEPT !.on = shown] ELSE h

Slots(f) == {i \in Pos : f[i].live}
Count(h) == IF h.live THEN 1 ELSE 0
NoVideos == [i \in Pos |-> -1]
NoSlots  == [i \in Pos |-> NoMedia]

g_iWarnNum == Cardinality(warnCams)
g_iWarn    == warnCams # {}

-----------------------------------------------------------------------------
(* Camera geometry (state.c) *)

GetVideoIdxAccordBtnPose(g, p) ==
  LET at == {v \in Video : UiGroup[v] = g /\ UiPos[v] = p}
  IN IF at = {} THEN -1 ELSE CHOOSE v \in at : \A w \in at : v <= w

\* With at most 28 = 4 * 7 cameras the last group is merged into group 0.
Merged == VideoNum <= NPos * (NGroup - 1)

GroupVideos(g) ==
  [i \in Pos |->
     LET v == GetVideoIdxAccordBtnPose(g, i)
     IN IF v = -1 /\ g = 0 /\ Merged
          THEN GetVideoIdxAccordBtnPose(NGroup - 1, i)
          ELSE v]

MergeGroup(g) == IF g = NGroup - 1 /\ Merged THEN 0 ELSE g

\* Mutant: after the last group the merged group 0 comes again.
GetNextFourVideoRepeatsMerged ==
  LET shown == {i \in Pos : curFour[i] # -1}
      last  == CHOOSE i \in shown : \A j \in shown : j <= i
      group == IF shown = {} \/ curFour[last] \notin Video
                 THEN 0 ELSE UiGroup[curFour[last]] + 1
  IN GroupVideos(IF group = NGroup THEN 0 ELSE MergeGroup(group))

\* The group after the one of the last picture that shows a camera.
GetNextFourVideo ==
  LET shown == {i \in Pos : curFour[i] # -1}
      last  == CHOOSE i \in shown : \A j \in shown : j <= i
      group == IF shown = {} \/ curFour[last] \notin Video
                 THEN 0 ELSE UiGroup[curFour[last]] + 1
  IN GroupVideos(IF group = NGroup
                   THEN IF Merged THEN 1 ELSE 0
                   ELSE MergeGroup(group))

\* The next configured position after the current camera, in button order,
\* wrapping round once; from no camera it starts at group -1, position 0,
\* which holds none, and so runs through group 0 as well.
GetNextSingleVideo ==
  LET Place(v) == UiGroup[v] * NPos + UiPos[v]
      Least(S) == CHOOSE v \in S : \A w \in S :
                    Place(v) < Place(w) \/ (Place(v) = Place(w) /\ v <= w)
      after == IF curSingle \in Video
                 THEN {v \in Video : Place(v) > Place(curSingle)} ELSE Video
  IN IF after = {} THEN Least(Video) ELSE Least(after)

-----------------------------------------------------------------------------
(* Start-up: InitCCTV asks for group 1, the constructor snapshots the alarm *)
(* state (an alarm active at start is not handled) and arms the timers;     *)
(* when the screen is DMI's or HMI's, HideCCTVResp removes them at once.    *)
(* The first poll may find another state than the window was built for.    *)

Init ==
  /\ window \in {"cctv", "away"} /\ disp \in {"CCTV", "away"}
  /\ box = FALSE /\ odd = (window = "cctv" /\ disp = "away")
  /\ nOdd = IF odd THEN 1 ELSE 0
  /\ timers = [k \in {"play", "warn", "cyc"} |-> IF window = "cctv" THEN 1 ELSE 0]
  /\ waitPlay = IF window = "cctv" THEN {"warn", "cyc"} ELSE {}
  /\ curStyle = "four" /\ nextStyle = "four"
  /\ hPlay = NoSlots /\ curFour = NoVideos
  /\ nextFour = [i \in Pos |-> GetVideoIdxAccordBtnPose(1, i)]
  /\ hSingle = NoMedia /\ curSingle = -1 /\ nextSingle = -1
  /\ hBack = NoMedia /\ backIdx = IF window = "cctv" THEN 0 ELSE -1
  /\ cycFlag = TRUE
  /\ nMedia = 0
  /\ points \in AlarmState /\ seen = points
  /\ warnCams = {} /\ warnIdx = -1
  /\ warnFreshed = FALSE

-----------------------------------------------------------------------------
(* Buttons of the CCTV window.  When the management window is up as well,     *)
(* which of the two is on top, and so takes the click, is left open.        *)

CCTVShown == window \in {"cctv", "both"}

\* "Single picture": dead while an alarm is handled.  It also clears the
\* wanted picture of every slot before the first one that shows a camera.
SVPlayBtnClicked ==
  /\ CCTVShown /\ ~g_iWarn /\ curStyle = "four"
  /\ nextStyle' = "single"
  /\ LET shown == {i \in Pos : curFour[i] # -1}
         first == CHOOSE i \in shown : \A j \in shown : i <= j
     IN IF curSingle # -1
          THEN nextSingle' = curSingle /\ UNCHANGED nextFour
          ELSE IF shown # {}
            THEN /\ nextSingle' = curFour[first]
                 /\ nextFour' = [i \in Pos |-> IF i < first THEN -1 ELSE nextFour[i]]
            ELSE /\ nextSingle' = IF nextSingle = -1 THEN 0 ELSE nextSingle
                 /\ nextFour' = NoVideos
  /\ UNCHANGED <<place, timers, waitPlay, curStyle, handles, cycFlag, points,
                 alarm, warnFreshed>>

\* "Four pictures": the group of the camera now shown.
MVPlayBtnClicked ==
  /\ CCTVShown /\ ~g_iWarn /\ curStyle = "single"
  /\ nextStyle' = "four"
  /\ nextFour' = GroupVideos(IF curSingle \in Video THEN MergeGroup(UiGroup[curSingle]) ELSE 0)
  /\ nextSingle' = -1
  /\ UNCHANGED <<place, timers, waitPlay, curStyle, handles, cycFlag, points,
                 alarm, warnFreshed>>

\* Mutant: the handle is dropped without destroying its media.
CloseBackNoDestroy ==
  /\ hBack' = NoMedia /\ backIdx' = -1
  /\ UNCHANGED nMedia

CloseBack ==
  /\ hBack' = NoMedia /\ backIdx' = -1
  /\ nMedia' = nMedia - Count(hBack)

\* CloseVideoCyc: stop the cycle and drop the camera kept in the background.
CloseVideoCyc ==
  /\ cycFlag' = FALSE
  /\ timers' = [timers EXCEPT !.cyc = 0]
  /\ CloseBack

\* The only cycle timer has just been armed: it waits if there is a refresh.
CycArmed == IF timers.play > 0 THEN waitPlay \cup {"cyc"} ELSE waitPlay \ {"cyc"}

CycleBtnClicked ==
  /\ CCTVShown /\ ~g_iWarn
  /\ \/ /\ ~cycFlag
        /\ cycFlag' = TRUE
        /\ nextSingle' = IF curStyle = "four" THEN -1 ELSE nextSingle
        /\ timers' = [timers EXCEPT !.cyc = @ + 1]
        /\ waitPlay' = CycArmed
        /\ UNCHANGED <<hBack, backIdx, nMedia>>
     \/ cycFlag /\ CloseVideoCyc /\ UNCHANGED nextSingle /\ waitPlay' = waitPlay \ {"cyc"}
  /\ UNCHANGED <<place, curStyle, nextStyle, nextFour, hPlay, curFour,
                 hSingle, curSingle, points, alarm, warnFreshed>>

\* A camera button: only buttons with a camera behind them are visible.
CameBtnClicked(g, p) ==
  LET v == GetVideoIdxAccordBtnPose(g, p) IN
  /\ CCTVShown /\ ~warnFreshed /\ v # -1
  /\ IF curStyle = "single" \/ g_iWarn
       THEN nextSingle' = v /\ UNCHANGED nextFour
       ELSE nextSingle' = -1 /\ nextFour' = GroupVideos(MergeGroup(g))
  /\ IF cycFlag
       THEN /\ CloseBack
            /\ timers' = [timers EXCEPT !.cyc = 1]
            /\ waitPlay' = CycArmed
       ELSE UNCHANGED <<hBack, backIdx, nMedia, timers, waitPlay>>
  /\ UNCHANGED <<place, curStyle, nextStyle, hPlay, curFour, hSingle,
                 curSingle, cycFlag, points, alarm, warnFreshed>>

\* A double click on the pictures toggles full screen inside the four-picture
\* style; a picture goes full screen only while its stream is up.
PlayWidClicked ==
  /\ CCTVShown /\ ~warnFreshed /\ curStyle = "four"
  /\ IF curSingle # -1
       THEN nextSingle' = -1
       ELSE \E i \in Pos : hPlay[i].live /\ nextSingle' = curFour[i]
  /\ UNCHANGED <<place, timers, waitPlay, curStyle, nextStyle, nextFour, handles,
                 cycFlag, points, alarm, warnFreshed>>

\* Mutant: the icons ignore g_iWarnFreshed.
WarnIconClickedUnlocked(c) ==
  /\ CCTVShown /\ c \in warnCams
  /\ nextSingle' = c
  /\ UNCHANGED <<place, timers, waitPlay, curStyle, nextStyle, nextFour, handles,
                 cycFlag, points, alarm, warnFreshed>>

\* FireBtnClicked, DoorBtnClicked, DoorClipBtnClicked, PecuBtnClicked.
WarnIconClicked(c) ==
  /\ CCTVShown /\ ~warnFreshed /\ c \in warnCams
  /\ nextSingle' = c
  /\ UNCHANGED <<place, timers, waitPlay, curStyle, nextStyle, nextFour, handles,
                 cycFlag, points, alarm, warnFreshed>>

-----------------------------------------------------------------------------
(* Leaving the CCTV window and coming back *)

StopTimers ==
  /\ timers' = [play |-> 0, warn |-> 0, cyc |-> IF cycFlag THEN 0 ELSE timers.cyc]
  /\ waitPlay' = {}

\* Mutant: the cycle timer is armed though no cycle runs.
StartTimersAlwaysCycle ==
  /\ timers' = [k \in DOMAIN timers |-> timers[k] + 1]
  /\ waitPlay' = {"warn", "cyc"}

\* Every timer is added, whether it is armed or not; one that is does not wait.
StartTimers ==
  /\ timers' = [play |-> timers.play + 1, warn |-> timers.warn + 1,
                cyc |-> IF cycFlag THEN timers.cyc + 1 ELSE timers.cyc]
  /\ waitPlay' = {k \in {"warn", "cyc"} : k \in waitPlay \/ (timers[k] = 0 /\ timers'[k] = 1)}

\* The management window: the pictures stop drawing, a full-screen or a
\* background media is closed.
MoniBtnClicked ==
  /\ CCTVShown /\ window' = "moni"
  /\ StopTimers
  /\ IF curStyle = "four"
       THEN /\ hPlay' = [i \in Pos |-> Display(hPlay[i], FALSE)]
            /\ hSingle' = NoMedia
            /\ curSingle' = IF hSingle.live THEN -1 ELSE curSingle
            /\ nMedia' = nMedia - Count(hSingle)
            /\ UNCHANGED <<hBack, backIdx>>
       ELSE /\ hSingle' = Display(hSingle, FALSE)
            /\ CloseBack
            /\ UNCHANGED <<hPlay, curSingle>>
  /\ UNCHANGED <<display, curStyle, wanted, curFour, cycFlag, points, alarm, warnFreshed>>

MoniSysBackBtnClicked ==
  /\ window \in {"moni", "both"} /\ window' = "cctv"
  /\ StartTimers
  /\ IF curStyle = "four"
       THEN /\ curSingle' = nextSingle
            /\ IF nextSingle = -1
                 THEN /\ hPlay' = [i \in Pos |-> Display(hPlay[i], TRUE)]
                      /\ UNCHANGED <<hSingle, nMedia>>
                 ELSE /\ hSingle' = Media(nextSingle, TRUE)
                      /\ nMedia' = nMedia + 1
                      /\ UNCHANGED hPlay
       ELSE /\ hSingle' = Display(hSingle, TRUE)
            /\ UNCHANGED <<hPlay, curSingle, nMedia>>
  /\ UNCHANGED <<display, curStyle, wanted, curFour, hBack, backIdx, cycFlag, points, alarm,
                 warnFreshed>>

\* CheckDispStateTimer sees that the state has become DMI or HMI, from CCTV or from
\* the other of the two: close every media.  A message box stays.
HideCCTVResp ==
  /\ window' = "away" /\ disp' = "away" /\ odd' = FALSE
  /\ box' \in {box, box \/ CCTVShown}
  /\ StopTimers
  /\ hPlay' = NoSlots /\ curFour' = NoVideos
  /\ hSingle' = NoMedia /\ curSingle' = -1
  /\ hBack' = NoMedia /\ backIdx' = -1
  /\ nMedia' = nMedia - Cardinality(Slots(hPlay)) - Count(hSingle) - Count(hBack)
  /\ UNCHANGED <<nOdd, curStyle, wanted, cycFlag, points, alarm, warnFreshed>>

\* It sees that the state has become CCTV: whatever is up, show the window and arm
\* the timers; the next refresh reopens the media.
ShowCCTVResp ==
  /\ disp = "away" /\ disp' = "CCTV" /\ box' = FALSE
  /\ window' = IF window = "moni" THEN "both" ELSE "cctv"
  /\ StartTimers
  /\ UNCHANGED <<odd, nOdd, curStyle, wanted, handles, cycFlag, points, alarm, warnFreshed>>

\* PsdConfirmCBFun and ChangeWid, when the box is confirmed behind the hidden window:
\* the window is shown without its timers, and the state becomes DMI or HMI, which for
\* the poll it is already.
PsdConfirmCBFun ==
  /\ box /\ window = "away" /\ nOdd < MaxOdd
  /\ window' = "cctv" /\ box' = FALSE
  /\ odd' = TRUE /\ nOdd' = nOdd + 1
  /\ UNCHANGED <<disp, timers, waitPlay, curStyle, wanted, handles, cycFlag, points,
                 alarm, warnFreshed>>

-----------------------------------------------------------------------------
(* Timers.  The refresh runs every 0.15 s, the alarm check every 0.4 s and   *)
(* the cycle every second or more; FLTK runs due timeouts in due order, so   *)
(* between arming one of the slower timers and its next run the refresh has  *)
(* run: waitPlay holds the timers that still wait for it.  Where no refresh  *)
(* is armed, or another copy of the timer is, it does not wait.             *)

Rearmed(k) == IF timers[k] = 1 /\ timers.play > 0 THEN waitPlay \cup {k} ELSE waitPlay

GetBackVideoTimer ==
  /\ timers.cyc > 0 /\ "cyc" \notin waitPlay
  /\ IF curStyle = "four"
       THEN nextSingle' = -1 /\ nextFour' = GetNextFourVideo
       ELSE nextSingle' = GetNextSingleVideo /\ UNCHANGED nextFour
  /\ waitPlay' = Rearmed("cyc")
  /\ UNCHANGED <<place, timers, curStyle, nextStyle, handles, cycFlag, points,
                 alarm, warnFreshed>>

\* The orders in which the cameras S of the active points can be listed.
WarnLists(S) == {l \in [1 .. Cardinality(S) -> S] :
                   \A j, k \in 1 .. Cardinality(S) : l[j] = l[k] => j = k}

\* Several alarms: a slot that already shows a listed camera keeps it, the
\* other cameras fill the other slots in list order; when no slot is left for
\* the head of the list it takes slot 0.
PlaceWarns(n, l) ==
  LET Kept(i) == /\ curFour[i] # -1
                 /\ \E j \in 1 .. n : l[j] = curFour[i]
                 /\ \A k \in 0 .. i - 1 : curFour[k] # curFour[i]
      Loose(j) == l[j] # -1 /\ \A i \in Pos : Kept(i) => curFour[i] # l[j]
      Nth(j, i) == /\ Loose(j)
                   /\ Cardinality({k \in 1 .. j : Loose(k)})
                        = Cardinality({k \in 0 .. i : ~Kept(k)})
      Slot(i) == IF Kept(i) THEN curFour[i]
                 ELSE IF \E j \in 1 .. n : Nth(j, i)
                        THEN l[CHOOSE j \in 1 .. n : Nth(j, i)] ELSE -1
  IN [i \in Pos |-> IF i = 0 /\ Loose(1) /\ \A k \in Pos : Kept(k) THEN l[1] ELSE Slot(i)]

\* Mutant: the full screen stays over the new alarm pictures.
ManyWarnsKeepFullScreen(S) ==
  /\ Cardinality(S) > 1
  /\ \E l \in WarnLists(S) : nextFour' = PlaceWarns(Cardinality(S), l)
  /\ nextStyle' = IF curStyle = "single" THEN "four" ELSE nextStyle
  /\ nextSingle' = IF curStyle = "single" THEN -1 ELSE nextSingle

ManyWarns(S) ==
  /\ Cardinality(S) > 1
  /\ \E l \in WarnLists(S) : nextFour' = PlaceWarns(Cardinality(S), l)
  /\ nextStyle' = IF curStyle = "single" THEN "four" ELSE nextStyle
  /\ nextSingle' = IF curStyle = "single" \/ nextFour' # curFour THEN -1 ELSE nextSingle

OneWarn(S) ==
  /\ Cardinality(S) = 1
  /\ nextStyle' = IF curStyle = "four" THEN "single" ELSE nextStyle
  /\ nextSingle' \in S
  /\ UNCHANGED nextFour

NoWarn(S) ==
  /\ S = {}
  /\ IF curStyle = "single"
       THEN /\ nextSingle' = IF curSingle = -1 THEN 0 ELSE nextSingle
            /\ UNCHANGED nextFour
       ELSE /\ nextFour' = [i \in Pos |-> GetVideoIdxAccordBtnPose(1, i)]
            /\ nextSingle' = -1
  /\ UNCHANGED nextStyle

\* Two fire sensors with one camera count as one alarm but two icons, and then
\* SinglePlayStyle finds no alarm camera: warnIdx may stay -1.
UpdateWarnInfoTimer ==
  /\ timers.warn > 0 /\ "warn" \notin waitPlay
  /\ IF points = seen
       THEN UNCHANGED <<timers, wanted, hBack, backIdx, nMedia, cycFlag, alarm, warnFreshed>>
       ELSE LET S == {PointCam[q] : q \in points} IN
            /\ warnFreshed' = TRUE
            /\ seen' = points /\ warnCams' = S
            /\ warnIdx' \in (IF Cardinality(S) = 1 THEN S ELSE {})
                              \cup (IF Cardinality(points) = 1 THEN {} ELSE {-1})
            /\ ManyWarns(S) \/ OneWarn(S) \/ NoWarn(S)
            /\ IF S # {} /\ cycFlag
                 THEN CloseVideoCyc
                 ELSE UNCHANGED <<timers, hBack, backIdx, nMedia, cycFlag>>
  /\ waitPlay' = Rearmed("warn") \ (IF cycFlag' THEN {} ELSE {"cyc"})
  /\ UNCHANGED <<place, curStyle, hPlay, curFour, hSingle, curSingle, points>>

-----------------------------------------------------------------------------
(* PlayCtrlFun: make the shown picture the wanted one.  When the style has   *)
(* just changed the wanted and the shown cameras agree, so the call of       *)
(* FourPlayStyle or SinglePlayStyle that follows PlayStyleChanged does       *)
(* nothing and the three parts are alternatives.                             *)

StyleToFour ==
  /\ curStyle = "single" /\ nextStyle = "four" /\ curStyle' = "four"
  /\ hSingle' = NoMedia /\ curSingle' = -1 /\ nextSingle' = -1
  /\ hBack' = NoMedia /\ backIdx' = -1
  /\ curFour' = nextFour
  /\ hPlay' = [i \in Pos |-> IF nextFour[i] # -1 THEN Media(nextFour[i], TRUE) ELSE NoMedia]
  /\ nMedia' = nMedia - Count(hSingle) - Count(hBack) - Cardinality(Slots(hPlay))
                 + Cardinality(Slots(hPlay'))
  /\ UNCHANGED nextFour

StyleToSingle ==
  /\ curStyle = "four" /\ nextStyle = "single" /\ curStyle' = "single"
  /\ hBack' = NoMedia /\ backIdx' = -1
  /\ hPlay' = NoSlots /\ nextFour' = NoVideos
  /\ curFour' = [i \in Pos |-> IF hPlay[i].live THEN -1 ELSE curFour[i]]
  /\ curSingle' = nextSingle
  /\ IF curSingle # nextSingle
       THEN /\ hSingle' = Media(nextSingle, TRUE)
            /\ nMedia' = nMedia - Cardinality(Slots(hPlay)) - Count(hBack) - Count(hSingle) + 1
       ELSE /\ hSingle' = Display(hSingle, TRUE)
            /\ nMedia' = nMedia - Cardinality(Slots(hPlay)) - Count(hBack)
  /\ UNCHANGED nextSingle

\* Mutant: a slot without a new camera is not closed.
ReopenNeverCloses(f, i) ==
  IF curFour[i] = nextFour[i] \/ nextFour[i] = -1 THEN f[i] ELSE Media(nextFour[i], TRUE)

\* Close the slots whose camera changes and open the new cameras.
Reopen(f, i) ==
  IF curFour[i] = nextFour[i] THEN f[i]
  ELSE IF nextFour[i] # -1 THEN Media(nextFour[i], TRUE) ELSE NoMedia

ReopenSlots(f) ==
  /\ hPlay' = [i \in Pos |-> Reopen(f, i)]
  /\ curFour' = nextFour

\* Full screen inside the four-picture style: the slots stay open, hidden.
FullScreen ==
  /\ nextSingle # curSingle /\ nextSingle # -1
  /\ hSingle' = Media(nextSingle, TRUE)
  /\ hPlay' = [i \in Pos |-> Display(hPlay[i], FALSE)]
  /\ nMedia' = nMedia - Count(hSingle) + 1
  /\ UNCHANGED curFour

BackToFour ==
  /\ nextSingle # curSingle /\ nextSingle = -1
  /\ hSingle' = NoMedia
  /\ ReopenSlots([i \in Pos |-> Display(hPlay[i], TRUE)])
  /\ nMedia' = nMedia - Count(hSingle) - Cardinality(Slots(hPlay)) + Cardinality(Slots(hPlay'))

FourToFour ==
  /\ nextSingle = curSingle
  /\ IF curSingle = -1
       THEN /\ ReopenSlots(hPlay)
            /\ nMedia' = nMedia - Cardinality(Slots(hPlay)) + Cardinality(Slots(hPlay'))
       ELSE UNCHANGED <<hPlay, curFour, nMedia>>
  /\ UNCHANGED hSingle

FourPlayStyle ==
  /\ curStyle = "four" /\ nextStyle = "four"
  /\ FullScreen \/ BackToFour \/ FourToFour
  /\ curSingle' = nextSingle
  /\ UNCHANGED <<curStyle, nextSingle, nextFour, hBack, backIdx>>

\* The camera of a single alarm is not closed when another is chosen: it moves
\* to the background, hidden, and comes back from there.
SinglePlayStyle ==
  LET warn  == IF g_iWarnNum = 1 THEN warnIdx ELSE -1
      keep  == hSingle.live /\ warn = curSingle
      swap  == nextSingle # -1 /\ nextSingle = backIdx
      back  == IF swap THEN NoMedia ELSE hBack
      opens == nextSingle # -1 /\ ~swap
  IN
  /\ curStyle = "single" /\ nextStyle = "single"
  /\ IF nextSingle = curSingle THEN UNCHANGED <<hSingle, hBack, backIdx, nMedia>>
     ELSE /\ hSingle' = IF nextSingle = -1 THEN NoMedia
                        ELSE IF swap THEN Display(hBack, TRUE)
                        ELSE Media(nextSingle, TRUE)
          /\ hBack' = IF keep THEN Display(hSingle, FALSE) ELSE back
          /\ backIdx' = IF keep THEN curSingle ELSE IF swap THEN -1 ELSE backIdx
          /\ nMedia' = nMedia + (IF opens THEN 1 ELSE 0)
                         - (IF keep THEN Count(back) ELSE Count(hSingle))
  /\ curSingle' = nextSingle
  /\ UNCHANGED <<curStyle, nextSingle, nextFour, hPlay, curFour>>

PlayCtrlFun ==
  /\ StyleToFour \/ StyleToSingle \/ FourPlayStyle \/ SinglePlayStyle
  /\ warnFreshed' = FALSE
  /\ UNCHANGED nextStyle

UpdatePlayStateTimer ==
  /\ timers.play > 0
  /\ PlayCtrlFun
  /\ waitPlay' = {}
  /\ UNCHANGED <<place, timers, cycFlag, points, alarm>>

-----------------------------------------------------------------------------
\* ParseBroadcastSysData on the multicast thread: a new alarm state.
ParseBroadcastSysData ==
  /\ points' \in AlarmState
  /\ UNCHANGED <<place, timers, waitPlay, curStyle, wanted, handles, cycFlag,
                 alarm, warnFreshed>>

Click ==
  \/ SVPlayBtnClicked \/ MVPlayBtnClicked \/ CycleBtnClicked \/ PlayWidClicked
  \/ \E g \in Group, p \in Pos : CameBtnClicked(g, p)
  \/ \E c \in Idx : WarnIconClicked(c)
  \/ MoniBtnClicked \/ MoniSysBackBtnClicked \/ PsdConfirmCBFun

Next ==
  \/ Click
  \/ HideCCTVResp \/ ShowCCTVResp
  \/ GetBackVideoTimer \/ UpdateWarnInfoTimer \/ UpdatePlayStateTimer
  \/ ParseBroadcastSysData

Spec == Init /\ [][Next]_vars

\* The FLTK loop runs every timeout that is due; nobody has to click.
FairSpec ==
  /\ Spec
  /\ WF_vars(UpdatePlayStateTimer) /\ WF_vars(UpdateWarnInfoTimer)
  /\ WF_vars(GetBackVideoTimer)

-----------------------------------------------------------------------------
(* Properties *)

ScreenType ==
  /\ window \in {"cctv", "moni", "both", "away"} /\ disp \in {"CCTV", "away"}
  /\ box \in BOOLEAN /\ odd \in BOOLEAN /\ nOdd \in 0 .. MaxOdd
  /\ timers \in [play : Nat, warn : Nat, cyc : Nat]
  /\ waitPlay \subseteq {"warn", "cyc"}
  /\ cycFlag \in BOOLEAN

PictureType ==
  /\ curStyle \in {"four", "single"} /\ nextStyle \in {"four", "single"}
  /\ hPlay \in [Pos -> MediaType] /\ hSingle \in MediaType /\ hBack \in MediaType
  /\ curFour \in [Pos -> Idx] /\ nextFour \in [Pos -> Idx]
  /\ curSingle \in Idx /\ nextSingle \in Idx /\ backIdx \in Idx
  /\ nMedia \in Int

AlarmType ==
  /\ points \subseteq Point /\ seen \subseteq Point
  /\ warnCams \subseteq Idx /\ warnIdx \in Idx
  /\ warnFreshed \in BOOLEAN

\* Every variable holds a value of its type.
TypeOK == ScreenType /\ PictureType /\ AlarmType

Held == Cardinality(Slots(hPlay)) + Count(hSingle) + Count(hBack)

\* A media that is open is held by exactly one handle variable: switching,
\* swapping with the background and leaving the window neither lose a media
\* nor destroy one twice (g_iConnectNum would drift) - but that one may be lost
\* each time the poll is misled, when the management window is left over the
\* pictures that the poll has shown behind it.
NoMediaLeak == nMedia \in Held .. Held + nOdd

\* The index globals say what the handles really play: a slot, the single
\* picture and the background camera each match their g_..VideoIdx - while the
\* poll is not misled.
HandlesFollowIndexes ==
  ~odd =>
  /\ \A i \in Pos : /\ hPlay[i].live <=> curFour[i] # -1
                    /\ hPlay[i].live => hPlay[i].cam = curFour[i]
  /\ hSingle.live => hSingle.cam = curSingle
  /\ curSingle # -1 => hSingle.live
  /\ hBack.live => hBack.cam = backIdx
  /\ curStyle = "single" /\ backIdx # -1 => hBack.live

\* The decoders draw straight into one frame buffer, so only one layer may
\* draw: nothing outside the CCTV window, never the background camera, and
\* inside it either the single picture or the four pictures, whichever the
\* controller believes is up - of the media that are held, and while the poll is
\* not misled.
OneLayerDraws ==
  ~odd =>
  /\ ~hBack.on
  /\ window # "cctv" => ~hSingle.on /\ \A i \in Pos : ~hPlay[i].on
  /\ window = "cctv" =>
       /\ hSingle.live => hSingle.on /\ \A i \in Pos : ~hPlay[i].on
       /\ ~hSingle.live => \A i \in Pos : hPlay[i].live => hPlay[i].on

\* Each style keeps only its own media: a background camera never survives
\* into the four-picture style, a slot never into the single style.
MediaOfStyle ==
  ~odd =>
  /\ curStyle = "four" => ~hBack.live
  /\ curStyle = "single" => Slots(hPlay) = {}

\* Every timer is armed exactly once in the CCTV window (the cycle timer only
\* while cycling) and never outside it, through any sequence of buttons,
\* alarms, management visits and display switches, unless the poll is misled:
\* then they may be armed twice, or not at all, but never three times.
TimersArmedOnce ==
  /\ ~odd => timers = IF window = "cctv"
                        THEN [play |-> 1, warn |-> 1, cyc |-> IF cycFlag THEN 1 ELSE 0]
                        ELSE [play |-> 0, warn |-> 0, cyc |-> 0]
  /\ \A k \in DOMAIN timers : timers[k] <= 2

\* What leaving the CCTV window leaves behind: the full screen does not survive
\* a visit to the management window, nothing at all survives the DMI and the
\* HMI, and a full screen always has a camera to return to by g_iCurSingleVideoIdx.
HandlesOfWindow ==
  ~odd =>
  /\ window = "moni" /\ curStyle = "four" => ~hSingle.live
  /\ window = "away" => ~hSingle.live /\ ~hBack.live /\ Slots(hPlay) = {}
  /\ curStyle = "four" /\ hSingle.live => curSingle # -1

\* A handled alarm stops the cycle, and nothing restarts it before the alarm
\* ends: the cycle would take the alarm picture away.
AlarmStopsCycle == g_iWarn => ~cycFlag

\* g_iWarnFreshed works: from the moment an alarm sets the wanted picture until
\* that picture is refreshed (or a newer alarm state replaces it), no button
\* and no timer changes the wanted picture.
AlarmNotOverridden ==
  [][g_iWarn /\ warnFreshed /\ warnFreshed' /\ alarm' = alarm => UNCHANGED wanted]_vars

\* The picture of the handled alarms: the camera of a single alarm alone, the
\* cameras of several in the four pictures, and nothing but them when there are
\* too many.  A full screen survives only over four pictures that are those already; after the
\* window was away these are still closed behind it.
AlarmPictureUp ==
  LET cams == warnCams \ {-1}
      behind == curSingle # -1 /\ curFour = NoVideos
  IN
  IF g_iWarnNum = 1
    THEN \A c \in cams : curStyle = "single" /\ curSingle = c
    ELSE /\ curStyle = "four"
         /\ Cardinality(cams) >= NPos => \A i \in Pos : nextFour[i] \in cams
         /\ Cardinality(cams) <= NPos =>
              \A c \in cams : \E i \in Pos : nextFour[i] = c /\ (curFour[i] = c \/ behind)

AlarmStyle == IF g_iWarnNum = 1 THEN "single" ELSE "four"

\* The refresh after an alarm brings up the alarm picture, provided no style
\* change of a button was still pending against it.
AlarmShownUnlessStylePending ==
  [][g_iWarn /\ warnFreshed /\ ~warnFreshed' /\ nextStyle = AlarmStyle
       => AlarmPictureUp']_vars

\* The four pictures and a full-screen picture beside them: there is never more
\* than one media above the four that the comment on g_pHplay allows, and one for
\* each time the poll was misled.
MediaBound == ~odd => nMedia <= NPos + 1 + nOdd

\* Once nobody clicks and no alarm changes, a cycle that goes on shows every
\* camera again and again, in either style, whatever was shown before.
CycleReachesEveryCamera ==
  <>[](CCTVShown /\ timers.play > 0 /\ cycFlag /\ points = seen) /\ <>[][~Click]_vars
    => \A v \in Video : []<>(curSingle = v \/ (curSingle = -1 /\ \E i \in Pos : curFour[i] = v))
=============================================================================
