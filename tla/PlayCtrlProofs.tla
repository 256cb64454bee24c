--------------------------- MODULE PlayCtrlProofs ---------------------------
(***************************************************************************)
(* The types PlayCtrl keeps for any number of groups, positions and cameras *)
(* and any set of alarm points: least elements, what the camera lookups      *)
(* return, and one step per action.  Then the safety of the controller, by   *)
(* inductive invariants on top of the types: TimerInv, which only the        *)
(* buttons, the window changes and the alarms touch, and which says what is   *)
(* left of the timers when the poll of the display state was misled;         *)
(* HandleInv, which needs TimerInv to know that the refresh runs in the CCTV *)
(* window alone and holds while the poll is not misled; LeakInv, which counts *)
(* the media through the misled poll as well; and AlarmWanted, what is       *)
(* wanted between an alarm and its picture.                                  *)
(***************************************************************************)
EXTENDS PlayCtrl, FiniteSetTheorems, WellFoundedInduction, TLAPS

-----------------------------------------------------------------------------
(* Least elements: the camera lookups choose them. *)

Below == {ss \in Nat \X Nat : ss[1] < ss[2]}

\* Less-than on the naturals is well founded.
LEMMA BelowWellFounded == IsWellFoundedOn(Below, Nat)
BY NatLessThanWellFounded DEF OpToRel, Below

\* A nonempty set of naturals has a least element.
LEMMA LeastNat ==
  ASSUME NEW T \in SUBSET Nat, T # {}
  PROVE  \E x \in T : \A y \in T : x <= y
<1>1. PICK x \in T : \A y \in T : ~(<<y, x>> \in Below)
  BY BelowWellFounded, WFMin
<1>2. ASSUME NEW y \in T PROVE x <= y
  <2>1. <<y, x>> \in Nat \X Nat  BY <1>2
  <2>2. <<y, x>> \notin Below  BY <1>1
  <2>3. ~(y < x)  BY <2>1, <2>2 DEF Below
  <2> QED  BY <2>3
<1> QED  BY <1>2

-----------------------------------------------------------------------------
(* The operators return camera indexes. *)

\* Looking a button up yields a camera or -1.
LEMMA PoseType == \A g, p : GetVideoIdxAccordBtnPose(g, p) \in Idx
<1> SUFFICES ASSUME NEW g, NEW p PROVE GetVideoIdxAccordBtnPose(g, p) \in Idx
  OBVIOUS
<1> DEFINE at == {v \in Video : UiGroup[v] = g /\ UiPos[v] = p}
<1>1. VideoNum \in Nat /\ at \in SUBSET Nat /\ at \subseteq Idx
  BY GeometryAssumption DEF Video, Idx
<1>2. at # {} => \E v \in at : \A w \in at : v <= w
  BY <1>1, LeastNat
<1>3. at # {} => (CHOOSE v \in at : \A w \in at : v <= w) \in at
  BY <1>2
<1>4. -1 \in Idx  BY <1>1 DEF Idx
<1> HIDE DEF at
<1>5. (IF at = {} THEN -1 ELSE CHOOSE v \in at : \A w \in at : v <= w) \in Idx
  BY <1>1, <1>3, <1>4
<1> QED  BY <1>5 DEF GetVideoIdxAccordBtnPose, at

\* The cameras of a group fill the four pictures.
LEMMA GroupType == \A g : GroupVideos(g) \in [Pos -> Idx]
BY PoseType DEF GroupVideos

\* So do those of the next group.
LEMMA NextFourType == GetNextFourVideo \in [Pos -> Idx]
BY GroupType DEF GetNextFourVideo

\* The next single camera is a camera.
LEMMA NextSingleType == GetNextSingleVideo \in Idx
<1> DEFINE Place(v) == UiGroup[v] * NPos + UiPos[v]
           Least(S) == CHOOSE v \in S : \A w \in S :
                         Place(v) < Place(w) \/ (Place(v) = Place(w) /\ v <= w)
<1>0. Video # {} /\ Video \subseteq Nat /\ Video \subseteq Idx
  <2>1. 0 \in Video  BY GeometryAssumption DEF Video
  <2> QED  BY <2>1, GeometryAssumption DEF Video, Idx
<1>1. \A v \in Video : Place(v) \in Nat
  <2> SUFFICES ASSUME NEW v \in Video PROVE Place(v) \in Nat  OBVIOUS
  <2>1. UiGroup[v] \in Nat /\ UiPos[v] \in Nat /\ NPos \in Nat
    BY GeometryAssumption DEF Group, Pos
  <2>2. UiGroup[v] * NPos \in Nat  BY <2>1
  <2> QED  BY <2>1, <2>2
<1> HIDE DEF Place
<1>2. ASSUME NEW S \in SUBSET Video, S # {} PROVE Least(S) \in S
  <2> DEFINE P == {Place(v) : v \in S}
  <2>1. P \in SUBSET Nat /\ P # {}  BY <1>1, <1>2
  <2>2. PICK m \in P : \A n \in P : m <= n  BY <2>1, LeastNat
  <2> DEFINE M == {v \in S : Place(v) = m}
  <2>3. M \in SUBSET Nat /\ M # {}  BY <1>0, <2>2
  <2>4. PICK x \in M : \A y \in M : x <= y  BY <2>3, LeastNat
  <2>5. ASSUME NEW w \in S PROVE Place(x) < Place(w) \/ (Place(x) = Place(w) /\ x <= w)
    <3>1. Place(x) = m /\ m <= Place(w)  BY <2>2, <2>5
    <3>2. m \in Nat /\ Place(w) \in Nat  BY <1>1, <2>1, <2>5
    <3>3. Place(w) = m => x <= w  BY <2>4, <2>5
    <3> QED  BY <3>1, <3>2, <3>3
  <2>6. x \in S  OBVIOUS
  <2> QED  BY <2>5, <2>6
<1> HIDE DEF Least
<1> DEFINE after == IF curSingle \in Video
                      THEN {v \in Video : Place(v) > Place(curSingle)} ELSE Video
<1>3. after \in SUBSET Video  OBVIOUS
<1> HIDE DEF after
<1>4. (IF after = {} THEN Least(Video) ELSE Least(after)) \in Idx
  BY <1>0, <1>2, <1>3
<1> QED  BY <1>4 DEF GetNextSingleVideo, after, Least, Place

\* The slots that hold a media are finitely many, at most the positions.
LEMMA SlotsCount ==
  ASSUME NEW f
  PROVE  /\ IsFiniteSet(Slots(f))
         /\ Cardinality(Slots(f)) \in Nat
         /\ Cardinality(Slots(f)) <= NPos
<1>1. NPos \in Nat /\ IsFiniteSet(Pos) /\ Cardinality(Pos) = NPos
  BY GeometryAssumption, FS_Interval DEF Pos
<1>2. Slots(f) \in SUBSET Pos  BY DEF Slots
<1> QED  BY <1>1, <1>2, FS_Subset, FS_CardinalityType

\* The cameras of the alarms are finitely many indexes.
LEMMA WarnCamsType ==
  ASSUME NEW S, S \subseteq Idx
  PROVE  IsFiniteSet(S) /\ Cardinality(S) \in Nat
<1>1. VideoNum \in Int /\ IsFiniteSet(Idx)
  BY GeometryAssumption, FS_Interval DEF Idx
<1> QED  BY <1>1, FS_Subset, FS_CardinalityType

\* Placing the cameras of several alarms fills the four pictures with indexes.
LEMMA PlaceType ==
  ASSUME curFour \in [Pos -> Idx],
         NEW S, S \subseteq Idx, Cardinality(S) > 1, NEW l \in WarnLists(S)
  PROVE  PlaceWarns(Cardinality(S), l) \in [Pos -> Idx]
<1> DEFINE n == Cardinality(S)
           Kept(i) == /\ curFour[i] # -1
                      /\ \E j \in 1 .. n : l[j] = curFour[i]
                      /\ \A k \in 0 .. i - 1 : curFour[k] # curFour[i]
           Loose(j) == l[j] # -1 /\ \A i \in Pos : Kept(i) => curFour[i] # l[j]
           Nth(j, i) == /\ Loose(j)
                        /\ Cardinality({k \in 1 .. j : Loose(k)})
                             = Cardinality({k \in 0 .. i : ~Kept(k)})
           Slot(i) == IF Kept(i) THEN curFour[i]
                      ELSE IF \E j \in 1 .. n : Nth(j, i)
                             THEN l[CHOOSE j \in 1 .. n : Nth(j, i)] ELSE -1
<1>1. n \in Nat  BY WarnCamsType
<1>2. \A j \in 1 .. n : l[j] \in Idx  BY DEF WarnLists
<1>3. l[1] \in Idx  BY <1>1, <1>2
<1>4. -1 \in Idx  BY GeometryAssumption DEF Idx
<1>5. ASSUME NEW i \in Pos PROVE Slot(i) \in Idx
  <2> HIDE DEF Nth, Kept, n
  <2>1. (\E j \in 1 .. n : Nth(j, i)) => (CHOOSE j \in 1 .. n : Nth(j, i)) \in 1 .. n
    OBVIOUS
  <2> QED  BY <1>2, <1>4, <2>1
<1> HIDE DEF Slot, Kept, Loose, n
<1>6. [i \in Pos |-> IF i = 0 /\ Loose(1) /\ \A k \in Pos : Kept(k) THEN l[1] ELSE Slot(i)]
        \in [Pos -> Idx]
  BY <1>3, <1>5
<1> QED  BY <1>6 DEF PlaceWarns, Slot, Nth, Kept, Loose, n

-----------------------------------------------------------------------------
(* Types *)

\* Opening, hiding and closing media gives media.
LEMMA MediaTypes ==
  /\ NoMedia \in MediaType
  /\ \A c \in Idx : Media(c, TRUE) \in MediaType
  /\ \A h \in MediaType : Display(h, TRUE) \in MediaType /\ Display(h, FALSE) \in MediaType
  /\ \A h : Count(h) \in Nat
  /\ NoSlots \in [Pos -> MediaType] /\ NoVideos \in [Pos -> Idx]
  /\ -1 \in Idx /\ 0 \in Idx
<1>1. -1 \in Idx /\ 0 \in Idx
  BY GeometryAssumption DEF Idx
<1>2. NoMedia \in MediaType /\ \A c \in Idx : Media(c, TRUE) \in MediaType
  BY <1>1 DEF NoMedia, Media, MediaType
<1>3. \A h \in MediaType : Display(h, TRUE) \in MediaType /\ Display(h, FALSE) \in MediaType
  BY DEF Display, MediaType
<1>4. \A h : Count(h) \in Nat
  BY DEF Count
<1>5. NoSlots \in [Pos -> MediaType] /\ NoVideos \in [Pos -> Idx]
  BY <1>1, <1>2 DEF NoSlots, NoVideos
<1> QED  BY <1>1, <1>2, <1>3, <1>4, <1>5

\* The cameras of a set of alarm points are camera indexes.
LEMMA PointCamType ==
  ASSUME NEW ps, ps \subseteq Point
  PROVE  {PointCam[q] : q \in ps} \subseteq Idx
BY PointAssumption

\* The initial state is well typed.
LEMMA TypeInit == Init => TypeOK
<1> SUFFICES ASSUME Init PROVE TypeOK  OBVIOUS
<1>1. ScreenType
  <2>1. /\ window \in {"cctv", "away"} /\ disp \in {"CCTV", "away"}
        /\ box \in BOOLEAN /\ cycFlag \in BOOLEAN /\ waitPlay \subseteq {"warn", "cyc"}
    BY DEF Init
  <2>2. odd \in BOOLEAN
    <3>1. odd = (window = "cctv" /\ disp = "away")  BY DEF Init
    <3> QED  BY <3>1, Zenon
  <2>3. nOdd \in 0 .. MaxOdd
    <3>1. nOdd = 0 \/ nOdd = 1  BY DEF Init
    <3> QED  BY <3>1, OddAssumption
  <2>4. timers \in [play : Nat, warn : Nat, cyc : Nat]
    <3>1. timers = [k \in {"play", "warn", "cyc"} |-> IF window = "cctv" THEN 1 ELSE 0]
      BY DEF Init
    <3> QED  BY <3>1
  <2> QED  BY <2>1, <2>2, <2>3, <2>4 DEF ScreenType
<1>2. PictureType  BY MediaTypes, PoseType DEF Init, PictureType
<1>3. AlarmType  BY MediaTypes, StateAssumption DEF Init, AlarmType
<1> QED  BY <1>1, <1>2, <1>3 DEF TypeOK

\* Every button keeps the types.
LEMMA TypeClick == TypeOK /\ Click => TypeOK'
<1> SUFFICES ASSUME TypeOK, Click PROVE TypeOK'  OBVIOUS
<1> USE MediaTypes
<1>1. CASE SVPlayBtnClicked
  <2>1. ScreenType'  BY <1>1 DEF TypeOK, ScreenType, place, display, SVPlayBtnClicked
  <2>2. PictureType'
    <3> DEFINE shown == {i \in Pos : curFour[i] # -1}
               first == CHOOSE i \in shown : \A j \in shown : i <= j
    <3>1. shown # {} => first \in Pos
      <4>1. shown \in SUBSET Nat  BY GeometryAssumption DEF Pos
      <4>2. shown # {} => \E i \in shown : \A j \in shown : i <= j  BY <4>1, LeastNat
      <4>3. shown # {} => first \in shown  BY <4>2
      <4> QED  BY <4>3
    <3> HIDE DEF shown, first
    <3>2. /\ nextStyle' = "single" /\ UNCHANGED <<curStyle, handles>>
          /\ nextSingle' \in {curSingle, curFour[first], 0, nextSingle}
          /\ shown = {} => nextSingle' \in {curSingle, 0, nextSingle}
      BY <1>1 DEF SVPlayBtnClicked, shown, first
    <3>3. nextFour' \in {nextFour, NoVideos, [i \in Pos |-> IF i < first THEN -1 ELSE nextFour[i]]}
      BY <1>1 DEF SVPlayBtnClicked, shown, first
    <3>4. nextSingle' \in Idx
      BY <3>1, <3>2 DEF TypeOK, PictureType
    <3>5. nextFour' \in [Pos -> Idx]
      BY <3>3 DEF TypeOK, PictureType
    <3> QED  BY <3>2, <3>4, <3>5 DEF TypeOK, PictureType, handles
  <2>3. AlarmType'  BY <1>1 DEF TypeOK, AlarmType, SVPlayBtnClicked, alarm
  <2> QED  BY <2>1, <2>2, <2>3 DEF TypeOK
<1>2. CASE MVPlayBtnClicked
  <2>1. ScreenType'  BY <1>2 DEF TypeOK, ScreenType, place, display, MVPlayBtnClicked
  <2>2. PictureType'
    BY <1>2, GroupType DEF TypeOK, PictureType, MVPlayBtnClicked, handles
  <2>3. AlarmType'  BY <1>2 DEF TypeOK, AlarmType, MVPlayBtnClicked, alarm
  <2> QED  BY <2>1, <2>2, <2>3 DEF TypeOK
<1>3. CASE CycleBtnClicked
  <2>1. ScreenType'
    <3>1. cycFlag' \in BOOLEAN /\ UNCHANGED <<window, disp, box, odd, nOdd>>
      BY <1>3 DEF CycleBtnClicked, CloseVideoCyc, place, display
    <3>2. timers' \in [play : Nat, warn : Nat, cyc : Nat]
      BY <1>3 DEF TypeOK, ScreenType, CycleBtnClicked, CloseVideoCyc
    <3>3. waitPlay' \subseteq {"warn", "cyc"}
      BY <1>3 DEF TypeOK, ScreenType, CycleBtnClicked, CloseVideoCyc, CycArmed
    <3> QED  BY <3>1, <3>2, <3>3 DEF TypeOK, ScreenType
  <2>2. PictureType'
    BY <1>3 DEF TypeOK, PictureType, CycleBtnClicked, CloseVideoCyc, CloseBack
  <2>3. AlarmType'  BY <1>3 DEF TypeOK, AlarmType, CycleBtnClicked, alarm
  <2> QED  BY <2>1, <2>2, <2>3 DEF TypeOK
<1>4. CASE PlayWidClicked
  <2>1. ScreenType'  BY <1>4 DEF TypeOK, ScreenType, place, display, PlayWidClicked
  <2>2. PictureType'
    BY <1>4 DEF TypeOK, PictureType, PlayWidClicked, handles
  <2>3. AlarmType'  BY <1>4 DEF TypeOK, AlarmType, PlayWidClicked, alarm
  <2> QED  BY <2>1, <2>2, <2>3 DEF TypeOK
<1>5. ASSUME NEW g \in Group, NEW p \in Pos, CameBtnClicked(g, p) PROVE TypeOK'
  <2>1. ScreenType'  BY <1>5 DEF TypeOK, ScreenType, place, display, CameBtnClicked, CycArmed
  <2>2. PictureType'
    BY <1>5, PoseType, GroupType DEF TypeOK, PictureType, CameBtnClicked, CloseBack
  <2>3. AlarmType'  BY <1>5 DEF TypeOK, AlarmType, CameBtnClicked, alarm
  <2> QED  BY <2>1, <2>2, <2>3 DEF TypeOK
<1>6. ASSUME NEW c \in Idx, WarnIconClicked(c) PROVE TypeOK'
  <2>1. ScreenType'  BY <1>6 DEF TypeOK, ScreenType, place, display, WarnIconClicked
  <2>2. PictureType'
    BY <1>6 DEF TypeOK, PictureType, WarnIconClicked, handles
  <2>3. AlarmType'  BY <1>6 DEF TypeOK, AlarmType, WarnIconClicked, alarm
  <2> QED  BY <2>1, <2>2, <2>3 DEF TypeOK
<1>7. CASE MoniBtnClicked
  <2>1. ScreenType'  BY <1>7 DEF TypeOK, ScreenType, place, display, MoniBtnClicked, StopTimers
  <2>2. PictureType'
    <3>1. hPlay' \in [Pos -> MediaType]
      BY <1>7 DEF TypeOK, PictureType, MoniBtnClicked
    <3>4. hSingle' \in MediaType /\ hBack' \in MediaType
      BY <1>7 DEF TypeOK, PictureType, MoniBtnClicked, CloseBack
    <3>2. curSingle' \in Idx /\ backIdx' \in Idx
      BY <1>7 DEF TypeOK, PictureType, MoniBtnClicked, CloseBack
    <3>3. nMedia' \in Int
      <4>1. nMedia \in Int /\ Count(hSingle) \in Int /\ Count(hBack) \in Int
        BY DEF TypeOK, PictureType
      <4>2. nMedia' = nMedia - Count(hSingle) \/ nMedia' = nMedia - Count(hBack)
        BY <1>7 DEF MoniBtnClicked, CloseBack
      <4> QED  BY <4>1, <4>2
    <3>5. /\ UNCHANGED <<curStyle, nextStyle, nextFour, nextSingle>>
          /\ UNCHANGED curFour
      BY <1>7 DEF MoniBtnClicked, wanted
    <3> QED  BY <3>1, <3>2, <3>3, <3>4, <3>5 DEF TypeOK, PictureType
  <2>3. AlarmType'  BY <1>7 DEF TypeOK, AlarmType, MoniBtnClicked, alarm
  <2> QED  BY <2>1, <2>2, <2>3 DEF TypeOK
<1>8. CASE MoniSysBackBtnClicked
  <2>1. ScreenType'  BY <1>8 DEF TypeOK, ScreenType, place, display, MoniSysBackBtnClicked, StartTimers
  <2>2. PictureType'
    <3>1. hPlay' \in [Pos -> MediaType]
      BY <1>8 DEF TypeOK, PictureType, MoniSysBackBtnClicked
    <3>2. hSingle' \in MediaType
      BY <1>8 DEF TypeOK, PictureType, MoniSysBackBtnClicked
    <3>3. nMedia' \in Int /\ curSingle' \in Idx
      <4>1. nMedia \in Int /\ curSingle \in Idx /\ nextSingle \in Idx
        BY DEF TypeOK, PictureType
      <4>2. nMedia' = nMedia \/ nMedia' = nMedia + 1
        BY <1>8 DEF MoniSysBackBtnClicked
      <4>3. curSingle' = curSingle \/ curSingle' = nextSingle
        BY <1>8 DEF MoniSysBackBtnClicked
      <4> QED  BY <4>1, <4>2, <4>3
    <3>4. /\ UNCHANGED <<curStyle, nextStyle, nextFour, nextSingle>>
          /\ UNCHANGED <<curFour, hBack, backIdx>>
      BY <1>8 DEF MoniSysBackBtnClicked, wanted
    <3> QED  BY <3>1, <3>2, <3>3, <3>4 DEF TypeOK, PictureType
  <2>3. AlarmType'  BY <1>8 DEF TypeOK, AlarmType, MoniSysBackBtnClicked, alarm
  <2> QED  BY <2>1, <2>2, <2>3 DEF TypeOK
<1>9. CASE PsdConfirmCBFun
  <2>1. ScreenType'
    <3>1. /\ window' = "cctv" /\ box' = FALSE /\ odd' = TRUE
          /\ nOdd < MaxOdd /\ nOdd' = nOdd + 1
          /\ UNCHANGED <<disp, timers, waitPlay, cycFlag>>
      BY <1>9 DEF PsdConfirmCBFun
    <3>2. nOdd' \in 0 .. MaxOdd  BY <3>1, OddAssumption DEF TypeOK, ScreenType
    <3> QED  BY <3>1, <3>2 DEF TypeOK, ScreenType
  <2>2. PictureType'
    BY <1>9 DEF TypeOK, PictureType, PsdConfirmCBFun, wanted, handles
  <2>3. AlarmType'  BY <1>9 DEF TypeOK, AlarmType, PsdConfirmCBFun, alarm
  <2> QED  BY <2>1, <2>2, <2>3 DEF TypeOK
<1> QED  BY <1>1, <1>2, <1>3, <1>4, <1>5, <1>6, <1>7, <1>8, <1>9 DEF Click

\* So do the display switch, the timers and the multicast thread.
LEMMA TypeTimer ==
  TypeOK /\ (\/ HideCCTVResp \/ ShowCCTVResp \/ GetBackVideoTimer
             \/ UpdateWarnInfoTimer \/ ParseBroadcastSysData) => TypeOK'
<1> SUFFICES ASSUME TypeOK,
                    \/ HideCCTVResp \/ ShowCCTVResp \/ GetBackVideoTimer
                    \/ UpdateWarnInfoTimer \/ ParseBroadcastSysData
             PROVE  TypeOK'
  OBVIOUS
<1> USE MediaTypes
<1>1. CASE HideCCTVResp
  <2>1. ScreenType'  BY <1>1 DEF TypeOK, ScreenType, place, display, HideCCTVResp, StopTimers
  <2>2. PictureType'
    BY <1>1, SlotsCount DEF TypeOK, PictureType, HideCCTVResp, wanted
  <2>3. AlarmType'  BY <1>1 DEF TypeOK, AlarmType, HideCCTVResp, alarm
  <2> QED  BY <2>1, <2>2, <2>3 DEF TypeOK
<1>2. CASE ShowCCTVResp
  <2>1. ScreenType'
    <3>1. /\ window' \in {"cctv", "both"} /\ disp' = "CCTV" /\ box' = FALSE
          /\ UNCHANGED <<odd, nOdd, cycFlag>>
      BY <1>2 DEF ShowCCTVResp
    <3>2. timers' \in [play : Nat, warn : Nat, cyc : Nat] /\ waitPlay' \subseteq {"warn", "cyc"}
      BY <1>2 DEF TypeOK, ScreenType, ShowCCTVResp, StartTimers
    <3> QED  BY <3>1, <3>2 DEF TypeOK, ScreenType
  <2>2. PictureType'
    BY <1>2 DEF TypeOK, PictureType, ShowCCTVResp, wanted, handles
  <2>3. AlarmType'  BY <1>2 DEF TypeOK, AlarmType, ShowCCTVResp, alarm
  <2> QED  BY <2>1, <2>2, <2>3 DEF TypeOK
<1>3. CASE GetBackVideoTimer
  <2>1. ScreenType'  BY <1>3 DEF TypeOK, ScreenType, place, display, GetBackVideoTimer, Rearmed
  <2>2. PictureType'
    BY <1>3, NextFourType, NextSingleType DEF TypeOK, PictureType, GetBackVideoTimer, handles
  <2>3. AlarmType'  BY <1>3 DEF TypeOK, AlarmType, GetBackVideoTimer, alarm
  <2> QED  BY <2>1, <2>2, <2>3 DEF TypeOK
<1>4. CASE UpdateWarnInfoTimer
  <2>1. CASE points = seen
    <3>1. ScreenType'  BY <1>4, <2>1 DEF TypeOK, ScreenType, place, display, UpdateWarnInfoTimer, Rearmed
    <3>2. PictureType'  BY <1>4, <2>1 DEF TypeOK, PictureType, UpdateWarnInfoTimer, wanted
    <3>3. AlarmType'  BY <1>4, <2>1 DEF TypeOK, AlarmType, UpdateWarnInfoTimer, alarm
    <3> QED  BY <3>1, <3>2, <3>3 DEF TypeOK
  <2>2. CASE points # seen
    <3> DEFINE S == {PointCam[q] : q \in points}
    <3>0. S \subseteq Idx  BY PointCamType DEF TypeOK, AlarmType
    <3> HIDE DEF S
    <3>1. ScreenType'
      <4>1. \/ timers' = timers /\ cycFlag' = cycFlag
            \/ timers' = [timers EXCEPT !.cyc = 0] /\ cycFlag' = FALSE
        BY <1>4, <2>2 DEF UpdateWarnInfoTimer, CloseVideoCyc
      <4>2. UNCHANGED <<window, disp, box, odd, nOdd>> /\ waitPlay' \subseteq waitPlay \cup {"warn"}
        BY <1>4 DEF UpdateWarnInfoTimer, Rearmed, place, display
      <4>3. timers' \in [play : Nat, warn : Nat, cyc : Nat]
        BY <4>1 DEF TypeOK, ScreenType
      <4> QED  BY <4>1, <4>2, <4>3 DEF TypeOK, ScreenType
    <3>2. PictureType'
      <4>1. ManyWarns(S) \/ OneWarn(S) \/ NoWarn(S)
        BY <1>4, <2>2 DEF UpdateWarnInfoTimer, S
      <4>2. nextStyle' \in {"four", "single"} /\ nextFour' \in [Pos -> Idx] /\ nextSingle' \in Idx
        <5>1. CASE ManyWarns(S)
          BY <3>0, <5>1, PlaceType DEF ManyWarns, TypeOK, PictureType
        <5>2. CASE OneWarn(S)  BY <3>0, <5>2 DEF OneWarn, TypeOK, PictureType
        <5>3. CASE NoWarn(S)  BY <5>3, PoseType DEF NoWarn, TypeOK, PictureType
        <5> QED  BY <4>1, <5>1, <5>2, <5>3
      <4>3. hBack' \in MediaType /\ backIdx' \in Idx /\ nMedia' \in Int
        BY <1>4, <2>2 DEF UpdateWarnInfoTimer, CloseVideoCyc, CloseBack, TypeOK, PictureType
      <4> QED  BY <1>4, <4>2, <4>3 DEF UpdateWarnInfoTimer, TypeOK, PictureType
    <3>3. AlarmType'
      BY <1>4, <2>2, <3>0 DEF UpdateWarnInfoTimer, S, TypeOK, AlarmType
    <3> QED  BY <3>1, <3>2, <3>3 DEF TypeOK
  <2> QED  BY <2>1, <2>2
<1>5. CASE ParseBroadcastSysData
  <2>1. ScreenType'  BY <1>5 DEF TypeOK, ScreenType, place, display, ParseBroadcastSysData
  <2>2. PictureType'
    BY <1>5 DEF TypeOK, PictureType, ParseBroadcastSysData, wanted, handles
  <2>3. AlarmType'  BY <1>5, StateAssumption DEF TypeOK, AlarmType, ParseBroadcastSysData, alarm
  <2> QED  BY <2>1, <2>2, <2>3 DEF TypeOK
<1> QED  BY <1>1, <1>2, <1>3, <1>4, <1>5

\* And so does applying the wanted picture.
LEMMA TypePlay == TypeOK /\ UpdatePlayStateTimer => TypeOK'
<1> SUFFICES ASSUME TypeOK, UpdatePlayStateTimer PROVE TypeOK'  OBVIOUS
<1> USE MediaTypes
<1>1. ScreenType'  BY DEF UpdatePlayStateTimer, place, display, TypeOK, ScreenType
<1>2. AlarmType'  BY DEF UpdatePlayStateTimer, PlayCtrlFun, alarm, TypeOK, AlarmType
<1>3. PictureType'
  <2>0. \A f : Cardinality(Slots(f)) \in Nat  BY SlotsCount
  <2>1. /\ UNCHANGED nextStyle
        /\ StyleToFour \/ StyleToSingle \/ FourPlayStyle \/ SinglePlayStyle
    BY DEF UpdatePlayStateTimer, PlayCtrlFun
  <2>2. CASE StyleToFour
    <3>1. hPlay' \in [Pos -> MediaType]  BY <2>2 DEF StyleToFour, TypeOK, PictureType
    <3>2. nMedia' \in Int  BY <2>0, <2>2 DEF StyleToFour, TypeOK, PictureType
    <3> QED  BY <2>1, <2>2, <3>1, <3>2 DEF StyleToFour, TypeOK, PictureType
  <2>3. CASE StyleToSingle
    <3>1. curFour' \in [Pos -> Idx]  BY <2>3 DEF StyleToSingle, TypeOK, PictureType
    <3>2. hSingle' \in MediaType
      BY <2>3 DEF StyleToSingle, TypeOK, PictureType
    <3>3. nMedia' \in Int
      <4>1. Count(hBack) \in Int /\ Count(hSingle) \in Int /\ Cardinality(Slots(hPlay)) \in Int
        BY <2>0
      <4>2. nMedia \in Int  BY DEF TypeOK, PictureType
      <4>3. \/ nMedia' = nMedia - Cardinality(Slots(hPlay)) - Count(hBack) - Count(hSingle) + 1
            \/ nMedia' = nMedia - Cardinality(Slots(hPlay)) - Count(hBack)
        BY <2>3 DEF StyleToSingle
      <4> QED  BY <4>1, <4>2, <4>3
    <3> QED  BY <2>1, <2>3, <3>1, <3>2, <3>3 DEF StyleToSingle, TypeOK, PictureType
  <2>4. CASE FourPlayStyle
    <3>1. CASE FullScreen
      <4>1. hPlay' \in [Pos -> MediaType] /\ hSingle' \in MediaType
        BY <3>1 DEF FullScreen, TypeOK, PictureType
      <4>2. nMedia' \in Int /\ curFour' = curFour
        BY <3>1 DEF FullScreen, TypeOK, PictureType
      <4> QED  BY <2>1, <2>4, <4>1, <4>2 DEF FourPlayStyle, TypeOK, PictureType
    <3>2. CASE BackToFour
      <4>1. hPlay' \in [Pos -> MediaType]
        <5> DEFINE f == [i \in Pos |-> Display(hPlay[i], TRUE)]
        <5>1. f \in [Pos -> MediaType]  BY DEF TypeOK, PictureType
        <5>2. hPlay' = [i \in Pos |-> Reopen(f, i)]  BY <3>2 DEF BackToFour, ReopenSlots
        <5> HIDE DEF f
        <5> QED  BY <5>1, <5>2 DEF Reopen, TypeOK, PictureType
      <4>2. hSingle' \in MediaType /\ curFour' = nextFour
        BY <3>2 DEF BackToFour, ReopenSlots
      <4>3. nMedia' \in Int
        <5>1. nMedia' = nMedia - Count(hSingle) - Cardinality(Slots(hPlay))
                          + Cardinality(Slots(hPlay'))
          BY <3>2 DEF BackToFour
        <5>2. nMedia \in Int /\ Count(hSingle) \in Int  BY DEF TypeOK, PictureType
        <5>3. Cardinality(Slots(hPlay)) \in Int /\ Cardinality(Slots(hPlay')) \in Int  BY <2>0
        <5> QED  BY ONLY <5>1, <5>2, <5>3
      <4> QED  BY <2>1, <2>4, <4>1, <4>2, <4>3 DEF FourPlayStyle, TypeOK, PictureType
    <3>3. CASE FourToFour
      <4>1. hPlay' \in [Pos -> MediaType] /\ curFour' \in [Pos -> Idx]
        BY <3>3, ZenonT(60) DEF FourToFour, ReopenSlots, Reopen, TypeOK, PictureType
      <4>2. nMedia' \in Int /\ hSingle' = hSingle
        BY <2>0, <3>3 DEF FourToFour, TypeOK, PictureType
      <4> QED  BY <2>1, <2>4, <4>1, <4>2 DEF FourPlayStyle, TypeOK, PictureType
    <3> QED  BY <2>4, <3>1, <3>2, <3>3 DEF FourPlayStyle
  <2>5. CASE SinglePlayStyle
    <3>1. hSingle' \in MediaType /\ hBack' \in MediaType
      BY <2>5 DEF SinglePlayStyle, TypeOK, PictureType
    <3>2. backIdx' \in {curSingle, -1, backIdx}  BY <2>5 DEF SinglePlayStyle
    <3>3. nMedia' \in Int
      <4>1. nMedia \in Int /\ Count(hSingle) \in Int /\ Count(hBack) \in Int /\ Count(NoMedia) \in Int
        BY DEF TypeOK, PictureType
      <4>2. \E a \in {0, 1}, b \in {Count(hSingle), Count(hBack), Count(NoMedia)} :
              nMedia' = nMedia + a - b \/ nMedia' = nMedia
        BY <2>5 DEF SinglePlayStyle
      <4> QED  BY <4>1, <4>2
    <3> QED  BY <2>1, <2>5, <3>1, <3>2, <3>3 DEF SinglePlayStyle, TypeOK, PictureType
  <2> QED  BY <2>1, <2>2, <2>3, <2>4, <2>5
<1> QED  BY <1>1, <1>2, <1>3 DEF TypeOK

\* Stuttering changes nothing.
LEMMA TypeStutter == TypeOK /\ UNCHANGED vars => TypeOK'
BY DEF TypeOK, ScreenType, PictureType, AlarmType, vars, place, display, wanted, handles, alarm

\* Every variable of the picture controller always has its type.
THEOREM TypeCorrect == Spec => []TypeOK
<1>1. TypeOK /\ [Next]_vars => TypeOK'
  BY TypeClick, TypeTimer, TypePlay, TypeStutter DEF Next
<1> QED  BY TypeInit, <1>1, PTL DEF Spec

-----------------------------------------------------------------------------
(* Timers *)

\* How the poll's state and the windows go together: the management window stays
\* under the CCTV window only after the poll has shown it there, and unless it is
\* misled the poll never takes a shown window for a hidden one.
Followed ==
  /\ window = "both" => disp = "CCTV"
  /\ ~odd => window # "both"
  /\ ~odd /\ disp = "away" => window = "away"

\* Misled or not: no timer runs without its window, no cycle timer without a cycle,
\* and a timer is armed twice only where the poll and the window agree again.
FewTimers ==
  LET most == IF disp = "CCTV" /\ window = "cctv" THEN 2 ELSE 1
  IN /\ timers.play <= most /\ timers.warn <= most /\ timers.cyc <= most
     /\ window \in {"moni", "away"} => timers.play = 0 /\ timers.warn = 0 /\ timers.cyc = 0
     /\ ~cycFlag => timers.cyc = 0

OnceArmed ==
  ~odd => timers = IF window = "cctv"
                     THEN [play |-> 1, warn |-> 1, cyc |-> IF cycFlag THEN 1 ELSE 0]
                     ELSE [play |-> 0, warn |-> 0, cyc |-> 0]

TimerInv == OnceArmed /\ AlarmStopsCycle /\ Followed /\ FewTimers

\* A step that leaves the windows, the timers and the cycle alone keeps it all.
LEMMA TimerFrame ==
  ASSUME TimerInv, UNCHANGED <<place, timers, cycFlag, warnCams>>
  PROVE  TimerInv'
<1>1. UNCHANGED <<window, disp, odd, timers, cycFlag, warnCams>>  BY DEF place, display
<1>2. OnceArmed' /\ AlarmStopsCycle'  BY <1>1 DEF TimerInv, OnceArmed, AlarmStopsCycle, g_iWarn
<1>3. Followed' /\ FewTimers'  BY <1>1 DEF TimerInv, Followed, FewTimers
<1> QED  BY <1>2, <1>3 DEF TimerInv

\* The timers are a record of three counts.
LEMMA TimersType ==
  ASSUME TypeOK
  PROVE  /\ timers.play \in Nat /\ timers.warn \in Nat /\ timers.cyc \in Nat
         /\ timers = [play |-> timers.play, warn |-> timers.warn, cyc |-> timers.cyc]
         /\ DOMAIN timers = {"play", "warn", "cyc"}
         /\ window \in {"cctv", "moni", "both", "away"} /\ cycFlag \in BOOLEAN
         /\ odd \in BOOLEAN /\ disp \in {"CCTV", "away"}
BY DEF TypeOK, ScreenType

\* Changing the number of cycle timers alone, to none without a cycle and to one
\* with it, keeps every timer armed once.
LEMMA TimerCycle ==
  ASSUME TypeOK, TimerInv, UNCHANGED place,
         ~odd => window = "cctv",
         window \in {"cctv", "both"},
         timers' = [timers EXCEPT !.cyc = IF cycFlag' THEN 1 ELSE 0],
         cycFlag' \in BOOLEAN
  PROVE  OnceArmed' /\ Followed' /\ FewTimers'
<1> USE TimersType
<1>1. UNCHANGED <<window, disp, odd>>  BY DEF place, display
<1>2. Followed'  BY <1>1 DEF TimerInv, Followed
<1>3. timers' = [play |-> timers.play, warn |-> timers.warn, cyc |-> IF cycFlag' THEN 1 ELSE 0]
  OBVIOUS
<1>4. OnceArmed'  BY <1>1, <1>3 DEF TimerInv, OnceArmed
<1>5. FewTimers'  BY <1>1, <1>3 DEF TimerInv, FewTimers
<1> QED  BY <1>2, <1>4, <1>5

\* A step keeps the timers as they should be and the cycle stopped under an alarm.
LEMMA TimerStep == TypeOK /\ TimerInv /\ [Next]_vars => TimerInv'
<1> SUFFICES ASSUME TypeOK, TimerInv, [Next]_vars PROVE TimerInv'
  OBVIOUS
<1> USE TimersType
<1>1. ASSUME \/ SVPlayBtnClicked \/ MVPlayBtnClicked \/ PlayWidClicked
             \/ \E c \in Idx : WarnIconClicked(c)
             \/ GetBackVideoTimer \/ UpdatePlayStateTimer \/ ParseBroadcastSysData
             \/ UNCHANGED vars
      PROVE  TimerInv'
  <2>1. UNCHANGED <<place, timers, cycFlag, warnCams>>
    BY <1>1 DEF SVPlayBtnClicked, MVPlayBtnClicked, PlayWidClicked, WarnIconClicked,
                GetBackVideoTimer, UpdatePlayStateTimer, ParseBroadcastSysData, vars, alarm
  <2> QED  BY <2>1, TimerFrame
<1>2. CASE CycleBtnClicked
  <2>1. ~g_iWarn' /\ UNCHANGED place /\ window \in {"cctv", "both"}
    BY <1>2 DEF CycleBtnClicked, CCTVShown, g_iWarn, alarm
  <2>2. cycFlag' \in BOOLEAN /\ timers' = [timers EXCEPT !.cyc = IF cycFlag' THEN 1 ELSE 0]
    <3>1. CASE ~cycFlag /\ cycFlag' = TRUE /\ timers' = [timers EXCEPT !.cyc = @ + 1]
      BY <3>1 DEF TimerInv, FewTimers
    <3>2. CASE cycFlag' = FALSE /\ timers' = [timers EXCEPT !.cyc = 0]
      BY <3>2
    <3> QED  BY <1>2, <3>1, <3>2 DEF CycleBtnClicked, CloseVideoCyc
  <2>3. ~odd => window = "cctv"  BY <2>1 DEF TimerInv, Followed
  <2>4. OnceArmed' /\ Followed' /\ FewTimers'  BY <2>1, <2>2, <2>3, TimerCycle
  <2> QED  BY <2>1, <2>4 DEF TimerInv, AlarmStopsCycle
<1>3. ASSUME NEW g \in Group, NEW p \in Pos, CameBtnClicked(g, p) PROVE TimerInv'
  <2>1. window \in {"cctv", "both"} /\ UNCHANGED <<place, cycFlag, warnCams>>
    BY <1>3 DEF CameBtnClicked, CCTVShown, alarm
  <2>2. timers' = IF cycFlag THEN [timers EXCEPT !.cyc = 1] ELSE timers
    BY <1>3 DEF CameBtnClicked
  <2>3. timers' = [timers EXCEPT !.cyc = IF cycFlag' THEN 1 ELSE 0]
    BY <2>1, <2>2 DEF TimerInv, FewTimers
  <2>4. ~odd => window = "cctv"  BY <2>1 DEF TimerInv, Followed
  <2>5. OnceArmed' /\ Followed' /\ FewTimers'  BY <2>1, <2>3, <2>4, TimerCycle
  <2> QED  BY <2>1, <2>5 DEF TimerInv, AlarmStopsCycle, g_iWarn
<1>4. CASE MoniBtnClicked \/ HideCCTVResp
  <2>1. window' \in {"moni", "away"} /\ StopTimers /\ UNCHANGED <<cycFlag, warnCams>>
    BY <1>4 DEF MoniBtnClicked, HideCCTVResp, alarm
  <2>2. timers' = [play |-> 0, warn |-> 0, cyc |-> 0]
    BY <2>1 DEF StopTimers, TimerInv, FewTimers
  <2>3. OnceArmed' /\ AlarmStopsCycle'
    BY <2>1, <2>2 DEF TimerInv, OnceArmed, AlarmStopsCycle, g_iWarn
  <2>4. FewTimers'  BY <2>1, <2>2 DEF FewTimers
  <2>5. Followed'
    <3>1. CASE HideCCTVResp  BY <3>1 DEF HideCCTVResp, Followed
    <3>2. CASE MoniBtnClicked
      <4>1. UNCHANGED <<disp, odd>> /\ window' = "moni" /\ window \in {"cctv", "both"}
        BY <3>2 DEF MoniBtnClicked, CCTVShown, display
      <4> QED  BY <4>1 DEF TimerInv, Followed
    <3> QED  BY <1>4, <3>1, <3>2
  <2> QED  BY <2>3, <2>4, <2>5 DEF TimerInv
<1>5. CASE MoniSysBackBtnClicked \/ ShowCCTVResp
  <2>1. /\ UNCHANGED <<odd, cycFlag, warnCams>> /\ StartTimers
        /\ window' \in {"cctv", "both"}
        /\ window = "both" \/ disp = "away" \/ window \in {"moni", "away"}
        /\ window' = "both" => window = "moni" /\ disp' = "CCTV"
        /\ disp' = "CCTV" \/ window = "moni"
    <3>1. CASE MoniSysBackBtnClicked
      BY <3>1 DEF MoniSysBackBtnClicked, TimerInv, Followed, alarm, display
    <3>2. CASE ShowCCTVResp  BY <3>2 DEF ShowCCTVResp, alarm
    <3> QED  BY <1>5, <3>1, <3>2
  <2>2. timers' = [play |-> timers.play + 1, warn |-> timers.warn + 1,
                   cyc |-> IF cycFlag THEN timers.cyc + 1 ELSE timers.cyc]
    BY <2>1 DEF StartTimers
  <2>3. timers.play <= 1 /\ timers.warn <= 1 /\ timers.cyc <= 1
    BY <2>1 DEF TimerInv, FewTimers
  <2>4. window = "moni" => timers.play = 0 /\ timers.warn = 0 /\ timers.cyc = 0
    BY DEF TimerInv, FewTimers
  <2>5. ~cycFlag => timers.cyc = 0  BY DEF TimerInv, FewTimers
  <2>6. FewTimers'
    <3>1. CASE window = "moni"
      <4>1. timers' = [play |-> 1, warn |-> 1, cyc |-> IF cycFlag THEN 1 ELSE 0]
        BY <2>2, <2>4, <3>1
      <4> QED  BY <2>1, <4>1 DEF FewTimers
    <3>2. CASE window # "moni"
      <4>1. disp' = "CCTV" /\ window' = "cctv"  BY <2>1, <3>2
      <4> QED  BY <2>1, <2>2, <2>3, <2>5, <4>1 DEF FewTimers
    <3> QED  BY <3>1, <3>2
  <2>7. ~odd => window \in {"moni", "away"} /\ window' = "cctv"
    <3>1. CASE MoniSysBackBtnClicked
      BY <3>1 DEF MoniSysBackBtnClicked, TimerInv, Followed
    <3>2. CASE ShowCCTVResp  BY <3>2 DEF ShowCCTVResp, TimerInv, Followed
    <3> QED  BY <1>5, <3>1, <3>2
  <2>8. OnceArmed'
    <3> SUFFICES ASSUME ~odd
                 PROVE  timers' = [play |-> 1, warn |-> 1, cyc |-> IF cycFlag' THEN 1 ELSE 0]
      BY <2>1, <2>7 DEF OnceArmed
    <3>1. timers.play = 0 /\ timers.warn = 0 /\ timers.cyc = 0
      BY <2>7 DEF TimerInv, FewTimers
    <3> QED  BY <2>1, <2>2, <3>1
  <2>9. Followed'
    <3>1. ~odd' => disp' = "CCTV" \/ disp = "away"
      BY <1>5, <2>1, <2>7 DEF TimerInv, Followed, MoniSysBackBtnClicked, ShowCCTVResp, display
    <3>2. disp' = disp \/ disp' = "CCTV"
      BY <1>5 DEF MoniSysBackBtnClicked, ShowCCTVResp, display
    <3>3. ~odd /\ disp = "away" => disp' = "CCTV"
      <4>1. CASE MoniSysBackBtnClicked
        BY <4>1 DEF MoniSysBackBtnClicked, TimerInv, Followed
      <4>2. CASE ShowCCTVResp  BY <4>2 DEF ShowCCTVResp
      <4> QED  BY <1>5, <4>1, <4>2
    <3> QED  BY <2>1, <2>7, <3>2, <3>3 DEF Followed
  <2>10. AlarmStopsCycle'  BY <2>1 DEF TimerInv, AlarmStopsCycle, g_iWarn
  <2> QED  BY <2>6, <2>8, <2>9, <2>10 DEF TimerInv
<1>6. CASE UpdateWarnInfoTimer
  <2>1. window \in {"cctv", "both"} /\ UNCHANGED place
    BY <1>6 DEF UpdateWarnInfoTimer, TimerInv, FewTimers
  <2>2. CASE points = seen
    <3>1. UNCHANGED <<place, timers, cycFlag, warnCams>>
      BY <1>6, <2>2 DEF UpdateWarnInfoTimer, alarm
    <3> QED  BY <3>1, TimerFrame
  <2>3. CASE points # seen /\ warnCams' # {} /\ cycFlag
    <3>1. cycFlag' = FALSE /\ timers' = [timers EXCEPT !.cyc = 0]
      BY <1>6, <2>3 DEF UpdateWarnInfoTimer, CloseVideoCyc
    <3>2. ~odd => window = "cctv"  BY <2>1 DEF TimerInv, Followed
    <3>3. OnceArmed' /\ Followed' /\ FewTimers'  BY <2>1, <3>1, <3>2, TimerCycle
    <3> QED  BY <3>1, <3>3 DEF TimerInv, AlarmStopsCycle
  <2>4. CASE points # seen /\ ~(warnCams' # {} /\ cycFlag)
    <3>1. UNCHANGED <<timers, cycFlag>>
      BY <1>6, <2>4 DEF UpdateWarnInfoTimer
    <3>2. AlarmStopsCycle'  BY <2>4, <3>1 DEF AlarmStopsCycle, g_iWarn
    <3>3. UNCHANGED <<window, disp, odd>>  BY <2>1 DEF place, display
    <3>4. OnceArmed' /\ Followed' /\ FewTimers'
      BY <3>1, <3>3 DEF TimerInv, OnceArmed, Followed, FewTimers
    <3> QED  BY <3>2, <3>4 DEF TimerInv
  <2> QED  BY <2>2, <2>3, <2>4
<1>7. CASE PsdConfirmCBFun
  <2>1. /\ window = "away" /\ window' = "cctv" /\ odd' = TRUE
        /\ UNCHANGED <<disp, timers, cycFlag, warnCams>>
    BY <1>7 DEF PsdConfirmCBFun, alarm
  <2>2. OnceArmed' /\ Followed' /\ AlarmStopsCycle'
    BY <2>1 DEF TimerInv, OnceArmed, Followed, AlarmStopsCycle, g_iWarn
  <2>3. FewTimers'  BY <2>1 DEF TimerInv, FewTimers
  <2> QED  BY <2>2, <2>3 DEF TimerInv
<1> QED  BY <1>1, <1>2, <1>3, <1>4, <1>5, <1>6, <1>7 DEF Next, Click

\* The start: each timer armed once in the window, or none.
LEMMA TimerInit == Init => TimerInv
<1> SUFFICES ASSUME Init PROVE TimerInv  OBVIOUS
<1>1. /\ window \in {"cctv", "away"} /\ disp \in {"CCTV", "away"} /\ cycFlag = TRUE
      /\ odd = (window = "cctv" /\ disp = "away") /\ warnCams = {}
      /\ timers = [k \in {"play", "warn", "cyc"} |-> IF window = "cctv" THEN 1 ELSE 0]
  BY DEF Init
<1>2. timers = IF window = "cctv" THEN [play |-> 1, warn |-> 1, cyc |-> 1]
                                  ELSE [play |-> 0, warn |-> 0, cyc |-> 0]
  BY <1>1
<1>3. OnceArmed /\ FewTimers  BY <1>1, <1>2 DEF OnceArmed, FewTimers
<1>4. Followed /\ AlarmStopsCycle  BY <1>1 DEF Followed, AlarmStopsCycle, g_iWarn
<1> QED  BY <1>3, <1>4 DEF TimerInv

\* Every timer is armed exactly once in the CCTV window and never outside it,
\* unless the poll is misled, and never three times even then.
THEOREM TimersAlwaysArmedOnce == Spec => []TimersArmedOnce
<1>1. TypeOK /\ TimerInv /\ [Next]_vars => TimerInv'  BY TimerStep
<1>2. TypeOK /\ TimerInv => TimersArmedOnce
  <2> SUFFICES ASSUME TypeOK, TimerInv PROVE TimersArmedOnce  OBVIOUS
  <2>1. \A k \in DOMAIN timers : timers[k] <= 2  BY TimersType DEF TimerInv, FewTimers
  <2> QED  BY <2>1 DEF TimerInv, OnceArmed, TimersArmedOnce
<1> QED  BY TimerInit, TypeCorrect, <1>1, <1>2, PTL DEF Spec

\* No cycle runs while an alarm is handled.
THEOREM AlarmAlwaysStopsCycle == Spec => []AlarmStopsCycle
<1>1. TypeOK /\ TimerInv /\ [Next]_vars => TimerInv'  BY TimerStep
<1>2. TimerInv => AlarmStopsCycle  BY DEF TimerInv
<1> QED  BY TimerInit, TypeCorrect, <1>1, <1>2, PTL DEF Spec

\* From the handling of an alarm to the refresh that shows it nothing else
\* changes the wanted picture.
THEOREM AlarmNeverOverridden == Spec => AlarmNotOverridden
<1> DEFINE Pending == g_iWarn /\ warnFreshed /\ warnFreshed' /\ alarm' = alarm
<1>1. ASSUME TypeOK, TimerInv, Next, Pending PROVE UNCHANGED wanted
  <2>1. CASE \/ SVPlayBtnClicked \/ MVPlayBtnClicked \/ CycleBtnClicked \/ PlayWidClicked
             \/ \E g \in Group, p \in Pos : CameBtnClicked(g, p)
             \/ \E c \in Idx : WarnIconClicked(c)
    BY <1>1, <2>1 DEF SVPlayBtnClicked, MVPlayBtnClicked, CycleBtnClicked,
                      PlayWidClicked, CameBtnClicked, WarnIconClicked
  <2>2. CASE MoniBtnClicked \/ MoniSysBackBtnClicked \/ HideCCTVResp \/ ShowCCTVResp
             \/ PsdConfirmCBFun \/ ParseBroadcastSysData
    BY <2>2 DEF MoniBtnClicked, MoniSysBackBtnClicked, HideCCTVResp, ShowCCTVResp,
                PsdConfirmCBFun, ParseBroadcastSysData
  <2>3. ~GetBackVideoTimer
    BY <1>1 DEF GetBackVideoTimer, TimerInv, FewTimers, AlarmStopsCycle
  <2>4. CASE UpdateWarnInfoTimer
    <3>1. points = seen  BY <1>1, <2>4 DEF UpdateWarnInfoTimer, alarm
    <3> QED  BY <2>4, <3>1 DEF UpdateWarnInfoTimer
  <2>5. ~UpdatePlayStateTimer
    BY <1>1 DEF UpdatePlayStateTimer, PlayCtrlFun
  <2> QED  BY <1>1, <2>1, <2>2, <2>3, <2>4, <2>5 DEF Next, Click
<1>2. TypeOK /\ TimerInv /\ [Next]_vars => [Pending => UNCHANGED wanted]_vars
  BY <1>1
<1>3. TypeOK /\ TimerInv /\ [Next]_vars => TimerInv'  BY TimerStep
<1> QED  BY TimerInit, TypeCorrect, <1>2, <1>3, PTL DEF Spec, AlarmNotOverridden

-----------------------------------------------------------------------------
(* Handles *)

\* What opening, hiding and showing do to a handle.
LEMMA MediaFacts ==
  /\ ~NoMedia.live /\ ~NoMedia.on
  /\ \A c : Media(c, TRUE).live /\ Media(c, TRUE).cam = c /\ Media(c, TRUE).on
  /\ \A h \in MediaType :
       /\ Display(h, TRUE).live <=> h.live
       /\ Display(h, TRUE).cam = h.cam
       /\ Display(h, TRUE).on <=> (h.live \/ h.on)
  /\ \A h \in MediaType :
       /\ Display(h, FALSE).live <=> h.live
       /\ Display(h, FALSE).cam = h.cam
       /\ Display(h, FALSE).on <=> (h.on /\ ~h.live)
<1>1. ~NoMedia.live /\ ~NoMedia.on  BY DEF NoMedia
<1>2. \A c : Media(c, TRUE).live /\ Media(c, TRUE).cam = c /\ Media(c, TRUE).on
  BY DEF Media
<1>3. ASSUME NEW h \in MediaType
      PROVE  /\ Display(h, TRUE).live <=> h.live
             /\ Display(h, TRUE).cam = h.cam
             /\ Display(h, TRUE).on <=> (h.live \/ h.on)
  BY DEF Display, MediaType
<1>4. ASSUME NEW h \in MediaType
      PROVE  /\ Display(h, FALSE).live <=> h.live
             /\ Display(h, FALSE).cam = h.cam
             /\ Display(h, FALSE).on <=> (h.on /\ ~h.live)
  BY DEF Display, MediaType
<1> QED  BY <1>1, <1>2, <1>3, <1>4

\* Hiding or showing the four pictures, slot by slot.
LEMMA HideSlots ==
  ASSUME TypeOK
  PROVE  LET f == [i \in Pos |-> Display(hPlay[i], FALSE)]
         IN \A i \in Pos : /\ f[i].live <=> hPlay[i].live
                           /\ f[i].cam = hPlay[i].cam
                           /\ f[i].on <=> (hPlay[i].on /\ ~hPlay[i].live)
<1>1. \A i \in Pos : hPlay[i] \in MediaType  BY DEF TypeOK, PictureType
<1> QED  BY <1>1, MediaFacts

\* The same for showing them.
LEMMA ShowSlots ==
  ASSUME TypeOK
  PROVE  LET f == [i \in Pos |-> Display(hPlay[i], TRUE)]
         IN \A i \in Pos : /\ f[i].live <=> hPlay[i].live
                           /\ f[i].cam = hPlay[i].cam
                           /\ f[i].on <=> (hPlay[i].live \/ hPlay[i].on)
<1>1. \A i \in Pos : hPlay[i] \in MediaType  BY DEF TypeOK, PictureType
<1> QED  BY <1>1, MediaFacts

\* Slot i of f plays camera c of the four pictures, or nothing for none.
Plays(h, c) == /\ h.live <=> c # -1
               /\ h.live => h.cam = c /\ h.on
               /\ ~h.live => ~h.on

\* A new media plays, and no media plays no camera.
LEMMA PlaysFacts ==
  /\ \A c : c # -1 => Plays(Media(c, TRUE), c)
  /\ Plays(NoMedia, -1)
BY MediaFacts DEF Plays

\* A handle that plays nothing draws nothing: the strengthening that makes
\* OneLayerDraws inductive, since Display leaves such a handle alone.
NullHandlesOff ==
  /\ ~hSingle.live => ~hSingle.on
  /\ \A i \in Pos : ~hPlay[i].live => ~hPlay[i].on

\* A style keeps only its media, slot by slot.
StyleSlots ==
  /\ curStyle = "four" => ~hBack.live
  /\ curStyle = "single" => \A i \in Pos : ~hPlay[i].live
  /\ window = "away" => \A i \in Pos : ~hPlay[i].live

WindowHandles ==
  /\ window = "moni" /\ curStyle = "four" => ~hSingle.live
  /\ window = "away" => ~hSingle.live /\ ~hBack.live
  /\ curStyle = "four" /\ hSingle.live => curSingle # -1

\* What the handles keep up while the poll is not misled.
HandleInv ==
  ~odd => /\ HandlesFollowIndexes /\ OneLayerDraws
          /\ NullHandlesOff /\ StyleSlots /\ WindowHandles

\* Initially nothing is open.
LEMMA HandleInit == Init => HandleInv
BY MediaFacts DEF Init, NoSlots, NoVideos, HandleInv, HandlesFollowIndexes,
   OneLayerDraws, NullHandlesOff, StyleSlots, WindowHandles

\* Touching no handle, or closing the background one, keeps the invariant.
LEMMA HandleFrame ==
  ASSUME HandleInv, ~odd,
         UNCHANGED <<window, curStyle, hPlay, curFour, hSingle, curSingle>>,
         UNCHANGED <<hBack, backIdx>> \/ (hBack' = NoMedia /\ backIdx' = -1)
  PROVE  HandleInv'
<1>1. HandlesFollowIndexes'  BY MediaFacts DEF HandleInv, HandlesFollowIndexes
<1>2. OneLayerDraws'  BY MediaFacts DEF HandleInv, OneLayerDraws
<1>3. NullHandlesOff'  BY DEF HandleInv, NullHandlesOff
<1>4. StyleSlots' /\ WindowHandles'
  BY MediaFacts DEF HandleInv, StyleSlots, WindowHandles
<1> QED  BY <1>1, <1>2, <1>3, <1>4 DEF HandleInv

\* The handles through a visit to the management window.
LEMMA HandleMoni ==
  ASSUME TypeOK, Followed, HandleInv, ~odd, MoniBtnClicked
  PROVE  HandleInv'
<1>0. /\ hSingle \in MediaType /\ \A i \in Pos : hPlay[i] \in MediaType
      /\ curStyle \in {"four", "single"}
  BY DEF TypeOK, PictureType
<1> USE MediaFacts
<1>1. /\ window = "cctv" /\ window' = "moni"
      /\ curFour' = curFour /\ curStyle' = curStyle
  BY DEF MoniBtnClicked, CCTVShown, Followed
<1>2. CASE curStyle = "four"
  <2>0. hPlay' = [i \in Pos |-> Display(hPlay[i], FALSE)]
    BY <1>2 DEF MoniBtnClicked
  <2>1. /\ \A i \in Pos : /\ hPlay'[i].live <=> hPlay[i].live
                          /\ hPlay'[i].cam = hPlay[i].cam
                          /\ hPlay'[i].on <=> (hPlay[i].on /\ ~hPlay[i].live)
        /\ hSingle' = NoMedia /\ UNCHANGED <<hBack, backIdx>>
        /\ curSingle' = IF hSingle.live THEN -1 ELSE curSingle
    <3>1. hSingle' = NoMedia /\ UNCHANGED <<hBack, backIdx>>
      BY <1>2 DEF MoniBtnClicked
    <3>2. curSingle' = IF hSingle.live THEN -1 ELSE curSingle
      BY <1>2 DEF MoniBtnClicked
    <3> QED  BY <2>0, <3>1, <3>2, HideSlots
  <2>2. HandlesFollowIndexes'
    BY <1>0, <1>1, <1>2, <2>1 DEF HandleInv, HandlesFollowIndexes
  <2>3. OneLayerDraws'
    BY <1>0, <1>1, <1>2, <2>1 DEF HandleInv, OneLayerDraws, NullHandlesOff
  <2>4. NullHandlesOff'  BY <1>0, <2>1 DEF HandleInv, NullHandlesOff
  <2>5. StyleSlots' /\ WindowHandles'
    BY <1>0, <1>1, <1>2, <2>1 DEF HandleInv, StyleSlots, WindowHandles
  <2> QED  BY <2>2, <2>3, <2>4, <2>5 DEF HandleInv
<1>3. CASE curStyle = "single"
  <2>1. /\ UNCHANGED <<hPlay, curSingle>>
        /\ hSingle' = Display(hSingle, FALSE) /\ hBack' = NoMedia /\ backIdx' = -1
    BY <1>3 DEF MoniBtnClicked, CloseBack
  <2>2. HandlesFollowIndexes'
    BY <1>0, <1>1, <1>3, <2>1 DEF HandleInv, HandlesFollowIndexes
  <2>3. OneLayerDraws'
    BY <1>0, <1>1, <1>3, <2>1 DEF HandleInv, OneLayerDraws, NullHandlesOff, StyleSlots
  <2>4. NullHandlesOff'  BY <1>0, <2>1 DEF HandleInv, NullHandlesOff
  <2>5. StyleSlots' /\ WindowHandles'
    BY <1>0, <1>1, <1>3, <2>1 DEF HandleInv, StyleSlots, WindowHandles
  <2> QED  BY <2>2, <2>3, <2>4, <2>5 DEF HandleInv
<1> QED  BY <1>0, <1>2, <1>3

\* And back from it: the pictures, or the full screen wanted meanwhile.
LEMMA HandleMoniBack ==
  ASSUME TypeOK, Followed, HandleInv, ~odd, MoniSysBackBtnClicked
  PROVE  HandleInv'
<1>0. /\ hSingle \in MediaType /\ \A i \in Pos : hPlay[i] \in MediaType
      /\ curStyle \in {"four", "single"}
  BY DEF TypeOK, PictureType
<1> USE MediaFacts
<1>1. /\ window = "moni" /\ window' = "cctv"
      /\ UNCHANGED <<curFour, curStyle, hBack, backIdx>>
  BY DEF MoniSysBackBtnClicked, Followed
<1>2. CASE curStyle = "four" /\ nextSingle = -1
  <2>0. hPlay' = [i \in Pos |-> Display(hPlay[i], TRUE)]
    BY <1>2 DEF MoniSysBackBtnClicked
  <2>1. \A i \in Pos : /\ hPlay'[i].live <=> hPlay[i].live
                       /\ hPlay'[i].cam = hPlay[i].cam
                       /\ hPlay'[i].on <=> (hPlay[i].live \/ hPlay[i].on)
    BY <2>0, ShowSlots
  <2>2. hSingle' = hSingle /\ curSingle' = -1 /\ ~hSingle.live
    BY <1>1, <1>2 DEF MoniSysBackBtnClicked, HandleInv, WindowHandles
  <2>3. HandlesFollowIndexes'
    BY <1>1, <1>2, <2>1, <2>2 DEF HandleInv, HandlesFollowIndexes
  <2>4. OneLayerDraws'
    BY <1>1, <1>2, <2>1, <2>2 DEF HandleInv, OneLayerDraws
  <2>5. NullHandlesOff'  BY <2>1, <2>2 DEF HandleInv, NullHandlesOff
  <2>6. StyleSlots' /\ WindowHandles'
    BY <1>1, <1>2, <2>1, <2>2 DEF HandleInv, StyleSlots, WindowHandles
  <2> QED  BY <2>3, <2>4, <2>5, <2>6 DEF HandleInv
<1>4. CASE curStyle = "four" /\ nextSingle # -1
  <2>1. /\ hSingle' = Media(nextSingle, TRUE) /\ curSingle' = nextSingle
        /\ hPlay' = hPlay
    BY <1>4 DEF MoniSysBackBtnClicked
  <2>2. HandlesFollowIndexes'
    BY <1>1, <1>4, <2>1 DEF HandleInv, HandlesFollowIndexes
  <2>3. OneLayerDraws'
    BY <1>1, <1>4, <2>1 DEF HandleInv, OneLayerDraws
  <2>4. NullHandlesOff'  BY <2>1 DEF HandleInv, NullHandlesOff
  <2>5. StyleSlots' /\ WindowHandles'
    BY <1>1, <1>4, <2>1 DEF HandleInv, StyleSlots, WindowHandles
  <2> QED  BY <2>2, <2>3, <2>4, <2>5 DEF HandleInv
<1>3. CASE curStyle = "single"
  <2>1. UNCHANGED <<hPlay, curSingle>> /\ hSingle' = Display(hSingle, TRUE)
    BY <1>3 DEF MoniSysBackBtnClicked
  <2>2. HandlesFollowIndexes'
    BY <1>0, <1>1, <1>3, <2>1 DEF HandleInv, HandlesFollowIndexes
  <2>3. OneLayerDraws'
    BY <1>0, <1>1, <1>3, <2>1 DEF HandleInv, OneLayerDraws, NullHandlesOff, StyleSlots
  <2>4. NullHandlesOff'  BY <1>0, <2>1 DEF HandleInv, NullHandlesOff
  <2>5. StyleSlots' /\ WindowHandles'
    BY <1>0, <1>1, <1>3, <2>1 DEF HandleInv, StyleSlots, WindowHandles
  <2> QED  BY <2>2, <2>3, <2>4, <2>5 DEF HandleInv
<1> QED  BY <1>0, <1>2, <1>3, <1>4

\* The handles through a switch of the display to the DMI or the HMI and back.
LEMMA HandleSwitch ==
  ASSUME TypeOK, Followed, HandleInv, HideCCTVResp \/ (ShowCCTVResp /\ ~odd)
  PROVE  HandleInv'
<1> USE MediaFacts
<1>1. CASE HideCCTVResp
  <2>1. /\ window' = "away" /\ curStyle' = curStyle
        /\ hPlay' = NoSlots /\ curFour' = NoVideos
        /\ hSingle' = NoMedia /\ curSingle' = -1 /\ hBack' = NoMedia /\ backIdx' = -1
    BY <1>1 DEF HideCCTVResp
  <2>2. HandlesFollowIndexes' /\ OneLayerDraws'
    BY <2>1 DEF NoSlots, NoVideos, HandlesFollowIndexes, OneLayerDraws
  <2>3. NullHandlesOff' /\ StyleSlots' /\ WindowHandles'
    BY <2>1 DEF NoSlots, NullHandlesOff, StyleSlots, WindowHandles
  <2> QED  BY <2>2, <2>3 DEF HandleInv
<1>2. CASE ShowCCTVResp /\ ~odd
  <2>1. /\ window = "away" /\ window' = "cctv" /\ curStyle' = curStyle
        /\ UNCHANGED <<hPlay, curFour, hSingle, curSingle, hBack, backIdx>>
    BY <1>2 DEF ShowCCTVResp, handles, Followed
  <2>2. HandlesFollowIndexes' /\ NullHandlesOff'
    BY <1>2, <2>1 DEF HandleInv, HandlesFollowIndexes, NullHandlesOff
  <2>3. OneLayerDraws'
    BY <1>2, <2>1 DEF HandleInv, OneLayerDraws, StyleSlots, WindowHandles
  <2>4. StyleSlots' /\ WindowHandles'
    BY <1>2, <2>1 DEF HandleInv, StyleSlots, WindowHandles
  <2> QED  BY <2>2, <2>3, <2>4 DEF HandleInv
<1> QED  BY <1>1, <1>2

\* Reopening the slots from f: a slot keeps its media or follows its camera.
LEMMA ReopenFacts ==
  ASSUME NEW f, ReopenSlots(f), \A i \in Pos : Plays(f[i], curFour[i])
  PROVE  /\ curFour' = nextFour
         /\ \A i \in Pos : Plays(hPlay'[i], curFour'[i])
<1>1. curFour' = nextFour  BY DEF ReopenSlots
<1>2. ASSUME NEW i \in Pos PROVE Plays(hPlay'[i], nextFour[i])
  <2>1. hPlay'[i] = Reopen(f, i)  BY DEF ReopenSlots
  <2>2. CASE curFour[i] = nextFour[i]  BY <2>1, <2>2 DEF Reopen
  <2>3. CASE curFour[i] # nextFour[i] /\ nextFour[i] # -1
    BY <2>1, <2>3, PlaysFacts DEF Reopen
  <2>4. CASE curFour[i] # nextFour[i] /\ nextFour[i] = -1
    BY <2>1, <2>4, PlaysFacts DEF Reopen
  <2> QED  BY <2>2, <2>3, <2>4
<1> QED  BY <1>1, <1>2

\* The refresh leaves each style change with the media of the new style alone.
LEMMA HandleStyle ==
  ASSUME TypeOK, HandleInv, ~odd, window = "cctv", window' = window,
         StyleToFour \/ StyleToSingle
  PROVE  HandleInv'
<1> USE MediaFacts
<1>0. hSingle \in MediaType  BY DEF TypeOK, PictureType
<1>1. CASE StyleToFour
  <2>1. /\ curStyle' = "four" /\ hSingle' = NoMedia /\ curSingle' = -1
        /\ hBack' = NoMedia /\ backIdx' = -1 /\ curFour' = nextFour
    BY <1>1 DEF StyleToFour
  <2>2. ASSUME NEW i \in Pos PROVE Plays(hPlay'[i], curFour'[i])
    <3>1. hPlay'[i] = IF nextFour[i] # -1 THEN Media(nextFour[i], TRUE) ELSE NoMedia
      BY <1>1 DEF StyleToFour
    <3>2. CASE nextFour[i] # -1  BY <2>1, <3>1, <3>2, PlaysFacts, ZenonT(60)
    <3>3. CASE nextFour[i] = -1  BY <2>1, <3>1, <3>3, PlaysFacts
    <3> QED  BY <3>2, <3>3
  <2>3. HandlesFollowIndexes'  BY <2>1, <2>2 DEF HandlesFollowIndexes, Plays
  <2>4. OneLayerDraws'  BY <2>1, <2>2 DEF OneLayerDraws, Plays
  <2>5. NullHandlesOff'  BY <2>1, <2>2 DEF NullHandlesOff, Plays
  <2>6. StyleSlots' /\ WindowHandles'  BY <2>1 DEF StyleSlots, WindowHandles
  <2> QED  BY <2>3, <2>4, <2>5, <2>6 DEF HandleInv
<1>2. CASE StyleToSingle
  <2>1. /\ curStyle' = "single" /\ hBack' = NoMedia /\ backIdx' = -1
        /\ curSingle' = nextSingle
    BY <1>2 DEF StyleToSingle
  <2>2. \A i \in Pos : hPlay'[i] = NoMedia
    BY <1>2 DEF StyleToSingle, NoSlots
  <2>3. \A i \in Pos : curFour'[i] = -1
    BY <1>2 DEF StyleToSingle, HandleInv, HandlesFollowIndexes
  <2>4. CASE curSingle # nextSingle
    <3>1. hSingle' = Media(nextSingle, TRUE)  BY <1>2, <2>4 DEF StyleToSingle
    <3>2. HandlesFollowIndexes'  BY <2>1, <2>2, <2>3, <3>1 DEF HandlesFollowIndexes
    <3>3. OneLayerDraws'  BY <2>1, <2>2, <3>1 DEF OneLayerDraws
    <3>4. NullHandlesOff'  BY <2>2, <3>1 DEF NullHandlesOff
    <3>5. StyleSlots' /\ WindowHandles'  BY <2>1, <2>2 DEF StyleSlots, WindowHandles
    <3> QED  BY <3>2, <3>3, <3>4, <3>5 DEF HandleInv
  <2>5. CASE curSingle = nextSingle
    <3>1. hSingle' = Display(hSingle, TRUE)  BY <1>2, <2>5 DEF StyleToSingle
    <3>2. HandlesFollowIndexes'
      BY <1>0, <2>1, <2>2, <2>3, <2>5, <3>1 DEF HandleInv, HandlesFollowIndexes
    <3>3. OneLayerDraws'
      BY <1>0, <2>1, <2>2, <3>1, ZenonT(60) DEF HandleInv, OneLayerDraws
    <3>4. NullHandlesOff'  BY <1>0, <2>2, <3>1 DEF HandleInv, NullHandlesOff
    <3>5. StyleSlots' /\ WindowHandles'  BY <2>1, <2>2 DEF StyleSlots, WindowHandles
    <3> QED  BY <3>2, <3>3, <3>4, <3>5 DEF HandleInv
  <2> QED  BY <2>4, <2>5
<1> QED  BY <1>1, <1>2

\* Four pictures up, each playing its camera, and no full screen.
LEMMA HandleFourUp ==
  ASSUME HandleInv, ~odd, window = "cctv", window' = window,
         curStyle = "four", curStyle' = "four", UNCHANGED <<hBack, backIdx>>,
         ~hSingle'.live, ~hSingle'.on, curSingle' = -1,
         \A i \in Pos : Plays(hPlay'[i], curFour'[i])
  PROVE  HandleInv'
<1>1. HandlesFollowIndexes'
  BY DEF HandleInv, HandlesFollowIndexes, Plays
<1>2. OneLayerDraws'  BY DEF HandleInv, OneLayerDraws, Plays
<1>3. NullHandlesOff'  BY DEF NullHandlesOff, Plays
<1>4. StyleSlots' /\ WindowHandles'
  BY DEF HandleInv, StyleSlots, WindowHandles
<1> QED  BY <1>1, <1>2, <1>3, <1>4 DEF HandleInv

\* Within the four-picture style: into and out of the full screen.
LEMMA HandleFour ==
  ASSUME TypeOK, HandleInv, ~odd, window = "cctv", window' = window, FourPlayStyle
  PROVE  HandleInv'
<1> USE MediaFacts
<1>1. /\ curStyle = "four" /\ curStyle' = "four" /\ curSingle' = nextSingle
      /\ UNCHANGED <<hBack, backIdx>>
  BY DEF FourPlayStyle
<1>2. CASE FullScreen
  <2>1. /\ nextSingle # -1 /\ hSingle' = Media(nextSingle, TRUE) /\ curFour' = curFour
    BY <1>2 DEF FullScreen
  <2>2. hPlay' = [i \in Pos |-> Display(hPlay[i], FALSE)]
    BY <1>2 DEF FullScreen
  <2>3. \A i \in Pos : /\ hPlay'[i].live <=> hPlay[i].live
                       /\ hPlay'[i].cam = hPlay[i].cam
                       /\ hPlay'[i].on <=> (hPlay[i].on /\ ~hPlay[i].live)
    BY <2>2, HideSlots
  <2>4. HandlesFollowIndexes'
    BY <1>1, <2>1, <2>3 DEF HandleInv, HandlesFollowIndexes
  <2>5. OneLayerDraws'
    BY <1>1, <2>1, <2>3 DEF HandleInv, OneLayerDraws, NullHandlesOff
  <2>6. NullHandlesOff'  BY <2>1, <2>3 DEF HandleInv, NullHandlesOff
  <2>7. StyleSlots' /\ WindowHandles'
    BY <1>1, <2>1 DEF HandleInv, StyleSlots, WindowHandles
  <2> QED  BY <2>4, <2>5, <2>6, <2>7 DEF HandleInv
<1>3. CASE BackToFour
  <2> DEFINE f == [i \in Pos |-> Display(hPlay[i], TRUE)]
  <2>1. hSingle' = NoMedia /\ nextSingle = -1 /\ ReopenSlots(f)
    BY <1>3 DEF BackToFour
  <2>2. \A i \in Pos : /\ f[i].live <=> hPlay[i].live
                       /\ f[i].cam = hPlay[i].cam
                       /\ f[i].on <=> (hPlay[i].live \/ hPlay[i].on)
    BY ShowSlots
  <2> HIDE DEF f
  <2>3. \A i \in Pos : Plays(f[i], curFour[i])
    BY <2>2 DEF HandleInv, HandlesFollowIndexes, NullHandlesOff, Plays
  <2>4. \A i \in Pos : Plays(hPlay'[i], curFour'[i])
    BY <2>1, <2>3, ReopenFacts
  <2> QED  BY <1>1, <2>1, <2>4, HandleFourUp
<1>4. CASE FourToFour
  <2>1. nextSingle = curSingle /\ hSingle' = hSingle  BY <1>4 DEF FourToFour
  <2>2. CASE curSingle = -1
    <3>1. ReopenSlots(hPlay)  BY <1>4, <2>2 DEF FourToFour
    <3>2. ~hSingle.live /\ ~hSingle.on
      BY <1>1, <2>2 DEF HandleInv, WindowHandles, NullHandlesOff
    <3>3. \A i \in Pos : Plays(hPlay[i], curFour[i])
      BY <3>2 DEF HandleInv, HandlesFollowIndexes, NullHandlesOff, OneLayerDraws, Plays
    <3>4. \A i \in Pos : Plays(hPlay'[i], curFour'[i])
      BY <3>1, <3>3, ReopenFacts
    <3> QED  BY <1>1, <2>1, <2>2, <3>2, <3>4, HandleFourUp
  <2>3. CASE curSingle # -1
    <3>1. UNCHANGED <<hPlay, curFour>>  BY <1>4, <2>3 DEF FourToFour
    <3> QED  BY <1>1, <2>1, <3>1, HandleFrame
  <2> QED  BY <2>2, <2>3
<1> QED  BY <1>2, <1>3, <1>4 DEF FourPlayStyle

\* Within the single style: the alarm camera moves to the background and back.
LEMMA HandleSingle ==
  ASSUME TypeOK, HandleInv, ~odd, window = "cctv", window' = window, SinglePlayStyle
  PROVE  HandleInv'
<1> USE MediaFacts
<1> DEFINE warn == IF g_iWarnNum = 1 THEN warnIdx ELSE -1
           keep == hSingle.live /\ warn = curSingle
           swap == nextSingle # -1 /\ nextSingle = backIdx
<1>0. hSingle \in MediaType /\ hBack \in MediaType  BY DEF TypeOK, PictureType
<1>1. /\ curStyle = "single" /\ curStyle' = "single" /\ curSingle' = nextSingle
      /\ UNCHANGED <<hPlay, curFour>>
  BY DEF SinglePlayStyle
<1>2. CASE nextSingle = curSingle
  <2>1. UNCHANGED <<hSingle, hBack, backIdx>>  BY <1>2 DEF SinglePlayStyle
  <2> QED  BY <1>1, <1>2, <2>1, HandleFrame
<1>3. CASE nextSingle # curSingle
  <2>1. hSingle' = IF nextSingle = -1 THEN NoMedia
                   ELSE IF swap THEN Display(hBack, TRUE) ELSE Media(nextSingle, TRUE)
    BY <1>3 DEF SinglePlayStyle
  <2>2. /\ keep => hBack' = Display(hSingle, FALSE) /\ backIdx' = curSingle
        /\ ~keep /\ swap => hBack' = NoMedia /\ backIdx' = -1
        /\ ~keep /\ ~swap => hBack' = hBack /\ backIdx' = backIdx
    BY <1>3 DEF SinglePlayStyle
  <2>3. swap => hBack.live /\ hBack.cam = nextSingle
    BY <1>1 DEF HandleInv, HandlesFollowIndexes
  <2>4. keep => hSingle.live /\ hSingle.cam = curSingle
    BY DEF HandleInv, HandlesFollowIndexes
  <2> HIDE DEF keep
  <2>5. /\ hSingle'.live => hSingle'.cam = nextSingle /\ hSingle'.on
        /\ nextSingle # -1 => hSingle'.live
        /\ ~hSingle'.live => ~hSingle'.on
    BY <1>0, <2>1, <2>3
  <2>6. /\ hBack'.live => hBack'.cam = backIdx'
        /\ backIdx' # -1 => hBack'.live
        /\ ~hBack'.on
    <3>1. CASE keep
      <4>1. ~Display(hSingle, FALSE).on
        BY <1>0, <2>4, <3>1
      <4> QED  BY <1>0, <2>2, <2>4, <3>1, <4>1, ZenonT(60)
    <3>2. CASE ~keep /\ swap  BY <2>2, <3>2
    <3>3. CASE ~keep /\ ~swap
      BY <1>1, <2>2, <3>3 DEF HandleInv, HandlesFollowIndexes, OneLayerDraws
    <3> QED  BY <3>1, <3>2, <3>3
  <2>7. HandlesFollowIndexes'
    BY <1>1, <2>5, <2>6 DEF HandleInv, HandlesFollowIndexes
  <2>8. \A i \in Pos : ~hPlay[i].live /\ ~hPlay[i].on
    BY <1>1 DEF HandleInv, StyleSlots, NullHandlesOff
  <2>9. OneLayerDraws'
    BY <1>1, <2>5, <2>6, <2>8 DEF OneLayerDraws
  <2>10. NullHandlesOff'  BY <1>1, <2>5, <2>8 DEF NullHandlesOff
  <2>11. StyleSlots' /\ WindowHandles'
    BY <1>1, <2>8 DEF StyleSlots, WindowHandles
  <2> QED  BY <2>7, <2>9, <2>10, <2>11 DEF HandleInv
<1> QED  BY <1>2, <1>3

\* A step keeps the handle invariant.
LEMMA HandleStep ==
  TypeOK /\ TimerInv /\ HandleInv /\ [Next]_vars => HandleInv'
<1> SUFFICES ASSUME TypeOK, TimerInv, HandleInv, [Next]_vars, ~odd' PROVE HandleInv'
  BY DEF HandleInv
<1>0. Followed  BY DEF TimerInv
<1>1. CASE odd
  <2>1. HideCCTVResp
    <3>1. ~(\/ SVPlayBtnClicked \/ MVPlayBtnClicked \/ CycleBtnClicked \/ PlayWidClicked
            \/ \E g \in Group, p \in Pos : CameBtnClicked(g, p)
            \/ \E c \in Idx : WarnIconClicked(c)
            \/ MoniBtnClicked \/ MoniSysBackBtnClicked \/ PsdConfirmCBFun \/ ShowCCTVResp
            \/ GetBackVideoTimer \/ UpdateWarnInfoTimer \/ UpdatePlayStateTimer
            \/ ParseBroadcastSysData \/ UNCHANGED vars)
      BY <1>1 DEF SVPlayBtnClicked, MVPlayBtnClicked, CycleBtnClicked, PlayWidClicked,
                  CameBtnClicked, WarnIconClicked, MoniBtnClicked, MoniSysBackBtnClicked,
                  PsdConfirmCBFun, ShowCCTVResp, GetBackVideoTimer, UpdateWarnInfoTimer,
                  UpdatePlayStateTimer, ParseBroadcastSysData, vars, place, display
    <3> QED  BY <3>1 DEF Next, Click
  <2> QED  BY <1>0, <2>1, HandleSwitch
<1>2. CASE ~odd
  <2>1. ASSUME \/ SVPlayBtnClicked \/ MVPlayBtnClicked \/ PlayWidClicked
               \/ \E c \in Idx : WarnIconClicked(c)
               \/ GetBackVideoTimer \/ ParseBroadcastSysData \/ UNCHANGED vars
        PROVE  HandleInv'
    <3>1. UNCHANGED <<window, curStyle, handles>>
      BY <2>1 DEF SVPlayBtnClicked, MVPlayBtnClicked, PlayWidClicked, WarnIconClicked,
                  GetBackVideoTimer, ParseBroadcastSysData, vars, place
    <3> QED  BY <1>2, <3>1, HandleFrame DEF handles
  <2>2. ASSUME \/ CycleBtnClicked \/ \E g \in Group, p \in Pos : CameBtnClicked(g, p)
               \/ UpdateWarnInfoTimer
        PROVE  HandleInv'
    <3>1. UNCHANGED <<window, curStyle, hPlay, curFour, hSingle, curSingle>>
      BY <2>2 DEF CycleBtnClicked, CameBtnClicked, UpdateWarnInfoTimer, place
    <3>2. UNCHANGED <<hBack, backIdx>> \/ (hBack' = NoMedia /\ backIdx' = -1)
      BY <2>2 DEF CycleBtnClicked, CameBtnClicked, UpdateWarnInfoTimer, CloseVideoCyc, CloseBack
    <3> QED  BY <1>2, <3>1, <3>2, HandleFrame
  <2>3. CASE UpdatePlayStateTimer
    <3>1. window = "cctv" /\ window' = window
      BY <1>2, <2>3 DEF UpdatePlayStateTimer, TimerInv, OnceArmed, place
    <3>2. StyleToFour \/ StyleToSingle \/ FourPlayStyle \/ SinglePlayStyle
      BY <2>3 DEF UpdatePlayStateTimer, PlayCtrlFun
    <3> QED  BY <1>2, <3>1, <3>2, HandleStyle, HandleFour, HandleSingle
  <2>4. ~PsdConfirmCBFun  BY DEF PsdConfirmCBFun
  <2> QED
    BY <1>0, <1>2, <2>1, <2>2, <2>3, <2>4, HandleMoni, HandleMoniBack, HandleSwitch
    DEF Next, Click
<1> QED  BY <1>1, <1>2

\* In every reachable state the timers and the handles are as they should be.
LEMMA Reachable == Spec => [](TypeOK /\ TimerInv /\ HandleInv)
BY TimerInit, HandleInit, TypeCorrect, TimerStep, HandleStep, PTL DEF Spec

\* The index globals always say what the handles play, unless the poll is misled.
THEOREM HandlesAlwaysFollowIndexes == Spec => []HandlesFollowIndexes
<1>1. HandleInv => HandlesFollowIndexes  BY DEF HandleInv, HandlesFollowIndexes
<1> QED  BY Reachable, <1>1, PTL

\* At most one layer ever draws into the frame buffer, none outside the window,
\* unless the poll is misled.
THEOREM OneLayerAlwaysDraws == Spec => []OneLayerDraws
<1>1. HandleInv => OneLayerDraws  BY DEF HandleInv, OneLayerDraws
<1> QED  BY Reachable, <1>1, PTL

\* A slot never survives into the single style, nor the background camera into
\* the four-picture style, unless the poll is misled.
THEOREM MediaAlwaysOfStyle == Spec => []MediaOfStyle
<1>1. HandleInv => MediaOfStyle  BY DEF HandleInv, StyleSlots, MediaOfStyle, Slots
<1> QED  BY Reachable, <1>1, PTL

\* Leaving the CCTV window always closes the full screen, and all of them when
\* the DMI or the HMI comes up, unless the poll is misled.
THEOREM HandlesAlwaysOfWindow == Spec => []HandlesOfWindow
<1>1. HandleInv => HandlesOfWindow
  BY DEF HandleInv, StyleSlots, WindowHandles, HandlesOfWindow, Slots
<1> QED  BY Reachable, <1>1, PTL

-----------------------------------------------------------------------------
(* Counting the media *)

\* The count the handles account for.
HeldBy(f, single, back) == Cardinality(Slots(f)) + Count(single) + Count(back)

\* Hiding or showing changes no count, and no media counts nothing.
LEMMA CountFacts ==
  ASSUME TypeOK
  PROVE  /\ Slots([i \in Pos |-> Display(hPlay[i], FALSE)]) = Slots(hPlay)
         /\ Slots([i \in Pos |-> Display(hPlay[i], TRUE)]) = Slots(hPlay)
         /\ Cardinality(Slots(NoSlots)) = 0
         /\ Count(NoMedia) = 0 /\ \A c : Count(Media(c, TRUE)) = 1
         /\ \A h \in MediaType : /\ Count(Display(h, TRUE)) = Count(h)
                                 /\ Count(Display(h, FALSE)) = Count(h)
         /\ \A h : Count(h) \in {0, 1}
         /\ \A f : Cardinality(Slots(f)) \in Nat
         /\ hSingle \in MediaType /\ hBack \in MediaType /\ nMedia \in Int
<1>1. Slots([i \in Pos |-> Display(hPlay[i], FALSE)]) = Slots(hPlay)
  BY HideSlots DEF Slots
<1>2. Slots([i \in Pos |-> Display(hPlay[i], TRUE)]) = Slots(hPlay)
  BY ShowSlots DEF Slots
<1>3. Cardinality(Slots(NoSlots)) = 0
  <2>1. Slots(NoSlots) = {}  BY MediaFacts DEF Slots, NoSlots
  <2> QED  BY <2>1, FS_EmptySet
<1>4. Count(NoMedia) = 0 /\ \A c : Count(Media(c, TRUE)) = 1
  BY MediaFacts DEF Count
<1>5. \A h \in MediaType : /\ Count(Display(h, TRUE)) = Count(h)
                           /\ Count(Display(h, FALSE)) = Count(h)
  BY MediaFacts DEF Count
<1>6. \A h : Count(h) \in {0, 1}  BY DEF Count
<1>7. hSingle \in MediaType /\ hBack \in MediaType /\ nMedia \in Int
  BY DEF TypeOK, PictureType
<1> QED  BY <1>1, <1>2, <1>3, <1>4, <1>5, <1>6, <1>7, SlotsCount

\* What the count needs of the handles, misled or not: a background index stands
\* for a media, and the full screen does not survive into the management window.
BackLive == curStyle = "single" /\ backIdx # -1 => hBack.live
MoniFour == window = "moni" /\ curStyle = "four" => ~hSingle.live

\* A step keeps that.
LEMMA BackStep ==
  TypeOK /\ TimerInv /\ BackLive /\ MoniFour /\ [Next]_vars => BackLive' /\ MoniFour'
<1> SUFFICES ASSUME TypeOK, TimerInv, BackLive, MoniFour, [Next]_vars
             PROVE  BackLive' /\ MoniFour'
  OBVIOUS
<1> USE MediaFacts
<1>1. ASSUME \/ SVPlayBtnClicked \/ MVPlayBtnClicked \/ PlayWidClicked
             \/ \E c \in Idx : WarnIconClicked(c)
             \/ GetBackVideoTimer \/ ParseBroadcastSysData \/ UNCHANGED vars
      PROVE  BackLive' /\ MoniFour'
  <2>1. UNCHANGED <<window, curStyle, hSingle, hBack, backIdx>>
    BY <1>1 DEF SVPlayBtnClicked, MVPlayBtnClicked, PlayWidClicked, WarnIconClicked,
                GetBackVideoTimer, ParseBroadcastSysData, vars, handles, place
  <2> QED  BY <2>1 DEF BackLive, MoniFour
<1>2. ASSUME \/ CycleBtnClicked \/ \E g \in Group, p \in Pos : CameBtnClicked(g, p)
             \/ UpdateWarnInfoTimer
      PROVE  BackLive' /\ MoniFour'
  <2>1. UNCHANGED <<window, curStyle, hSingle>>
    BY <1>2 DEF CycleBtnClicked, CameBtnClicked, UpdateWarnInfoTimer, place
  <2>2. UNCHANGED <<hBack, backIdx>> \/ backIdx' = -1
    BY <1>2 DEF CycleBtnClicked, CameBtnClicked, UpdateWarnInfoTimer, CloseVideoCyc, CloseBack
  <2> QED  BY <2>1, <2>2 DEF BackLive, MoniFour
<1>3. CASE MoniBtnClicked
  <2>1. curStyle' = curStyle  BY <1>3 DEF MoniBtnClicked
  <2>2. CASE curStyle = "four"
    <3>1. hSingle' = NoMedia  BY <1>3, <2>2 DEF MoniBtnClicked
    <3> QED  BY <2>1, <2>2, <3>1 DEF BackLive, MoniFour
  <2>3. CASE curStyle # "four"
    <3>1. backIdx' = -1  BY <1>3, <2>3 DEF MoniBtnClicked, CloseBack
    <3> QED  BY <2>1, <2>3, <3>1 DEF BackLive, MoniFour
  <2> QED  BY <2>2, <2>3
<1>4. CASE MoniSysBackBtnClicked \/ ShowCCTVResp \/ PsdConfirmCBFun
  <2>1. window' # "moni" /\ UNCHANGED <<curStyle, hBack, backIdx>>
    BY <1>4 DEF MoniSysBackBtnClicked, ShowCCTVResp, PsdConfirmCBFun, handles
  <2> QED  BY <2>1 DEF BackLive, MoniFour
<1>5. CASE HideCCTVResp
  <2>1. window' # "moni" /\ backIdx' = -1  BY <1>5 DEF HideCCTVResp
  <2> QED  BY <2>1 DEF BackLive, MoniFour
<1>6. CASE UpdatePlayStateTimer
  <2>1. window' = window /\ window # "moni"
    BY <1>6 DEF UpdatePlayStateTimer, TimerInv, FewTimers, place
  <2>2. MoniFour'  BY <2>1 DEF MoniFour
  <2>3. StyleToFour \/ StyleToSingle \/ FourPlayStyle \/ SinglePlayStyle
    BY <1>6 DEF UpdatePlayStateTimer, PlayCtrlFun
  <2>4. CASE StyleToFour \/ FourPlayStyle
    <3>1. curStyle' = "four"  BY <2>4 DEF StyleToFour, FourPlayStyle
    <3> QED  BY <2>2, <3>1 DEF BackLive
  <2>5. CASE StyleToSingle
    <3>1. backIdx' = -1  BY <2>5 DEF StyleToSingle
    <3> QED  BY <2>2, <3>1 DEF BackLive
  <2>6. CASE SinglePlayStyle
    <3> DEFINE keep == hSingle.live /\ (IF g_iWarnNum = 1 THEN warnIdx ELSE -1) = curSingle
               swap == nextSingle # -1 /\ nextSingle = backIdx
    <3>1. curStyle = "single" /\ hSingle \in MediaType
      BY <2>6 DEF SinglePlayStyle, TypeOK, PictureType
    <3>2. CASE nextSingle = curSingle
      <4>1. UNCHANGED <<hBack, backIdx>>  BY <2>6, <3>2 DEF SinglePlayStyle
      <4> QED  BY <2>2, <3>1, <4>1 DEF BackLive
    <3>3. CASE nextSingle # curSingle
      <4>1. /\ keep => hBack' = Display(hSingle, FALSE)
            /\ ~keep /\ swap => backIdx' = -1
            /\ ~keep /\ ~swap => UNCHANGED <<hBack, backIdx>>
        BY <2>6, <3>3 DEF SinglePlayStyle
      <4>2. keep => hSingle.live  OBVIOUS
      <4> HIDE DEF keep, swap
      <4>3. Display(hSingle, FALSE).live = hSingle.live
        BY <3>1 DEF Display, MediaType
      <4>4. keep => hBack'.live  BY ONLY <4>1, <4>2, <4>3
      <4> QED  BY <2>2, <3>1, <4>1, <4>4 DEF BackLive
    <3> QED  BY <3>2, <3>3
  <2> QED  BY <2>3, <2>4, <2>5, <2>6
<1> QED  BY <1>1, <1>2, <1>3, <1>4, <1>5, <1>6 DEF Next, Click

\* Swapping the single picture with the background camera keeps the count.
LEMMA CountSingle ==
  ASSUME TypeOK, BackLive, NEW d \in Nat, nMedia = HeldBy(hPlay, hSingle, hBack) + d,
         SinglePlayStyle
  PROVE  nMedia' = HeldBy(hPlay', hSingle', hBack') + d
<1> USE CountFacts
<1> DEFINE warn == IF g_iWarnNum = 1 THEN warnIdx ELSE -1
           keep == hSingle.live /\ warn = curSingle
           swap == nextSingle # -1 /\ nextSingle = backIdx
           back == IF swap THEN NoMedia ELSE hBack
<1>1. curStyle = "single" /\ hPlay' = hPlay  BY DEF SinglePlayStyle
<1>2. CASE nextSingle = curSingle
  <2>1. UNCHANGED <<hSingle, hBack, nMedia>>  BY <1>2 DEF SinglePlayStyle
  <2> QED  BY <1>1, <2>1
<1>3. CASE nextSingle # curSingle
  <2>1. swap => Count(hBack) = 1
    BY <1>1 DEF BackLive, Count
  <2>2. keep => Count(hSingle) = 1  BY DEF Count
  <2>3. hSingle' = IF nextSingle = -1 THEN NoMedia
                   ELSE IF swap THEN Display(hBack, TRUE) ELSE Media(nextSingle, TRUE)
    BY <1>3 DEF SinglePlayStyle
  <2>4. hBack' = IF keep THEN Display(hSingle, FALSE) ELSE back
    BY <1>3 DEF SinglePlayStyle
  <2>5. nMedia' = nMedia + (IF nextSingle # -1 /\ ~swap THEN 1 ELSE 0)
                    - (IF keep THEN Count(back) ELSE Count(hSingle))
    BY <1>3 DEF SinglePlayStyle
  <2>6. Count(hSingle') = IF nextSingle = -1 THEN 0 ELSE 1
    BY <2>1, <2>3
  <2>7. Count(back) = IF swap THEN 0 ELSE Count(hBack)  OBVIOUS
  <2>8. Count(hBack') = IF keep THEN 1 ELSE Count(back)
    BY <2>2, <2>4
  <2>9. swap => nextSingle # -1  OBVIOUS
  <2> HIDE DEF keep, swap, back
  <2> QED  BY <1>1, <2>1, <2>2, <2>5, <2>6, <2>7, <2>8, <2>9 DEF HeldBy
<1> QED  BY <1>2, <1>3

\* The management window is left over the pictures that the poll has shown behind it,
\* in full screen: the full screen wanted is opened a second time.
ReopensFull ==
  /\ MoniSysBackBtnClicked /\ window = "both"
  /\ curStyle = "four" /\ nextSingle # -1 /\ hSingle.live

\* The count of g_iConnectNum is off by one more only after that step.
LEMMA CountStep ==
  ASSUME TypeOK, TimerInv, BackLive, MoniFour, [Next]_vars,
         NEW d \in Nat, nMedia = HeldBy(hPlay, hSingle, hBack) + d
  PROVE  nMedia' = HeldBy(hPlay', hSingle', hBack') + (IF ReopensFull THEN d + 1 ELSE d)
<1> USE CountFacts
<1>0. nMedia = HeldBy(hPlay, hSingle, hBack) + d  OBVIOUS
<1>00. CASE ReopensFull
  <2>1. hPlay' = hPlay /\ hBack' = hBack /\ hSingle' = Media(nextSingle, TRUE)
    BY <1>00 DEF ReopensFull, MoniSysBackBtnClicked
  <2>2. nMedia' = nMedia + 1  BY <1>00 DEF ReopensFull, MoniSysBackBtnClicked
  <2>3. Count(hSingle) = 1 /\ Count(hSingle') = 1
    BY <1>00, <2>1 DEF ReopensFull, Count, Media
  <2>4. HeldBy(hPlay', hSingle', hBack') = HeldBy(hPlay, hSingle, hBack)
    BY <2>1, <2>3 DEF HeldBy
  <2>5. HeldBy(hPlay, hSingle, hBack) \in Nat
    <3>1. Cardinality(Slots(hPlay)) \in Nat /\ Count(hSingle) \in Nat /\ Count(hBack) \in Nat
      OBVIOUS
    <3> QED  BY ONLY <3>1 DEF HeldBy
  <2>6. nMedia' = HeldBy(hPlay', hSingle', hBack') + (d + 1)  BY ONLY <1>0, <2>2, <2>4, <2>5, d \in Nat
  <2> QED  BY <1>00, <2>6
<1> SUFFICES ASSUME ~ReopensFull PROVE nMedia' = HeldBy(hPlay', hSingle', hBack') + d
  BY <1>00
<1>1. ASSUME \/ SVPlayBtnClicked \/ MVPlayBtnClicked \/ PlayWidClicked \/ CycleBtnClicked
             \/ \E c \in Idx : WarnIconClicked(c)
             \/ \E g \in Group, p \in Pos : CameBtnClicked(g, p)
             \/ GetBackVideoTimer \/ UpdateWarnInfoTimer \/ ParseBroadcastSysData
             \/ ShowCCTVResp \/ PsdConfirmCBFun \/ UNCHANGED vars
      PROVE  nMedia' = HeldBy(hPlay', hSingle', hBack') + d
  <2>1. UNCHANGED <<hPlay, hSingle>>
    BY <1>1 DEF SVPlayBtnClicked, MVPlayBtnClicked, PlayWidClicked, CycleBtnClicked,
                WarnIconClicked, CameBtnClicked, GetBackVideoTimer, UpdateWarnInfoTimer,
                ParseBroadcastSysData, ShowCCTVResp, PsdConfirmCBFun, vars, handles
  <2>2. UNCHANGED <<hBack, nMedia>> \/ (hBack' = NoMedia /\ nMedia' = nMedia - Count(hBack))
    BY <1>1 DEF SVPlayBtnClicked, MVPlayBtnClicked, PlayWidClicked, CycleBtnClicked,
                WarnIconClicked, CameBtnClicked, GetBackVideoTimer, UpdateWarnInfoTimer,
                ParseBroadcastSysData, ShowCCTVResp, PsdConfirmCBFun, CloseVideoCyc, CloseBack, vars, handles
  <2> QED  BY <1>0, <2>1, <2>2 DEF HeldBy
<1>2. CASE MoniBtnClicked
  <2>1. CASE curStyle = "four"
    <3>1. /\ hPlay' = [i \in Pos |-> Display(hPlay[i], FALSE)]
          /\ hSingle' = NoMedia /\ hBack' = hBack /\ nMedia' = nMedia - Count(hSingle)
      BY <1>2, <2>1 DEF MoniBtnClicked
    <3> QED  BY <1>0, <3>1 DEF HeldBy
  <2>2. CASE curStyle # "four"
    <3>1. /\ hPlay' = hPlay /\ hSingle' = Display(hSingle, FALSE)
          /\ hBack' = NoMedia /\ nMedia' = nMedia - Count(hBack)
      BY <1>2, <2>2 DEF MoniBtnClicked, CloseBack
    <3>2. /\ Cardinality(Slots(hPlay')) = Cardinality(Slots(hPlay))
          /\ Count(hSingle') = Count(hSingle)
          /\ Count(hBack') = 0
      BY <3>1
    <3>3. /\ Cardinality(Slots(hPlay)) \in Nat /\ Count(hSingle) \in Nat
          /\ Count(hBack) \in Nat
      OBVIOUS
    <3>4. nMedia' = nMedia - Count(hBack)
      BY <3>1
    <3>5. nMedia = Cardinality(Slots(hPlay)) + Count(hSingle) + Count(hBack) + d
      BY <1>0 DEF HeldBy
    <3> QED  BY <3>2, <3>3, <3>4, <3>5 DEF HeldBy
  <2> QED  BY <2>1, <2>2
<1>3. CASE MoniSysBackBtnClicked
  <2>1. hBack' = hBack  BY <1>3 DEF MoniSysBackBtnClicked
  <2>2. CASE curStyle = "four" /\ nextSingle = -1
    <3>1. /\ hPlay' = [i \in Pos |-> Display(hPlay[i], TRUE)]
          /\ hSingle' = hSingle /\ nMedia' = nMedia
      BY <1>3, <2>2 DEF MoniSysBackBtnClicked
    <3> QED  BY <1>0, <2>1, <3>1 DEF HeldBy
  <2>3. CASE curStyle = "four" /\ nextSingle # -1
    <3>1. hPlay' = hPlay /\ hSingle' = Media(nextSingle, TRUE) /\ nMedia' = nMedia + 1
      BY <1>3, <2>3 DEF MoniSysBackBtnClicked
    <3>2. Count(hSingle) = 0
      <4>1. ~hSingle.live
        BY <1>3, <2>3 DEF MoniSysBackBtnClicked, MoniFour, ReopensFull
      <4> QED  BY <4>1 DEF Count
    <3>3. /\ Cardinality(Slots(hPlay')) = Cardinality(Slots(hPlay))
          /\ Count(hSingle') = 1
          /\ Count(hBack') = Count(hBack)
      BY <2>1, <3>1
    <3>4. /\ Cardinality(Slots(hPlay)) \in Nat /\ Count(hSingle) \in Nat
          /\ Count(hBack) \in Nat
      OBVIOUS
    <3>5. nMedia' = nMedia + 1
      BY <2>1, <3>1, <3>2
    <3>6. nMedia = Cardinality(Slots(hPlay)) + Count(hSingle) + Count(hBack) + d
      BY <1>0 DEF HeldBy
    <3> QED  BY <3>3, <3>4, <3>5, <3>6, <3>2 DEF HeldBy
  <2>4. CASE curStyle # "four"
    <3>1. hPlay' = hPlay /\ hSingle' = Display(hSingle, TRUE) /\ nMedia' = nMedia
      BY <1>3, <2>4 DEF MoniSysBackBtnClicked
    <3> QED  BY <1>0, <2>1, <3>1 DEF HeldBy
  <2> QED  BY <2>2, <2>3, <2>4
<1>4. CASE HideCCTVResp
  <2>1. /\ hPlay' = NoSlots /\ hSingle' = NoMedia /\ hBack' = NoMedia
        /\ nMedia' = nMedia - Cardinality(Slots(hPlay)) - Count(hSingle) - Count(hBack)
    BY <1>4 DEF HideCCTVResp
  <2> QED  BY <1>0, <2>1 DEF HeldBy
<1>5. CASE UpdatePlayStateTimer
  <2>1. StyleToFour \/ StyleToSingle \/ FourPlayStyle \/ SinglePlayStyle
    BY <1>5 DEF UpdatePlayStateTimer, PlayCtrlFun
  <2>2. CASE StyleToFour
    <3>1. /\ hSingle' = NoMedia /\ hBack' = NoMedia
          /\ nMedia' = nMedia - Count(hSingle) - Count(hBack) - Cardinality(Slots(hPlay))
                          + Cardinality(Slots(hPlay'))
      BY <2>2 DEF StyleToFour
    <3>2. Cardinality(Slots(hPlay')) \in Nat  BY SlotsCount
    <3> QED  BY <1>0, <3>1, <3>2 DEF HeldBy
  <2>3. CASE StyleToSingle
    <3>1. hPlay' = NoSlots /\ hBack' = NoMedia  BY <2>3 DEF StyleToSingle
    <3>2. CASE curSingle # nextSingle
      <4>1. /\ hSingle' = Media(nextSingle, TRUE)
            /\ nMedia' = nMedia - Cardinality(Slots(hPlay)) - Count(hBack) - Count(hSingle) + 1
        BY <2>3, <3>2 DEF StyleToSingle
      <4>2. /\ Cardinality(Slots(hPlay')) = 0
            /\ Count(hSingle') = 1
            /\ Count(hBack') = 0
        BY <3>1, <4>1
      <4>3. /\ Cardinality(Slots(hPlay)) \in Nat /\ Count(hSingle) \in Nat
            /\ Count(hBack) \in Nat
        OBVIOUS
      <4>4. nMedia' = nMedia - Cardinality(Slots(hPlay)) - Count(hBack) - Count(hSingle) + 1
        BY <3>1, <4>1
      <4>5. nMedia = Cardinality(Slots(hPlay)) + Count(hSingle) + Count(hBack) + d
        BY <1>0 DEF HeldBy
      <4> QED  BY <4>2, <4>3, <4>4, <4>5 DEF HeldBy
    <3>3. CASE curSingle = nextSingle
      <4>1. /\ hSingle' = Display(hSingle, TRUE)
            /\ nMedia' = nMedia - Cardinality(Slots(hPlay)) - Count(hBack)
        BY <2>3, <3>3 DEF StyleToSingle
      <4>2. /\ Cardinality(Slots(hPlay')) = 0
            /\ Count(hSingle') = Count(hSingle)
            /\ Count(hBack') = 0
        BY <3>1, <4>1
      <4>3. /\ Cardinality(Slots(hPlay)) \in Nat /\ Count(hSingle) \in Nat
            /\ Count(hBack) \in Nat
        OBVIOUS
      <4>4. nMedia' = nMedia - Cardinality(Slots(hPlay)) - Count(hBack)
        BY <3>1, <4>1
      <4>5. nMedia = Cardinality(Slots(hPlay)) + Count(hSingle) + Count(hBack) + d
        BY <1>0 DEF HeldBy
      <4> QED  BY <4>2, <4>3, <4>4, <4>5 DEF HeldBy
    <3> QED  BY <3>2, <3>3
  <2>4. CASE FourPlayStyle
    <3>0. hBack' = hBack  BY <2>4 DEF FourPlayStyle
    <3>1. CASE FullScreen
      <4>1. /\ hPlay' = [i \in Pos |-> Display(hPlay[i], FALSE)]
            /\ hSingle' = Media(nextSingle, TRUE) /\ nMedia' = nMedia - Count(hSingle) + 1
        BY <3>1 DEF FullScreen
      <4>2. /\ Cardinality(Slots(hPlay')) = Cardinality(Slots(hPlay))
            /\ Count(hSingle') = 1
            /\ Count(hBack') = Count(hBack)
        BY <3>0, <4>1
      <4>3. /\ Cardinality(Slots(hPlay)) \in Nat /\ Count(hSingle) \in Nat
            /\ Count(hBack) \in Nat
        OBVIOUS
      <4>4. nMedia' = nMedia - Count(hSingle) + 1
        BY <3>0, <4>1
      <4>5. nMedia = Cardinality(Slots(hPlay)) + Count(hSingle) + Count(hBack) + d
        BY <1>0 DEF HeldBy
      <4> QED  BY <4>2, <4>3, <4>4, <4>5 DEF HeldBy
    <3>2. CASE BackToFour
      <4>1. /\ hSingle' = NoMedia
            /\ nMedia' = nMedia - Count(hSingle) - Cardinality(Slots(hPlay))
                            + Cardinality(Slots(hPlay'))
        BY <3>2 DEF BackToFour
      <4>2. Cardinality(Slots(hPlay')) \in Nat  BY SlotsCount
      <4> QED  BY <1>0, <3>0, <4>1, <4>2 DEF HeldBy
    <3>3. CASE FourToFour
      <4>1. /\ hSingle' = hSingle
            /\ \/ hPlay' = hPlay /\ nMedia' = nMedia
               \/ nMedia' = nMedia - Cardinality(Slots(hPlay)) + Cardinality(Slots(hPlay'))
        BY <3>3 DEF FourToFour
      <4>2. Cardinality(Slots(hPlay')) \in Nat  BY SlotsCount
      <4> QED  BY <1>0, <3>0, <4>1, <4>2 DEF HeldBy
    <3> QED  BY <2>4, <3>1, <3>2, <3>3 DEF FourPlayStyle
  <2>5. CASE SinglePlayStyle
    BY <1>0, <2>5, CountSingle
  <2> QED  BY <2>1, <2>2, <2>3, <2>4, <2>5
<1> QED  BY <1>1, <1>2, <1>3, <1>4, <1>5 DEF Next, Click

\* What the misled poll can still cost: a media, as long as the management window
\* can come to lie over the pictures.
Debt == IF odd /\ (disp = "away" \/ window = "both") THEN 1 ELSE 0

\* The medias lost are no more than the times the poll was misled.
LeakInv ==
  /\ BackLive /\ MoniFour
  /\ \E d \in Nat : nMedia = HeldBy(hPlay, hSingle, hBack) + d /\ d + Debt <= nOdd

\* Sums of the debt b, its next value c, and the counts n and m of before and after.
LEMMA DebtSums ==
  \A b, c \in {0, 1}, n, m \in Int :
    /\ m = n + 1 => c + n <= b + m
    /\ m = n /\ (c = 1 => b = 1) => c + n <= b + m
    /\ m = n /\ c = 0 /\ b = 1 => 1 + c + n <= b + m
    /\ c + n <= b + m => 0 + c + n <= b + m
OBVIOUS

\* The media lost, after the debt is paid.
LEMMA DebtPaid ==
  \A b, c, e \in {0, 1}, n, m \in Int, d, f \in Nat :
    d + b <= n /\ e + c + n <= b + m /\ f <= d + e => f + c <= m
OBVIOUS

\* The debt grows only with nOdd, and losing the media pays it.
LEMMA DebtStep ==
  TypeOK /\ TypeOK' /\ TimerInv /\ [Next]_vars =>
    \E e \in {0, 1} : /\ e + Debt' + nOdd <= Debt + nOdd'
                      /\ ReopensFull => e = 1
<1> HAVE TypeOK /\ TypeOK' /\ TimerInv /\ [Next]_vars
<1>0. Debt \in {0, 1} /\ Debt' \in {0, 1} /\ nOdd \in Int /\ nOdd' \in Int
  BY OddAssumption DEF Debt, TypeOK, ScreenType
<1>1. CASE ReopensFull
  <2>1. nOdd' = nOdd /\ odd' = odd /\ window' = "cctv" /\ disp' = disp
    BY <1>1 DEF ReopensFull, MoniSysBackBtnClicked, display
  <2>2. odd /\ disp = "CCTV" /\ window = "both"  BY <1>1 DEF ReopensFull, TimerInv, Followed
  <2>3. Debt = 1 /\ Debt' = 0  BY <2>1, <2>2 DEF Debt
  <2>4. 1 + Debt' + nOdd <= Debt + nOdd'  BY ONLY <1>0, <2>1, <2>3, DebtSums
  <2> QED  BY <2>4
<1>2. CASE ~ReopensFull
  <2>1. Debt' + nOdd <= Debt + nOdd'
    <3>1. CASE PsdConfirmCBFun
      <4>1. nOdd' = nOdd + 1  BY <3>1 DEF PsdConfirmCBFun
      <4> QED  BY ONLY <1>0, <4>1, DebtSums
    <3>2. CASE HideCCTVResp
      <4>1. nOdd' = nOdd /\ Debt' = 0  BY <3>2 DEF HideCCTVResp, Debt
      <4> QED  BY ONLY <1>0, <4>1, DebtSums
    <3>3. CASE ShowCCTVResp
      <4>1. nOdd' = nOdd /\ odd' = odd /\ disp = "away"  BY <3>3 DEF ShowCCTVResp
      <4>2. Debt' = 1 => Debt = 1  BY <4>1 DEF Debt
      <4> QED  BY ONLY <1>0, <4>1, <4>2, DebtSums
    <3>4. CASE MoniBtnClicked \/ MoniSysBackBtnClicked
      <4>1. nOdd' = nOdd /\ odd' = odd /\ disp' = disp /\ window' # "both"
        BY <3>4 DEF MoniBtnClicked, MoniSysBackBtnClicked, display
      <4>2. Debt' = 1 => Debt = 1  BY <4>1 DEF Debt
      <4> QED  BY ONLY <1>0, <4>1, <4>2, DebtSums
    <3>5. CASE UNCHANGED place
      <4>1. nOdd' = nOdd /\ odd' = odd /\ disp' = disp /\ window' = window
        BY <3>5 DEF place, display
      <4>2. Debt' = 1 => Debt = 1  BY <4>1 DEF Debt
      <4> QED  BY ONLY <1>0, <4>1, <4>2, DebtSums
    <3>6. ASSUME \/ SVPlayBtnClicked \/ MVPlayBtnClicked \/ CycleBtnClicked \/ PlayWidClicked
                 \/ \E g \in Group, p \in Pos : CameBtnClicked(g, p)
                 \/ \E c \in Idx : WarnIconClicked(c)
                 \/ GetBackVideoTimer \/ UpdateWarnInfoTimer \/ UpdatePlayStateTimer
                 \/ ParseBroadcastSysData \/ UNCHANGED vars
          PROVE  UNCHANGED place
      BY <3>6 DEF SVPlayBtnClicked, MVPlayBtnClicked, CycleBtnClicked, PlayWidClicked,
                  CameBtnClicked, WarnIconClicked, GetBackVideoTimer, UpdateWarnInfoTimer,
                  UpdatePlayStateTimer, ParseBroadcastSysData, vars
    <3> QED  BY <3>1, <3>2, <3>3, <3>4, <3>5, <3>6 DEF Next, Click
  <2>2. 0 + Debt' + nOdd <= Debt + nOdd'  BY ONLY <1>0, <2>1, DebtSums
  <2> QED  BY <1>2, <2>2
<1> QED  BY <1>1, <1>2

\* A step keeps the count.
LEMMA LeakStep == TypeOK /\ TimerInv /\ LeakInv /\ [Next]_vars => LeakInv'
<1> SUFFICES ASSUME TypeOK, TimerInv, LeakInv, [Next]_vars PROVE LeakInv'  OBVIOUS
<1>1. BackLive' /\ MoniFour'  BY BackStep DEF LeakInv
<1>2. PICK d \in Nat : nMedia = HeldBy(hPlay, hSingle, hBack) + d /\ d + Debt <= nOdd
  BY DEF LeakInv
<1>3. PICK e \in {0, 1} : /\ e + Debt' + nOdd <= Debt + nOdd'
                          /\ ReopensFull => e = 1
  <2>1. TypeOK'  BY TypeClick, TypeTimer, TypePlay, TypeStutter DEF Next
  <2> QED  BY <2>1, DebtStep, Zenon
<1> DEFINE f == IF ReopensFull THEN d + 1 ELSE d
<1>4. nMedia' = HeldBy(hPlay', hSingle', hBack') + f  BY <1>2, CountStep DEF LeakInv
<1>5. f \in Nat /\ f <= d + e  BY <1>3
<1> HIDE DEF f
<1>6. Debt \in {0, 1} /\ nOdd \in Int  BY OddAssumption DEF Debt, TypeOK, ScreenType
<1>7. Debt' \in {0, 1}  BY DEF Debt
<1>8. nOdd' \in Int
  <2>1. TypeOK'  BY TypeClick, TypeTimer, TypePlay, TypeStutter DEF Next
  <2> QED  BY <2>1, OddAssumption DEF TypeOK, ScreenType
<1>9. f + Debt' <= nOdd'  BY ONLY <1>2, <1>3, <1>5, <1>6, <1>7, <1>8, DebtPaid
<1>10. \E c \in Nat : nMedia' = HeldBy(hPlay', hSingle', hBack') + c /\ c + Debt' <= nOdd'
  BY <1>4, <1>5, <1>9
<1> QED  BY <1>1, <1>10 DEF LeakInv, HeldBy, Slots, Count

\* Initially nothing is open, and the poll may already be misled once.
LEMMA LeakInit == Init => LeakInv
<1> SUFFICES ASSUME Init PROVE LeakInv  OBVIOUS
<1>1. /\ hPlay = NoSlots /\ hSingle = NoMedia /\ hBack = NoMedia /\ nMedia = 0
      /\ curStyle = "four" /\ nOdd = (IF odd THEN 1 ELSE 0)
  BY DEF Init
<1>2. BackLive /\ MoniFour  BY <1>1, MediaFacts DEF BackLive, MoniFour
<1>3. nMedia = HeldBy(hPlay, hSingle, hBack) + 0
  BY <1>1, TypeInit, CountFacts DEF HeldBy
<1>4. 0 + Debt <= nOdd  BY <1>1 DEF Debt
<1> QED  BY <1>2, <1>3, <1>4 DEF LeakInv

\* In every reachable state the count is as it should be.
LEMMA Counted == Spec => []LeakInv
BY LeakInit, LeakStep, TimerStep, TimerInit, TypeCorrect, PTL DEF Spec

\* A media that is open is always held by exactly one handle variable, but for one
\* each time the poll was misled.
THEOREM NoMediaEverLeaks == Spec => []NoMediaLeak
<1>1. TypeOK /\ LeakInv => NoMediaLeak
  <2> SUFFICES ASSUME TypeOK, LeakInv PROVE NoMediaLeak  OBVIOUS
  <2>1. PICK d \in Nat : nMedia = HeldBy(hPlay, hSingle, hBack) + d /\ d + Debt <= nOdd
    BY DEF LeakInv
  <2>2. HeldBy(hPlay, hSingle, hBack) = Held  BY DEF HeldBy, Held
  <2>3. Held \in Nat
    <3>1. /\ Cardinality(Slots(hPlay)) \in Nat /\ Count(hSingle) \in Nat
          /\ Count(hBack) \in Nat
      BY CountFacts
    <3> QED  BY ONLY <3>1 DEF Held
  <2>4. Debt \in {0, 1} /\ nOdd \in Int  BY OddAssumption DEF Debt, TypeOK, ScreenType
  <2>5. nMedia = Held + d /\ d <= nOdd  BY <2>1, <2>2, <2>4
  <2>6. nMedia \in Held .. Held + nOdd  BY ONLY <2>3, <2>4, <2>5, d \in Nat
  <2> QED  BY <2>6 DEF NoMediaLeak
<1> QED  BY <1>1, Counted, TypeCorrect, PTL

\* There is never more than one media beyond the four pictures and those lost while
\* the poll was misled.
THEOREM MediaAlwaysBounded == Spec => []MediaBound
<1>1. TypeOK /\ HandleInv /\ NoMediaLeak => MediaBound
  <2> SUFFICES ASSUME TypeOK, HandleInv, NoMediaLeak, ~odd PROVE MediaBound  BY DEF MediaBound
  <2>9. /\ Cardinality(Slots(hPlay)) \in Nat /\ Count(hSingle) \in {0, 1}
        /\ Count(hBack) \in {0, 1} /\ nOdd \in Nat
    <3>1. nOdd \in Nat  BY OddAssumption DEF TypeOK, ScreenType
    <3> QED  BY <3>1, CountFacts
  <2>0. /\ nMedia <= Cardinality(Slots(hPlay)) + Count(hSingle) + Count(hBack) + nOdd
        /\ nMedia \in Int /\ nOdd \in Nat
        /\ Count(hSingle) \in {0, 1} /\ Count(hBack) \in {0, 1}
        /\ NPos \in Nat /\ NPos >= 1
    <3>1. Held = Cardinality(Slots(hPlay)) + Count(hSingle) + Count(hBack)  BY DEF Held
    <3>2. Held \in Int  BY <2>9, <3>1
    <3>3. nMedia <= Held + nOdd /\ nMedia \in Int  BY <2>9, <3>2 DEF NoMediaLeak
    <3> QED  BY <2>9, <3>1, <3>3, GeometryAssumption
  <2>1. CASE curStyle = "four"
    <3>1. Count(hBack) = 0  BY <2>1 DEF HandleInv, StyleSlots, Count
    <3>2. Cardinality(Slots(hPlay)) \in Nat /\ Cardinality(Slots(hPlay)) <= NPos
      BY SlotsCount
    <3> QED  BY <2>0, <3>1, <3>2 DEF MediaBound
  <2>2. CASE curStyle = "single"
    <3>1. Slots(hPlay) = {}  BY <2>2 DEF HandleInv, StyleSlots, Slots
    <3>2. Cardinality(Slots(hPlay)) = 0  BY <3>1, FS_EmptySet
    <3> QED  BY <2>0, <3>2 DEF MediaBound
  <2> QED  BY <2>1, <2>2 DEF TypeOK, PictureType
<1> QED  BY <1>1, Reachable, NoMediaEverLeaks, PTL

-----------------------------------------------------------------------------
(***************************************************************************)
(* Placing the cameras of several alarms.  The n-th camera that is in no     *)
(* picture yet goes to the n-th picture that shows none of them, so it is    *)
(* enough to count both: a camera finds a picture when the cameras are no     *)
(* more than the pictures, a picture a camera when they are no fewer.       *)
(***************************************************************************)
Upto(A, a) == {k \in A : k <= a}

\* The members of a finite set of naturals have the ranks 1, 2, ...
LEMMA RankExists ==
  ASSUME NEW m \in Nat, NEW A \in SUBSET (0 .. m), NEW r \in Nat, 1 <= r, r <= Cardinality(A)
  PROVE  \E a \in A : Cardinality(Upto(A, a)) = r
<1> DEFINE T == {a \in 0 .. m : Cardinality(Upto(A, a)) >= r}
<1>0. \A k \in A : k \in Nat /\ k <= m  OBVIOUS
<1>1. IsFiniteSet(0 .. m)  BY FS_Interval
<1>2. \A B \in SUBSET (0 .. m) : IsFiniteSet(B) /\ Cardinality(B) \in Nat
  BY <1>1, FS_Subset, FS_CardinalityType
<1>3. m \in T
  <2>1. Upto(A, m) = A  BY <1>0 DEF Upto
  <2> QED  BY <2>1
<1>4. PICK a \in T : \A b \in T : a <= b
  <2>1. T \in SUBSET Nat /\ T # {}  BY <1>3
  <2> HIDE DEF T
  <2> QED  BY <2>1, LeastNat
<1>5. a \in 0 .. m /\ Cardinality(Upto(A, a)) >= r  OBVIOUS
<1> DEFINE B == {k \in A : k < a}
<1>6. B \in SUBSET (0 .. m) /\ IsFiniteSet(B) /\ Cardinality(B) \in Nat  BY <1>2
<1>7. Cardinality(B) < r
  <2>1. CASE a = 0
    <3>1. \A k \in A : ~ (k < a)  BY <1>0, <2>1
    <3>2. B = {}  BY <3>1
    <3>3. Cardinality({}) = 0  BY FS_EmptySet
    <3> HIDE DEF B
    <3> QED  BY <3>2, <3>3
  <2>2. CASE a # 0
    <3>1. a - 1 \in 0 .. m /\ ~ (a <= a - 1)  BY <1>5, <2>2
    <3>2. B = Upto(A, a - 1)
      <4>1. \A k \in A : k < a <=> k <= a - 1  BY <1>0, <1>5
      <4> QED  BY <4>1 DEF Upto
    <3>3. a - 1 \notin T  BY <1>4, <3>1
    <3>4. ~ (Cardinality(B) >= r)  BY <3>1, <3>2, <3>3
    <3> HIDE DEF B
    <3> QED  BY <1>6, <3>4
  <2> QED  BY <2>1, <2>2
<1>8. a \in A
  <2> SUFFICES ASSUME a \notin A PROVE FALSE
    OBVIOUS
  <2>1. Upto(A, a) = B
    <3>1. \A k \in A : k <= a <=> k < a  BY <1>0, <1>5
    <3> QED  BY <3>1 DEF Upto
  <2> QED  BY <1>5, <1>6, <1>7, <2>1
<1>9. Upto(A, a) = B \cup {a} /\ a \notin B
  <2>1. \A k \in A : k <= a <=> k < a \/ k = a  BY <1>0, <1>5
  <2>2. ~ (a < a)  BY <1>5
  <2>3. a \notin B  BY <2>2
  <2>4. Upto(A, a) = B \cup {a}  BY <1>8, <2>1 DEF Upto
  <2> QED  BY <2>3, <2>4
<1>10. Cardinality(B \cup {a}) = Cardinality(B) + 1  BY <1>6, <1>9, FS_AddElement
<1>11. Cardinality(Upto(A, a)) = Cardinality(B) + 1  BY <1>9, <1>10
<1> HIDE DEF B
<1> QED  BY <1>5, <1>6, <1>7, <1>8, <1>11

\* Members with the same rank are the same.
LEMMA RankOnce ==
  ASSUME NEW m \in Nat, NEW A \in SUBSET (0 .. m), NEW a \in A, NEW b \in A,
         Cardinality(Upto(A, a)) = Cardinality(Upto(A, b))
  PROVE  a = b
<1>0. \A k \in A : k \in Nat  OBVIOUS
<1>1. IsFiniteSet(0 .. m)  BY FS_Interval
<1>2. \A B \in SUBSET (0 .. m) : IsFiniteSet(B)  BY <1>1, FS_Subset
<1>3. ASSUME NEW c \in A, NEW d \in A, c < d, Cardinality(Upto(A, c)) = Cardinality(Upto(A, d))
      PROVE  FALSE
  <2>1. IsFiniteSet(Upto(A, d))  BY <1>2 DEF Upto
  <2>2. Upto(A, c) \in SUBSET Upto(A, d)
    <3>1. \A k \in A : k <= c => k <= d  BY <1>0, <1>3
    <3> QED  BY <3>1 DEF Upto
  <2>3. Upto(A, d) = Upto(A, c)  BY <1>3, <2>1, <2>2, FS_Subset
  <2>4. d \in Upto(A, d) /\ d \notin Upto(A, c)  BY <1>0, <1>3 DEF Upto
  <2> QED  BY <2>3, <2>4
<1>4. a \in Nat /\ b \in Nat  OBVIOUS
<1> QED  BY <1>3, <1>4

\* A rank is a positive number, no greater than the size of the set.
LEMMA RankType ==
  ASSUME NEW m \in Nat, NEW A \in SUBSET (0 .. m), NEW a \in A
  PROVE  /\ Cardinality(Upto(A, a)) \in Nat /\ Cardinality(A) \in Nat
         /\ 1 <= Cardinality(Upto(A, a)) /\ Cardinality(Upto(A, a)) <= Cardinality(A)
<1>1. IsFiniteSet(0 .. m)  BY FS_Interval
<1>2. IsFiniteSet(A)  BY <1>1, FS_Subset
<1>3. Upto(A, a) \in SUBSET A  BY DEF Upto
<1>4. IsFiniteSet(Upto(A, a)) /\ Cardinality(Upto(A, a)) <= Cardinality(A)
  BY <1>2, <1>3, FS_Subset
<1>5. Cardinality(Upto(A, a)) \in Nat /\ Cardinality(A) \in Nat
  BY <1>2, <1>4, FS_CardinalityType
<1>6. a \in Upto(A, a)  BY DEF Upto
<1>7. Cardinality(Upto(A, a)) # 0  BY <1>4, <1>6, FS_EmptySet
<1> QED  BY <1>4, <1>5, <1>7

\* A function that never gives a value twice has as many values as arguments.
LEMMA SameCount ==
  ASSUME NEW A, IsFiniteSet(A), NEW f, \A a, b \in A : f[a] = f[b] => a = b
  PROVE  /\ IsFiniteSet({f[a] : a \in A})
         /\ Cardinality({f[a] : a \in A}) = Cardinality(A)
<1> DEFINE T == {f[a] : a \in A}
           g == [a \in A |-> f[a]]
<1>1. g \in [A -> T] /\ \A t \in T : \E a \in A : g[a] = t  OBVIOUS
<1>2. g \in Surjection(A, T)  BY <1>1 DEF Surjection
<1>3. g \in Injection(A, T)  BY <1>1 DEF Injection, IsInjective
<1> HIDE DEF g, T
<1>4. IsFiniteSet(T) /\ (Cardinality(T) = Cardinality(A) <=> g \in Injection(A, T))
  BY <1>2, FS_Surjection
<1> QED  BY <1>3, <1>4 DEF T

\* What the pictures of several alarms show: nothing but their cameras when these
\* are as many as the pictures or more, all of them when they are no more.
LEMMA PlaceShows ==
  ASSUME curFour \in [Pos -> Idx],
         NEW S, S \subseteq Idx, Cardinality(S) > 1, NEW l \in WarnLists(S)
  PROVE  /\ Cardinality(S \ {-1}) >= NPos =>
              \A i \in Pos : PlaceWarns(Cardinality(S), l)[i] \in S \ {-1}
         /\ Cardinality(S \ {-1}) <= NPos =>
              \A c \in S \ {-1} : \E i \in Pos : PlaceWarns(Cardinality(S), l)[i] = c
<1> DEFINE n == Cardinality(S)
           cams == S \ {-1}
           Kept(i) == /\ curFour[i] # -1
                      /\ \E j \in 1 .. n : l[j] = curFour[i]
                      /\ \A k \in 0 .. i - 1 : curFour[k] # curFour[i]
           Loose(j) == l[j] # -1 /\ \A i \in Pos : Kept(i) => curFour[i] # l[j]
           Nth(j, i) == /\ Loose(j)
                        /\ Cardinality({k \in 1 .. j : Loose(k)})
                             = Cardinality({k \in 0 .. i : ~Kept(k)})
           Slot(i) == IF Kept(i) THEN curFour[i]
                      ELSE IF \E j \in 1 .. n : Nth(j, i)
                             THEN l[CHOOSE j \in 1 .. n : Nth(j, i)] ELSE -1
           placed == [i \in Pos |-> IF i = 0 /\ Loose(1) /\ \A k \in Pos : Kept(k) THEN l[1] ELSE Slot(i)]
           K == {i \in Pos : Kept(i)}
           U == {i \in Pos : ~Kept(i)}
           L == {j \in 1 .. n : Loose(j)}
<1>1. /\ n \in Nat /\ n > 1 /\ IsFiniteSet(S)
      /\ l \in [1 .. n -> S] /\ \A j, k \in 1 .. n : l[j] = l[k] => j = k
      /\ NPos \in Nat /\ NPos > 0 /\ Pos = 0 .. NPos - 1
  <2>1. n \in Nat /\ IsFiniteSet(S)  BY WarnCamsType
  <2>2. l \in [1 .. n -> S] /\ \A j, k \in 1 .. n : l[j] = l[k] => j = k  BY DEF WarnLists
  <2> QED  BY <2>1, <2>2, GeometryAssumption DEF Pos
<1>2. \A c \in S : \E j \in 1 .. n : l[j] = c
  <2>1. l \in Injection(1 .. n, S)  BY <1>1 DEF Injection, IsInjective
  <2>2. Cardinality(1 .. n) = n  BY <1>1, FS_Interval
  <2>3. l \in Surjection(1 .. n, S)  BY <1>1, <2>1, <2>2, FS_Injection
  <2> QED  BY <2>3 DEF Surjection
<1> HIDE DEF n
<1>3. /\ K \in SUBSET (0 .. NPos - 1) /\ U \in SUBSET (0 .. NPos - 1) /\ L \in SUBSET (0 .. n)
      /\ NPos - 1 \in Nat
  BY <1>1
<1> HIDE DEF Kept, Loose
<1>4. /\ IsFiniteSet(K) /\ IsFiniteSet(U) /\ IsFiniteSet(L)
      /\ Cardinality(K) \in Nat /\ Cardinality(U) \in Nat /\ Cardinality(L) \in Nat
  <2>1. IsFiniteSet(0 .. NPos - 1) /\ IsFiniteSet(0 .. n)  BY <1>1, FS_Interval
  <2>2. IsFiniteSet(K) /\ IsFiniteSet(U) /\ IsFiniteSet(L)  BY <1>3, <2>1, FS_Subset
  <2> QED  BY <2>2, FS_CardinalityType
<1>5. Cardinality(K) + Cardinality(U) = NPos
  <2>1. K \cup U = 0 .. NPos - 1 /\ K \cap U = {}  BY <1>1
  <2>2. Cardinality(0 .. NPos - 1) = NPos  BY <1>1, FS_Interval
  <2>3. Cardinality({}) = 0  BY FS_EmptySet
  <2>4. Cardinality(K \cup U) = Cardinality(K) + Cardinality(U) - Cardinality(K \cap U)
    BY <1>4, FS_Union
  <2> HIDE DEF K, U
  <2>5. Cardinality(K \cup U) = NPos  BY <2>1, <2>2
  <2>6. Cardinality(K \cap U) = 0  BY <2>1, <2>3
  <2> QED  BY <1>4, <2>4, <2>5, <2>6
<1> DEFINE KC == {curFour[i] : i \in K}
           LC == {l[j] : j \in L}
<1>6. IsFiniteSet(KC) /\ Cardinality(KC) = Cardinality(K)
  <2>1. ASSUME NEW i \in K, NEW j \in K, i < j PROVE curFour[i] # curFour[j]
    <3>1. i \in 0 .. j - 1  BY <1>1, <2>1
    <3>2. Kept(j)  OBVIOUS
    <3> QED  BY <3>1, <3>2 DEF Kept
  <2>2. \A i \in K : i \in Nat  BY <1>1
  <2> HIDE DEF K
  <2>3. \A i, j \in K : curFour[i] = curFour[j] => i = j  BY <2>1, <2>2
  <2> QED  BY <1>4, <2>3, SameCount
<1>7. IsFiniteSet(LC) /\ Cardinality(LC) = Cardinality(L)
  <2>1. \A i, j \in L : l[i] = l[j] => i = j  BY <1>1
  <2> HIDE DEF L
  <2> QED  BY <1>4, <2>1, SameCount
<1>8. cams = KC \cup LC /\ KC \cap LC = {}
  <2>1. ASSUME NEW c \in KC PROVE c \in cams
    <3>1. PICK i \in Pos : Kept(i) /\ c = curFour[i]  OBVIOUS
    <3>2. c # -1 /\ \E j \in 1 .. n : l[j] = c  BY <3>1 DEF Kept
    <3> QED  BY <1>1, <3>2
  <2>2. ASSUME NEW c \in LC PROVE c \in cams
    <3>1. PICK j \in 1 .. n : Loose(j) /\ c = l[j]  OBVIOUS
    <3> QED  BY <1>1, <3>1 DEF Loose
  <2>3. ASSUME NEW c \in cams, c \notin LC PROVE c \in KC
    <3>1. PICK j \in 1 .. n : l[j] = c  BY <1>2
    <3>2. ~ Loose(j)  BY <2>3, <3>1
    <3>3. PICK i \in Pos : Kept(i) /\ curFour[i] = l[j]  BY <3>1, <3>2 DEF Loose
    <3> QED  BY <3>1, <3>3
  <2>4. ASSUME NEW c \in KC, c \in LC PROVE FALSE
    <3>1. PICK i \in Pos : Kept(i) /\ c = curFour[i]  OBVIOUS
    <3>2. PICK j \in 1 .. n : Loose(j) /\ c = l[j]  BY <2>4
    <3> QED  BY <3>1, <3>2 DEF Loose
  <2> HIDE DEF KC, LC, cams
  <2> QED  BY <2>1, <2>2, <2>3, <2>4
<1>9. Cardinality(cams) = Cardinality(K) + Cardinality(L)
  <2> HIDE DEF KC, LC, K, L, cams
  <2>1. Cardinality({}) = 0  BY FS_EmptySet
  <2>2. Cardinality(KC \cup LC) = Cardinality(KC) + Cardinality(LC) - Cardinality(KC \cap LC)
    BY <1>6, <1>7, FS_Union
  <2>3. Cardinality(cams) = Cardinality(KC \cup LC)  BY <1>8
  <2>4. Cardinality(KC \cap LC) = 0  BY <1>8, <2>1
  <2>5. Cardinality(KC) \in Nat /\ Cardinality(LC) \in Nat  BY <1>4, <1>6, <1>7
  <2>6. Cardinality(cams) = Cardinality(KC) + Cardinality(LC)  BY <2>2, <2>3, <2>4, <2>5
  <2>7. Cardinality(KC) = Cardinality(K)  BY <1>6
  <2>8. Cardinality(LC) = Cardinality(L)  BY <1>7
  <2> QED  BY <2>6, <2>7, <2>8
\* The ranks are those the code counts.
<1>10. ASSUME NEW j \in L PROVE {k \in 1 .. j : Loose(k)} = Upto(L, j)
  <2>1. j \in 1 .. n  OBVIOUS
  <2>2. \A k : k \in 1 .. j <=> k \in 1 .. n /\ k <= j  BY <1>1, <2>1
  <2> QED  BY <2>2 DEF Upto
<1>11. ASSUME NEW i \in U PROVE {k \in 0 .. i : ~Kept(k)} = Upto(U, i)
  <2>1. i \in 0 .. NPos - 1  BY <1>1
  <2>2. \A k : k \in 0 .. i <=> k \in Pos /\ k <= i  BY <1>1, <2>1
  <2> QED  BY <2>2 DEF Upto
<1>12. ASSUME NEW j \in L, NEW i \in U, Cardinality(Upto(L, j)) = Cardinality(Upto(U, i))
       PROVE  j \in 1 .. n /\ Nth(j, i)
  <2>1. j \in 1 .. n /\ Loose(j)  OBVIOUS
  <2> QED  BY <1>10, <1>11, <1>12, <2>1
<1>13. ASSUME NEW j \in 1 .. n, NEW i \in U, Nth(j, i)
       PROVE  j \in L /\ Cardinality(Upto(L, j)) = Cardinality(Upto(U, i))
  <2>1. j \in L  BY <1>13
  <2> QED  BY <1>10, <1>11, <1>13, <2>1
<1>14. PlaceWarns(n, l) = placed  BY DEF PlaceWarns, Kept, Loose
<1> HIDE DEF Nth
<1>15. ASSUME Cardinality(cams) >= NPos, NEW i \in Pos PROVE placed[i] \in cams
  <2>1. CASE i = 0 /\ Loose(1) /\ \A k \in Pos : Kept(k)
    <3>1. 1 \in 1 .. n  BY <1>1
    <3>2. l[1] \in LC  BY <2>1, <3>1
    <3>3. placed[i] = l[1]  BY <2>1
    <3> HIDE DEF LC, KC, placed
    <3> QED  BY <1>8, <3>2, <3>3
  <2>2. CASE ~ (i = 0 /\ Loose(1) /\ \A k \in Pos : Kept(k)) /\ Kept(i)
    <3>1. placed[i] = curFour[i] /\ curFour[i] \in KC  BY <2>2
    <3> HIDE DEF LC, KC, placed
    <3> QED  BY <1>8, <3>1
  <2>3. CASE ~Kept(i)
    <3>1. i \in U  BY <2>3
    <3>2. /\ Cardinality(Upto(U, i)) \in Nat /\ 1 <= Cardinality(Upto(U, i))
          /\ Cardinality(Upto(U, i)) <= Cardinality(U)
      BY <1>3, <3>1, RankType
    <3>3. Cardinality(Upto(U, i)) <= Cardinality(L)  BY <1>1, <1>4, <1>5, <1>9, <1>15, <3>2
    <3>4. PICK j \in L : Cardinality(Upto(L, j)) = Cardinality(Upto(U, i))
      <4> HIDE DEF L, U
      <4> QED  BY <1>1, <1>3, <3>2, <3>3, RankExists
    <3>5. j \in 1 .. n /\ Nth(j, i)  BY <1>12, <3>1, <3>4
    <3> DEFINE h == CHOOSE q \in 1 .. n : Nth(q, i)
    <3>6. h \in 1 .. n /\ Nth(h, i)  BY <3>5
    <3>7. placed[i] = l[h]  BY <2>3, <3>5
    <3> HIDE DEF h, placed
    <3>8. h \in L  BY <1>13, <3>1, <3>6
    <3>9. l[h] \in LC  BY <3>8
    <3> HIDE DEF LC, KC
    <3> QED  BY <1>8, <3>7, <3>9
  <2> QED  BY <2>1, <2>2, <2>3
<1>16. ASSUME Cardinality(cams) <= NPos, NEW c \in cams PROVE \E i \in Pos : placed[i] = c
  <2>1. CASE c \in LC
    <3>1. PICK j \in L : c = l[j]  BY <2>1
    <3>2. /\ Cardinality(Upto(L, j)) \in Nat /\ 1 <= Cardinality(Upto(L, j))
          /\ Cardinality(Upto(L, j)) <= Cardinality(L)
      BY <1>1, <1>3, RankType
    <3>3. Cardinality(Upto(L, j)) <= Cardinality(U)  BY <1>1, <1>4, <1>5, <1>9, <1>16, <3>2
    <3>4. PICK i \in U : Cardinality(Upto(U, i)) = Cardinality(Upto(L, j))
      <4> HIDE DEF L, U
      <4> QED  BY <1>1, <1>3, <3>2, <3>3, RankExists
    <3>5. j \in 1 .. n /\ Nth(j, i)  BY <1>12, <3>4
    <3> DEFINE h == CHOOSE q \in 1 .. n : Nth(q, i)
    <3>6. h \in 1 .. n /\ Nth(h, i)  BY <3>5
    <3>7. i \in Pos /\ ~Kept(i)  OBVIOUS
    <3>8. placed[i] = l[h]  BY <3>5, <3>7
    <3> HIDE DEF h, placed
    <3>9. h \in L /\ Cardinality(Upto(L, h)) = Cardinality(Upto(L, j))
      BY <1>13, <3>4, <3>6
    <3>10. h = j
      <4> HIDE DEF L, U
      <4> QED  BY <1>1, <1>3, <3>9, RankOnce
    <3> QED  BY <3>1, <3>7, <3>8, <3>10
  <2>2. CASE c \in KC
    <3>1. PICK i \in Pos : Kept(i) /\ c = curFour[i]  BY <2>2
    <3>2. ~ (i = 0 /\ Loose(1) /\ \A k \in Pos : Kept(k))
      <4> SUFFICES ASSUME Loose(1), \A k \in Pos : Kept(k) PROVE FALSE
        OBVIOUS
      <4>1. U = {} /\ 1 \in L  BY <1>1
      <4> HIDE DEF U, L
      <4>2. Cardinality(U) = 0 /\ Cardinality(L) # 0  BY <1>4, <4>1, FS_EmptySet
      <4> QED  BY <1>1, <1>4, <1>5, <1>9, <1>16, <4>2
    <3>3. placed[i] = curFour[i]  BY <3>1, <3>2
    <3> QED  BY <3>1, <3>3
  <2> HIDE DEF KC, LC
  <2> QED  BY <1>8, <2>1, <2>2
<1> QED  BY <1>14, <1>15, <1>16 DEF n

-----------------------------------------------------------------------------
(***************************************************************************)
(* The picture of an alarm.  Until the refresh, the wanted picture is the   *)
(* one the alarm asked for; a full screen is wanted only when the four       *)
(* pictures behind it already are the alarm's, or were closed when the       *)
(* window was away.                                                        *)
(***************************************************************************)
WantedFour ==
  LET cams == warnCams \ {-1}
  IN /\ Cardinality(cams) >= NPos => \A i \in Pos : nextFour[i] \in cams
     /\ Cardinality(cams) <= NPos => \A c \in cams : \E i \in Pos : nextFour[i] = c

Behind == nextSingle # -1 => curFour = nextFour \/ curFour = NoVideos

AlarmWanted ==
  /\ g_iWarn /\ warnFreshed /\ g_iWarnNum = 1 => nextSingle \in warnCams
  /\ g_iWarn /\ warnFreshed /\ g_iWarnNum # 1 => WantedFour
  /\ g_iWarn /\ warnFreshed /\ g_iWarnNum # 1 => Behind

\* A step that keeps the alarm, the wanted and the four shown pictures keeps it.
LEMMA WantedFrame ==
  ASSUME AlarmWanted, UNCHANGED <<warnCams, warnFreshed, nextFour, nextSingle>>,
         curFour' = curFour \/ curFour' = NoVideos
  PROVE  AlarmWanted'
<1>1. g_iWarn' = g_iWarn /\ g_iWarnNum' = g_iWarnNum /\ WantedFour' = WantedFour
  BY DEF g_iWarn, g_iWarnNum, WantedFour
<1>2. NoVideos' = NoVideos  BY DEF NoVideos
<1>3. Behind => Behind'  BY <1>2 DEF Behind
<1> QED  BY <1>1, <1>3 DEF AlarmWanted

\* The alarm check asks for the picture of the new alarms.
LEMMA WantedAlarm ==
  TypeOK /\ AlarmWanted /\ UpdateWarnInfoTimer => AlarmWanted'
<1> SUFFICES ASSUME TypeOK, AlarmWanted, UpdateWarnInfoTimer PROVE AlarmWanted'
  OBVIOUS
<1>0. curFour' = curFour  BY DEF UpdateWarnInfoTimer
<1>1. CASE points = seen
  <2>1. UNCHANGED <<warnCams, warnFreshed, nextFour, nextSingle>>
    BY <1>1 DEF UpdateWarnInfoTimer, wanted, alarm
  <2> QED  BY <1>0, <2>1, WantedFrame
<1>2. CASE points # seen
  <2> DEFINE S == {PointCam[q] : q \in points}
  <2>1. S \subseteq Idx  BY PointCamType DEF TypeOK, AlarmType
  <2>2. IsFiniteSet(S) /\ Cardinality(S) \in Nat  BY <2>1, WarnCamsType
  <2>3. warnCams' = S  BY <1>2 DEF UpdateWarnInfoTimer
  <2>4. ManyWarns(S) \/ OneWarn(S) \/ NoWarn(S)  BY <1>2 DEF UpdateWarnInfoTimer
  <2> HIDE DEF S
  <2>5. g_iWarnNum' = Cardinality(S) /\ (g_iWarn' <=> S # {})
    BY <2>3 DEF g_iWarnNum, g_iWarn
  <2>6. CASE NoWarn(S)
    BY <2>5, <2>6 DEF NoWarn, AlarmWanted
  <2>7. CASE OneWarn(S)
    <3>1. Cardinality(S) = 1 /\ nextSingle' \in S  BY <2>7 DEF OneWarn
    <3> QED  BY <2>3, <2>5, <3>1 DEF AlarmWanted
  <2>8. CASE ManyWarns(S)
    <3>1. Cardinality(S) > 1  BY <2>8 DEF ManyWarns
    <3>2. PICK l \in WarnLists(S) : nextFour' = PlaceWarns(Cardinality(S), l)
      BY <2>8 DEF ManyWarns
    <3>3. curFour \in [Pos -> Idx]  BY DEF TypeOK, PictureType
    <3>4. /\ Cardinality(S \ {-1}) >= NPos => \A i \in Pos : nextFour'[i] \in S \ {-1}
          /\ Cardinality(S \ {-1}) <= NPos =>
               \A c \in S \ {-1} : \E i \in Pos : nextFour'[i] = c
      BY <2>1, <3>1, <3>2, <3>3, PlaceShows
    <3>5. WantedFour'  BY <2>3, <3>4 DEF WantedFour
    <3>6. nextSingle' = -1 \/ nextFour' = curFour  BY <2>8 DEF ManyWarns
    <3>7. Behind'  BY <1>0, <3>6 DEF Behind
    <3>8. g_iWarnNum' # 1  BY <2>2, <2>5, <3>1
    <3> QED  BY <3>5, <3>7, <3>8 DEF AlarmWanted
  <2> QED  BY <2>4, <2>6, <2>7, <2>8
<1> QED  BY <1>1, <1>2

\* A step keeps the alarm's picture wanted until the refresh.
LEMMA WantedStep == TypeOK /\ TimerInv /\ AlarmWanted /\ [Next]_vars => AlarmWanted'
<1> SUFFICES ASSUME TypeOK, TimerInv, AlarmWanted, [Next]_vars PROVE AlarmWanted'
  OBVIOUS
<1>1. CASE \/ SVPlayBtnClicked \/ MVPlayBtnClicked \/ CycleBtnClicked \/ PlayWidClicked
           \/ \E g \in Group, p \in Pos : CameBtnClicked(g, p)
           \/ \E c \in Idx : WarnIconClicked(c)
           \/ GetBackVideoTimer
  <2>1. ~g_iWarn \/ ~warnFreshed
    BY <1>1 DEF SVPlayBtnClicked, MVPlayBtnClicked, CycleBtnClicked, PlayWidClicked,
                CameBtnClicked, WarnIconClicked, GetBackVideoTimer, TimerInv,
                FewTimers, AlarmStopsCycle
  <2>2. UNCHANGED <<warnCams, warnFreshed>>
    BY <1>1 DEF SVPlayBtnClicked, MVPlayBtnClicked, CycleBtnClicked, PlayWidClicked,
                CameBtnClicked, WarnIconClicked, GetBackVideoTimer, alarm
  <2>3. ~g_iWarn' \/ ~warnFreshed'  BY <2>1, <2>2 DEF g_iWarn
  <2> QED  BY <2>3 DEF AlarmWanted
<1>2. CASE \/ MoniBtnClicked \/ MoniSysBackBtnClicked \/ HideCCTVResp \/ ShowCCTVResp
           \/ PsdConfirmCBFun \/ ParseBroadcastSysData \/ UNCHANGED vars
  <2>1. UNCHANGED <<warnCams, warnFreshed, nextFour, nextSingle>>
    BY <1>2 DEF MoniBtnClicked, MoniSysBackBtnClicked, HideCCTVResp, ShowCCTVResp,
                PsdConfirmCBFun, ParseBroadcastSysData, vars, wanted, alarm
  <2>2. curFour' = curFour \/ curFour' = NoVideos
    BY <1>2 DEF MoniBtnClicked, MoniSysBackBtnClicked, HideCCTVResp, ShowCCTVResp,
                PsdConfirmCBFun, ParseBroadcastSysData, vars, handles
  <2> QED  BY <2>1, <2>2, WantedFrame
<1>3. CASE UpdateWarnInfoTimer  BY <1>3, WantedAlarm
<1>4. CASE UpdatePlayStateTimer
  <2>1. warnFreshed' = FALSE  BY <1>4 DEF UpdatePlayStateTimer, PlayCtrlFun
  <2> QED  BY <2>1 DEF AlarmWanted
<1> QED  BY <1>1, <1>2, <1>3, <1>4 DEF Next, Click

\* The refresh brings the wanted picture of several alarms up.
LEMMA FourUp ==
  ASSUME TypeOK, WantedFour, Behind, g_iWarnNum # 1, nextStyle = "four",
         UpdatePlayStateTimer
  PROVE  AlarmPictureUp'
<1>1. StyleToFour \/ FourPlayStyle
  <2>1. ~StyleToSingle /\ ~SinglePlayStyle  BY DEF StyleToSingle, SinglePlayStyle
  <2> QED  BY <2>1 DEF UpdatePlayStateTimer, PlayCtrlFun
<1>2. warnCams' = warnCams  BY DEF UpdatePlayStateTimer, alarm
<1>3. g_iWarnNum' # 1  BY <1>2 DEF g_iWarnNum
<1>4. curStyle' = "four" /\ nextFour' = nextFour
  BY <1>1 DEF StyleToFour, FourPlayStyle
<1>5. curFour' = nextFour \/ (curSingle' # -1 /\ curFour' = NoVideos)
  <2>1. CASE StyleToFour  BY <2>1 DEF StyleToFour
  <2>2. CASE FourPlayStyle
    <3>1. curSingle' = nextSingle  BY <2>2 DEF FourPlayStyle
    <3>2. CASE FullScreen
      <4>1. nextSingle # -1 /\ curFour' = curFour  BY <3>2 DEF FullScreen
      <4> QED  BY <3>1, <4>1 DEF Behind
    <3>3. CASE BackToFour  BY <3>3 DEF BackToFour, ReopenSlots
    <3>4. CASE FourToFour
      <4>1. CASE curSingle = -1  BY <3>4, <4>1 DEF FourToFour, ReopenSlots
      <4>2. CASE curSingle # -1
        <5>1. nextSingle # -1 /\ curFour' = curFour  BY <3>4, <4>2 DEF FourToFour
        <5> QED  BY <3>1, <5>1 DEF Behind
      <4> QED  BY <4>1, <4>2
    <3> QED  BY <2>2, <3>2, <3>3, <3>4 DEF FourPlayStyle
  <2> QED  BY <1>1, <2>1, <2>2
<1> DEFINE cams == warnCams \ {-1}
<1>6. Cardinality(cams) >= NPos => \A i \in Pos : nextFour'[i] \in cams
  BY <1>4 DEF WantedFour
<1>7. Cardinality(cams) <= NPos =>
        \A c \in cams : \E i \in Pos :
          nextFour'[i] = c /\ (curFour'[i] = c \/ (curSingle' # -1 /\ curFour' = NoVideos))
  BY <1>4, <1>5 DEF WantedFour
<1>8. NoVideos' = NoVideos  BY DEF NoVideos
<1> QED  BY <1>2, <1>3, <1>4, <1>6, <1>7, <1>8 DEF AlarmPictureUp

\* The refresh brings the camera of a single alarm up.
LEMMA SingleUp ==
  ASSUME TypeOK, nextSingle \in warnCams, g_iWarnNum = 1, nextStyle = "single",
         UpdatePlayStateTimer
  PROVE  AlarmPictureUp'
<1>1. StyleToSingle \/ SinglePlayStyle
  <2>1. ~StyleToFour /\ ~FourPlayStyle  BY DEF StyleToFour, FourPlayStyle
  <2> QED  BY <2>1 DEF UpdatePlayStateTimer, PlayCtrlFun
<1>2. warnCams' = warnCams  BY DEF UpdatePlayStateTimer, alarm
<1>3. g_iWarnNum' = 1  BY <1>2 DEF g_iWarnNum
<1>4. curStyle' = "single" /\ curSingle' = nextSingle
  BY <1>1 DEF StyleToSingle, SinglePlayStyle
<1>5. warnCams = {nextSingle}
  <2>1. IsFiniteSet(warnCams) /\ Cardinality(warnCams) = 1
    BY WarnCamsType DEF TypeOK, AlarmType, g_iWarnNum
  <2>2. PICK c : warnCams = {c}  BY <2>1, FS_Singleton
  <2> QED  BY <2>2
<1>6. \A c \in warnCams' \ {-1} : curStyle' = "single" /\ curSingle' = c
  BY <1>2, <1>4, <1>5
<1> QED  BY <1>3, <1>6 DEF AlarmPictureUp

\* The refresh after an alarm always brings up the alarm picture, unless a style
\* change of a button was still pending against it.
THEOREM AlarmPictureShown == Spec => AlarmShownUnlessStylePending
<1> DEFINE Refreshed == g_iWarn /\ warnFreshed /\ ~warnFreshed' /\ nextStyle = AlarmStyle
<1>1. Init => AlarmWanted  BY DEF Init, AlarmWanted
<1>2. ASSUME TypeOK, AlarmWanted, Next, Refreshed PROVE AlarmPictureUp'
  <2>1. UpdatePlayStateTimer
    <3>1. ~(\/ SVPlayBtnClicked \/ MVPlayBtnClicked \/ CycleBtnClicked \/ PlayWidClicked
            \/ \E g \in Group, p \in Pos : CameBtnClicked(g, p)
            \/ \E c \in Idx : WarnIconClicked(c)
            \/ MoniBtnClicked \/ MoniSysBackBtnClicked \/ HideCCTVResp \/ ShowCCTVResp
            \/ PsdConfirmCBFun \/ GetBackVideoTimer \/ UpdateWarnInfoTimer \/ ParseBroadcastSysData)
      BY <1>2 DEF SVPlayBtnClicked, MVPlayBtnClicked, CycleBtnClicked, PlayWidClicked,
                  CameBtnClicked, WarnIconClicked, MoniBtnClicked, MoniSysBackBtnClicked,
                  HideCCTVResp, ShowCCTVResp, PsdConfirmCBFun, GetBackVideoTimer,
                  UpdateWarnInfoTimer, ParseBroadcastSysData
    <3> QED  BY <1>2, <3>1 DEF Next, Click
  <2>2. CASE g_iWarnNum = 1
    <3>1. nextStyle = "single"  BY <1>2, <2>2 DEF AlarmStyle
    <3>2. nextSingle \in warnCams  BY <1>2, <2>2 DEF AlarmWanted
    <3> QED  BY <1>2, <2>1, <2>2, <3>1, <3>2, SingleUp
  <2>3. CASE g_iWarnNum # 1
    <3>1. nextStyle = "four"  BY <1>2, <2>3 DEF AlarmStyle
    <3>2. WantedFour  BY <1>2, <2>3 DEF AlarmWanted
    <3>3. Behind  BY <1>2, <2>3 DEF AlarmWanted
    <3> QED  BY <1>2, <2>1, <2>3, <3>1, <3>2, <3>3, FourUp
  <2> QED  BY <2>2, <2>3
<1>3. TypeOK /\ AlarmWanted /\ [Next]_vars => [Refreshed => AlarmPictureUp']_vars
  BY <1>2
<1> QED
  BY <1>1, <1>3, WantedStep, Reachable, PTL DEF Spec, AlarmShownUnlessStylePending
=============================================================================
