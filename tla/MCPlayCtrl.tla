----------------------------- MODULE MCPlayCtrl -----------------------------
(* Instances of PlayCtrl.                                                    *)
EXTENDS PlayCtrl

\* Three groups of two positions, three cameras.  Group 0 has only position 0 and
\* the last group only position 1, so the two are shown together, as with 28
\* cameras or fewer on the train; the group between them has an empty position.
MCUiGroup == [v \in Video |-> v]
MCUiPos   == [v \in Video |-> IF v = 2 THEN 1 ELSE 0]

\* Three alarm cameras for the two pictures; a door and a second fire sensor have
\* the same camera.
MCPointCam == [q \in Point |-> CASE q = "pecu" -> 2 [] q = "fire" -> 0 [] OTHER -> 1]

\* No alarm, one, two of one camera and of two, and more cameras than pictures.
MCAlarmState ==
  {{}, {"door"}, {"door", "fire2"}, {"door", "pecu"}, {"door", "pecu", "fire"}}
=============================================================================
