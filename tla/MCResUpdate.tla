--------------------------- MODULE MCResUpdate ---------------------------
(* ResUpdate with an update of one step.                                    *)
EXTENDS ResUpdate

MCReport ==
  {[state |-> START, progress |-> 0], [state |-> ING, progress |-> 1],
   [state |-> SUCC, progress |-> 1]}
=============================================================================
