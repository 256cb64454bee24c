------------------------------ MODULE CmdFifo ------------------------------
(***************************************************************************)
(* What the queues of NVRMsgProc.cxx promise: commands are taken in the     *)
(* order they were put, each at most once, and none is lost unless the      *)
(* queue is cleaned.  Commands are numbered in the order they are put.      *)
(***************************************************************************)
EXTENDS Integers, Sequences

CONSTANTS MaxPut, CanClean

VARIABLES
  queue, \* commands put and not taken
  put,   \* number of commands put
  got    \* commands taken

vars == <<queue, put, got>>

Init == queue = <<>> /\ put = 0 /\ got = <<>>

Put ==
  /\ put < MaxPut
  /\ put' = put + 1 /\ queue' = Append(queue, put')
  /\ UNCHANGED got

Take ==
  /\ queue # <<>>
  /\ got' = Append(got, Head(queue)) /\ queue' = Tail(queue)
  /\ UNCHANGED put

Clean == CanClean /\ queue' = <<>> /\ UNCHANGED <<put, got>>

Next == Put \/ Take \/ Clean

Spec == Init /\ [][Next]_vars
=============================================================================
