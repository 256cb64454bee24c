----------------------------- MODULE CmdQueue -----------------------------
(***************************************************************************)
(* The linked list between two threads in src/cctv/CCTV/NVRMsgProc.cxx: the *)
(* command queue of an NVR (the main thread puts, CmdProcessThread takes)   *)
(* and its file queue (the NVR's client thread puts, the main thread takes  *)
(* and cleans).  PutNodeToCmdQueue and CleanNodeFromCmdQueue work under the *)
(* mutex; GetNodeFromCmdQueue only looks under it and unlinks after it.     *)
(*                                                                         *)
(* A step is what a thread does between two accesses to something the other *)
(* can change; the build does not optimise, so ptLast is read twice where   *)
(* the code names it twice.  Only the taker stores into ptFirst while the   *)
(* list is not empty, so its reads of it are not steps of their own.        *)
(* The n-th node put is node n; its memory is not used again.  Left out:    *)
(* iPktCount, which nothing reads, and a failing malloc.                    *)
(***************************************************************************)
EXTENDS Integers, Sequences, FiniteSets

CONSTANTS
  MaxPut,   \* commands put
  CanClean  \* the taker also cleans (file queue)

ASSUME PutAssumption == MaxPut \in Nat \ {0} /\ CanClean \in BOOLEAN

Node == 1 .. MaxPut
None == 0

VARIABLES
  ptFirst, ptLast, next, \* the list; None is NULL
  tMutex,    \* who holds it: "none" or "put"
  put,       \* commands put so far; while putPc # "idle" node put is on its way in
  putPc, last, \* putter: place, and the value of ptLast it last read
  getPc, ptTmp, rest, \* taker: place, the node it takes, that node's successor
  got,       \* commands taken
  freed,     \* nodes given back
  fault,     \* "none"; "null": NULL was dereferenced; "freed": freed memory was written
  raced      \* a put began while the only node was being unlinked

putter == <<put, putPc, last>>
taker  == <<getPc, ptTmp, rest, got>>
list   == <<ptFirst, ptLast, next>>
vars   == <<list, tMutex, putter, taker, freed, fault, raced>>

Init ==
  /\ ptFirst = None /\ ptLast = None /\ next = [n \in Node |-> None]
  /\ tMutex = "none"
  /\ put = 0 /\ putPc = "idle" /\ last = None
  /\ getPc = "idle" /\ ptTmp = None /\ rest = None /\ got = <<>>
  /\ freed = {} /\ fault = "none" /\ raced = FALSE

Alive == fault # "null"

-----------------------------------------------------------------------------
(* PutNodeToCmdQueue *)

\* malloc, memset, lock; ptLast is read the first time.
PutLock ==
  /\ Alive /\ putPc = "idle" /\ put < MaxPut /\ tMutex = "none"
  /\ tMutex' = "put" /\ put' = put + 1
  /\ last' = ptLast
  /\ putPc' = IF ptLast = None THEN "first" ELSE "reread"
  /\ raced' = (raced \/ getPc \in {"unlink", "clear"} \/ (getPc = "take" /\ ptLast = ptFirst))
  /\ UNCHANGED <<list, taker, freed, fault>>

PutFirst ==
  /\ Alive /\ putPc = "first" /\ putPc' = "last"
  /\ ptFirst' = put
  /\ UNCHANGED <<ptLast, next, tMutex, put, last, taker, freed, fault, raced>>

\* ptLast->next = ptPktList reads ptLast again.
PutReread ==
  /\ Alive /\ putPc = "reread"
  /\ last' = ptLast
  /\ IF ptLast = None THEN fault' = "null" /\ UNCHANGED putPc
                      ELSE putPc' = "link" /\ UNCHANGED fault
  /\ UNCHANGED <<list, tMutex, put, taker, freed, raced>>

PutLink ==
  /\ Alive /\ putPc = "link" /\ putPc' = "last"
  /\ next' = [next EXCEPT ![last] = put]
  /\ fault' = IF last \in freed THEN "freed" ELSE fault
  /\ UNCHANGED <<ptFirst, ptLast, tMutex, put, last, taker, freed, raced>>

\* Mutant: ptLast is set for the first node only.
PutUnlockKeepsLast ==
  /\ Alive /\ putPc = "last" /\ putPc' = "idle"
  /\ ptLast' = (IF ptLast = None THEN put ELSE ptLast) /\ tMutex' = "none"
  /\ UNCHANGED <<ptFirst, next, put, last, taker, freed, fault, raced>>

PutUnlock ==
  /\ Alive /\ putPc = "last" /\ putPc' = "idle"
  /\ ptLast' = put /\ tMutex' = "none"
  /\ UNCHANGED <<ptFirst, next, put, last, taker, freed, fault, raced>>

-----------------------------------------------------------------------------
(* GetNodeFromCmdQueue *)

\* Locked, it only sees whether there is a node.
GetCheck ==
  /\ Alive /\ getPc = "idle" /\ tMutex = "none" /\ ptFirst # None
  /\ getPc' = "take"
  /\ UNCHANGED <<list, tMutex, putter, ptTmp, rest, got, freed, fault, raced>>

\* Mutant: the second node is taken.
GetTakeSecond ==
  /\ Alive /\ getPc = "take" /\ getPc' = "unlink"
  /\ ptTmp' = (IF next[ptFirst] = None THEN ptFirst ELSE next[ptFirst]) /\ rest' = next[ptFirst]
  /\ UNCHANGED <<list, tMutex, putter, got, freed, fault, raced>>

GetTake ==
  /\ Alive /\ getPc = "take" /\ getPc' = "unlink"
  /\ ptTmp' = ptFirst /\ rest' = next[ptFirst]
  /\ UNCHANGED <<list, tMutex, putter, got, freed, fault, raced>>

GetUnlink ==
  /\ Alive /\ getPc = "unlink"
  /\ getPc' = IF rest = None THEN "clear" ELSE "free"
  /\ ptFirst' = rest
  /\ UNCHANGED <<ptLast, next, tMutex, putter, ptTmp, rest, got, freed, fault, raced>>

GetClear ==
  /\ Alive /\ getPc = "clear" /\ getPc' = "free"
  /\ ptLast' = None
  /\ UNCHANGED <<ptFirst, next, tMutex, putter, ptTmp, rest, got, freed, fault, raced>>

GetFree ==
  /\ Alive /\ getPc = "free" /\ getPc' = "idle"
  /\ got' = Append(got, ptTmp) /\ freed' = freed \cup {ptTmp}
  /\ ptTmp' = None /\ rest' = None
  /\ UNCHANGED <<list, tMutex, putter, fault, raced>>

-----------------------------------------------------------------------------
\* The nodes that can be reached from ptFirst: those in every set that has it
\* and the successors of its members.
Closed(S) == \A k \in S : next[k] # None => next[k] \in S

InList ==
  {m \in Node : ptFirst # None /\ \A S \in SUBSET Node : ptFirst \in S /\ Closed(S) => m \in S}

\* Mutant: the queue's end is not reset.
CleanNodeKeepsLast ==
  /\ Alive /\ CanClean /\ getPc = "idle" /\ tMutex = "none"
  /\ freed' = freed \cup InList
  /\ ptFirst' = None
  /\ UNCHANGED <<ptLast, next, tMutex, putter, taker, fault, raced>>

\* CleanNodeFromCmdQueue, under the mutex all the way.
CleanNode ==
  /\ Alive /\ CanClean /\ getPc = "idle" /\ tMutex = "none"
  /\ freed' = freed \cup InList
  /\ ptFirst' = None /\ ptLast' = None
  /\ UNCHANGED <<next, tMutex, putter, taker, fault, raced>>

Putter == PutLock \/ PutFirst \/ PutReread \/ PutLink \/ PutUnlock
Taker  == GetCheck \/ GetTake \/ GetUnlink \/ GetClear \/ GetFree

Next == Putter \/ Taker \/ CleanNode

Spec == Init /\ [][Next]_vars

-----------------------------------------------------------------------------
(* Properties *)

TypeOK ==
  /\ {ptFirst, ptLast, last, ptTmp, rest} \subseteq Node \cup {None}
  /\ next \in [Node -> Node \cup {None}]
  /\ tMutex \in {"none", "put"} /\ put \in 0 .. MaxPut
  /\ putPc \in {"idle", "first", "reread", "link", "last"}
  /\ getPc \in {"idle", "take", "unlink", "clear", "free"}
  /\ got \in Seq(Node) /\ freed \subseteq Node
  /\ fault \in {"none", "null", "freed"} /\ raced \in BOOLEAN

\* GetNodeFromCmdQueue hands out commands in the order PutNodeToCmdQueue was
\* given them and none twice, whatever the race does.
InOrderOnce == \A i, j \in 1 .. Len(got) : i < j => got[i] < got[j]

\* A command is lost, NULL dereferenced or freed memory written only after a put
\* that began while the last node was being unlinked.
HarmOnlyByRace ==
  ~raced => /\ fault = "none"
            /\ putPc = "idle" =>
                 1 .. put = InList \cup freed \cup ({ptTmp} \ {None})

\* The nodes from n on, in their order.
Chain[n \in Node \cup {None}] == IF n = None THEN <<>> ELSE <<n>> \o Chain[next[n]]

\* As long as no put has met the unlinking of the last node, the queue is the
\* FIFO of CmdFifo: every step of the list is a step of the FIFO or none.
Fifo == INSTANCE CmdFifo WITH
  queue <- Chain[ptFirst],
  put   <- IF putPc \in {"idle", "last"} THEN put ELSE put - 1,
  got   <- IF getPc \in {"clear", "free"} THEN Append(got, ptTmp) ELSE got

ImplementsFifo == Fifo!Init /\ [][raced' \/ Fifo!Next]_(Fifo!vars)
=============================================================================
