-------------------------- MODULE CmdQueueProofs --------------------------
(***************************************************************************)
(* The race in GetNodeFromCmdQueue loses commands but never reorders or     *)
(* repeats them, for any number of them.  The argument does not follow the  *)
(* list: a node's successor is always a younger node, and the taker only    *)
(* moves from a node to its successor or to a node put afterwards.  Without  *)
(* the race it loses nothing either and is a FIFO queue: QuietInv says that  *)
(* the list is a run of successive nodes, and what Chain makes of one.       *)
(***************************************************************************)
EXTENDS CmdQueue, SequenceTheorems, WellFoundedInduction, TLAPS

Link == Node \cup {None}

LinkOK ==
  /\ ptFirst \in Link /\ ptLast \in Link /\ last \in Link /\ ptTmp \in Link /\ rest \in Link
  /\ next \in [Node -> Link]

PcOK ==
  /\ tMutex \in {"none", "put"} /\ put \in 0 .. MaxPut
  /\ putPc \in {"idle", "first", "reread", "link", "last"}
  /\ getPc \in {"idle", "take", "unlink", "clear", "free"}
  /\ got \in Seq(Node) /\ freed \subseteq Node
  /\ fault \in {"none", "null", "freed"} /\ raced \in BOOLEAN

\* What the putter and the taker hold at their places.
Held ==
  /\ putPc # "idle" => put \in Node
  /\ putPc = "link" => last # None
  /\ getPc = "take" => ptFirst # None
  /\ getPc \in {"unlink", "clear", "free"} => ptTmp # None

TypeInv == LinkOK /\ PcOK /\ Held

LEMMA InitType == Init => TypeInv
<1> SUFFICES ASSUME Init PROVE TypeInv OBVIOUS
<1>1. LinkOK
  <2>1. next = [n \in Node |-> None] BY DEF Init
  <2>2. None \in Link BY DEF Link
  <2>3. next \in [Node -> Link] BY <2>1, <2>2
  <2>4. /\ ptFirst = None /\ ptLast = None /\ last = None /\ ptTmp = None /\ rest = None
    BY DEF Init
  <2>5. QED BY <2>2, <2>3, <2>4 DEF LinkOK
<1>2. PcOK
  <2>1. <<>> \in Seq(Node) /\ {} \subseteq Node OBVIOUS
  <2>2. 0 \in 0 .. MaxPut BY PutAssumption DEF PutAssumption
  <2>3. QED BY <2>1, <2>2 DEF Init, PcOK
<1>3. Held BY DEF Init, Held
<1>4. QED BY <1>1, <1>2, <1>3 DEF TypeInv

LEMMA StepType ==
  ASSUME TypeInv, [Next]_vars
  PROVE  TypeInv'
<1> USE PutAssumption DEF PutAssumption, TypeInv, LinkOK, PcOK, Held, Link, Node, None
<1>1. CASE PutLock BY <1>1 DEF PutLock, list, taker
<1>2. CASE PutFirst BY <1>2 DEF PutFirst, taker
<1>3. CASE PutReread BY <1>3 DEF PutReread, list, taker
<1>4. CASE PutLink BY <1>4 DEF PutLink, taker
<1>5. CASE PutUnlock BY <1>5 DEF PutUnlock, taker
<1>6. CASE GetCheck BY <1>6 DEF GetCheck, list, putter
<1>7. CASE GetTake BY <1>7 DEF GetTake, list, putter
<1>8. CASE GetUnlink BY <1>8 DEF GetUnlink, putter
<1>9. CASE GetClear BY <1>9 DEF GetClear, putter
<1>10. CASE GetFree BY <1>10 DEF GetFree, list, putter
<1>11. CASE CleanNode BY <1>11 DEF CleanNode, InList, putter, taker
<1>12. CASE UNCHANGED vars BY <1>12 DEF vars, list, putter, taker
<1>13. QED BY <1>1, <1>2, <1>3, <1>4, <1>5, <1>6, <1>7, <1>8, <1>9, <1>10, <1>11, <1>12
       DEF Next, Putter, Taker

LEMMA TypeAlways == Spec => []TypeInv
<1>1. TypeInv /\ [Next]_vars => TypeInv' BY StepType
<1>2. QED BY InitType, <1>1, PTL DEF Spec

\* TypeOK: every variable of the queue keeps its type.
THEOREM TypeCorrect == Spec => []TypeOK
<1>1. TypeInv => TypeOK BY DEF TypeInv, TypeOK, LinkOK, PcOK, Link
<1>2. QED BY TypeAlways, <1>1, PTL

-----------------------------------------------------------------------------
(***************************************************************************)
(* Order.  Until its node is linked, a put's node is younger than all that  *)
(* the list, the taker and the past have.                                  *)
(***************************************************************************)
Old == IF putPc \in {"first", "reread", "link"} THEN put - 1 ELSE put

AllOld ==
  /\ ptFirst <= Old /\ ptLast <= Old /\ last <= Old /\ ptTmp <= Old /\ rest <= Old
  /\ \A n \in Node : next[n] <= Old

NextYounger == \A n \in Node : next[n] # None => n < next[n]

GotOlder(n) == \A i \in 1 .. Len(got) : got[i] < n

GotOld == GotOlder(Old + 1)

FirstYounger ==
  ptFirst # None =>
    /\ getPc \in {"idle", "take"} => GotOlder(ptFirst)
    /\ getPc \in {"clear", "free"} => ptTmp < ptFirst

TakenYounger ==
  getPc \in {"unlink", "clear", "free"} =>
    GotOlder(ptTmp) /\ (rest # None => ptTmp < rest)

OrderInv == AllOld /\ NextYounger /\ GotOld /\ FirstYounger /\ TakenYounger /\ InOrderOnce

LEMMA InitOrder == Init => OrderInv
BY DEF Init, OrderInv, AllOld, NextYounger, GotOlder, GotOld, FirstYounger, TakenYounger,
       InOrderOnce, Old, None, Node

LEMMA StepOrder ==
  ASSUME TypeInv, OrderInv, [Next]_vars
  PROVE  OrderInv'
<1> USE PutAssumption DEF PutAssumption, TypeInv, LinkOK, PcOK, Held, Link, Node, None,
    OrderInv, AllOld, NextYounger, GotOlder, GotOld, FirstYounger, TakenYounger, InOrderOnce, Old
<1>1. CASE PutLock BY <1>1 DEF PutLock, list, taker
<1>2. CASE PutFirst
  <2>1. UNCHANGED <<ptLast, next, put, last, taker>> /\ ptFirst' = put
        /\ putPc = "first" /\ putPc' = "last"
    BY <1>2 DEF PutFirst
  <2>2. UNCHANGED <<getPc, ptTmp, rest, got>> BY <2>1 DEF taker
  <2>3. AllOld' BY <2>1, <2>2
  <2>4. NextYounger' /\ TakenYounger' /\ InOrderOnce' BY <2>1, <2>2
  <2>5. GotOld' BY <2>1, <2>2
  <2>6. FirstYounger' BY <2>1, <2>2
  <2>7. QED BY <2>3, <2>4, <2>5, <2>6
<1>3. CASE PutReread BY <1>3 DEF PutReread, list, taker
<1>4. CASE PutLink
  <2>1. UNCHANGED <<ptFirst, ptLast, put, last, taker>> /\ putPc = "link" /\ putPc' = "last"
        /\ next' = [next EXCEPT ![last] = put]
    BY <1>4 DEF PutLink
  <2>2. UNCHANGED <<getPc, ptTmp, rest, got>> BY <2>1 DEF taker
  <2>3. last \in Node /\ put \in Node /\ last < put BY <2>1
  <2>4. \A n \in Node : next'[n] = IF n = last THEN put ELSE next[n] BY <2>1, <2>3
  <2>5. AllOld' BY <2>1, <2>2, <2>3, <2>4
  <2>6. NextYounger' BY <2>3, <2>4
  <2>7. GotOld' BY <2>1, <2>2
  <2>8. FirstYounger' /\ TakenYounger' /\ InOrderOnce' BY <2>1, <2>2
  <2>9. QED BY <2>5, <2>6, <2>7, <2>8
<1>5. CASE PutUnlock BY <1>5 DEF PutUnlock, taker
<1>6. CASE GetCheck BY <1>6 DEF GetCheck, list, putter
<1>7. CASE GetTake BY <1>7 DEF GetTake, list, putter
<1>8. CASE GetUnlink BY <1>8 DEF GetUnlink, putter
<1>9. CASE GetClear BY <1>9 DEF GetClear, putter
<1>10. CASE GetFree
  <2>1. Len(got') = Len(got) + 1 /\ got'[Len(got) + 1] = ptTmp
        /\ \A i \in 1 .. Len(got) : got'[i] = got[i]
    BY <1>10 DEF GetFree
  <2>2. GotOlder(ptTmp) BY <1>10 DEF GetFree
  <2>3. UNCHANGED <<ptFirst, ptLast, next, put, putPc, last>> /\ ptTmp' = 0 /\ rest' = 0
        /\ getPc' = "idle" /\ getPc = "free"
    BY <1>10 DEF GetFree, list, putter
  <2>4. AllOld'
    <3>1. ptFirst <= Old /\ ptLast <= Old /\ last <= Old /\ 0 <= Old OBVIOUS
    <3>2. Old' = Old BY <2>3
    <3>3. \A n \in Node : next[n] <= Old OBVIOUS
    <3>4. next' = next BY <2>3
    <3>5. \A n \in Node : next'[n] <= Old' BY <3>2, <3>3, <3>4, Zenon
    <3>6. QED BY <2>3, <3>1, <3>2, <3>5
  <2>9. NextYounger' /\ TakenYounger'
    <3>1. next' = next BY <2>3
    <3>2. NextYounger OBVIOUS
    <3>3. NextYounger' BY <3>1, <3>2, Zenon DEF NextYounger
    <3>4. TakenYounger' BY <2>3
    <3>5. QED BY <3>3, <3>4
  <2>5. InOrderOnce'
    <3>1. SUFFICES ASSUME NEW i \in 1 .. Len(got) + 1, NEW j \in 1 .. Len(got) + 1, i < j
                   PROVE  got'[i] < got'[j]
      BY <2>1
    <3>2. i \in 1 .. Len(got) /\ got'[i] = got[i] /\ got[i] < ptTmp BY <2>1, <2>2, <3>1
    <3>3. CASE j = Len(got) + 1 BY <2>1, <3>2, <3>3
    <3>4. CASE j \in 1 .. Len(got)
      <4>1. got[i] < got[j] BY <3>1, <3>2, <3>4
      <4>2. QED BY <2>1, <3>2, <3>4, <4>1
    <3>5. QED BY <3>3, <3>4
  <2>6. GotOld' BY <2>1, <2>3
  <2>7. FirstYounger'
    <3>1. SUFFICES ASSUME ptFirst # 0, NEW i \in 1 .. Len(got) + 1 PROVE got'[i] < ptFirst
      BY <2>1, <2>3
    <3>2. ptTmp < ptFirst BY <2>3, <3>1
    <3>3. CASE i = Len(got) + 1 BY <2>1, <3>2, <3>3
    <3>4. CASE i \in 1 .. Len(got)
      <4>1. got'[i] = got[i] /\ got[i] < ptTmp /\ got[i] \in Node BY <2>1, <2>2, <3>4
      <4>2. QED BY <3>2, <4>1
    <3>5. QED BY <3>3, <3>4
  <2>8. QED BY <2>4, <2>5, <2>6, <2>7, <2>9
<1>11. CASE CleanNode BY <1>11 DEF CleanNode, putter, taker
<1>12. CASE UNCHANGED vars BY <1>12 DEF vars, list, putter, taker
<1>13. QED BY <1>1, <1>2, <1>3, <1>4, <1>5, <1>6, <1>7, <1>8, <1>9, <1>10, <1>11, <1>12
       DEF Next, Putter, Taker

\* InOrderOnce: commands are handed out in the order they were put, none twice.
THEOREM TakenInOrderOnce == Spec => []InOrderOnce
<1>1. TypeInv /\ OrderInv /\ [Next]_vars => OrderInv' BY StepOrder
<1>2. OrderInv => InOrderOnce BY DEF OrderInv
<1>3. QED BY InitOrder, TypeAlways, <1>1, <1>2, PTL DEF Spec

-----------------------------------------------------------------------------
(***************************************************************************)
(* No loss.  As long as no put has met the unlinking of the only node, the  *)
(* list holds the nodes from ptFirst to Old, one after the other, and all   *)
(* before them are freed or in the taker's hand.                            *)
(***************************************************************************)
InHand == IF getPc \in {"clear", "free"} THEN {ptTmp} ELSE {}

Shape ==
  /\ \A n \in Node : n < Old => next[n] \in {None, n + 1}
  /\ \A n \in Node : n >= Old => next[n] = None
  /\ ptFirst # None => /\ \A n \in Node : ptFirst <= n /\ n < Old => next[n] = n + 1
                       /\ \A n \in 1 .. Old : n < ptFirst <=> n \in freed \cup InHand
  /\ ptFirst = None => \A n \in 1 .. Old : n \in freed \cup InHand
  /\ freed \subseteq 1 .. Old

\* The mutex keeps the taker from a node whose put is not complete, unless it
\* had begun to take - and then the list is longer than one node.
PutPlace ==
  /\ tMutex = "none" <=> putPc = "idle"
  /\ putPc = "first" => ptFirst = None
  /\ putPc \in {"reread", "link", "last"} => ptFirst # None
  /\ putPc = "link" => last = ptLast
  /\ putPc # "last" /\ ptFirst # None => ptLast = Old
  /\ putPc # "last" /\ ptFirst = None /\ getPc # "clear" => ptLast = None

GetPlace ==
  /\ getPc \in {"idle", "take"} => ptTmp = None
  /\ getPc \in {"take", "unlink"} => ptFirst # None /\ (putPc # "idle" => ptFirst < Old)
  /\ getPc = "unlink" => ptTmp = ptFirst /\ rest = next[ptFirst]
  /\ getPc = "clear" => ptFirst = None /\ putPc = "idle"
  /\ getPc \in {"clear", "free"} => ptTmp \in 1 .. Old

Quiet    == fault = "none" /\ Shape /\ PutPlace /\ GetPlace
QuietInv == ~raced => Quiet

\* A set of naturals that is not empty has a least element.
LEMMA Least ==
  ASSUME NEW T, T \subseteq Nat, T # {}
  PROVE  \E m \in T : \A k \in T : m <= k
<1> DEFINE R == OpToRel(<, Nat)
<1>1. \A x, y \in Nat : y < x => <<y, x>> \in R  BY DEF OpToRel
<1>2. IsWellFoundedOn(R, Nat)  BY NatLessThanWellFounded
<1> HIDE DEF R
<1>3. PICK m \in T : \A k \in T : ~ (<<k, m>> \in R)  BY <1>2, WFMin
<1>4. ASSUME NEW k \in T PROVE m <= k
  <2>1. m \in Nat /\ k \in Nat  OBVIOUS
  <2>2. ~ (k < m)  BY <1>1, <1>3, <2>1, Zenon
  <2> QED  BY <2>1, <2>2
<1> QED  BY <1>4

\* A list whose nodes follow one another holds an interval.
LEMMA ListIsInterval ==
  ASSUME NEW a \in Node, NEW b \in Node, a <= b, ptFirst = a,
         \A n \in Node : a <= n /\ n < b => next[n] = n + 1,
         next[b] = None
  PROVE  InList = a .. b
<1> USE PutAssumption DEF PutAssumption, Node, None
<1>1. ASSUME NEW m \in InList PROVE m \in a .. b
  <2>1. a .. b \in SUBSET Node /\ a \in a .. b  OBVIOUS
  <2>2. Closed(a .. b)
    <3> SUFFICES ASSUME NEW k \in a .. b, next[k] # None PROVE next[k] \in a .. b
      BY DEF Closed
    <3> QED  OBVIOUS
  <2> HIDE DEF Node
  <2> QED  BY <2>1, <2>2 DEF InList
<1>2. ASSUME NEW m \in a .. b PROVE m \in InList
  <2>1. SUFFICES ASSUME NEW S \in SUBSET Node, a \in S, Closed(S), m \notin S PROVE FALSE
    BY DEF InList
  <2>2. (a .. b) \ S \subseteq Nat /\ (a .. b) \ S # {}  BY <2>1
  <2>3. PICK k \in (a .. b) \ S : \A n \in (a .. b) \ S : k <= n  BY <2>2, Least
  <2>4. k # a /\ k - 1 \in a .. b /\ ~ (k <= k - 1)  BY <2>1, <2>3
  <2>5. k - 1 \in S  BY <2>3, <2>4
  <2>6. next[k - 1] = k /\ k # 0  BY <2>4
  <2> QED  BY <2>1, <2>3, <2>5, <2>6 DEF Closed
<1> QED  BY <1>1, <1>2

\* What a list without a race holds.
LEMMA QuietList ==
  ASSUME TypeInv, OrderInv, Quiet
  PROVE  /\ Old \in Nat /\ Old <= MaxPut
         /\ ptFirst # None => ptFirst <= Old /\ Old \in Node
         /\ InList = IF ptFirst = None THEN {} ELSE ptFirst .. Old
<1> USE PutAssumption DEF PutAssumption, TypeInv
<1>1. Old \in Nat /\ Old <= MaxPut  BY DEF Old, PcOK, Held, Node
<1>2. ptFirst # None => ptFirst \in Node /\ ptFirst <= Old /\ Old \in Node
  BY <1>1 DEF OrderInv, AllOld, LinkOK, Link, Node, None
<1>3. CASE ptFirst = None  BY <1>1, <1>3 DEF InList
<1>4. CASE ptFirst # None
  <2>1. next[Old] = None /\ \A n \in Node : ptFirst <= n /\ n < Old => next[n] = n + 1
    <3>1. \A n \in Node : n >= Old => next[n] = None  BY DEF Quiet, Shape
    <3>2. Old >= Old  BY <1>1
    <3> QED  BY <1>2, <1>4, <3>1, <3>2 DEF Quiet, Shape
  <2>2. InList = ptFirst .. Old  BY <1>2, <1>4, <2>1, ListIsInterval
  <2> QED  BY <1>1, <1>2, <1>4, <2>2
<1> QED  BY <1>3, <1>4

LEMMA InitQuiet == Init => QuietInv
<1> USE PutAssumption DEF PutAssumption
<1> SUFFICES ASSUME Init PROVE Quiet  BY DEF QuietInv
<1>1. Old = 0 /\ InHand = {}  BY DEF Init, Old, InHand
<1>2. \A n \in Node : next[n] = None  BY DEF Init
<1>3. Shape  BY <1>1, <1>2 DEF Init, Shape, Node, None
<1> QED  BY <1>3 DEF Init, Quiet, PutPlace, GetPlace

\* The putter's steps: the new node follows the last one.
LEMMA PutQuiet ==
  ASSUME TypeInv, OrderInv, Quiet, Putter, ~raced'
  PROVE  Quiet'
<1> USE PutAssumption DEF PutAssumption
<1>0. /\ Old \in Nat /\ Old <= MaxPut /\ put \in 0 .. MaxPut
      /\ ptFirst \in Link /\ ptLast \in Link /\ next \in [Node -> Link]
  BY QuietList DEF TypeInv, LinkOK, PcOK
<1>1. CASE PutLock
  <2>1. /\ putPc = "idle" /\ put < MaxPut /\ put' = put + 1
        /\ getPc \notin {"unlink", "clear"} /\ (getPc = "take" => ptLast # ptFirst)
        /\ putPc' = IF ptLast = None THEN "first" ELSE "reread"
        /\ tMutex' = "put"
    BY <1>1 DEF PutLock
  <2>2. UNCHANGED <<ptFirst, ptLast, next, getPc, ptTmp, rest, freed, fault>>
    BY <1>1 DEF PutLock, list, taker
  <2>3. Old' = Old  BY <1>0, <2>1 DEF Old
  <2>4. Shape' /\ fault' = "none"  BY <2>2, <2>3 DEF Quiet, Shape, InHand
  <2>5. ptFirst # None <=> ptLast # None
    BY <1>0, <2>1, QuietList DEF Quiet, PutPlace, Node, None
  <2>6. PutPlace'  BY <2>1, <2>2, <2>3, <2>5 DEF Quiet, PutPlace
  <2>7. getPc = "take" => ptFirst < Old
    BY <1>0, <2>1, QuietList DEF Quiet, PutPlace, GetPlace, Link, Node, None
  <2>8. GetPlace'  BY <2>1, <2>2, <2>3, <2>7 DEF Quiet, GetPlace
  <2> QED  BY <2>4, <2>6, <2>8 DEF Quiet
<1>2. CASE PutFirst
  <2>1. /\ putPc = "first" /\ putPc' = "last" /\ ptFirst' = put /\ ptFirst = None
        /\ UNCHANGED <<ptLast, next, put, tMutex, getPc, ptTmp, rest, freed, fault>>
    BY <1>2 DEF PutFirst, taker, Quiet, PutPlace
  <2>2. put \in Node /\ Old = put - 1 /\ Old' = put
    BY <2>1 DEF TypeInv, Held, Old
  <2>3. getPc \in {"idle", "free"}
    BY <2>1 DEF Quiet, GetPlace, TypeInv, PcOK
  <2>4. InHand' = InHand /\ InHand \subseteq 1 .. Old
    BY <2>1, <2>3 DEF InHand, Quiet, GetPlace
  <2>5. Shape'
    <3>1. \A n \in Node : n >= Old => next[n] = None  BY DEF Quiet, Shape
    <3>2. \A n \in Node : n < Old => next[n] \in {None, n + 1}  BY DEF Quiet, Shape
    <3>3. \A n \in 1 .. Old : n \in freed \cup InHand  BY <2>1 DEF Quiet, Shape
    <3>4. freed \subseteq 1 .. Old  BY DEF Quiet, Shape
    <3>5. \A n \in Node : n < Old' => next'[n] \in {None, n + 1}
      BY <2>1, <2>2, <3>1, <3>2 DEF Node
    <3>6. \A n \in Node : n >= Old' => next'[n] = None  BY <2>1, <2>2, <3>1 DEF Node
    <3>7. \A n \in Node : ~ (ptFirst' <= n /\ n < Old')  BY <2>1, <2>2 DEF Node
    <3>8. \A n \in 1 .. Old' : n < ptFirst' <=> n \in freed' \cup InHand'
      BY <2>1, <2>2, <2>4, <3>3, <3>4 DEF Node
    <3>9. freed' \subseteq 1 .. Old'  BY <2>1, <2>2, <3>4 DEF Node
    <3>10. ptFirst' # None  BY <2>1, <2>2 DEF Node, None
    <3> QED  BY ONLY <3>5, <3>6, <3>7, <3>8, <3>9, <3>10 DEF Shape
  <2>6. PutPlace'  BY <2>1, <2>2 DEF Quiet, PutPlace, Node, None
  <2>7. GetPlace'  BY <2>1, <2>2, <2>3 DEF Quiet, GetPlace, Node
  <2> QED  BY <2>1, <2>5, <2>6, <2>7 DEF Quiet
<1>3. CASE PutReread
  <2>1. putPc = "reread" /\ ptFirst # None /\ ptLast = Old
    BY <1>3 DEF PutReread, Quiet, PutPlace
  <2>2. ptLast # None  BY <2>1, QuietList DEF Node, None
  <2>3. /\ putPc' = "link" /\ last' = ptLast
        /\ UNCHANGED <<list, tMutex, put, taker, freed, fault>>
    BY <1>3, <2>2 DEF PutReread
  <2>4. Old' = Old  BY <2>1, <2>3 DEF Old
  <2>5. Shape'  BY <2>3, <2>4 DEF Quiet, Shape, InHand, list, taker
  <2>6. PutPlace'  BY <2>1, <2>3, <2>4 DEF Quiet, PutPlace, list, taker
  <2>7. GetPlace'  BY <2>1, <2>3, <2>4 DEF Quiet, GetPlace, list, taker
  <2> QED  BY <2>3, <2>5, <2>6, <2>7 DEF Quiet
<1>4. CASE PutLink
  <2>1. /\ putPc = "link" /\ putPc' = "last" /\ next' = [next EXCEPT ![last] = put]
        /\ ptFirst # None /\ last = Old
        /\ UNCHANGED <<ptFirst, ptLast, put, tMutex, getPc, ptTmp, rest, freed>>
        /\ fault' = IF last \in freed THEN "freed" ELSE fault
    BY <1>4 DEF PutLink, taker, Quiet, PutPlace
  <2>2. put \in Node /\ Old = put - 1 /\ Old' = put /\ Old \in Node /\ ptFirst \in Node
    BY <1>0, <2>1, QuietList DEF TypeInv, Held, Old, Link, Node, None
  <2>3. ptFirst <= Old /\ InHand' = InHand /\ InHand \subseteq 1 .. Old
    BY <2>1, QuietList DEF InHand, Quiet, GetPlace
  <2>4. \A n \in 1 .. Old : n < ptFirst <=> n \in freed \cup InHand
    BY <2>1 DEF Quiet, Shape
  <2>5. fault' = "none"  BY <2>1, <2>2, <2>3, <2>4 DEF Quiet, Node
  <2>6. \A n \in Node : next'[n] = IF n = Old THEN put ELSE next[n]
    BY <1>0, <2>1, <2>2
  <2>7. Shape'
    <3>1. \A n \in Node : n >= Old => next[n] = None  BY DEF Quiet, Shape
    <3>2. \A n \in Node : n < Old => next[n] \in {None, n + 1}  BY DEF Quiet, Shape
    <3>3. \A n \in Node : ptFirst <= n /\ n < Old => next[n] = n + 1
      BY <2>1 DEF Quiet, Shape
    <3>4. freed \subseteq 1 .. Old  BY DEF Quiet, Shape
    <3>5. \A n \in Node : n < Old' => next'[n] \in {None, n + 1}
      BY <2>2, <2>6, <3>2 DEF Node
    <3>6. \A n \in Node : n >= Old' => next'[n] = None  BY <2>2, <2>6, <3>1 DEF Node
    <3>7. \A n \in Node : ptFirst' <= n /\ n < Old' => next'[n] = n + 1
      BY <2>1, <2>2, <2>6, <3>3 DEF Node
    <3>8. \A n \in 1 .. Old' : n < ptFirst' <=> n \in freed' \cup InHand'
      BY <2>1, <2>2, <2>3, <2>4, <3>4 DEF Node
    <3>9. freed' \subseteq 1 .. Old'  BY <2>1, <2>2, <3>4 DEF Node
    <3> QED  BY ONLY <2>1, <3>5, <3>6, <3>7, <3>8, <3>9 DEF Shape
  <2>8. PutPlace'  BY <2>1 DEF Quiet, PutPlace
  <2>9. GetPlace'
    <3>1. getPc \in {"take", "unlink"} => ptFirst < Old /\ ptFirst < Old'
      BY <2>1, <2>2 DEF Quiet, GetPlace, Node
    <3>2. getPc = "unlink" => ptTmp = ptFirst /\ rest = next[ptFirst] /\ next'[ptFirst] = next[ptFirst]
      BY <2>2, <2>6, <3>1 DEF Quiet, GetPlace, Node
    <3>3. getPc # "clear" /\ (getPc \in {"clear", "free"} => ptTmp \in 1 .. Old')
      BY <2>1, <2>2 DEF Quiet, GetPlace, Node
    <3> QED  BY <2>1, <3>1, <3>2, <3>3 DEF Quiet, GetPlace
  <2> QED  BY <2>5, <2>7, <2>8, <2>9 DEF Quiet
<1>5. CASE PutUnlock
  <2>1. /\ putPc = "last" /\ putPc' = "idle" /\ ptLast' = put /\ tMutex' = "none" /\ ptFirst # None
        /\ UNCHANGED <<ptFirst, next, put, last, getPc, ptTmp, rest, freed, fault>>
    BY <1>5 DEF PutUnlock, taker, Quiet, PutPlace
  <2>2. Old' = Old /\ Old = put  BY <2>1 DEF Old
  <2>3. Shape'  BY <2>1, <2>2 DEF Quiet, Shape, InHand
  <2>4. PutPlace'  BY <2>1, <2>2 DEF PutPlace
  <2>5. GetPlace'  BY <2>1, <2>2 DEF Quiet, GetPlace
  <2> QED  BY <2>1, <2>3, <2>4, <2>5 DEF Quiet
<1> QED  BY <1>1, <1>2, <1>3, <1>4, <1>5 DEF Putter

\* The taker's steps and the cleaning.
LEMMA TakeQuiet ==
  ASSUME TypeInv, OrderInv, Quiet, Taker \/ CleanNode, ~raced'
  PROVE  Quiet'
<1> USE PutAssumption DEF PutAssumption
<1>0. /\ Old \in Nat /\ Old <= MaxPut /\ ptFirst \in Link /\ next \in [Node -> Link]
      /\ ptFirst # None => ptFirst <= Old /\ Old \in Node /\ ptFirst \in Node
  BY QuietList DEF TypeInv, LinkOK, Link
<1>1. Old' = Old /\ UNCHANGED <<next, tMutex, put, putPc, last, fault>>
  BY DEF Taker, GetCheck, GetTake, GetUnlink, GetClear, GetFree, CleanNode, Old, putter, list
<1>2. CASE GetCheck
  <2>1. /\ getPc = "idle" /\ getPc' = "take" /\ ptFirst # None /\ tMutex = "none"
        /\ UNCHANGED <<ptFirst, ptLast, ptTmp, rest, freed>>
    BY <1>2 DEF GetCheck, list
  <2>2. Shape'  BY <1>1, <2>1 DEF Quiet, Shape, InHand
  <2>3. PutPlace'  BY <1>1, <2>1 DEF Quiet, PutPlace
  <2>4. GetPlace'  BY <1>1, <2>1 DEF Quiet, PutPlace, GetPlace
  <2> QED  BY <1>1, <2>2, <2>3, <2>4 DEF Quiet
<1>3. CASE GetTake
  <2>1. /\ getPc = "take" /\ getPc' = "unlink" /\ ptTmp' = ptFirst /\ rest' = next[ptFirst]
        /\ UNCHANGED <<ptFirst, ptLast, freed>>
    BY <1>3 DEF GetTake, list
  <2>2. Shape'  BY <1>1, <2>1 DEF Quiet, Shape, InHand
  <2>3. PutPlace'  BY <1>1, <2>1 DEF Quiet, PutPlace
  <2>4. GetPlace'  BY <1>1, <2>1 DEF Quiet, GetPlace
  <2> QED  BY <1>1, <2>2, <2>3, <2>4 DEF Quiet
<1>4. CASE GetUnlink
  <2>1. /\ getPc = "unlink" /\ ptFirst' = rest /\ getPc' = IF rest = None THEN "clear" ELSE "free"
        /\ ptFirst # None /\ (putPc # "idle" => ptFirst < Old) /\ ptTmp = ptFirst
        /\ rest = next[ptFirst] /\ UNCHANGED <<ptLast, ptTmp, rest, freed>>
    BY <1>4 DEF GetUnlink, Quiet, GetPlace
  <2>2. ptFirst \in Node /\ ptFirst \in 1 .. Old  BY <1>0, <2>1 DEF Node
  <2>3. /\ ptFirst < Old => rest = ptFirst + 1
        /\ ptFirst >= Old => rest = None
    BY <2>1, <2>2 DEF Quiet, Shape, Node
  <2>4. InHand = {} /\ InHand' = {ptFirst}  BY <1>1, <2>1 DEF InHand
  <2>5. /\ \A n \in 1 .. Old : n < ptFirst <=> n \in freed
        /\ freed \subseteq 1 .. Old
    BY <2>1, <2>4 DEF Quiet, Shape
  <2>6. CASE ptFirst < Old
    <3>1. ptFirst' = ptFirst + 1 /\ ptFirst' # None  BY <1>0, <2>1, <2>2, <2>3, <2>6 DEF None, Node
    <3>2. \A n \in 1 .. Old' : n < ptFirst' <=> n \in freed' \cup InHand'
      BY <1>0, <1>1, <2>1, <2>2, <2>4, <2>5, <3>1
    <3>3. \A n \in Node : ptFirst' <= n /\ n < Old' => next'[n] = n + 1
      BY <1>0, <1>1, <2>1, <2>2, <3>1 DEF Quiet, Shape, Node
    <3>4. Shape'  BY <1>1, <2>1, <2>5, <3>1, <3>2, <3>3 DEF Quiet, Shape
    <3>5. getPc' = "free"  BY <2>1, <3>1
    <3>6. PutPlace'  BY <1>1, <2>1, <3>1 DEF Quiet, PutPlace
    <3>7. GetPlace'  BY <1>1, <2>1, <2>2, <3>5 DEF GetPlace
    <3> QED  BY <1>1, <3>4, <3>6, <3>7 DEF Quiet
  <2>7. CASE ptFirst >= Old
    <3>1. ptFirst' = None /\ getPc' = "clear" /\ putPc = "idle" /\ ptFirst = Old
      BY <1>0, <2>1, <2>2, <2>3, <2>7
    <3>2. \A n \in 1 .. Old' : n \in freed' \cup InHand'
      BY <1>0, <1>1, <2>1, <2>2, <2>4, <2>5, <3>1
    <3>3. Shape'  BY <1>1, <2>1, <2>5, <3>1, <3>2 DEF Quiet, Shape
    <3>4. PutPlace'  BY <1>1, <3>1 DEF Quiet, PutPlace
    <3>5. GetPlace'  BY <1>1, <2>1, <2>2, <3>1 DEF GetPlace
    <3> QED  BY <1>1, <3>3, <3>4, <3>5 DEF Quiet
  <2> QED  BY <1>0, <2>2, <2>6, <2>7
<1>5. CASE GetClear
  <2>1. /\ getPc = "clear" /\ getPc' = "free" /\ ptLast' = None /\ ptFirst = None /\ putPc = "idle"
        /\ UNCHANGED <<ptFirst, ptTmp, rest, freed>>
    BY <1>5 DEF GetClear, Quiet, GetPlace
  <2>2. Shape'  BY <1>1, <2>1 DEF Quiet, Shape, InHand
  <2>3. PutPlace'  BY <1>1, <2>1 DEF Quiet, PutPlace
  <2>4. GetPlace'  BY <1>1, <2>1 DEF Quiet, GetPlace
  <2> QED  BY <1>1, <2>2, <2>3, <2>4 DEF Quiet
<1>6. CASE GetFree
  <2>1. /\ getPc = "free" /\ getPc' = "idle" /\ freed' = freed \cup {ptTmp} /\ ptTmp' = None
        /\ ptTmp \in 1 .. Old /\ UNCHANGED <<ptFirst, ptLast>>
    BY <1>6 DEF GetFree, list, Quiet, GetPlace
  <2>2. freed' \cup InHand' = freed \cup InHand  BY <1>1, <2>1 DEF InHand
  <2>3. Shape'  BY <1>1, <2>1, <2>2 DEF Quiet, Shape
  <2>4. PutPlace'  BY <1>1, <2>1 DEF Quiet, PutPlace
  <2>5. GetPlace'  BY <1>1, <2>1 DEF Quiet, GetPlace
  <2> QED  BY <1>1, <2>3, <2>4, <2>5 DEF Quiet
<1>7. CASE CleanNode
  <2>1. /\ getPc = "idle" /\ tMutex = "none" /\ freed' = freed \cup InList
        /\ ptFirst' = None /\ ptLast' = None /\ UNCHANGED <<getPc, ptTmp, rest>>
    BY <1>7 DEF CleanNode, taker
  <2>2. InHand = {} /\ InHand' = {}  BY <2>1 DEF InHand
  <2>3. putPc = "idle"  BY <2>1 DEF Quiet, PutPlace
  <2>4. InList = IF ptFirst = None THEN {} ELSE ptFirst .. Old  BY QuietList
  <2>5. freed \subseteq 1 .. Old /\ InList \subseteq 1 .. Old
    BY <1>0, <2>4 DEF Quiet, Shape, Node
  <2>6. \A n \in 1 .. Old : n \in freed \cup InList
    BY <1>0, <2>2, <2>4 DEF Quiet, Shape, Node
  <2>7. Shape'  BY <1>1, <2>1, <2>2, <2>5, <2>6 DEF Quiet, Shape
  <2>8. PutPlace'  BY <1>1, <2>1, <2>3 DEF Quiet, PutPlace
  <2>9. GetPlace'  BY <1>1, <2>1 DEF Quiet, GetPlace
  <2> QED  BY <1>1, <2>7, <2>8, <2>9 DEF Quiet
<1> QED  BY <1>2, <1>3, <1>4, <1>5, <1>6, <1>7 DEF Taker

\* A race stays on record, and without one every step keeps the list quiet.
LEMMA StepQuiet ==
  ASSUME TypeInv, OrderInv, QuietInv, [Next]_vars
  PROVE  QuietInv'
<1> SUFFICES ASSUME ~raced' PROVE Quiet'  BY DEF QuietInv
<1>1. ~raced
  BY DEF Next, Putter, Taker, PutLock, PutFirst, PutReread, PutLink, PutUnlock, GetCheck,
         GetTake, GetUnlink, GetClear, GetFree, CleanNode, vars
<1>2. Quiet  BY <1>1 DEF QuietInv
<1>3. CASE UNCHANGED vars
  BY <1>2, <1>3 DEF vars, list, putter, taker, Quiet, Shape, PutPlace, GetPlace, Old, InHand
<1> QED  BY <1>2, <1>3, PutQuiet, TakeQuiet DEF Next

LEMMA QuietAlways == Spec => [](TypeInv /\ OrderInv /\ QuietInv)
<1>1. TypeInv /\ OrderInv /\ [Next]_vars => OrderInv'  BY StepOrder
<1>2. TypeInv /\ OrderInv /\ QuietInv /\ [Next]_vars => QuietInv'  BY StepQuiet
<1> QED  BY InitOrder, InitQuiet, TypeAlways, <1>1, <1>2, PTL DEF Spec

\* HarmOnlyByRace: a command is lost, NULL dereferenced or freed memory written
\* only after a put that began while the only node was being unlinked.
THEOREM HarmNeedsRace == Spec => []HarmOnlyByRace
<1>1. TypeInv /\ OrderInv /\ QuietInv => HarmOnlyByRace
  <2> SUFFICES ASSUME TypeInv, OrderInv, Quiet, putPc = "idle"
               PROVE  1 .. put = InList \cup freed \cup ({ptTmp} \ {None})
    BY DEF QuietInv, HarmOnlyByRace, Quiet
  <2>1. Old = put  BY DEF Old
  <2>2. /\ put \in Nat
        /\ ptFirst # None => ptFirst <= put /\ ptFirst \in Node
        /\ InList = IF ptFirst = None THEN {} ELSE ptFirst .. put
    BY <2>1, QuietList DEF TypeInv, LinkOK, Link
  <2>3. ptTmp # None => ptTmp \in 1 .. put
    BY <2>1, <2>2 DEF TypeInv, LinkOK, Link, Node, OrderInv, AllOld
  <2>4. InHand \subseteq {ptTmp} \ {None}
    BY DEF InHand, TypeInv, Held
  <2>5. InList \cup freed \cup ({ptTmp} \ {None}) \subseteq 1 .. put
    <3>1. freed \subseteq 1 .. put  BY <2>1 DEF Quiet, Shape
    <3>2. InList \subseteq 1 .. put  BY <2>2 DEF Node
    <3> QED  BY <2>3, <3>1, <3>2
  <2>6. ASSUME NEW n \in 1 .. put PROVE n \in InList \cup freed \cup ({ptTmp} \ {None})
    <3>1. CASE ptFirst = None  BY <2>1, <2>4, <3>1 DEF Quiet, Shape
    <3>2. CASE ptFirst # None
      <4>1. CASE n < ptFirst  BY <2>1, <2>4, <3>2, <4>1 DEF Quiet, Shape
      <4>2. CASE ~ (n < ptFirst)  BY <2>2, <3>2, <4>2 DEF Node
      <4> QED  BY <4>1, <4>2
    <3> QED  BY <3>1, <3>2
  <2> QED  BY <2>5, <2>6
<1> QED  BY QuietAlways, <1>1, PTL

-----------------------------------------------------------------------------
(***************************************************************************)
(* The FIFO.  Without a race the chain of the list is the sequence of the    *)
(* numbers from ptFirst to Old, and the steps of the list change it as the   *)
(* steps of CmdFifo change its queue.                                      *)
(***************************************************************************)
Run(a, b) == [i \in 1 .. b - a + 1 |-> a + i - 1]

\* How a run of numbers begins, ends and goes on.
LEMMA RunIsSeq ==
  \A a, b \in Nat : a <= b + 1 =>
    /\ Run(a, b) \in Seq(Nat) /\ Len(Run(a, b)) = b - a + 1
    /\ \A i \in 1 .. b - a + 1 : Run(a, b)[i] = a + i - 1
BY DEF Run

LEMMA RunFacts ==
  \A a, b \in Nat : a <= b =>
    /\ Run(a, b) # <<>> /\ Head(Run(a, b)) = a /\ Tail(Run(a, b)) = Run(a + 1, b)
    /\ <<a>> \o Run(a + 1, b) = Run(a, b)
    /\ Append(Run(a, b), b + 1) = Run(a, b + 1)
<1> SUFFICES ASSUME NEW a \in Nat, NEW b \in Nat, a <= b
             PROVE  /\ Run(a, b) # <<>> /\ Head(Run(a, b)) = a /\ Tail(Run(a, b)) = Run(a + 1, b)
                    /\ <<a>> \o Run(a + 1, b) = Run(a, b)
                    /\ Append(Run(a, b), b + 1) = Run(a, b + 1)
  OBVIOUS
<1> DEFINE r == Run(a, b)
           t == Run(a + 1, b)
           q == Run(a, b + 1)
<1>1. r \in Seq(Nat) /\ Len(r) = b - a + 1 /\ \A i \in 1 .. b - a + 1 : r[i] = a + i - 1
  BY RunIsSeq
<1>2. t \in Seq(Nat) /\ Len(t) = b - a /\ \A i \in 1 .. b - a : t[i] = a + i
  <2>1. a + 1 \in Nat /\ a + 1 <= b + 1 /\ b - (a + 1) + 1 = b - a  OBVIOUS
  <2>2. /\ t \in Seq(Nat) /\ Len(t) = b - (a + 1) + 1
        /\ \A i \in 1 .. b - (a + 1) + 1 : t[i] = (a + 1) + i - 1
    BY <2>1, RunIsSeq
  <2>3. \A i \in Nat : (a + 1) + i - 1 = a + i  OBVIOUS
  <2> HIDE DEF t
  <2> QED  BY <2>1, <2>2, <2>3
<1>3. q \in Seq(Nat) /\ Len(q) = b - a + 2 /\ \A i \in 1 .. b - a + 2 : q[i] = a + i - 1
  <2>1. b + 1 \in Nat /\ a <= (b + 1) + 1 /\ (b + 1) - a + 1 = b - a + 2  OBVIOUS
  <2> QED  BY <2>1, RunIsSeq
<1> HIDE DEF r, t, q
<1>4. r # <<>> /\ Head(r) = a  BY <1>1
<1>5. Tail(r) = t
  <2>1. /\ Tail(r) \in Seq(Nat) /\ Len(Tail(r)) = b - a
        /\ \A i \in 1 .. b - a : Tail(r)[i] = r[i + 1]
    BY <1>1, <1>4, HeadTailProperties
  <2>2. \A i \in 1 .. Len(Tail(r)) : Tail(r)[i] = t[i]  BY <1>1, <1>2, <2>1
  <2> QED  BY <1>2, <2>1, <2>2, SeqEqual
<1>6. <<a>> \o t = r
  <2> DEFINE c == <<a>> \o t
  <2>1. <<a>> \in Seq(Nat) /\ Len(<<a>>) = 1 /\ <<a>>[1] = a  OBVIOUS
  <2>2. /\ c \in Seq(Nat) /\ Len(c) = 1 + Len(t)
        /\ \A i \in 1 .. 1 + Len(t) : c[i] = IF i <= 1 THEN <<a>>[i] ELSE t[i - 1]
    BY <1>2, <2>1, ConcatProperties
  <2> HIDE DEF c
  <2>3. ASSUME NEW i \in 1 .. Len(c) PROVE c[i] = r[i]
    <3>1. CASE i = 1  BY <1>1, <1>2, <2>1, <2>2, <3>1
    <3>2. CASE i # 1
      <4>1. c[i] = t[i - 1] /\ i - 1 \in 1 .. b - a  BY <1>2, <2>2, <3>2
      <4> QED  BY <1>1, <1>2, <2>2, <4>1
    <3> QED  BY <3>1, <3>2
  <2>4. Len(c) = Len(r)  BY <1>1, <1>2, <2>2
  <2>5. c = r  BY <1>1, <2>2, <2>3, <2>4, SeqEqual
  <2> QED  BY <2>5 DEF c
<1>7. Append(r, b + 1) = q
  <2> DEFINE c == Append(r, b + 1)
  <2>1. /\ c \in Seq(Nat) /\ Len(c) = b - a + 2 /\ c[b - a + 2] = b + 1
        /\ \A i \in 1 .. b - a + 1 : c[i] = r[i]
    BY <1>1, AppendProperties
  <2> HIDE DEF c
  <2>2. ASSUME NEW i \in 1 .. Len(c) PROVE c[i] = q[i]
    <3>1. CASE i = b - a + 2  BY <1>3, <2>1, <3>1
    <3>2. CASE i # b - a + 2
      <4>1. i \in 1 .. b - a + 1  BY <2>1, <3>2
      <4> QED  BY <1>1, <1>3, <2>1, <4>1
    <3> QED  BY <3>1, <3>2
  <2>3. c = q  BY <1>3, <2>1, <2>2, SeqEqual
  <2> QED  BY <2>3 DEF c
<1> QED  BY <1>4, <1>5, <1>6, <1>7 DEF r, t, q

\* One number, and no number.
LEMMA ShortRuns == \A a \in Nat : Run(a, a) = <<a>> /\ Run(a + 1, a) = <<>>
BY DEF Run

\* Where the successors are none or the next node, Chain is the function its
\* definition describes: one such function exists.
LEMMA ChainDef ==
  ASSUME next \in [Node -> Link], \A n \in Node : next[n] \in {None, n + 1}
  PROVE  Chain = [n \in Link |-> IF n = None THEN <<>> ELSE <<n>> \o Chain[next[n]]]
<1> USE PutAssumption DEF PutAssumption
<1> DEFINE Ends(n) == {e \in Node : e >= n /\ next[e] = None}
           End(n) == CHOOSE e \in Ends(n) : \A k \in Ends(n) : e <= k
           f == [n \in Link |-> IF n = None THEN <<>> ELSE Run(n, End(n))]
<1>1. next[MaxPut] = None /\ MaxPut \in Node  BY DEF Link, Node, None
<1>2. ASSUME NEW n \in Node
      PROVE  End(n) \in Ends(n) /\ \A k \in Ends(n) : End(n) <= k
  <2>1. MaxPut \in Ends(n) /\ Ends(n) \subseteq Nat  BY <1>1 DEF Node
  <2>2. \E e \in Ends(n) : \A k \in Ends(n) : e <= k  BY <2>1, Least
  <2> QED  BY <2>2
<1>3. ASSUME NEW n \in Node PROVE f[n] = <<n>> \o f[next[n]]
  <2>1. n \in Nat /\ n # None /\ f[n] = Run(n, End(n))  BY DEF Node, Link, None
  <2>2. End(n) \in Node /\ n <= End(n) /\ End(n) \in Nat  BY <1>2 DEF Node
  <2>3. <<n>> \o Run(n + 1, End(n)) = Run(n, End(n))  BY <2>1, <2>2, RunFacts
  <2>4. CASE next[n] = None
    <3>1. n \in Ends(n)  BY <2>1, <2>4
    <3>2. End(n) = n  BY <1>2, <2>1, <2>2, <3>1
    <3>3. Run(n + 1, End(n)) = <<>>  BY <2>1, <3>2, ShortRuns
    <3>4. f[next[n]] = <<>>  BY <2>4 DEF Link
    <3> QED  BY <2>1, <2>3, <3>3, <3>4
  <2>5. CASE next[n] # None
    <3>1. next[n] = n + 1 /\ n + 1 \in Node /\ n + 1 # None
      BY <2>1, <2>5 DEF Link, Node, None
    <3>2. Ends(n) = Ends(n + 1)  BY <2>1, <2>5 DEF Node
    <3>e. End(n) = End(n + 1)  BY ONLY <3>2, Zenon DEF End
    <3>n. n + 1 \in Link  BY ONLY <3>1, Zenon DEF Link
    <3>r. f[n + 1] = Run(n + 1, End(n + 1))  BY ONLY <3>1, <3>n, Zenon
    <3>3. f[next[n]] = Run(n + 1, End(n))  BY ONLY <3>1, <3>e, <3>r, Zenon
    <3>4. f[n] = Run(n, End(n))  BY <2>1
    <3> HIDE DEF f, End
    <3>5. f[n] = <<n>> \o Run(n + 1, End(n))  BY ONLY <2>3, <3>4, Zenon
    <3> QED  BY ONLY <3>3, <3>5, Zenon
  <2> QED  BY <2>4, <2>5
<1>4. f[None] = <<>>  BY DEF Link
<1>5. f = [n \in Link |-> f[n]]  OBVIOUS
<1> HIDE DEF f
<1>6. f = [n \in Link |-> IF n = None THEN <<>> ELSE <<n>> \o f[next[n]]]
  <2>1. \A n \in Link : f[n] = IF n = None THEN <<>> ELSE <<n>> \o f[next[n]]
    BY <1>3, <1>4 DEF Link
  <2> QED  BY <1>5, <2>1
<1> QED  BY <1>6 DEF Chain, Link

\* What hangs on the first of the nodes that follow one another up to b.
LEMMA ChainIsRun ==
  ASSUME next \in [Node -> Link], \A n \in Node : next[n] \in {None, n + 1},
         NEW a \in Node, NEW b \in Node, a <= b,
         \A n \in Node : a <= n /\ n < b => next[n] = n + 1,
         next[b] = None
  PROVE  Chain[a] = Run(a, b)
<1> DEFINE Bad == {d \in Nat : d <= b - a /\ Chain[b - d] # Run(b - d, b)}
<1>1. \A n \in Node : Chain[n] = <<n>> \o Chain[next[n]]
  BY ChainDef DEF Link, Node, None
<1>2. Chain[None] = <<>>  BY ChainDef DEF Link
<1>3. a \in Nat /\ b \in Nat  BY PutAssumption DEF Node
<1>4. SUFFICES ASSUME Bad # {} PROVE FALSE
  <2>1. b - a \in Nat /\ b - (b - a) = a /\ b - a <= b - a  BY <1>3
  <2> SUFFICES ASSUME Chain[a] # Run(a, b) PROVE b - a \in Bad
    BY <1>4
  <2> QED  BY <2>1
<1>5. PICK d \in Bad : \A e \in Bad : d <= e  BY <1>4, Least
<1>6. b - d \in Node /\ a <= b - d /\ b - d <= b /\ d \in Nat
  BY <1>3, <1>5, PutAssumption DEF Node
<1>7. CASE d = 0
  <2>1. Chain[b] = <<b>>
    <3>1. Chain[b] = <<b>> \o <<>>  BY <1>1, <1>2
    <3> QED  BY <3>1
  <2>2. Run(b, b) = <<b>>  BY <1>3, ShortRuns
  <2> QED  BY <1>3, <1>5, <1>7, <2>1, <2>2
<1>8. CASE d # 0
  <2>1. d - 1 \in Nat /\ d - 1 <= b - a /\ ~ (d <= d - 1) /\ b - (d - 1) = (b - d) + 1
    BY <1>3, <1>5, <1>6, <1>8
  <2>2. Chain[(b - d) + 1] = Run((b - d) + 1, b)  BY <1>5, <2>1
  <2>3. next[b - d] = (b - d) + 1  BY <1>3, <1>6, <1>8
  <2>4. <<b - d>> \o Run((b - d) + 1, b) = Run(b - d, b)
    <3>1. b - d \in Nat  BY <1>6 DEF Node
    <3> QED  BY <1>3, <1>6, <3>1, RunFacts
  <2> QED  BY <1>1, <1>5, <1>6, <2>2, <2>3, <2>4
<1> QED  BY <1>7, <1>8


ListRun == IF ptFirst = None THEN <<>> ELSE Run(ptFirst, Old)

QueueIs == ~raced => Chain[ptFirst] = ListRun

LEMMA QuietQueue ==
  ASSUME TypeInv, OrderInv, QuietInv
  PROVE  QueueIs
<1> SUFFICES ASSUME Quiet PROVE Chain[ptFirst] = ListRun
  BY DEF QueueIs, QuietInv
<1>1. next \in [Node -> Link]  BY DEF TypeInv, LinkOK
<1>2. /\ Old \in Nat
      /\ ptFirst # None => ptFirst <= Old /\ Old \in Node /\ ptFirst \in Node
  BY QuietList DEF TypeInv, LinkOK, Link
<1>3. \A n \in Node : n \in Nat  BY DEF Node
<1>4. \A n \in Node : next[n] \in {None, n + 1}  BY <1>2, <1>3 DEF Quiet, Shape
<1>5. CASE ptFirst = None
  BY <1>1, <1>4, <1>5, ChainDef DEF Link, ListRun
<1>6. CASE ptFirst # None
  <2>1. /\ \A n \in Node : ptFirst <= n /\ n < Old => next[n] = n + 1
        /\ next[Old] = None
    BY <1>2, <1>6 DEF Quiet, Shape
  <2> QED  BY <1>1, <1>2, <1>4, <1>6, <2>1, ChainIsRun DEF ListRun
<1> QED  BY <1>5, <1>6

LEMMA QueueAlways == Spec => [](TypeInv /\ OrderInv /\ QuietInv /\ QueueIs)
<1>1. TypeInv /\ OrderInv /\ QuietInv => QueueIs  BY QuietQueue
<1> QED  BY QuietAlways, <1>1, PTL

\* What the refinement shows of the list.
AbsPut == IF putPc \in {"idle", "last"} THEN put ELSE put - 1
AbsGot == IF getPc \in {"clear", "free"} THEN Append(got, ptTmp) ELSE got

LEMMA AbsPutIsOld == TypeInv => AbsPut = Old
BY DEF AbsPut, Old, TypeInv, PcOK

\* The putter's steps: one of them puts, the others change nothing the FIFO has.
LEMMA PutImplements ==
  ASSUME TypeInv, TypeInv', OrderInv, Quiet, Quiet', Putter,
         Chain[ptFirst] = ListRun, Chain[ptFirst]' = ListRun'
  PROVE  Fifo!Put \/ UNCHANGED Fifo!vars
<1> USE PutAssumption DEF PutAssumption
<1>1. /\ Old \in Nat /\ Old <= MaxPut /\ put \in Nat /\ put' \in Nat
      /\ ptFirst # None => ptFirst <= Old /\ Old \in Node /\ ptFirst \in Nat
  BY QuietList DEF TypeInv, LinkOK, Link, PcOK, Node
<1>2. /\ UNCHANGED <<getPc, ptTmp, got>> /\ AbsGot' = AbsGot
  BY DEF Putter, PutLock, PutFirst, PutReread, PutLink, PutUnlock, taker, AbsGot
<1>3. AbsPut = Old /\ AbsPut' = Old'  BY AbsPutIsOld DEF AbsPut, Old, TypeInv, PcOK
<1>4. CASE PutFirst \/ PutLink
  <2>1. putPc \in {"first", "link"} /\ putPc' = "last" /\ put' = put /\ put \in Node
    BY <1>4 DEF PutFirst, PutLink, TypeInv, Held
  <2>2. Old = put - 1 /\ Old' = Old + 1 /\ Old + 1 <= MaxPut
    BY <1>1, <2>1 DEF Old, Node
  <2>3. Chain[ptFirst]' = Append(Chain[ptFirst], Old + 1)
    <3>1. CASE PutFirst
      <4>1. ptFirst = None /\ ptFirst' = Old + 1 /\ ptFirst' # None
        BY <1>1, <2>2, <3>1 DEF PutFirst, Quiet, PutPlace, None
      <4>2. ListRun = <<>> /\ ListRun' = Run(Old + 1, Old + 1)
        BY <2>2, <4>1 DEF ListRun
      <4>3. ListRun' = <<Old + 1>>  BY <1>1, <4>2, ShortRuns
      <4> QED  BY <4>2, <4>3
    <3>2. CASE PutLink
      <4>1. ptFirst # None /\ ptFirst' = ptFirst
        BY <3>2 DEF PutLink, Quiet, PutPlace
      <4>2. ListRun = Run(ptFirst, Old) /\ ListRun' = Run(ptFirst, Old + 1)
        BY <2>2, <4>1 DEF ListRun
      <4>3. Append(Run(ptFirst, Old), Old + 1) = Run(ptFirst, Old + 1)
        BY <1>1, <4>1, RunFacts
      <4> QED  BY <4>2, <4>3
    <3> QED  BY <1>4, <3>1, <3>2
  <2>4. AbsPut < MaxPut /\ AbsPut' = AbsPut + 1 /\ Chain[ptFirst]' = Append(Chain[ptFirst], AbsPut')
    BY <1>1, <1>3, <2>2, <2>3
  <2>5. Fifo!Put  BY <1>2, <2>4 DEF Fifo!Put, AbsPut, AbsGot
  <2> QED  BY <2>5
<1>5. CASE PutLock \/ PutReread \/ PutUnlock
  <2>1. ptFirst' = ptFirst
    BY <1>5 DEF PutLock, PutReread, PutUnlock, list
  <2>2. Old' = Old
    <3>1. CASE PutLock
      <4>1. putPc = "idle" /\ putPc' \in {"first", "reread"} /\ put' = put + 1
        BY <3>1 DEF PutLock
      <4> QED  BY <1>1, <4>1 DEF Old
    <3>2. CASE PutReread
      <4>1. putPc = "reread" /\ putPc' \in {"reread", "link"} /\ put' = put
        BY <3>2 DEF PutReread
      <4> QED  BY <4>1 DEF Old
    <3>3. CASE PutUnlock  BY <3>3 DEF PutUnlock, Old
    <3> QED  BY <1>5, <3>1, <3>2, <3>3
  <2>3. Chain[ptFirst]' = Chain[ptFirst]  BY <2>1, <2>2 DEF ListRun
  <2> QED  BY <1>2, <1>3, <2>2, <2>3 DEF Fifo!vars, AbsPut, AbsGot
<1> QED  BY <1>4, <1>5 DEF Putter

\* The taker's steps: the unlinking takes, a cleaning cleans.
LEMMA TakeImplements ==
  ASSUME TypeInv, TypeInv', OrderInv, Quiet, Quiet', Taker \/ CleanNode,
         Chain[ptFirst] = ListRun, Chain[ptFirst]' = ListRun'
  PROVE  Fifo!Next \/ UNCHANGED Fifo!vars
<1> USE PutAssumption DEF PutAssumption
<1>1. /\ Old \in Nat /\ Old <= MaxPut
      /\ ptFirst # None => ptFirst <= Old /\ Old \in Node /\ ptFirst \in Nat
  BY QuietList DEF TypeInv, LinkOK, Link, PcOK, Node
<1>2. Old' = Old /\ UNCHANGED <<put, putPc>> /\ AbsPut' = AbsPut
  BY DEF Taker, GetCheck, GetTake, GetUnlink, GetClear, GetFree, CleanNode, putter, Old, AbsPut
<1>3. CASE GetUnlink
  <2>1. /\ getPc = "unlink" /\ ptFirst # None /\ ptTmp = ptFirst /\ rest = next[ptFirst]
        /\ ptFirst' = rest /\ getPc' \in {"clear", "free"} /\ UNCHANGED <<ptTmp, got>>
    BY <1>3 DEF GetUnlink, Quiet, GetPlace
  <2>2. ptFirst \in Node  BY <2>1 DEF TypeInv, LinkOK, Link
  <2>3. Chain[ptFirst] = Run(ptFirst, Old)  BY <2>1 DEF ListRun
  <2>4. /\ Chain[ptFirst] # <<>> /\ Head(Chain[ptFirst]) = ptFirst
        /\ Tail(Chain[ptFirst]) = Run(ptFirst + 1, Old)
    <3>1. ptFirst \in Nat /\ Old \in Nat /\ ptFirst <= Old  BY <1>1, <2>1
    <3>2. /\ Run(ptFirst, Old) # <<>> /\ Head(Run(ptFirst, Old)) = ptFirst
          /\ Tail(Run(ptFirst, Old)) = Run(ptFirst + 1, Old)
      BY ONLY <3>1, RunFacts
    <3> QED  BY ONLY <2>3, <3>2
  <2>5. AbsGot' = Append(AbsGot, Head(Chain[ptFirst]))  BY <2>1, <2>4 DEF AbsGot
  <2>6. Chain[ptFirst]' = Run(ptFirst + 1, Old)
    <3>1. CASE ptFirst = Old
      <4>1. ptFirst' = None  BY <1>1, <2>1, <2>2, <3>1 DEF Quiet, Shape
      <4>2. Run(ptFirst + 1, Old) = <<>>  BY <1>1, <3>1, ShortRuns
      <4> QED  BY <4>1, <4>2 DEF ListRun
    <3>2. CASE ptFirst # Old
      <4>1. ptFirst' = ptFirst + 1 /\ ptFirst' # None
        BY <1>1, <2>1, <2>2, <3>2 DEF Quiet, Shape, None
      <4> QED  BY <1>2, <4>1 DEF ListRun
    <3> QED  BY <3>1, <3>2
  <2>7. Fifo!Take  BY <1>2, <2>4, <2>5, <2>6 DEF Fifo!Take, AbsPut, AbsGot
  <2> QED  BY <2>7 DEF Fifo!Next
<1>4. CASE CleanNode
  <2>1. CanClean /\ ptFirst' = None /\ AbsGot' = AbsGot
    BY <1>4 DEF CleanNode, taker, AbsGot
  <2>2. Chain[ptFirst]' = <<>>  BY <2>1 DEF ListRun
  <2>3. Fifo!Clean  BY <1>2, <2>1, <2>2 DEF Fifo!Clean, AbsPut, AbsGot
  <2> QED  BY <2>3 DEF Fifo!Next
<1>5. CASE GetCheck \/ GetTake \/ GetClear \/ GetFree
  <2>1. ptFirst' = ptFirst /\ AbsGot' = AbsGot
    BY <1>5 DEF GetCheck, GetTake, GetClear, GetFree, list, AbsGot
  <2>2. Chain[ptFirst]' = Chain[ptFirst]  BY <1>2, <2>1 DEF ListRun
  <2> QED  BY <1>2, <2>1, <2>2 DEF Fifo!vars, AbsPut, AbsGot
<1> QED  BY <1>3, <1>4, <1>5 DEF Taker

\* ImplementsFifo: until a put begins while the only node is being unlinked, the
\* list PutNodeToCmdQueue and GetNodeFromCmdQueue share is a FIFO queue.
THEOREM QueueImplementsFifo == Spec => ImplementsFifo
<1>1. Init => Fifo!Init
  <2> SUFFICES ASSUME Init PROVE Fifo!Init  OBVIOUS
  <2>1. next \in [Node -> Link] /\ \A n \in Node : next[n] \in {None, n + 1}
    BY DEF Init, Link
  <2>2. Chain[None] = <<>>  BY <2>1, ChainDef DEF Link
  <2> QED  BY <2>2 DEF Init, Fifo!Init
<1>2. ASSUME TypeInv, OrderInv, QuietInv, QueueIs, TypeInv', QuietInv', QueueIs', [Next]_vars
      PROVE  [raced' \/ Fifo!Next]_(Fifo!vars)
  <2> SUFFICES ASSUME ~raced' PROVE Fifo!Next \/ UNCHANGED Fifo!vars
    OBVIOUS
  <2>1. ~raced
    BY <1>2 DEF Next, Putter, Taker, PutLock, PutFirst, PutReread, PutLink, PutUnlock, GetCheck,
           GetTake, GetUnlink, GetClear, GetFree, CleanNode, vars
  <2>2. Quiet /\ Quiet'  BY <1>2, <2>1 DEF QuietInv
  <2>3. Chain[ptFirst] = ListRun /\ Chain[ptFirst]' = ListRun'
    BY <1>2, <2>1 DEF QueueIs
  <2>4. CASE UNCHANGED vars
    <3>1. UNCHANGED <<ptFirst, put, putPc, getPc, ptTmp, got>>
      BY <2>4 DEF vars, list, putter, taker
    <3>2. ListRun' = ListRun  BY <3>1 DEF ListRun, Old
    <3> QED  BY <2>3, <3>1, <3>2 DEF Fifo!vars
  <2>5. CASE Putter  BY <1>2, <2>2, <2>3, <2>5, PutImplements DEF Fifo!Next
  <2>6. CASE Taker \/ CleanNode  BY <1>2, <2>2, <2>3, <2>6, TakeImplements
  <2> QED  BY <1>2, <2>4, <2>5, <2>6 DEF Next
<1> QED  BY QueueAlways, <1>1, <1>2, PTL DEF Spec, ImplementsFifo
=============================================================================
