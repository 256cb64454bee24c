-------------------------- MODULE PmsgProofs --------------------------
(***************************************************************************)
(* Theorems about the two views of CliProcessThread, PmsgRecv and PmsgConn.  *)
(*                                                                         *)
(* The reassembly buffer, for any head, data and buffer length: BufInv says  *)
(* that outside the loop the bytes left are no whole message, hence at most   *)
(* HeadLen + MaxData - 1, and inside the loop they are what they were when    *)
(* the loop began; StreamInv that what was sent and not delivered is kept or  *)
(* still on the wire, in its order.                                         *)
(***************************************************************************)
EXTENDS PmsgRecv, PmsgConn, SequenceTheorems, WellFoundedInduction, TLAPS

\* A set of naturals that is not empty has a least element.
LEMMA Least ==
  ASSUME NEW T, T \subseteq Nat, T # {}
  PROVE  \E m \in T : \A k \in T : m <= k
<1> DEFINE R == OpToRel(<, Nat)
<1>1. \A x, y \in Nat : y < x => <<y, x>> \in R  BY DEF OpToRel
<1>2. IsWellFoundedOn(R, Nat)  BY NatLessThanWellFounded
<1> HIDE DEF R
<1>3. PICK m \in T : \A k \in T : ~ (<<k, m>> \in R)  BY <1>2, WFMin
<1>4. ASSUME NEW k \in T PROVE m <= k
  <2>1. m \in Nat /\ k \in Nat  OBVIOUS
  <2>2. ~ (k < m)  BY <1>1, <1>3, <2>1, Zenon
  <2> QED  BY <2>1, <2>2
<1> QED  BY <1>4

\* Hence a set that has 0 and with a number the next one has all of them.
LEMMA SetInduction ==
  ASSUME NEW T, 0 \in T, \A n \in Nat : n \in T => n + 1 \in T
  PROVE  \A n \in Nat : n \in T
<1> SUFFICES ASSUME Nat \ T # {} PROVE FALSE
  OBVIOUS
<1>1. PICK m \in Nat \ T : \A k \in Nat \ T : m <= k
  BY Least
<1>2. m # 0 /\ m - 1 \in Nat /\ (m - 1) + 1 = m  BY <1>1
<1>3. m - 1 \in T  BY <1>1, <1>2
<1> QED  BY <1>1, <1>2, <1>3

Bytes == Seq(Nat)

\* f has at i the first i elements of s one after the other.
Joins(f, s, n) ==
  \A i \in 1 .. n : f[i] = IF i = 1 THEN s[i] ELSE f[i - 1] \o s[i]

LEMMA JoinsOnce ==
  ASSUME NEW n \in Nat, NEW s, NEW t, NEW f, NEW g, Joins(f, s, n), Joins(g, t, n),
         \A i \in 1 .. n : s[i] = t[i]
  PROVE  \A i \in 1 .. n : f[i] = g[i]
<1> DEFINE Bad == {i \in 1 .. n : f[i] # g[i]}
<1> SUFFICES ASSUME Bad # {} PROVE FALSE
  OBVIOUS
<1>1. PICK i \in Bad : \A k \in Bad : i <= k
  <2>1. Bad \subseteq Nat  OBVIOUS
  <2> QED  BY <2>1, Least
<1>2. i \in 1 .. n /\ f[i] # g[i]  OBVIOUS
<1>3. CASE i = 1  BY <1>2, <1>3 DEF Joins
<1>4. CASE i # 1
  <2>1. i - 1 \in 1 .. n /\ ~ (i <= i - 1)  BY <1>2, <1>4
  <2>2. f[i - 1] = g[i - 1]  BY <1>1, <2>1
  <2> QED  BY <1>2, <1>4, <2>2 DEF Joins
<1> QED  BY <1>3, <1>4

LEMMA JoinsExists ==
  ASSUME NEW s \in Seq(Bytes)
  PROVE  \E f \in [1 .. Len(s) -> Bytes] : Joins(f, s, Len(s))
<1> DEFINE Has(n) == \E f \in [1 .. n -> Bytes] : Joins(f, s, n)
           T == {n \in Nat : n <= Len(s) => Has(n)}
<1>1. 0 \in T
  <2>1. [i \in 1 .. 0 |-> <<>>] \in [1 .. 0 -> Bytes]  OBVIOUS
  <2>2. Joins([i \in 1 .. 0 |-> <<>>], s, 0)  BY DEF Joins
  <2> QED  BY <2>1, <2>2
<1>2. ASSUME NEW n \in Nat, n \in T PROVE n + 1 \in T
  <2> SUFFICES ASSUME n + 1 <= Len(s) PROVE Has(n + 1)
    OBVIOUS
  <2>1. n <= Len(s) /\ n + 1 \in 1 .. Len(s)  OBVIOUS
  <2>2. PICK f \in [1 .. n -> Bytes] : Joins(f, s, n)  BY <1>2, <2>1
  <2> DEFINE m == IF n + 1 = 1 THEN s[n + 1] ELSE f[n] \o s[n + 1]
             g == [i \in 1 .. n + 1 |-> IF i = n + 1 THEN m ELSE f[i]]
  <2>3. m \in Bytes
    <3>1. s[n + 1] \in Bytes  BY <2>1, ElementOfSeq
    <3>2. CASE n = 0  BY <3>1, <3>2
    <3>3. CASE n # 0
      <4>1. f[n] \in Bytes  BY <2>2, <3>3
      <4>2. f[n] \o s[n + 1] \in Bytes  BY <3>1, <4>1, ConcatProperties DEF Bytes
      <4> QED  BY <3>3, <4>2
    <3> QED  BY <3>2, <3>3
  <2> HIDE DEF m
  <2>4. g \in [1 .. n + 1 -> Bytes]  BY <2>2, <2>3
  <2>5. Joins(g, s, n + 1)
    <3> SUFFICES ASSUME NEW i \in 1 .. n + 1
                 PROVE  g[i] = IF i = 1 THEN s[i] ELSE g[i - 1] \o s[i]
      BY DEF Joins
    <3>1. CASE i = n + 1
      <4>1. g[i] = m  BY <3>1
      <4>2. i # 1 => g[i - 1] = f[n]  BY <3>1
      <4> QED  BY <3>1, <4>1, <4>2 DEF m
    <3>2. CASE i # n + 1
      <4>1. i \in 1 .. n  BY <3>2
      <4>2. g[i] = f[i]  BY <4>1
      <4>3. i # 1 => g[i - 1] = f[i - 1]  BY <4>1
      <4>4. f[i] = IF i = 1 THEN s[i] ELSE f[i - 1] \o s[i]  BY <2>2, <4>1 DEF Joins
      <4> QED  BY <4>2, <4>3, <4>4
    <3> QED  BY <3>1, <3>2
  <2> HIDE DEF g
  <2> QED  BY <2>4, <2>5
<1> HIDE DEF T
<1>3. \A n \in Nat : n \in T  BY <1>1, <1>2, SetInduction
<1>4. Len(s) \in Nat  OBVIOUS
<1> QED  BY <1>3, <1>4 DEF T

\* FlattenSeq is the last of the joins.
LEMMA FlattenJoins ==
  ASSUME NEW s \in Seq(Bytes), s # <<>>
  PROVE  \E f \in [1 .. Len(s) -> Bytes] : Joins(f, s, Len(s)) /\ FlattenSeq(s) = f[Len(s)]
<1>1. PICK f \in [1 .. Len(s) -> Bytes] : Joins(f, s, Len(s))  BY JoinsExists
<1> DEFINE Def(h) == h = [i \in 1 .. Len(s) |-> IF i = 1 THEN s[i] ELSE h[i - 1] \o s[i]]
           c == CHOOSE h : Def(h)
<1>2. Def(f)
  <2>1. f = [i \in 1 .. Len(s) |-> f[i]]  OBVIOUS
  <2> QED  BY <1>1, <2>1 DEF Joins
<1>3. Def(c)  BY <1>2
<1>4. FlattenSeq(s) = c[Len(s)]
  <2>1. Len(s) # 0  OBVIOUS
  <2> QED  BY <2>1 DEF FlattenSeq
<1> HIDE DEF c
<1>5. Joins(c, s, Len(s))  BY <1>3 DEF Joins
<1>6. Len(s) \in Nat /\ Len(s) \in 1 .. Len(s)  OBVIOUS
<1>7. c[Len(s)] = f[Len(s)]  BY <1>1, <1>5, <1>6, JoinsOnce
<1> QED  BY <1>1, <1>4, <1>7

\* Flattening goes on at the end.
LEMMA FlattenAppend ==
  ASSUME NEW s \in Seq(Bytes), NEW b \in Bytes
  PROVE  /\ FlattenSeq(s) \in Bytes
         /\ FlattenSeq(Append(s, b)) = FlattenSeq(s) \o b
<1> DEFINE n == Len(s)
           t == Append(s, b)
<1>1. /\ t \in Seq(Bytes) /\ t # <<>> /\ Len(t) = n + 1 /\ t[n + 1] = b
      /\ \A i \in 1 .. n : t[i] = s[i]
  BY AppendProperties
<1>2. n \in Nat  OBVIOUS
<1>3. PICK g \in [1 .. Len(t) -> Bytes] : Joins(g, t, Len(t)) /\ FlattenSeq(t) = g[Len(t)]
  BY <1>1, FlattenJoins
<1> HIDE DEF t
<1>4. Joins(g, t, n) /\ g[n + 1] = IF n + 1 = 1 THEN b ELSE g[n] \o b
  <2>1. \A i \in 1 .. n + 1 : g[i] = IF i = 1 THEN t[i] ELSE g[i - 1] \o t[i]
    BY <1>1, <1>3 DEF Joins
  <2>2. Joins(g, t, n)  BY <1>2, <2>1 DEF Joins
  <2>3. n + 1 \in 1 .. n + 1 /\ (n + 1) - 1 = n  BY <1>2
  <2>4. g[n + 1] = IF n + 1 = 1 THEN b ELSE g[n] \o b  BY <1>1, <2>1, <2>3
  <2> QED  BY <2>2, <2>4
<1>5. CASE s = <<>>
  <2>1. FlattenSeq(s) = <<>>  BY <1>5 DEF FlattenSeq
  <2>2. FlattenSeq(t) = b  BY <1>1, <1>3, <1>4, <1>5
  <2>3. <<>> \in Bytes /\ <<>> \o b = b  BY ConcatEmptySeq DEF Bytes
  <2> QED  BY <2>1, <2>2, <2>3 DEF t
<1>6. CASE s # <<>>
  <2>1. PICK f \in [1 .. n -> Bytes] : Joins(f, s, n) /\ FlattenSeq(s) = f[n]
    BY <1>6, FlattenJoins
  <2>2. n \in 1 .. n /\ n + 1 # 1  BY <1>2, <1>6
  <2>3. f[n] = g[n]
    <3>1. \A i \in 1 .. n : s[i] = t[i]  BY <1>1
    <3>2. Joins(f, s, n) /\ Joins(g, t, n)  BY <1>4, <2>1
    <3> HIDE DEF n
    <3>3. \A i \in 1 .. n : f[i] = g[i]  BY <1>2, <3>1, <3>2, JoinsOnce
    <3> QED  BY <2>2, <3>3
  <2>4. FlattenSeq(t) = f[n] \o b  BY <1>1, <1>3, <1>4, <2>2, <2>3
  <2> QED  BY <2>1, <2>2, <2>4 DEF t
<1> QED  BY <1>5, <1>6

-----------------------------------------------------------------------------
(* Messages on the wire *)

LEMMA MessageBytes ==
  ASSUME NEW d \in Bytes
  PROVE  /\ Message(d) \in Bytes /\ Len(Message(d)) = HeadLen + Len(d)
         /\ Message(d)[1] = Flag /\ Message(d)[HeadLen] = Len(d)
         /\ \A i \in 1 .. Len(d) : Message(d)[HeadLen + i] = d[i]
<1> DEFINE head == [i \in 1 .. HeadLen |-> IF i = 1 THEN Flag ELSE IF i = HeadLen THEN Len(d) ELSE 0]
<1>1. /\ d \in Seq(Nat) /\ Len(d) \in Nat /\ HeadLen \in Nat /\ HeadLen >= 2 /\ Flag \in Nat
  BY BufferAssumption DEF BufferAssumption, Bytes
<1>2. head \in Seq(Nat) /\ Len(head) = HeadLen
  <2>1. \A i \in 1 .. HeadLen : head[i] \in Nat
    BY <1>1
  <2> QED BY <1>1, <2>1
<1>3. head[1] = Flag /\ head[HeadLen] = Len(d)  BY <1>1
<1> HIDE DEF head
<1>4. /\ head \o d \in Seq(Nat) /\ Len(head \o d) = HeadLen + Len(d)
      /\ \A i \in 1 .. HeadLen + Len(d) : (head \o d)[i] = IF i <= HeadLen THEN head[i] ELSE d[i - HeadLen]
  BY <1>1, <1>2, ConcatProperties
<1>5. (head \o d)[1] = Flag /\ (head \o d)[HeadLen] = Len(d)  BY <1>1, <1>3, <1>4
<1>6. ASSUME NEW i \in 1 .. Len(d) PROVE (head \o d)[HeadLen + i] = d[i]
  <2>1. HeadLen + i \in 1 .. HeadLen + Len(d) /\ ~ (HeadLen + i <= HeadLen) /\ (HeadLen + i) - HeadLen = i
    BY <1>1
  <2> QED  BY <1>4, <2>1
<1>7. Message(d) = head \o d  BY DEF Message, head
<1> QED BY <1>4, <1>5, <1>6, <1>7 DEF Bytes

\* The wire goes on with the message that is sent.
LEMMA WireAppend ==
  ASSUME NEW s \in Seq(Bytes), NEW d \in Bytes
  PROVE  /\ Wire(s) \in Bytes
         /\ Wire(Append(s, d)) = Wire(s) \o Message(d)
<1> DEFINE W(t) == [i \in 1 .. Len(t) |-> Message(t[i])]
<1>1. W(s) \in Seq(Bytes) /\ Len(W(s)) = Len(s)
  <2>1. \A i \in 1 .. Len(s) : Message(s[i]) \in Bytes  BY MessageBytes
  <2> QED  BY <2>1
<1>2. Message(d) \in Bytes  BY MessageBytes
<1>3. W(Append(s, d)) = Append(W(s), Message(d))
  <2> DEFINE t == Append(s, d)
             u == Append(W(s), Message(d))
  <2>1. /\ t \in Seq(Bytes) /\ Len(t) = Len(s) + 1 /\ t[Len(s) + 1] = d
        /\ \A i \in 1 .. Len(s) : t[i] = s[i]
    BY AppendProperties
  <2>2. /\ u \in Seq(Bytes) /\ Len(u) = Len(s) + 1 /\ u[Len(s) + 1] = Message(d)
        /\ \A i \in 1 .. Len(s) : u[i] = W(s)[i]
    <3> HIDE DEF W
    <3> QED  BY <1>1, <1>2, AppendProperties
  <2> HIDE DEF t, u
  <2>3. W(t) \in Seq(Bytes) /\ Len(W(t)) = Len(s) + 1
    <3>1. \A i \in 1 .. Len(t) : Message(t[i]) \in Bytes  BY <2>1, MessageBytes
    <3> QED  BY <2>1, <3>1
  <2>4. ASSUME NEW i \in 1 .. Len(s) + 1 PROVE W(t)[i] = u[i]
    <3>1. W(t)[i] = Message(t[i])  BY <2>1
    <3>2. CASE i = Len(s) + 1  BY <2>1, <2>2, <3>1, <3>2
    <3>3. CASE i # Len(s) + 1
      <4>1. i \in 1 .. Len(s)  BY <3>3
      <4> QED  BY <2>1, <2>2, <3>1, <4>1
    <3> QED  BY <3>2, <3>3
  <2> HIDE DEF W
  <2>5. W(t) = u  BY <2>2, <2>3, <2>4, SeqEqual
  <2> QED  BY <2>5 DEF t, u
<1> HIDE DEF W
<1>4. FlattenSeq(W(s)) \in Bytes /\ FlattenSeq(Append(W(s), Message(d))) = FlattenSeq(W(s)) \o Message(d)
  BY <1>1, <1>2, FlattenAppend
<1>5. Wire(s) = FlattenSeq(W(s)) /\ Wire(Append(s, d)) = FlattenSeq(W(Append(s, d)))
  BY DEF Wire, W
<1> QED  BY <1>3, <1>4, <1>5

LEMMA WireEmpty == Wire(<<>>) = <<>>
BY DEF Wire, FlattenSeq

LEMMA BytesAssociate == \A a, b, c \in Bytes : (a \o b) \o c = a \o (b \o c)
BY ConcatAssociative DEF Bytes

\* It begins with the first message.
LEMMA WireCons ==
  ASSUME NEW d \in Bytes, NEW r \in Seq(Bytes)
  PROVE  Wire(<<d>> \o r) = Message(d) \o Wire(r)
<1> DEFINE Is(s) == Wire(<<d>> \o s) = Message(d) \o Wire(s)
           T == {n \in Nat : \A s \in Seq(Bytes) : Len(s) = n => Is(s)}
<1>0. Message(d) \in Bytes /\ <<d>> \in Seq(Bytes) /\ <<>> \in Bytes /\ <<>> \in Seq(Bytes)
  BY MessageBytes DEF Bytes
<1>1. 0 \in T
  <2> SUFFICES ASSUME NEW s \in Seq(Bytes), Len(s) = 0 PROVE Is(s)
    OBVIOUS
  <2>1. s = <<>>  OBVIOUS
  <2>2. <<d>> \o <<>> = Append(<<>>, d)  OBVIOUS
  <2>3. Wire(Append(<<>>, d)) = Wire(<<>>) \o Message(d)  BY <1>0, WireAppend
  <2>4. \A m \in Bytes : <<>> \o m = m /\ m \o <<>> = m
    BY ConcatEmptySeq DEF Bytes
  <2>5. <<>> \o Message(d) = Message(d) /\ Message(d) \o <<>> = Message(d)
    BY <1>0, <2>4
  <2> QED  BY <2>1, <2>2, <2>3, <2>5, WireEmpty
<1>2. ASSUME NEW n \in Nat, n \in T PROVE n + 1 \in T
  <2> SUFFICES ASSUME NEW s \in Seq(Bytes), Len(s) = n + 1 PROVE Is(s)
    OBVIOUS
  <2>1. s # <<>>  OBVIOUS
  <2>2. PICK q \in Seq(Bytes), e \in Bytes : s = Append(q, e)  BY <2>1, SequenceEmptyOrAppend
  <2>3. Len(q) = n /\ Len(q) \in Nat
    <3>1. Len(Append(q, e)) = Len(q) + 1  BY AppendProperties
    <3> QED  BY <2>2, <3>1
  <2>4. Is(q)  BY <1>2, <2>3
  <2>5. <<d>> \o s = Append(<<d>> \o q, e)
    <3>1. s = q \o <<e>> /\ <<e>> \in Seq(Bytes)  BY <2>2, AppendIsConcat
    <3>2. <<d>> \o (q \o <<e>>) = (<<d>> \o q) \o <<e>>  BY <1>0, <3>1, ConcatAssociative
    <3>3. <<d>> \o q \in Seq(Bytes)  BY <1>0, ConcatProperties
    <3>4. Append(<<d>> \o q, e) = (<<d>> \o q) \o <<e>>  BY <3>3, AppendIsConcat
    <3> QED  BY <3>1, <3>2, <3>4
  <2>6. <<d>> \o q \in Seq(Bytes)  BY <1>0, ConcatProperties
  <2>7. Wire(<<d>> \o s) = Wire(<<d>> \o q) \o Message(e)  BY <2>5, <2>6, WireAppend
  <2>8. Wire(q) \in Bytes /\ Wire(s) = Wire(q) \o Message(e) /\ Message(e) \in Bytes
    BY <2>2, WireAppend, MessageBytes
  <2>9. (Message(d) \o Wire(q)) \o Message(e) = Message(d) \o (Wire(q) \o Message(e))
    BY ONLY <1>0, <2>8, BytesAssociate, Message(d) \in Bytes, Zenon
  <2>10. Wire(<<d>> \o q) = Message(d) \o Wire(q)  BY <2>4
  <2> QED  BY <2>7, <2>8, <2>9, <2>10, Zenon
<1> HIDE DEF T
<1>3. \A n \in Nat : n \in T  BY <1>1, <1>2, SetInduction
<1>4. Len(r) \in Nat  OBVIOUS
<1> QED  BY <1>3, <1>4 DEF T

\* When a message's head is there and what is there and to come are messages, the
\* head is that of the first one; when all of it is there, it is at the front.
LEMMA HeadOfWire ==
  ASSUME NEW b \in Bytes, NEW t \in Bytes, NEW rem \in Seq(Data), b \o t = Wire(rem),
         Len(b) >= HeadLen
  PROVE  \E d \in Data : \E r \in Seq(Data) :
           /\ b[1] = Flag /\ b[HeadLen] = Len(d) /\ Len(d) <= MaxData
           /\ HeadLen + Len(d) <= Len(b) =>
                /\ SubSeq(b, HeadLen + 1, HeadLen + Len(d)) = d
                /\ b = Message(d) \o SubSeq(b, HeadLen + Len(d) + 1, Len(b))
                /\ SubSeq(b, HeadLen + Len(d) + 1, Len(b)) \o t = Wire(r)
<1>0. HeadLen \in Nat /\ HeadLen >= 2 /\ Data \subseteq Bytes /\ \A d \in Data : Len(d) <= MaxData
  BY BufferAssumption DEF BufferAssumption, Bytes
<1>1. rem # <<>>
  <2> SUFFICES ASSUME rem = <<>> PROVE FALSE
    OBVIOUS
  <2>1. Len(b \o t) = Len(b) + Len(t) /\ Len(b) \in Nat /\ Len(t) \in Nat
    BY ConcatProperties DEF Bytes
  <2>2. Len(b \o t) = 0  BY WireEmpty
  <2> QED  BY <1>0, <2>1, <2>2
<1> DEFINE d == Head(rem)
           r == Tail(rem)
<1>2. d \in Data /\ r \in Seq(Data) /\ rem = <<d>> \o r
  <2>1. d \in Data /\ r \in Seq(Data)  BY <1>1, HeadTailProperties
  <2>2. rem = <<d>> \o r
    <3>1. Len(rem) \in Nat /\ 1 \in 1 .. Len(rem) /\ Len(rem) \in 1 .. Len(rem) /\ rem[1] = d  BY <1>1
    <3>2. SubSeq(rem, 1, Len(rem)) = rem  BY SubSeqFull
    <3>3. r = SubSeq(rem, 1 + 1, Len(rem))  BY <1>1, TailIsSubSeq
    <3>4. SubSeq(rem, 1, Len(rem)) = <<rem[1]>> \o SubSeq(rem, 1 + 1, Len(rem))
      BY <3>1, SubSeqRecursiveFirst
    <3> QED  BY <3>1, <3>2, <3>3, <3>4
  <2> QED  BY <2>1, <2>2
<1> HIDE DEF d, r
<1>3. d \in Bytes /\ r \in Seq(Bytes) /\ d \in Seq(Nat) /\ Len(d) \in Nat
  <2>1. d \in Bytes  BY <1>0, <1>2
  <2>2. r \in Seq(Bytes)  BY <1>0, <1>2, SeqMonotonic
  <2> QED  BY <2>1, <2>2 DEF Bytes
<1> DEFINE m == Message(d)
           w == Wire(r)
<1>4. /\ m \in Bytes /\ Len(m) = HeadLen + Len(d) /\ m[1] = Flag /\ m[HeadLen] = Len(d)
      /\ \A i \in 1 .. Len(d) : m[HeadLen + i] = d[i]
  BY <1>3, MessageBytes
<1>5. w \in Bytes  BY <1>3, WireAppend
<1>6. b \o t = m \o w  BY <1>2, <1>3, WireCons
<1> HIDE DEF m, w
<1>7. ASSUME NEW i \in 1 .. Len(b), i <= Len(m) PROVE b[i] = m[i]
  <2>1. b \in Seq(Nat) /\ t \in Seq(Nat) /\ m \in Seq(Nat) /\ w \in Seq(Nat) /\ i \in Nat
    BY <1>4, <1>5 DEF Bytes
  <2>2. (b \o t)[i] = b[i]
    <3>1. i \in 1 .. Len(b) + Len(t) /\ i <= Len(b)  BY <2>1
    <3> QED  BY <2>1, <3>1, ConcatProperties
  <2>3. (m \o w)[i] = m[i]
    <3>1. i \in 1 .. Len(m) + Len(w)  BY <1>7, <2>1
    <3> QED  BY <1>7, <2>1, <3>1, ConcatProperties
  <2> QED  BY <1>6, <2>2, <2>3
<1>8. b[1] = Flag /\ b[HeadLen] = Len(d)
  <2>1. Len(b) \in Nat  BY DEF Bytes
  <2>2. 1 \in 1 .. Len(b) /\ 1 <= Len(m) /\ HeadLen \in 1 .. Len(b) /\ HeadLen <= Len(m)
    BY <1>0, <1>3, <1>4, <2>1
  <2> QED  BY <1>4, <1>7, <2>2
<1>9. ASSUME HeadLen + Len(d) <= Len(b)
      PROVE  /\ SubSeq(b, HeadLen + 1, HeadLen + Len(d)) = d
             /\ b = m \o SubSeq(b, HeadLen + Len(d) + 1, Len(b))
             /\ SubSeq(b, HeadLen + Len(d) + 1, Len(b)) \o t = w
  <2>0. b \in Seq(Nat) /\ t \in Seq(Nat) /\ m \in Seq(Nat) /\ w \in Seq(Nat) /\ Len(b) \in Nat
    BY <1>4, <1>5 DEF Bytes
  <2> DEFINE k == HeadLen + Len(d)
             p == SubSeq(b, 1, k)
             x == SubSeq(b, k + 1, Len(b))
             e == SubSeq(b, HeadLen + 1, k)
  <2>1. k \in Nat /\ k <= Len(b) /\ k >= HeadLen /\ Len(m) = k  BY <1>0, <1>3, <1>4, <1>9
  <2>2. \A i \in 1 .. Len(b) : b[i] \in Nat  BY <2>0
  <2>3. e = d
    <3>1. /\ HeadLen + 1 \in Int /\ k \in Int /\ k - (HeadLen + 1) + 1 = Len(d)
          /\ \A i \in HeadLen + 1 .. k : b[i] \in Nat
      BY <1>0, <1>3, <2>1, <2>2
    <3>2. /\ e \in Seq(Nat) /\ Len(e) = IF HeadLen + 1 <= k THEN k - (HeadLen + 1) + 1 ELSE 0
          /\ \A i \in 1 .. k - (HeadLen + 1) + 1 : e[i] = b[(HeadLen + 1) + i - 1]
      BY <3>1, SubSeqProperties
    <3>3. Len(e) = Len(d)  BY <1>0, <1>3, <3>1, <3>2
    <3>4. ASSUME NEW i \in 1 .. Len(e) PROVE e[i] = d[i]
      <4>1. i \in 1 .. Len(d) /\ (HeadLen + 1) + i - 1 = HeadLen + i /\ HeadLen + i \in 1 .. Len(b)
            /\ HeadLen + i <= Len(m)
        BY <1>0, <1>3, <2>0, <2>1, <3>3
      <4>2. e[i] = b[HeadLen + i]  BY <3>1, <3>2, <4>1
      <4>3. b[HeadLen + i] = m[HeadLen + i]  BY <1>7, <4>1
      <4> QED  BY <1>4, <4>1, <4>2, <4>3
    <3> HIDE DEF e
    <3> QED  BY <1>3, <3>2, <3>3, <3>4, SeqEqual
  <2>4. p = m
    <3>1. 1 \in Int /\ k \in Int /\ \A i \in 1 .. k : b[i] \in Nat  BY <2>1, <2>2
    <3>2. /\ p \in Seq(Nat) /\ Len(p) = IF 1 <= k THEN k - 1 + 1 ELSE 0
          /\ \A i \in 1 .. k - 1 + 1 : p[i] = b[1 + i - 1]
      BY <3>1, SubSeqProperties
    <3>3. Len(p) = k  BY <1>0, <2>1, <3>2
    <3>4. ASSUME NEW i \in 1 .. Len(p) PROVE p[i] = m[i]
      <4>1. i \in 1 .. k - 1 + 1 /\ 1 + i - 1 = i /\ i \in 1 .. Len(b) /\ i <= Len(m)
        BY <2>0, <2>1, <3>3
      <4>2. p[i] = b[i]  BY <3>2, <4>1
      <4> QED  BY <1>7, <4>1, <4>2
    <3> HIDE DEF p
    <3> QED  BY <2>0, <2>1, <3>2, <3>3, <3>4, SeqEqual
  <2>5. x \in Seq(Nat)
    <3>1. k + 1 \in Int /\ Len(b) \in Int /\ \A i \in k + 1 .. Len(b) : b[i] \in Nat
      BY <2>0, <2>1, <2>2
    <3> QED  BY <3>1, SubSeqProperties
  <2>6. b = p \o x
    <3>1. 1 \in 1 .. Len(b) + 1 /\ k \in 1 - 1 .. Len(b) /\ Len(b) \in k .. Len(b)
      BY <2>0, <2>1
    <3>2. p \o x = SubSeq(b, 1, Len(b))  BY <2>0, <3>1, ConcatAdjacentSubSeq
    <3> QED  BY <2>0, <3>2, SubSeqFull
  <2> HIDE DEF k, p, x, e
  <2>7. x \o t = w
    <3>1. (m \o x) \o t = m \o w  BY <1>6, <2>4, <2>6
    <3>2. (m \o x) \o t = m \o (x \o t)  BY <2>0, <2>5, BytesAssociate DEF Bytes
    <3>3. x \o t \in Seq(Nat)  BY <2>0, <2>5, ConcatProperties
    <3>4. m \o (x \o t) = m \o w  BY <3>1, <3>2
    <3>5. \A u, v, z \in Seq(Nat) : u \o v = u \o z => v = z  BY ConcatSimplifications
    <3> QED  BY <2>0, <3>3, <3>4, <3>5
  <2> QED  BY <2>3, <2>4, <2>6, <2>7 DEF k, p, x, e
<1> QED  BY <1>0, <1>2, <1>8, <1>9 DEF m, w

-----------------------------------------------------------------------------
(* The buffer *)

Incomplete(b) ==
  /\ Len(b) < HeadLen + MaxData
  /\ Len(b) >= HeadLen => b[1] = Flag /\ Len(b) < HeadLen + b[HeadLen]

BufInv == TypeOK /\ Incomplete(pcLeaveBuf)

\* What follows a place of a byte sequence is a byte sequence.
LEMMA TailBytes ==
  ASSUME NEW s \in Seq(Nat), NEW m \in Nat, NEW n \in Nat, n <= Len(s)
  PROVE  /\ SubSeq(s, m + 1, n) \in Seq(Nat)
         /\ Len(SubSeq(s, m + 1, n)) = IF m + 1 <= n THEN n - m ELSE 0
<1>1. \A i \in (m + 1) .. n : i \in 1 .. Len(s) /\ s[i] \in Nat
  OBVIOUS
<1> QED BY <1>1

LEMMA InitInv == Init => BufInv
<1> SUFFICES ASSUME Init PROVE BufInv
  OBVIOUS
<1>1. BufLen > 0 /\ 0 < HeadLen + MaxData /\ HeadLen > 0 /\ 0 \in 0 .. MaxConn
  BY BufferAssumption DEF BufferAssumption
<1>2. <<>> \in Seq(Nat) /\ <<>> \in Seq(Data) /\ <<>> \in Seq(Seq(Nat)) /\ Len(<<>>) = 0
  OBVIOUS
<1>3. TypeOK
  BY <1>1, <1>2 DEF Init, TypeOK
<1>4. Incomplete(<<>>)
  BY <1>1, <1>2, BufferAssumption DEF BufferAssumption, Incomplete
<1> QED BY <1>3, <1>4 DEF Init, BufInv

LEMMA LeaveInv ==
  ASSUME BufInv, NEW l \in Seq(Nat), Incomplete(l), Leave(l)
  PROVE  BufInv'
<1>1. TypeOK'
  <2>1. Len(pcRecvBuf') < BufLen /\ pcRecvBuf' \in Seq(Nat)
    BY BufferAssumption DEF BufferAssumption, Leave
  <2> QED BY <2>1 DEF Leave, BufInv, TypeOK
<1>2. Incomplete(l)'
  BY DEF Leave, Incomplete
<1>3. pcLeaveBuf' = l
  BY DEF Leave
<1> QED BY <1>1, <1>3 DEF BufInv, Incomplete

LEMMA NextInv == BufInv /\ [Next]_vars => BufInv'
<1> SUFFICES ASSUME BufInv, [Next]_vars PROVE BufInv'
  OBVIOUS
<1> USE BufferAssumption DEF BufferAssumption
<1>0. /\ HeadLen \in Nat /\ HeadLen >= 2 /\ MaxData \in Nat /\ BufLen \in Nat
      /\ pcLeaveBuf \in Seq(Nat) /\ pcRecvBuf \in Seq(Nat) /\ stream \in Seq(Nat)
  BY DEF BufInv, TypeOK
<1>e. Incomplete(<<>>) /\ <<>> \in Seq(Nat)
  BY DEF Incomplete
<1>1. CASE CreateTcpSocket
  <2>1. conns' \in 0 .. MaxConn
    BY <1>1 DEF CreateTcpSocket, BufInv, TypeOK
  <2>2. stream' \in Seq(Nat) /\ sent' \in Seq(Data) /\ got' \in Seq(Seq(Nat))
    BY <1>1 DEF CreateTcpSocket
  <2> QED BY <1>1, <2>1, <2>2 DEF CreateTcpSocket, recv, BufInv, TypeOK, Incomplete
<1>2. CASE NvrSends
  <2>1. PICK d \in Data : sent' = Append(sent, d) /\ stream' = stream \o Message(d)
    BY <1>2 DEF NvrSends
  <2>2. sent' \in Seq(Data) /\ stream' \in Seq(Nat)
    <3>1. d \in Data /\ d \in Bytes  BY <1>0 DEF Bytes
    <3>2. Message(d) \in Seq(Nat)  BY <3>1, MessageBytes DEF Bytes
    <3> QED BY <1>0, <2>1, <3>1, <3>2 DEF BufInv, TypeOK
  <2> QED BY <1>2, <2>2 DEF NvrSends, recv, BufInv, TypeOK, Incomplete
<1>3. CASE Receive
  <2>1. PICK n \in 1 .. Len(stream) :
          /\ n <= Room
          /\ pcRecvBuf' = pcLeaveBuf \o SubSeq(stream, 1, n)
          /\ stream' = SubSeq(stream, n + 1, Len(stream))
    BY <1>3 DEF Receive
  <2>2. SubSeq(stream, 1, n) \in Seq(Nat) /\ Len(SubSeq(stream, 1, n)) = n
    <3>1. 0 + 1 = 1 /\ 0 \in Nat /\ n \in Nat /\ n <= Len(stream)
      BY <1>0
    <3> QED BY <1>0, <3>1, TailBytes
  <2>3. stream' \in Seq(Nat)
    <3>1. n \in Nat /\ Len(stream) \in Nat
      BY <1>0
    <3> QED BY <1>0, <2>1, <3>1, TailBytes
  <2>4. pcRecvBuf' \in Seq(Nat) /\ Len(pcRecvBuf') < BufLen
    BY <1>0, <2>1, <2>2 DEF Room
  <2> QED BY <1>3, <2>3, <2>4 DEF Receive, BufInv, TypeOK, Incomplete
<1>4. CASE Disconnect
  BY <1>4 DEF Disconnect, recv, BufInv, TypeOK, Incomplete
<1>5. CASE ShortHead
  <2>1. Incomplete(pcRecvBuf)
    BY <1>0, <1>5 DEF ShortHead, Incomplete
  <2> QED BY <1>0, <1>5, <2>1, LeaveInv DEF ShortHead
<1>6. CASE BadHead
  <2>1. Leave(<<>>)
    BY <1>6 DEF BadHead
  <2> QED BY <1>e, <2>1, LeaveInv
<1>7. CASE BadLength
  <2>1. Leave(<<>>)
    BY <1>7 DEF BadLength
  <2> QED BY <1>e, <2>1, LeaveInv
<1>8. CASE PartOfData
  <2>1. pcRecvBuf[HeadLen] \in Nat
    BY <1>0, <1>8 DEF PartOfData
  <2>2. Incomplete(pcRecvBuf)
    BY <1>0, <1>8, <2>1 DEF PartOfData, DataLen, Incomplete
  <2> QED BY <1>0, <1>8, <2>2, LeaveInv DEF PartOfData
<1>9. CASE Deliver
  <2>0. pcRecvBuf[HeadLen] \in Nat
    BY <1>0, <1>9 DEF Deliver
  <2>1. DataLen \in Nat /\ HeadLen + DataLen <= Len(pcRecvBuf) /\ Len(pcRecvBuf) \in Nat
    <3>1. pcRecvBuf[HeadLen] <= Len(pcRecvBuf) - HeadLen
      BY <1>9 DEF Deliver, DataLen
    <3> QED BY <1>0, <2>0, <3>1 DEF DataLen
  <2>2. SubSeq(pcRecvBuf, HeadLen + 1, HeadLen + DataLen) \in Seq(Nat)
    BY <1>0, <2>1, TailBytes
  <2>3. got' \in Seq(Seq(Nat))
    BY <1>9, <2>2 DEF Deliver, BufInv, TypeOK
  <2>4. pcRecvBuf' \in Seq(Nat) /\ Len(pcRecvBuf') <= Len(pcRecvBuf)
    <3>1. HeadLen + DataLen \in Nat
      BY <1>0, <2>1
    <3>2. /\ Rest \in Seq(Nat)
          /\ Len(Rest) = IF HeadLen + DataLen + 1 <= Len(pcRecvBuf)
                         THEN Len(pcRecvBuf) - (HeadLen + DataLen) ELSE 0
      BY <1>0, <2>1, <3>1, TailBytes DEF Rest
    <3> QED BY <1>9, <1>0, <2>1, <3>1, <3>2 DEF Deliver
  <2>5. Len(pcRecvBuf') < BufLen
    BY <1>0, <2>4 DEF BufInv, TypeOK
  <2> QED BY <1>9, <1>e, <2>3, <2>4, <2>5 DEF Deliver, BufInv, TypeOK
<1>10. CASE UNCHANGED vars
  BY <1>10 DEF vars, recv, BufInv, TypeOK, Incomplete
<1> QED
  BY <1>1, <1>2, <1>3, <1>4, <1>5, <1>6, <1>7, <1>8, <1>9, <1>10 DEF Next, Loop

\* The buffer state of CliProcessThread keeps its type; pcRecvBuf is never
\* filled beyond the buffer.
THEOREM TypeCorrect == Spec => []TypeOK
<1>1. BufInv => TypeOK
  BY DEF BufInv
<1> QED BY <1>1, InitInv, NextInv, PTL DEF Spec

\* Whatever the NVR sends and however TCP cuts it, recv has room.
THEOREM AlwaysRoom == Spec => []RoomToReceive
<1>1. BufInv => RoomToReceive
  BY BufferAssumption DEF BufferAssumption, BufInv, TypeOK, Incomplete, RoomToReceive, Room
<1> QED BY <1>1, InitInv, NextInv, PTL DEF Spec

\* No whole message is kept back, also when its first bytes are of an earlier
\* connection.
THEOREM AlwaysIncomplete == Spec => []LeftIsIncomplete
<1>1. BufInv => LeftIsIncomplete
  BY DEF BufInv, Incomplete, LeftIsIncomplete
<1> QED BY <1>1, InitInv, NextInv, PTL DEF Spec

-----------------------------------------------------------------------------
(***************************************************************************)
(* The stream.  As long as the connection began without old bytes, what is   *)
(* kept and what is to come are whole messages, so neither BadHead nor        *)
(* BadLength can come and each message is delivered as it was sent.         *)
(***************************************************************************)
Unread == Kept \o stream

StreamInv ==
  /\ pcRecvBuf # <<>> => iSocket
  /\ ~stale /\ iSocket =>
       /\ Wire(sent) = Wire(got) \o Unread
       /\ \E rem \in Seq(Data) : Unread = Wire(rem)

LEMMA StreamTypes ==
  ASSUME BufInv
  PROVE  /\ pcLeaveBuf \in Bytes /\ pcRecvBuf \in Bytes /\ Kept \in Bytes /\ stream \in Bytes
         /\ sent \in Seq(Bytes) /\ got \in Seq(Bytes) /\ Data \subseteq Bytes
<1>1. pcLeaveBuf \in Bytes /\ pcRecvBuf \in Bytes /\ stream \in Bytes /\ got \in Seq(Bytes)
  BY DEF BufInv, TypeOK, Bytes
<1>2. Data \subseteq Bytes  BY BufferAssumption DEF BufferAssumption, Bytes
<1>3. sent \in Seq(Data)  BY DEF BufInv, TypeOK
<1>4. sent \in Seq(Bytes)  BY <1>2, <1>3, SeqMonotonic
<1> QED  BY <1>1, <1>2, <1>4 DEF Kept

LEMMA InitStream == Init => StreamInv
<1> SUFFICES ASSUME Init PROVE StreamInv
  OBVIOUS
<1> QED  BY DEF Init, StreamInv

\* A step that moves bytes within what is unread.
LEMMA UnreadKeeps ==
  ASSUME StreamInv, UNCHANGED <<iSocket, stale, sent, got>>, Unread' = Unread, iSocket
  PROVE  StreamInv'
BY DEF StreamInv

\* An incomplete message is kept.
LEMMA LeaveKeeps ==
  ASSUME StreamInv, pcRecvBuf # <<>>, Leave(pcRecvBuf)
  PROVE  StreamInv'
<1>1. iSocket  BY DEF StreamInv
<1>2. Kept' = pcRecvBuf /\ Kept = pcRecvBuf /\ stream' = stream
  BY DEF Leave, Kept
<1>3. Unread' = Unread  BY <1>2 DEF Unread
<1> QED  BY <1>1, <1>3, UnreadKeeps DEF Leave

LEMMA NextStream == BufInv /\ StreamInv /\ [Next]_vars => StreamInv'
<1> SUFFICES ASSUME BufInv, StreamInv, [Next]_vars PROVE StreamInv'
  OBVIOUS
<1>0. /\ pcLeaveBuf \in Bytes /\ pcRecvBuf \in Bytes /\ Kept \in Bytes /\ stream \in Bytes
      /\ sent \in Seq(Bytes) /\ got \in Seq(Bytes) /\ Data \subseteq Bytes
      /\ HeadLen \in Nat /\ HeadLen >= 2
  BY StreamTypes, BufferAssumption DEF BufferAssumption
<1>a. Wire(got) \in Bytes /\ Unread \in Bytes
  <2>1. Wire(got) \in Bytes  BY <1>0, WireAppend
  <2>2. Unread \in Bytes  BY <1>0, ConcatProperties DEF Unread, Bytes
  <2> QED  BY <2>1, <2>2
<1>1. CASE CreateTcpSocket
  <2> SUFFICES ASSUME ~stale'
               PROVE  /\ Wire(sent)' = Wire(got)' \o Unread'
                      /\ \E rem \in Seq(Data) : Unread' = Wire(rem)
    BY <1>1 DEF CreateTcpSocket, StreamInv
  <2>1. pcLeaveBuf' = <<>> /\ pcRecvBuf' = <<>> /\ stream' = <<>> /\ sent' = <<>> /\ got' = <<>>
    BY <1>1 DEF CreateTcpSocket, StreamInv, recv
  <2>2. Unread' = <<>> /\ Wire(sent)' = <<>> /\ Wire(got)' = <<>>
    BY <2>1, WireEmpty DEF Unread, Kept
  <2>3. <<>> \in Seq(Data) /\ <<>> \o <<>> = <<>>  OBVIOUS
  <2> QED  BY <2>2, <2>3, WireEmpty
<1>2. CASE NvrSends
  <2>1. PICK d \in Data : sent' = Append(sent, d) /\ stream' = stream \o Message(d)
    BY <1>2 DEF NvrSends
  <2>2. d \in Bytes /\ Message(d) \in Bytes  BY <1>0, MessageBytes
  <2>3. Kept' = Kept /\ UNCHANGED <<iSocket, pcRecvBuf, got, stale>>
    BY <1>2 DEF NvrSends, recv, Kept
  <2>4. Unread' = Unread \o Message(d)
    <3>1. Unread' = Kept \o (stream \o Message(d))
      BY <2>1, <2>3 DEF Unread
    <3>2. Kept \in Bytes /\ stream \in Bytes /\ Message(d) \in Bytes
      BY <1>0, <2>2
    <3>3. (Kept \o stream) \o Message(d) = Kept \o (stream \o Message(d))
      BY ONLY <3>2, BytesAssociate, Zenon
    <3>4. Unread = Kept \o stream  BY Zenon DEF Unread
    <3> QED  BY ONLY <3>1, <3>3, <3>4
  <2> SUFFICES ASSUME ~stale, iSocket
               PROVE  /\ Wire(sent)' = Wire(got)' \o Unread'
                      /\ \E rem \in Seq(Data) : Unread' = Wire(rem)
    BY <2>3 DEF StreamInv
  <2>5. Wire(sent') = Wire(sent) \o Message(d)  BY <1>0, <2>1, <2>2, WireAppend
  <2>6. Wire(sent) = Wire(got) \o Unread  BY DEF StreamInv
  <2>7. Wire(sent') = Wire(got) \o Unread'
    BY <1>a, <2>2, <2>4, <2>5, <2>6, BytesAssociate
  <2>8. PICK rem \in Seq(Data) : Unread = Wire(rem)  BY DEF StreamInv
  <2>9. Append(rem, d) \in Seq(Data) /\ Unread' = Wire(Append(rem, d))
    <3>1. rem \in Seq(Bytes)  BY <1>0, SeqMonotonic
    <3>2. Wire(Append(rem, d)) = Wire(rem) \o Message(d)  BY <2>2, <3>1, WireAppend
    <3>3. Append(rem, d) \in Seq(Data)  BY AppendProperties
    <3> QED  BY <2>4, <2>8, <3>2, <3>3
  <2> QED  BY <2>3, <2>7, <2>9
<1>3. CASE Receive
  <2>1. PICK n \in 1 .. Len(stream) :
          /\ pcRecvBuf' = pcLeaveBuf \o SubSeq(stream, 1, n)
          /\ stream' = SubSeq(stream, n + 1, Len(stream))
    BY <1>3 DEF Receive
  <2>2. pcRecvBuf = <<>> /\ iSocket /\ UNCHANGED <<iSocket, pcLeaveBuf, sent, got, stale>>
    BY <1>3 DEF Receive
  <2> DEFINE a == SubSeq(stream, 1, n)
             b == SubSeq(stream, n + 1, Len(stream))
  <2>3. a \in Bytes /\ Len(a) = n /\ b \in Bytes /\ a \o b = stream
    <3>1. stream \in Seq(Nat) /\ Len(stream) \in Nat /\ n \in Nat /\ 1 <= n /\ n <= Len(stream)
          /\ \A i \in 1 .. Len(stream) : stream[i] \in Nat
      BY <1>0 DEF Bytes
    <3>2. 1 \in Int /\ n \in Int /\ n + 1 \in Int /\ Len(stream) \in Int
          /\ (\A i \in 1 .. n : stream[i] \in Nat) /\ \A i \in n + 1 .. Len(stream) : stream[i] \in Nat
      BY <3>1
    <3>3. a \in Seq(Nat) /\ Len(a) = IF 1 <= n THEN n - 1 + 1 ELSE 0  BY <3>2, SubSeqProperties
    <3>4. b \in Seq(Nat)  BY <3>2, SubSeqProperties
    <3>5. 1 \in 1 .. Len(stream) + 1 /\ n \in 1 - 1 .. Len(stream) /\ Len(stream) \in n .. Len(stream)
      BY <3>1
    <3>6. a \o b = SubSeq(stream, 1, Len(stream))  BY <3>1, <3>5, ConcatAdjacentSubSeq
    <3>7. a \o b = stream  BY <3>1, <3>6, SubSeqFull
    <3> HIDE DEF a, b
    <3> QED  BY <3>1, <3>3, <3>4, <3>7 DEF Bytes
  <2>4. pcRecvBuf' = pcLeaveBuf \o a /\ stream' = b  BY <2>1
  <2> HIDE DEF a, b
  <2>5. pcRecvBuf' # <<>>
    <3>0. pcLeaveBuf \in Seq(Nat) /\ a \in Seq(Nat)  BY <1>0, <2>3 DEF Bytes
    <3>1. Len(pcLeaveBuf \o a) = Len(pcLeaveBuf) + Len(a) /\ Len(pcLeaveBuf) \in Nat
      BY <3>0, ConcatProperties
    <3>2. Len(pcLeaveBuf \o a) # 0  BY <1>0, <2>3, <3>1
    <3> QED  BY <2>4, <3>2
  <2>6. Unread' = (pcLeaveBuf \o a) \o b /\ Unread = pcLeaveBuf \o stream
    BY <2>2, <2>4, <2>5 DEF Unread, Kept
  <2>7. (pcLeaveBuf \o a) \o b = pcLeaveBuf \o (a \o b)
    <3>1. pcLeaveBuf \in Bytes  BY <1>0
    <3>2. a \in Bytes /\ b \in Bytes  BY <2>3
    <3> HIDE DEF a, b
    <3> QED  BY ONLY <3>1, <3>2, BytesAssociate, Zenon
  <2>8. Unread = pcLeaveBuf \o (a \o b)
    <3>1. a \o b = stream  BY <2>3
    <3> QED  BY ONLY <3>1, <2>6
  <2>9. Unread' = Unread  BY ONLY <2>6, <2>7, <2>8
  <2> QED  BY <2>2, <2>9, UnreadKeeps, Zenon
<1>4. CASE Disconnect
  BY <1>4 DEF Disconnect, recv, StreamInv
<1>5. CASE ShortHead
  BY <1>5, LeaveKeeps DEF ShortHead
<1>6. CASE PartOfData
  <2>1. pcRecvBuf # <<>>  BY <1>0, <1>6 DEF PartOfData
  <2> QED  BY <1>6, <2>1, LeaveKeeps DEF PartOfData
<1>7. CASE BadHead \/ BadLength \/ Deliver
  <2>1. Len(pcRecvBuf) >= HeadLen /\ pcRecvBuf # <<>> /\ UNCHANGED <<iSocket, stream, sent, stale>>
    BY <1>0, <1>7 DEF BadHead, BadLength, Deliver, Leave
  <2>2. iSocket /\ Kept = pcRecvBuf  BY <2>1 DEF StreamInv, Kept
  <2> SUFFICES ASSUME ~stale
               PROVE  /\ Wire(sent)' = Wire(got)' \o Unread'
                      /\ \E rem \in Seq(Data) : Unread' = Wire(rem)
    BY <2>1, <2>2 DEF StreamInv
  <2>3. PICK rem \in Seq(Data) : pcRecvBuf \o stream = Wire(rem)
    BY <2>2 DEF StreamInv, Unread
  <2>4. PICK d \in Data, r \in Seq(Data) :
           /\ pcRecvBuf[1] = Flag /\ pcRecvBuf[HeadLen] = Len(d) /\ Len(d) <= MaxData
           /\ HeadLen + Len(d) <= Len(pcRecvBuf) =>
                /\ SubSeq(pcRecvBuf, HeadLen + 1, HeadLen + Len(d)) = d
                /\ pcRecvBuf = Message(d) \o SubSeq(pcRecvBuf, HeadLen + Len(d) + 1, Len(pcRecvBuf))
                /\ SubSeq(pcRecvBuf, HeadLen + Len(d) + 1, Len(pcRecvBuf)) \o stream = Wire(r)
    BY <1>0, <2>1, <2>3, HeadOfWire
  <2>5. d \in Bytes /\ Len(d) \in Nat /\ Message(d) \in Bytes /\ Len(pcRecvBuf) \in Nat
        /\ MaxData \in Nat
    <3>1. d \in Bytes /\ Message(d) \in Bytes  BY <1>0, MessageBytes
    <3> QED  BY <1>0, <3>1, BufferAssumption DEF BufferAssumption, Bytes
  <2>6. DataLen = Len(d) /\ ~ (DataLen > MaxData)  BY <2>4, <2>5 DEF DataLen
  <2>7. Deliver  BY <1>7, <2>4, <2>6 DEF BadHead, BadLength
  <2>8. Len(d) <= Len(pcRecvBuf) - HeadLen /\ HeadLen + Len(d) <= Len(pcRecvBuf)
    <3>1. Len(d) <= Len(pcRecvBuf) - HeadLen  BY <2>6, <2>7 DEF Deliver
    <3> QED  BY <1>0, <2>5, <3>1
  <2>9. Rest = SubSeq(pcRecvBuf, HeadLen + Len(d) + 1, Len(pcRecvBuf))  BY <2>6 DEF Rest
  <2>10. pcRecvBuf = Message(d) \o Rest /\ Rest \o stream = Wire(r)  BY <2>4, <2>8, <2>9
  <2>11. got' = Append(got, d)
    <3>1. got' = Append(got, SubSeq(pcRecvBuf, HeadLen + 1, HeadLen + Len(d)))
      BY <2>6, <2>7 DEF Deliver
    <3> QED  BY <2>4, <2>8, <3>1
  <2>12. Rest \in Bytes
    <3>1. HeadLen + Len(d) \in Nat  BY <1>0, <2>5
    <3>2. pcRecvBuf \in Seq(Nat) /\ Len(pcRecvBuf) <= Len(pcRecvBuf)  BY <1>0, <2>5 DEF Bytes
    <3>3. Rest \in Seq(Nat)  BY <2>5, <2>9, <3>1, <3>2, TailBytes
    <3> QED  BY <3>3 DEF Bytes
  <2>13. Kept' = Rest /\ stream' = stream  BY <2>1, <2>7 DEF Deliver, Kept
  <2>14. Unread' = Rest \o stream  BY <2>13 DEF Unread
  <2>15. Wire(got') = Wire(got) \o Message(d)  BY <1>0, <2>5, <2>11, WireAppend
  <2>16. Unread = Message(d) \o Unread'
    <3>1. Unread = (Message(d) \o Rest) \o stream  BY <2>2, <2>10 DEF Unread
    <3>2. Message(d) \in Bytes /\ stream \in Bytes  BY <1>0, <2>5
    <3>3. (Message(d) \o Rest) \o stream = Message(d) \o (Rest \o stream)
      BY <2>12, <3>2, BytesAssociate, Zenon
    <3> QED  BY <2>14, <3>1, <3>3
  <2>17. Unread' \in Bytes
    BY <1>0, <2>12, <2>14, ConcatProperties DEF Bytes
  <2>18. Wire(sent) = Wire(got) \o (Message(d) \o Unread')
    BY <2>2, <2>16 DEF StreamInv
  <2>19. Wire(sent) = Wire(got') \o Unread'
    <3>1. Wire(got) \in Bytes /\ Message(d) \in Bytes /\ Unread' \in Bytes
      BY <1>a, <2>5, <2>17
    <3>2. (Wire(got) \o Message(d)) \o Unread' = Wire(got) \o (Message(d) \o Unread')
      BY ONLY <3>1, BytesAssociate, Zenon
    <3> QED  BY ONLY <2>15, <2>18, <3>2
  <2> QED  BY <2>1, <2>10, <2>14, <2>19
<1>8. CASE UNCHANGED vars
  BY <1>8 DEF vars, recv, StreamInv, Unread, Kept
<1> QED
  BY <1>1, <1>2, <1>3, <1>4, <1>5, <1>6, <1>7, <1>8 DEF Next, Loop

\* NothingLost: on a connection that began without old bytes, what the NVR sent is
\* what was delivered, is kept, and is to come, however TCP cuts it.
THEOREM NothingIsLost == Spec => []NothingLost
<1>1. BufInv /\ StreamInv => NothingLost
  <2> SUFFICES ASSUME BufInv, StreamInv, ~stale, iSocket
               PROVE  Wire(sent) = (Wire(got) \o Kept) \o stream
    BY DEF NothingLost
  <2>1. Wire(got) \in Bytes /\ Kept \in Bytes /\ stream \in Bytes
    BY StreamTypes, WireAppend
  <2>2. Wire(sent) = Wire(got) \o (Kept \o stream)  BY DEF StreamInv, Unread
  <2> QED  BY <2>1, <2>2, BytesAssociate
<1> QED BY <1>1, InitInv, NextInv, InitStream, NextStream, PTL DEF Spec

-----------------------------------------------------------------------------
(***************************************************************************)
(* The connections, for any number of recorders and descriptors.  The       *)
(* invariant ConnInv says at each place of a client thread what its own      *)
(* descriptor, iSockfd and iConnectStatus are; with it who holds which       *)
(* descriptor (NoFdLeak) is inductive.                                      *)
(***************************************************************************)
Place(n) ==
  /\ cliSocket[n] # NoFd <=> cliPc[n] \in {"store", "status", "loop"}
  /\ cliPc[n] \in {"status", "loop"} => iSockfd[n] = cliSocket[n]
  /\ cliPc[n] \in {"connect", "store", "down"} => iSockfd[n] = NoFd
  /\ cliPc[n] \in {"connect", "store", "status"} => ~iConnectStatus[n]

\* The command thread has a recorder, and a number that was not overtaken is the
\* recorder's own.
SendsToNvr ==
  /\ sndPc # "idle" => target \in Nvr
  /\ sndPc = "sending" /\ ~overtaken /\ sendFd # NoFd => socket[sendFd] = target

ConnInv == ConnTypeOK /\ NoFdLeak /\ SendsToNvr /\ \A n \in Nvr : Place(n)

\* The kernel gives a free descriptor when there is one.
LEMMA LowestIsFree == ASSUME Free # {} PROVE Min(Free) \in Free
<1>1. Free \subseteq Nat
  BY ConnAssumption DEF ConnAssumption, Free, Fd
<1>2. PICK x \in Free : \A y \in Free : x <= y
  BY <1>1, Least
<1> QED BY <1>2 DEF Min

LEMMA ConnInitInv == ConnInit => ConnInv
<1> USE ConnAssumption DEF ConnAssumption
<1>1. ConnInit => ConnTypeOK
  <2> SUFFICES ASSUME ConnInit PROVE ConnTypeOK  OBVIOUS
  <2>1. /\ socket \in [Fd -> Nvr \cup {NoNvr}] /\ up \subseteq Nvr /\ failures \in 0 .. MaxFail
        /\ cliSocket \in [Nvr -> Fd \cup {NoFd}] /\ iHearCount \in [Nvr -> 0 .. HearMax]
        /\ cliPc \in [Nvr -> {"connect", "store", "status", "loop", "unset", "down"}]
        /\ iSockfd \in [Nvr -> Fd \cup {NoFd}] /\ iConnectStatus \in [Nvr -> BOOLEAN]
    BY DEF ConnInit, NoFd
  <2>2. /\ sndPc \in {"idle", "send", "sending"} /\ target \in Nvr \cup {NoNvr}
        /\ sendFd \in Fd \cup {NoFd} /\ cmds \in 0 .. MaxCmd
        /\ astray \subseteq Nvr /\ overtaken \in BOOLEAN
    <3>1. /\ sndPc = "idle" /\ target = NoNvr /\ sendFd = NoFd /\ cmds = 0 /\ astray = {}
          /\ overtaken = FALSE
      BY DEF ConnInit
    <3>2. cmds \in 0 .. MaxCmd  BY <3>1
    <3>3. overtaken \in BOOLEAN  BY <3>1, Zenon
    <3>4. /\ sndPc \in {"idle", "send", "sending"} /\ target \in Nvr \cup {NoNvr}
          /\ sendFd \in Fd \cup {NoFd} /\ astray \subseteq Nvr
      BY ONLY <3>1, Zenon
    <3> QED BY <3>2, <3>3, <3>4
  <2> QED BY <2>1, <2>2 DEF ConnTypeOK
<1>2. ConnInit => NoFdLeak
  BY DEF ConnInit, NoFdLeak, NoFd
<1>3. ConnInit => \A n \in Nvr : Place(n)
  BY DEF ConnInit, Place
<1>4. ConnInit => SendsToNvr
  BY DEF ConnInit, SendsToNvr
<1> QED BY <1>1, <1>2, <1>3, <1>4 DEF ConnInv

\* A step that leaves the client thread of m and its fields alone keeps its place.
LEMMA OtherPlace ==
  ASSUME NEW m, Place(m), cliSocket'[m] = cliSocket[m], cliPc'[m] = cliPc[m],
         iSockfd'[m] = iSockfd[m], iConnectStatus'[m] = iConnectStatus[m]
  PROVE  Place(m)'
BY DEF Place

\* Closing frees the descriptor of the thread that closes and no other.
LEMMA CloseKeeps ==
  ASSUME ConnInv, NEW n \in Nvr, cliPc[n] = "loop", CloseSocket(n)
  PROVE  ConnInv'
<1> USE ConnAssumption DEF ConnAssumption
<1>1. cliSocket[n] \in Fd /\ socket[cliSocket[n]] = n /\ NoFd \notin Fd
  BY DEF ConnInv, ConnTypeOK, Place, NoFdLeak, Fd, NoFd
<1>2. /\ socket' = [socket EXCEPT ![cliSocket[n]] = NoNvr]
      /\ cliSocket' = [cliSocket EXCEPT ![n] = NoFd]
      /\ cliPc' = [cliPc EXCEPT ![n] = "unset"]
      /\ overtaken' = (overtaken \/ (sndPc = "sending" /\ target = n))
      /\ UNCHANGED <<up, failures, iHearCount, shared, sender, astray>>
  BY DEF CloseSocket, Go
<1>3. ConnTypeOK'
  BY <1>2 DEF ConnInv, ConnTypeOK, shared, sender
<1>4. NoFdLeak'
  BY <1>1, <1>2 DEF ConnInv, ConnTypeOK, NoFdLeak, NoFd
<1>5. ASSUME NEW m \in Nvr PROVE Place(m)'
  BY <1>2, <1>5 DEF ConnInv, ConnTypeOK, Place, shared
<1>6. SendsToNvr'
  <2> SUFFICES ASSUME sndPc = "sending", ~overtaken, target # n, sendFd # NoFd
               PROVE  socket'[sendFd] = target
    BY <1>2 DEF ConnInv, SendsToNvr, sender
  <2>1. socket[sendFd] = target /\ sendFd \in Fd  BY DEF ConnInv, SendsToNvr, ConnTypeOK
  <2>2. sendFd # cliSocket[n]  BY <1>1, <2>1
  <2> QED BY <1>1, <1>2, <2>1, <2>2 DEF ConnInv, ConnTypeOK
<1> QED BY <1>3, <1>4, <1>5, <1>6 DEF ConnInv

LEMMA ConnNextInv == ConnInv /\ [ConnNext]_connVars => ConnInv'
<1> SUFFICES ASSUME ConnInv, [ConnNext]_connVars PROVE ConnInv'
  OBVIOUS
<1> USE ConnAssumption DEF ConnAssumption
<1>0. ConnTypeOK /\ NoFdLeak /\ SendsToNvr /\ (\A n \in Nvr : Place(n)) /\ NoFd \notin Fd
  BY DEF ConnInv, Fd, NoFd
<1>1. CASE GoesAway \/ ComesBack
  <2>1. UNCHANGED <<socket, client, shared, sender, history>> /\ up' \subseteq Nvr /\ failures' \in 0 .. MaxFail
    BY <1>0, <1>1 DEF GoesAway, ComesBack, ConnTypeOK
  <2> QED BY <1>0, <2>1 DEF client, shared, sender, history, ConnInv, ConnTypeOK, NoFdLeak, Place, SendsToNvr
<1>2. CASE Send
  <2>1. /\ UNCHANGED <<kernel, client, shared, cmds>> /\ sndPc' = "idle" /\ target' = NoNvr
        /\ sendFd' = NoFd /\ overtaken' = FALSE
    BY <1>2 DEF Send
  <2>2. astray' \subseteq Nvr
    <3>1. sndPc = "sending" /\ astray' \subseteq astray \cup {target}
      BY <1>2 DEF Send
    <3> QED BY <1>0, <3>1 DEF ConnTypeOK, SendsToNvr
  <2> QED BY <1>0, <2>1, <2>2 DEF kernel, client, shared, ConnInv, ConnTypeOK, NoFdLeak, Place, SendsToNvr
<1>9. CASE LoadFd
  <2>1. /\ UNCHANGED <<target, cmds, kernel, client, shared, astray>>
        /\ sndPc = "send" /\ sndPc' = "sending" /\ target \in Nvr
        /\ sendFd' = iSockfd[target] /\ overtaken' = (cliPc[target] = "unset")
    BY <1>0, <1>9 DEF LoadFd, SendsToNvr
  <2>2. ConnTypeOK'
    BY <1>0, <2>1 DEF kernel, client, shared, ConnTypeOK
  <2>3. ASSUME cliPc[target] # "unset", iSockfd[target] # NoFd PROVE socket[iSockfd[target]] = target
    BY <1>0, <2>1, <2>3 DEF ConnTypeOK, Place, NoFdLeak
  <2>4. SendsToNvr'
    BY <1>0, <2>1, <2>3 DEF SendsToNvr, kernel
  <2> QED BY <1>0, <2>1, <2>2, <2>4 DEF kernel, client, shared, ConnInv, NoFdLeak, Place
<1>3. ASSUME NEW n \in Nvr, CheckStatus(n) PROVE ConnInv'
  <2>1. UNCHANGED <<sendFd, kernel, client, shared, history>>
    BY <1>3 DEF CheckStatus
  <2>2. sndPc' \in {"idle", "send"} /\ target' \in Nvr \cup {NoNvr} /\ cmds' \in 0 .. MaxCmd
    BY <1>0, <1>3 DEF CheckStatus, ConnTypeOK
  <2>3. SendsToNvr'
    BY <1>0, <1>3, <2>2 DEF CheckStatus, SendsToNvr, ConnTypeOK
  <2> QED BY <1>0, <2>1, <2>2, <2>3 DEF kernel, client, shared, history, ConnInv, ConnTypeOK, NoFdLeak, Place
<1>4. ASSUME NEW n \in Nvr, Connect(n) PROVE ConnInv'
  <2> DEFINE f == Min(Free)
  <2>1. f \in Fd /\ socket[f] = NoNvr
    BY <1>4, LowestIsFree DEF Connect, Free
  <2>2. /\ cliSocket' = [cliSocket EXCEPT ![n] = f] /\ socket' = [socket EXCEPT ![f] = n]
        /\ cliPc[n] = "connect" /\ cliPc' = [cliPc EXCEPT ![n] = "store"]
        /\ UNCHANGED <<up, failures, iHearCount, shared, sender, history>>
    BY <1>4 DEF Connect, Go
  <2> HIDE DEF f
  <2>3. ConnTypeOK'
    BY <1>0, <2>1, <2>2 DEF ConnTypeOK, shared, sender, history
  <2>4. cliSocket[n] = NoFd
    BY <1>0, <2>2 DEF Place
  <2>5. NoFdLeak'
    BY <1>0, <2>1, <2>2, <2>4 DEF NoFdLeak, ConnTypeOK, NoFd
  <2>6. ASSUME NEW m \in Nvr PROVE Place(m)'
    BY <1>0, <2>1, <2>2, <2>6 DEF Place, ConnTypeOK, shared
  <2>7. SendsToNvr'
    <3> SUFFICES ASSUME sndPc = "sending", ~overtaken, sendFd # NoFd PROVE socket'[sendFd] = target
      BY <1>0, <2>2 DEF SendsToNvr, sender, history
    <3>1. socket[sendFd] = target /\ target \in Nvr /\ sendFd \in Fd
      BY <1>0 DEF SendsToNvr, ConnTypeOK
    <3>2. sendFd # f  BY <2>1, <3>1
    <3> QED BY <1>0, <2>1, <2>2, <3>1, <3>2 DEF ConnTypeOK
  <2> QED BY <2>3, <2>5, <2>6, <2>7 DEF ConnInv
<1>5. ASSUME NEW n \in Nvr, StoreFd(n) \/ StoreStatus(n) \/ UnsetFd(n) \/ UnsetStatus(n) \/ ConnectFails(n)
      PROVE  ConnInv'
  <2>1. UNCHANGED <<kernel, cliSocket, sender, history>>
    BY <1>5 DEF StoreFd, StoreStatus, UnsetFd, UnsetStatus, ConnectFails, client
  <2>2. ConnTypeOK'
    <3>1. cliPc' \in [Nvr -> {"connect", "store", "status", "loop", "unset", "down"}]
      BY <1>0, <1>5 DEF ConnTypeOK, Go, StoreFd, StoreStatus, UnsetFd, UnsetStatus, ConnectFails, client
    <3>2. iSockfd' \in [Nvr -> Fd \cup {NoFd}] /\ iConnectStatus' \in [Nvr -> BOOLEAN]
      BY <1>0, <1>5 DEF ConnTypeOK, StoreFd, StoreStatus, UnsetFd, UnsetStatus, ConnectFails
    <3>3. iHearCount' \in [Nvr -> 0 .. HearMax]
      BY <1>0, <1>5 DEF ConnTypeOK, StoreFd, StoreStatus, UnsetFd, UnsetStatus, ConnectFails, client
    <3> QED BY <1>0, <2>1, <3>1, <3>2, <3>3 DEF ConnTypeOK, kernel, sender, history
  <2>3. NoFdLeak'
    BY <1>0, <2>1 DEF NoFdLeak, kernel
  <2>4. ASSUME NEW m \in Nvr PROVE Place(m)'
    <3>1. CASE m # n
      <4>1. /\ cliPc'[m] = cliPc[m] /\ iSockfd'[m] = iSockfd[m]
            /\ iConnectStatus'[m] = iConnectStatus[m] /\ cliSocket'[m] = cliSocket[m]
        BY <1>0, <1>5, <2>1, <2>4, <3>1
           DEF ConnTypeOK, Go, StoreFd, StoreStatus, UnsetFd, UnsetStatus, ConnectFails, client
      <4> QED BY <1>0, <2>4, <4>1, OtherPlace
    <3>2. CASE m = n /\ StoreFd(n)
      BY <1>0, <3>2 DEF Place, ConnTypeOK, Go, StoreFd
    <3>3. CASE m = n /\ StoreStatus(n)
      BY <1>0, <3>3 DEF Place, ConnTypeOK, Go, StoreStatus
    <3>4. CASE m = n /\ UnsetFd(n)
      BY <1>0, <3>4 DEF Place, ConnTypeOK, Go, UnsetFd
    <3>5. CASE m = n /\ UnsetStatus(n)
      BY <1>0, <3>5 DEF Place, ConnTypeOK, Go, UnsetStatus
    <3>6. CASE m = n /\ ConnectFails(n)
      BY <1>0, <3>6 DEF Place, ConnTypeOK, ConnectFails, client
    <3> QED BY <1>5, <3>1, <3>2, <3>3, <3>4, <3>5, <3>6
  <2>5. SendsToNvr'
    BY <1>0, <2>1 DEF SendsToNvr, kernel, sender, history
  <2> QED BY <2>2, <2>3, <2>4, <2>5 DEF ConnInv
<1>6. ASSUME NEW n \in Nvr, Receives(n) \/ HearsNothing(n) PROVE ConnInv'
  <2>1. UNCHANGED <<kernel, cliSocket, cliPc, shared, sender, history>>
    BY <1>6 DEF Receives, HearsNothing
  <2>2. iHearCount' \in [Nvr -> 0 .. HearMax]
    BY <1>0, <1>6 DEF ConnTypeOK, Receives, HearsNothing
  <2> QED BY <1>0, <2>1, <2>2 DEF kernel, shared, sender, history, ConnInv, ConnTypeOK, NoFdLeak, Place, SendsToNvr
<1>7. ASSUME NEW n \in Nvr, CloseOnError(n) \/ CloseOnSilence(n) PROVE ConnInv'
  BY <1>7, CloseKeeps DEF CloseOnError, CloseOnSilence
<1>8. CASE UNCHANGED connVars
  BY <1>0, <1>8 DEF connVars, kernel, client, shared, sender, history, ConnInv, ConnTypeOK, NoFdLeak, Place, SendsToNvr
<1> QED
  BY <1>1, <1>2, <1>3, <1>4, <1>5, <1>6, <1>7, <1>8, <1>9 DEF ConnNext, Client

LEMMA ConnAlways == ConnSpec => []ConnInv
BY ConnInitInv, ConnNextInv, PTL DEF ConnSpec

\* Every field of the connections keeps its type.
THEOREM ConnTypeCorrect == ConnSpec => []ConnTypeOK
<1>1. ConnInv => ConnTypeOK
  BY DEF ConnInv
<1> QED BY <1>1, ConnAlways, PTL

\* On every path of CliProcessThread a descriptor is closed once, and by the
\* thread that opened it.
THEOREM NoFdEverLeaks == ConnSpec => []NoFdLeak
<1>1. ConnInv => NoFdLeak
  BY DEF ConnInv
<1> QED BY <1>1, ConnAlways, PTL

\* iConnectStatus never says more than iSockfd holds, but while closing.
THEOREM StatusAlwaysMeansSocket == ConnSpec => []StatusMeansSocket
<1>1. ConnInv => StatusMeansSocket
  BY DEF ConnInv, ConnTypeOK, Place, NoFdLeak, StatusMeansSocket
<1> QED BY <1>1, ConnAlways, PTL

\* PMSG_SendPmsgData reaches another recorder only through a number that was
\* closed after it was loaded, or loaded between the close and the reset of
\* iSockfd: for any number of recorders and descriptors.
THEOREM AstrayIsOvertaken == ConnSpec => AstrayOnlyIfOvertaken
<1>1. ConnInv /\ [ConnNext]_connVars => [astray' # astray => overtaken]_connVars
  <2> SUFFICES ASSUME ConnInv, ConnNext, astray' # astray PROVE overtaken
    BY DEF connVars
  <2>1. Send
    BY DEF ConnNext, GoesAway, ComesBack, Client, CheckStatus, LoadFd, Connect, StoreFd, StoreStatus, ConnectFails,
           Receives, HearsNothing, CloseOnSilence, CloseOnError, CloseSocket, UnsetFd, UnsetStatus, history
  <2>2. sndPc = "sending" /\ sendFd \in Fd /\ socket[sendFd] \notin {target, NoNvr}
    BY <2>1 DEF Send
  <2>3. sendFd # NoFd
    BY <2>2 DEF Fd, NoFd
  <2> QED BY <2>2, <2>3 DEF ConnInv, SendsToNvr
<1> QED BY <1>1, ConnAlways, PTL DEF ConnSpec, AstrayOnlyIfOvertaken
=============================================================================
