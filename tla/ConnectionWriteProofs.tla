----------------------- MODULE ConnectionWriteProofs -----------------------
(***************************************************************************)
(* For every size of the socket and of the buffers: the edge between a     *)
(* failed write and reregister is never missed, and the bytes handed over  *)
(* are, in order, those on the wire and those still queued.                *)
(***************************************************************************)
EXTENDS ConnectionWrite, SequenceTheorems, WellFoundedInduction, TLAPS

\* The space in the socket is a number of bytes.
RoomOK == room \in 0..Room

\* PeerReads relies on the invariant before it: if there was room, there is an
\* event already, and if there was none, WRITABLE is registered.
Inv == RoomOK /\ WakeupPending

LEMMA InitInv == Init => Inv
  BY BoundAssumption DEF Init, Inv, RoomOK, WakeupPending

LEMMA NextInv == Inv /\ [Next]_vars => Inv'
<1> SUFFICES ASSUME Inv, [Next]_vars PROVE Inv'
  OBVIOUS
<1> USE BoundAssumption DEF Inv, RoomOK, WakeupPending
<1>1. ASSUME NEW len \in 0..MaxBuf, Notify(len) PROVE Inv'
  BY <1>1 DEF Notify, vars
<1>2. CASE WriteReady
  <2>1. PICK n \in 0..Len(Head(outbuf)) : n <= room /\ room' = room - n
    BY <1>2 DEF WriteReady
  <2>2. n \in Nat
    BY <2>1
  <2>3. room' \in 0..Room
    BY <2>1, <2>2
  <2>4. pc' = "drain"
    BY <1>2 DEF WriteReady
  <2>5. QED BY <2>3, <2>4
<1>3. CASE WriteFails
  BY <1>3 DEF WriteFails
<1>4. CASE Drained
  BY <1>4 DEF Drained
<1>5. CASE Rearm
  BY <1>5 DEF Rearm
<1>6. CASE Event
  BY <1>6 DEF Event
<1>7. CASE PeerReads
  <2>1. RoomOK' /\ (room = 0 \/ room > 0)
    BY <1>7 DEF PeerReads
  <2>2. /\ armed' = (armed \/ (reg /\ room = 0))
        /\ sock = "open" /\ UNCHANGED <<outbuf, pc, reg, sock>>
    BY <1>7 DEF PeerReads
  <2>3. CASE ~(pc = "poll" /\ outbuf # <<>>)
    BY <2>1, <2>2, <2>3
  <2>4. CASE pc = "poll" /\ outbuf # <<>>
    <3>1. sock # "closed"
      BY <2>2
    <3>2. reg /\ (room > 0 => armed)
      BY <2>4, <3>1
    <3>3. reg' /\ armed'
      BY ONLY <2>1, <2>2, <3>2, Zenon
    <3> QED BY <2>1, <3>3
  <2> QED BY <2>3, <2>4
<1>8. CASE PeerResets
  BY <1>8 DEF PeerResets
<1>9. CASE UNCHANGED vars
  BY <1>9 DEF vars
<1> QED
  BY <1>1, <1>2, <1>3, <1>4, <1>5, <1>6, <1>7, <1>8, <1>9 DEF Next, Drain

\* While output is queued and the event loop polls, WRITABLE is registered and
\* the poller has an event if the socket has room or is broken (notify, writable).
THEOREM NoMissedWakeup == Spec => []WakeupPending
<1>1. Inv => WakeupPending
  BY DEF Inv
<1> QED
  BY <1>1, InitInv, NextInv, PTL DEF Spec

-----------------------------------------------------------------------------
(* Order.                                                                  *)

\* The bytes after the first a, up to the first b.
Run(a, b) == [i \in 1..(b - a) |-> a + i]

\* cut[k] is the number of bytes handed over before what is left of the k-th
\* queued buffer.
Cuts(cut) ==
  /\ wire = Run(0, cut[1]) /\ cut[Len(outbuf) + 1] = pushed
  /\ \A j, k \in 1..(Len(outbuf) + 1) : j <= k => cut[j] <= cut[k]
  /\ \A k \in 1..Len(outbuf) : outbuf[k] = Run(cut[k], cut[k + 1])

\* Wire and queue are adjacent runs of the bytes handed over.
Adjacent == \E cut \in [1..(Len(outbuf) + 1) -> 0..MaxBytes] : Cuts(cut)

Order == TypeOK /\ Adjacent

LEMMA RunIsSeq ==
  ASSUME NEW a \in 0..MaxBytes, NEW b \in 0..MaxBytes, a <= b
  PROVE  /\ Run(a, b) \in Seq(Byte) /\ Len(Run(a, b)) = b - a
         /\ \A i \in 1..(b - a) : Run(a, b)[i] = a + i
<1> DEFINE m == b - a
<1>1. m \in Nat /\ a \in Nat /\ b \in Nat /\ MaxBytes \in Nat
  BY BoundAssumption
<1>2. \A i \in 1..m : a + i \in 1..MaxBytes
  BY <1>1
<1>3. Run(a, b) = [i \in 1..m |-> a + i]
  BY DEF Run
<1> HIDE DEF m
<1>4. Run(a, b) \in [1..m -> Byte]
  BY <1>2, <1>3 DEF Byte
<1>5. Run(a, b) \in Seq(Byte) /\ Len(Run(a, b)) = m
  BY <1>1, <1>3, <1>4
<1>6. \A i \in 1..m : Run(a, b)[i] = a + i
  BY <1>3
<1> QED BY <1>5, <1>6 DEF m

LEMMA RunConcat ==
  ASSUME NEW a \in 0..MaxBytes, NEW b \in 0..MaxBytes, NEW c \in 0..MaxBytes,
         a <= b, b <= c
  PROVE  Run(a, b) \o Run(b, c) = Run(a, c)
<1> DEFINE s == Run(a, b) \o Run(b, c)
<1>0. a \in Nat /\ b \in Nat /\ c \in Nat /\ a <= c
  BY BoundAssumption
<1>1. /\ Run(a, b) \in Seq(Byte) /\ Len(Run(a, b)) = b - a
      /\ \A i \in 1..(b - a) : Run(a, b)[i] = a + i
  BY RunIsSeq
<1>2. /\ Run(b, c) \in Seq(Byte) /\ Len(Run(b, c)) = c - b
      /\ \A i \in 1..(c - b) : Run(b, c)[i] = b + i
  BY RunIsSeq
<1>3. /\ Run(a, c) \in Seq(Byte) /\ Len(Run(a, c)) = c - a
      /\ \A i \in 1..(c - a) : Run(a, c)[i] = a + i
  BY <1>0, RunIsSeq
<1>4. s \in Seq(Byte) /\ Len(s) = (b - a) + (c - b)
  BY <1>1, <1>2, ConcatProperties
<1>5. Len(s) = c - a
  BY <1>0, <1>4
<1>6. ASSUME NEW i \in 1..(c - a) PROVE s[i] = a + i
  <2>1. i \in Nat /\ i \in 1..((b - a) + (c - b))
    BY <1>0
  <2>2. s[i] = IF i <= b - a THEN Run(a, b)[i] ELSE Run(b, c)[i - (b - a)]
    BY <1>1, <1>2, <2>1, ConcatProperties
  <2>3. CASE i <= b - a
    <3>1. i \in 1..(b - a)
      BY <2>3
    <3> QED BY <2>2, <2>3, <3>1, <1>1
  <2>4. CASE ~(i <= b - a)
    <3>1. i - (b - a) \in 1..(c - b) /\ b + (i - (b - a)) = a + i
      BY <2>1, <2>4, <1>0
    <3> QED BY <2>2, <2>4, <3>1, <1>2
  <2> QED BY <2>3, <2>4
<1> HIDE DEF s
<1>7. s = Run(a, c)
  BY <1>3, <1>4, <1>5, <1>6, SeqEqual
<1> QED BY <1>7 DEF s

LEMMA SliceFacts ==
  ASSUME NEW s \in Seq(Byte), NEW a \in Nat, NEW b \in Nat, a <= b, b <= Len(s)
  PROVE  /\ SubSeq(s, a + 1, b) \in Seq(Byte)
         /\ Len(SubSeq(s, a + 1, b)) = b - a
         /\ \A x \in 1..(b - a) : SubSeq(s, a + 1, b)[x] = s[a + x]
<1>1. \A i \in (a + 1)..b : i \in 1..Len(s)
  OBVIOUS
<1>2. \A i \in (a + 1)..b : s[i] \in Byte
  BY <1>1, ElementOfSeq
<1>3. /\ SubSeq(s, a + 1, b) \in Seq(Byte)
      /\ Len(SubSeq(s, a + 1, b)) = IF a + 1 <= b THEN b - (a + 1) + 1 ELSE 0
      /\ \A i \in 1..(b - (a + 1) + 1) : SubSeq(s, a + 1, b)[i] = s[a + 1 + i - 1]
  BY <1>2, SubSeqProperties
<1>4. b - (a + 1) + 1 = b - a
  OBVIOUS
<1>5. \A i \in 1..(b - a) : a + 1 + i - 1 = a + i
  OBVIOUS
<1> QED BY <1>3, <1>4, <1>5

LEMMA RunSplit ==
  ASSUME NEW a \in 0..MaxBytes, NEW b \in 0..MaxBytes, a <= b, NEW n \in 0..(b - a)
  PROVE  /\ SubSeq(Run(a, b), 1, n) = Run(a, a + n)
         /\ SubSeq(Run(a, b), n + 1, b - a) = Run(a + n, b)
<1> DEFINE r == Run(a, b)
<1>0. a \in Nat /\ b \in Nat /\ n \in Nat /\ a + n \in 0..MaxBytes /\ a <= a + n /\ a + n <= b
  BY BoundAssumption
<1>1. /\ r \in Seq(Byte) /\ Len(r) = b - a
      /\ \A i \in 1..(b - a) : r[i] = a + i
  BY RunIsSeq
<1>2. /\ Run(a, a + n) \in Seq(Byte) /\ Len(Run(a, a + n)) = n
      /\ \A i \in 1..n : Run(a, a + n)[i] = a + i
  <2>1. (a + n) - a = n
    BY <1>0
  <2> QED BY <1>0, <2>1, RunIsSeq
<1>3. /\ Run(a + n, b) \in Seq(Byte) /\ Len(Run(a + n, b)) = b - (a + n)
      /\ \A i \in 1..(b - (a + n)) : Run(a + n, b)[i] = (a + n) + i
  BY <1>0, RunIsSeq
<1> HIDE DEF r
<1>4. SubSeq(r, 1, n) = Run(a, a + n)
  <2>1. /\ SubSeq(r, 0 + 1, n) \in Seq(Byte) /\ Len(SubSeq(r, 0 + 1, n)) = n - 0
        /\ \A i \in 1..(n - 0) : SubSeq(r, 0 + 1, n)[i] = r[0 + i]
    BY <1>0, <1>1, SliceFacts
  <2>2. 0 + 1 = 1 /\ n - 0 = n /\ \A i \in 1..n : 0 + i = i /\ i \in 1..(b - a)
    BY <1>0
  <2>3. /\ SubSeq(r, 1, n) \in Seq(Byte) /\ Len(SubSeq(r, 1, n)) = n
        /\ \A i \in 1..n : SubSeq(r, 1, n)[i] = a + i
    BY <1>1, <2>1, <2>2
  <2> QED BY <1>2, <2>3, SeqEqual
<1>5. SubSeq(r, n + 1, b - a) = Run(a + n, b)
  <2>1. b - a \in Nat /\ n <= b - a /\ b - a <= Len(r) /\ (b - a) - n = b - (a + n)
    BY <1>0, <1>1
  <2>2. /\ SubSeq(r, n + 1, b - a) \in Seq(Byte)
        /\ Len(SubSeq(r, n + 1, b - a)) = (b - a) - n
        /\ \A i \in 1..((b - a) - n) : SubSeq(r, n + 1, b - a)[i] = r[n + i]
    BY <1>0, <1>1, <2>1, SliceFacts
  <2>3. \A i \in 1..(b - (a + n)) : n + i \in 1..(b - a) /\ a + (n + i) = (a + n) + i
    BY <1>0
  <2>4. \A i \in 1..(b - (a + n)) : SubSeq(r, n + 1, b - a)[i] = (a + n) + i
    BY <1>1, <2>1, <2>2, <2>3
  <2> DEFINE t == SubSeq(r, n + 1, b - a)
             u == Run(a + n, b)
  <2>5. t \in Seq(Byte) /\ u \in Seq(Byte) /\ Len(t) = b - (a + n) /\ Len(u) = b - (a + n)
    BY <1>3, <2>1, <2>2
  <2>6. \A i \in 1..(b - (a + n)) : t[i] = u[i]
    BY <1>3, <2>4
  <2> HIDE DEF t, u
  <2>7. Len(t) = Len(u) /\ \A i \in 1..Len(t) : t[i] = u[i]
    BY <2>5, <2>6
  <2>8. t = u
    BY <2>5, <2>7, SeqEqual
  <2> QED BY <2>8 DEF t, u
<1> QED BY <1>4, <1>5 DEF r

LEMMA InitOrder == Init => Order
<1> SUFFICES ASSUME Init PROVE Order
  OBVIOUS
<1>1. /\ outbuf = <<>> /\ wire = <<>> /\ room = Room /\ pushed = 0
      /\ pc = "poll" /\ reg = FALSE /\ armed = FALSE /\ sock = "open"
  BY DEF Init
<1>2. outbuf \in Seq(Seq(Byte)) /\ wire \in Seq(Byte) /\ Len(outbuf) = 0
  BY <1>1, EmptySeq
<1>3. room \in 0..Room /\ pushed \in 0..MaxBytes
  BY <1>1, BoundAssumption
<1>4. TypeOK
  BY <1>1, <1>2, <1>3 DEF TypeOK
<1>5. Adjacent
  <2> DEFINE cut == [k \in 1..1 |-> 0]
  <2>1. cut \in [1..(Len(outbuf) + 1) -> 0..MaxBytes] /\ cut[1] = 0
    BY <1>2, BoundAssumption
  <2>2. Run(0, 0) = wire
    <3>1. 0 \in 0..MaxBytes
      BY BoundAssumption
    <3>2. Run(0, 0) \in Seq(Byte) /\ Len(Run(0, 0)) = 0 - 0
      BY <3>1, RunIsSeq
    <3>3. Len(Run(0, 0)) = 0
      BY <3>2
    <3> QED BY <3>2, <3>3, <1>1, EmptySeq
  <2> HIDE DEF cut
  <2>3. Cuts(cut)
    BY <1>1, <1>2, <2>1, <2>2 DEF Cuts
  <2> QED BY <2>1, <2>3 DEF Adjacent
<1> QED BY <1>4, <1>5 DEF Order

\* A buffer handed over takes the next bytes.
LEMMA NotifyOrder ==
  ASSUME Order, NEW len \in 0..MaxBuf, Notify(len)
  PROVE  Order'
<1>0. CASE sock = "closed"
  <2>1. UNCHANGED vars
    BY <1>0 DEF Notify
  <2> QED BY <2>1 DEF Order, TypeOK, Adjacent, Cuts, vars
<1>1. CASE sock # "closed"
  <2> DEFINE m == Len(outbuf)
             b == [i \in 1..len |-> pushed + i]
  <2>1. /\ pushed + len <= MaxBytes /\ outbuf' = Append(outbuf, b) /\ pushed' = pushed + len
        /\ pc' = "drain" /\ UNCHANGED <<room, wire, reg, armed, sock>>
    BY <1>1 DEF Notify
  <2>2. PICK cut \in [1..(m + 1) -> 0..MaxBytes] : Cuts(cut)
    BY DEF Order, Adjacent
  <2>3. /\ outbuf \in Seq(Seq(Byte)) /\ m \in Nat
        /\ pushed \in 0..MaxBytes /\ pushed \in Nat /\ len \in Nat
        /\ MaxBytes \in Nat
    BY BoundAssumption DEF Order, TypeOK
  <2>4. pushed + len \in 0..MaxBytes /\ (pushed + len) - pushed = len /\ pushed <= pushed + len
    BY <2>1, <2>3
  <2>5. b = Run(pushed, pushed + len)
    BY <2>4 DEF Run
  <2>6. b \in Seq(Byte)
    BY <2>3, <2>4, <2>5, RunIsSeq
  <2> HIDE DEF b
  <2>7. /\ outbuf' \in Seq(Seq(Byte)) /\ Len(outbuf') = m + 1
        /\ \A i \in 1..m : outbuf'[i] = outbuf[i]
        /\ outbuf'[m + 1] = b
    BY <2>1, <2>3, <2>6, AppendProperties
  <2>8. TypeOK'
    BY <2>1, <2>4, <2>7 DEF Order, TypeOK
  <2> DEFINE c == [k \in 1..((m + 1) + 1) |-> IF k <= m + 1 THEN cut[k] ELSE pushed + len]
  <2>9. /\ wire = Run(0, cut[1]) /\ cut[m + 1] = pushed
        /\ \A j, k \in 1..(m + 1) : j <= k => cut[j] <= cut[k]
        /\ \A k \in 1..m : outbuf[k] = Run(cut[k], cut[k + 1])
    BY <2>2 DEF Cuts
  <2> HIDE DEF m
  <2>10. /\ \A k \in 1..(m + 1) : c[k] = cut[k] /\ cut[k] \in 0..MaxBytes
         /\ c[(m + 1) + 1] = pushed + len
    BY <2>3
  <2>11. c \in [1..((m + 1) + 1) -> 0..MaxBytes]
    BY <2>3, <2>4
  <2> HIDE DEF c
  <2>12. ASSUME NEW j \in 1..((m + 1) + 1), NEW k \in 1..((m + 1) + 1), j <= k PROVE c[j] <= c[k]
    <3>1. CASE k <= m + 1
      <4>1. j \in 1..(m + 1) /\ k \in 1..(m + 1)
        BY <2>3, <2>12, <3>1
      <4> QED BY <4>1, <2>9, <2>10, <2>12
    <3>2. CASE ~(k <= m + 1)
      <4>1. k = (m + 1) + 1
        BY <2>3, <3>2
      <4>2. CASE j = k
        BY <4>1, <4>2, <2>4, <2>10
      <4>3. CASE j # k
        <5>1. j \in 1..(m + 1) /\ m + 1 \in 1..(m + 1) /\ j <= m + 1
          BY <2>3, <4>1, <4>3
        <5>2. cut[j] <= pushed /\ cut[j] \in Nat
          BY <5>1, <2>9, <2>10
        <5>3. cut[j] <= pushed + len
          BY ONLY <5>2, <2>3
        <5> QED BY <5>1, <5>3, <4>1, <2>10
      <4> QED BY <4>2, <4>3
    <3> QED BY <3>1, <3>2
  <2>13. ASSUME NEW k \in 1..(m + 1) PROVE outbuf'[k] = Run(c[k], c[k + 1])
    <3>1. CASE k = m + 1
      <4>1. c[k] = pushed /\ c[k + 1] = pushed + len
        BY <3>1, <2>9, <2>10, <2>13
      <4> QED BY <4>1, <3>1, <2>5, <2>7
    <3>2. CASE k # m + 1
      <4>1. k \in 1..m /\ k + 1 \in 1..(m + 1)
        BY <2>3, <3>2
      <4>2. c[k] = cut[k] /\ c[k + 1] = cut[k + 1]
        BY <4>1, <2>10
      <4> QED BY <4>1, <4>2, <2>7, <2>9
    <3> QED BY <3>1, <3>2
  <2>14. wire' = Run(0, c[1])
    <3>1. 1 \in 1..(m + 1)
      BY <2>3
    <3> QED BY <3>1, <2>1, <2>9, <2>10
  <2>15. c[(m + 1) + 1] = pushed'
    BY <2>1, <2>10
  <2>16. Adjacent'
    <3>0. PICK d : d = c
      OBVIOUS
    <3>1. Cuts(d)'
      BY <2>7, <2>12, <2>13, <2>14, <2>15, <3>0 DEF Cuts
    <3>2. d \in [1..(Len(outbuf') + 1) -> 0..MaxBytes]
      BY <2>7, <2>11, <3>0
    <3> QED BY <3>1, <3>2 DEF Adjacent
  <2> QED BY <2>8, <2>16 DEF Order
<1> QED BY <1>0, <1>1

\* What is written moves from the front of the queue to the end of the wire.
LEMMA WriteOrder ==
  ASSUME Order, WriteReady
  PROVE  Order'
<1> DEFINE m == Len(outbuf)
<1>1. PICK n \in 0..Len(Head(outbuf)) :
         /\ n <= room
         /\ wire' = wire \o SubSeq(Head(outbuf), 1, n)
         /\ room' = room - n
         /\ outbuf' = AfterWrite(n)
  BY DEF WriteReady
<1>2. /\ pc = "drain" /\ outbuf # <<>> /\ sock = "open"
      /\ UNCHANGED <<pushed, pc, reg, armed, sock>>
  BY DEF WriteReady
<1>3. PICK cut \in [1..(m + 1) -> 0..MaxBytes] : Cuts(cut)
  BY DEF Order, Adjacent
<1>4. /\ outbuf \in Seq(Seq(Byte)) /\ wire \in Seq(Byte) /\ m \in Nat /\ m > 0
      /\ room \in 0..Room /\ Room \in Nat /\ MaxBytes \in Nat /\ pushed \in 0..MaxBytes
  BY <1>2, BoundAssumption, EmptySeq DEF Order, TypeOK
<1>5. /\ wire = Run(0, cut[1]) /\ cut[m + 1] = pushed
      /\ \A j, k \in 1..(m + 1) : j <= k => cut[j] <= cut[k]
      /\ \A k \in 1..m : outbuf[k] = Run(cut[k], cut[k + 1])
  BY <1>3 DEF Cuts
<1>6. /\ Tail(outbuf) \in Seq(Seq(Byte)) /\ Len(Tail(outbuf)) = m - 1
      /\ \A i \in 1..(m - 1) : Tail(outbuf)[i] = outbuf[i + 1]
      /\ Head(outbuf) = outbuf[1]
  BY <1>2, <1>4, HeadTailProperties
<1> HIDE DEF m
<1> DEFINE a == cut[1]
           b == cut[2]
<1>7. /\ 1 \in 1..m /\ 1 \in 1..(m + 1) /\ 2 \in 1..(m + 1)
  BY <1>4
<1>8. a \in 0..MaxBytes /\ b \in 0..MaxBytes /\ a <= b /\ 0 \in 0..MaxBytes
  BY <1>4, <1>5, <1>7
<1>9. Head(outbuf) = Run(a, b)
  BY <1>5, <1>6, <1>7
<1>10. \A k \in 1..(m + 1) : cut[k] \in 0..MaxBytes
  BY <1>3
<1>11. \A k \in 1..(m + 1) : 2 <= k => b <= cut[k]
  BY <1>5, <1>7
<1> HIDE DEF a, b
<1>12. a \in Nat /\ b \in Nat /\ Len(Head(outbuf)) = b - a
  <2>1. a \in Nat /\ b \in Nat
    BY <1>4, <1>8
  <2>2. Len(Run(a, b)) = b - a
    BY <1>8, RunIsSeq
  <2> QED BY <2>1, <2>2, <1>9
<1>13. n \in 0..(b - a) /\ n \in Nat /\ a + n \in 0..MaxBytes /\ a <= a + n /\ a + n <= b /\ 0 <= a
  BY <1>1, <1>8, <1>12, <1>4
<1>14. /\ SubSeq(Head(outbuf), 1, n) = Run(a, a + n)
       /\ SubSeq(Head(outbuf), n + 1, Len(Head(outbuf))) = Run(a + n, b)
  <2>1. /\ SubSeq(Run(a, b), 1, n) = Run(a, a + n)
        /\ SubSeq(Run(a, b), n + 1, b - a) = Run(a + n, b)
    BY <1>8, <1>13, RunSplit
  <2> QED BY ONLY <2>1, <1>9, <1>12
<1>15. wire' = Run(0, a + n) /\ wire' \in Seq(Byte)
  <2>1. wire' = Run(0, a) \o Run(a, a + n)
    BY <1>1, <1>5, <1>14 DEF a
  <2>2. wire' = Run(0, a + n)
    BY <2>1, <1>8, <1>13, RunConcat
  <2>3. 0 <= a + n
    BY <1>13
  <2> QED BY <2>2, <2>3, <1>8, <1>13, RunIsSeq
<1>16. room' \in 0..Room
  BY <1>1, <1>4, <1>13
<1>17. ASSUME outbuf' \in Seq(Seq(Byte)) PROVE TypeOK'
  BY <1>2, <1>15, <1>16, <1>17 DEF Order, TypeOK
<1>18. CASE n = Len(Head(outbuf))
  <2> DEFINE c == [k \in 1..m |-> cut[k + 1]]
  <2>1. outbuf' = Tail(outbuf) /\ a + n = b
    BY <1>1, <1>12, <1>18 DEF AfterWrite
  <2>2. outbuf' \in Seq(Seq(Byte)) /\ Len(outbuf') + 1 = m
    BY <2>1, <1>4, <1>6
  <2>3. \A k \in 1..m : c[k] = cut[k + 1] /\ k + 1 \in 1..(m + 1) /\ c[k] \in 0..MaxBytes
    BY <1>4, <1>10
  <2>4. c \in [1..m -> 0..MaxBytes]
    BY <2>3
  <2> HIDE DEF c
  <2>5. c[1] = b
    <3>1. 1 + 1 = 2
      OBVIOUS
    <3> QED BY <2>3, <3>1, <1>7 DEF b
  <2>6. c[m] = pushed
    <3>1. m \in 1..m
      BY <1>4
    <3> QED BY <2>3, <3>1, <1>5
  <2>7. ASSUME NEW j \in 1..m, NEW k \in 1..m, j <= k PROVE c[j] <= c[k]
    <3>1. j + 1 \in 1..(m + 1) /\ k + 1 \in 1..(m + 1) /\ j + 1 <= k + 1
      BY <2>7, <1>4
    <3> QED BY <3>1, <2>3, <1>5
  <2>8. ASSUME NEW k \in 1..(m - 1) PROVE outbuf'[k] = Run(c[k], c[k + 1])
    <3>1. k \in 1..m /\ k + 1 \in 1..m
      BY <1>4
    <3>2. outbuf[k + 1] = Run(cut[k + 1], cut[(k + 1) + 1])
      BY <3>1, <1>5
    <3>3. c[k] = cut[k + 1] /\ c[k + 1] = cut[(k + 1) + 1]
      BY <3>1, <2>3
    <3> QED BY <3>2, <3>3, <2>1, <1>6
  <2>9. PICK d : d = c
    OBVIOUS
  <2>10. Cuts(d)'
    <3>1. Len(outbuf') = m - 1 /\ (m - 1) + 1 = m
      BY <1>4, <1>6, <2>1
    <3> QED BY <3>1, <2>1, <2>5, <2>6, <2>7, <2>8, <2>9, <1>2, <1>15 DEF Cuts
  <2>11. d \in [1..(Len(outbuf') + 1) -> 0..MaxBytes]
    BY <2>2, <2>4, <2>9
  <2> QED BY <2>2, <2>10, <2>11, <1>17 DEF Order, Adjacent
<1>19. CASE n # Len(Head(outbuf))
  <2> DEFINE rest == Run(a + n, b)
             c == [k \in 1..(m + 1) |-> IF k = 1 THEN a + n ELSE cut[k]]
  <2>1. outbuf' = <<rest>> \o Tail(outbuf)
    BY <1>1, <1>14, <1>19 DEF AfterWrite
  <2>2. rest \in Seq(Byte)
    BY <1>8, <1>13, RunIsSeq
  <2> HIDE DEF rest
  <2>3. <<rest>> \in Seq(Seq(Byte)) /\ Len(<<rest>>) = 1 /\ <<rest>>[1] = rest
    BY <2>2
  <2>4. /\ outbuf' \in Seq(Seq(Byte)) /\ Len(outbuf') = 1 + (m - 1)
        /\ \A i \in 1..(1 + (m - 1)) : outbuf'[i] = IF i <= 1 THEN <<rest>>[i] ELSE Tail(outbuf)[i - 1]
    BY <2>1, <2>3, <1>6, ConcatProperties
  <2>5. 1 + (m - 1) = m
    BY <1>4
  <2>6. outbuf'[1] = rest
    BY <2>3, <2>4, <2>5, <1>7
  <2>7. ASSUME NEW k \in 1..m, k # 1 PROVE outbuf'[k] = outbuf[k]
    <3>1. k - 1 \in 1..(m - 1) /\ ~(k <= 1) /\ (k - 1) + 1 = k
      BY <1>4, <2>7
    <3> QED BY <3>1, <2>4, <2>5, <1>6
  <2>8. /\ c[1] = a + n /\ \A k \in 1..(m + 1) : k # 1 => c[k] = cut[k]
        /\ c \in [1..(m + 1) -> 0..MaxBytes]
    BY <1>7, <1>10, <1>13
  <2> HIDE DEF c
  <2>9. c[m + 1] = pushed
    <3>1. m + 1 \in 1..(m + 1) /\ m + 1 # 1
      BY <1>4
    <3> QED BY <3>1, <2>8, <1>5
  <2>10. ASSUME NEW j \in 1..(m + 1), NEW k \in 1..(m + 1), j <= k PROVE c[j] <= c[k]
    <3>1. CASE j # 1
      <4>1. k # 1
        BY <1>4, <2>10, <3>1
      <4> QED BY <4>1, <3>1, <2>8, <2>10, <1>5
    <3>2. CASE j = 1 /\ k = 1
      BY <3>2, <2>8, <1>13
    <3>3. CASE j = 1 /\ k # 1
      <4>1. 2 <= k
        BY <1>4, <3>3
      <4>2. b <= cut[k] /\ cut[k] \in 0..MaxBytes
        BY <4>1, <1>10, <1>11
      <4>3. a + n <= cut[k]
        BY <4>2, <1>12, <1>13, <1>4
      <4> QED BY <4>3, <3>3, <2>8
    <3> QED BY <3>1, <3>2, <3>3
  <2>11. ASSUME NEW k \in 1..m PROVE outbuf'[k] = Run(c[k], c[k + 1])
    <3>1. k + 1 \in 1..(m + 1) /\ k + 1 # 1 /\ k \in 1..(m + 1)
      BY <1>4
    <3>2. c[k + 1] = cut[k + 1]
      BY <3>1, <2>8
    <3>3. CASE k = 1
      <4>1. c[k + 1] = b
        BY <3>2, <3>3 DEF b
      <4> QED BY <4>1, <3>3, <2>6, <2>8 DEF rest
    <3>4. CASE k # 1
      BY <3>1, <3>2, <3>4, <2>7, <2>8, <1>5
    <3> QED BY <3>3, <3>4
  <2>12. PICK d : d = c
    OBVIOUS
  <2>13. Len(outbuf') = m
    BY <2>4, <2>5
  <2>14. Cuts(d)'
    BY <2>8, <2>9, <2>10, <2>11, <2>12, <2>13, <1>2, <1>15 DEF Cuts
  <2>15. d \in [1..(Len(outbuf') + 1) -> 0..MaxBytes]
    BY <2>8, <2>12, <2>13
  <2> QED BY <2>4, <2>14, <2>15, <1>17 DEF Order, Adjacent
<1> QED BY <1>18, <1>19

LEMMA NextOrder == Order /\ [Next]_vars => Order'
<1> SUFFICES ASSUME Order, [Next]_vars PROVE Order'
  OBVIOUS
<1>1. ASSUME NEW len \in 0..MaxBuf, Notify(len) PROVE Order'
  BY <1>1, NotifyOrder
<1>2. CASE WriteReady
  BY <1>2, WriteOrder
<1>3. ASSUME UNCHANGED <<outbuf, wire, pushed>>, TypeOK' PROVE Order'
  BY <1>3 DEF Order, Adjacent, Cuts
<1>4. CASE WriteFails
  <2>1. TypeOK' /\ UNCHANGED <<outbuf, wire, pushed>>
    BY <1>4 DEF WriteFails, Order, TypeOK
  <2> QED BY <1>3, <2>1
<1>5. CASE Drained
  <2>1. TypeOK' /\ UNCHANGED <<outbuf, wire, pushed>>
    BY <1>5 DEF Drained, Order, TypeOK
  <2> QED BY <1>3, <2>1
<1>6. CASE Rearm
  <2>1. TypeOK' /\ UNCHANGED <<outbuf, wire, pushed>>
    BY <1>6 DEF Rearm, Order, TypeOK
  <2> QED BY <1>3, <2>1
<1>7. CASE Event
  <2>1. TypeOK' /\ UNCHANGED <<outbuf, wire, pushed>>
    BY <1>7 DEF Event, Order, TypeOK
  <2> QED BY <1>3, <2>1
<1>8. CASE PeerReads
  <2>1. /\ room' \in (room + 1)..Room
        /\ armed' = (armed \/ (reg /\ room = 0))
        /\ UNCHANGED <<outbuf, wire, pushed, pc, reg, sock>>
    BY <1>8 DEF PeerReads
  <2>2. room' \in 0..Room
    BY <2>1, BoundAssumption DEF Order, TypeOK
  <2>3. armed' \in BOOLEAN
    BY <2>1, Zenon DEF Order, TypeOK
  <2>4. TypeOK' /\ UNCHANGED <<outbuf, wire, pushed>>
    BY <2>1, <2>2, <2>3 DEF Order, TypeOK
  <2> QED BY <1>3, <2>4
<1>9. CASE PeerResets
  <2>1. TypeOK' /\ UNCHANGED <<outbuf, wire, pushed>>
    BY <1>9 DEF PeerResets, Order, TypeOK
  <2> QED BY <1>3, <2>1
<1>10. CASE UNCHANGED vars
  <2>1. TypeOK' /\ UNCHANGED <<outbuf, wire, pushed>>
    BY <1>10 DEF vars, Order, TypeOK
  <2> QED BY <1>3, <2>1
<1> QED
  BY <1>1, <1>2, <1>4, <1>5, <1>6, <1>7, <1>8, <1>9, <1>10 DEF Next, Drain

\* A set of naturals that is not empty has a least element.
LEMMA LeastElement ==
  ASSUME NEW T \in SUBSET Nat, T # {}
  PROVE  \E x \in T : \A y \in T : x <= y
<1> DEFINE R == OpToRel(<, Nat)
<1>1. IsWellFoundedOn(R, Nat)
  BY NatLessThanWellFounded
<1>3. \A x, y \in Nat : y < x => <<y, x>> \in R
  BY DEF OpToRel
<1> HIDE DEF R
<1>2. PICK x \in T : \A y \in T : ~(<<y, x>> \in R)
  BY <1>1, WFMin
<1>4. ASSUME NEW y \in T PROVE x <= y
  <2>1. x \in Nat /\ y \in Nat
    OBVIOUS
  <2>2. ~(y < x)
    BY <1>2, <1>3, <2>1
  <2> QED BY ONLY <2>1, <2>2
<1> QED BY <1>4

\* The recursion that defines FlattenSeq.
Flattens(F, s, n) ==
  F = [i \in 1..n |-> IF i = 1 THEN s[i] ELSE F[i - 1] \o s[i]]

\* FlattenSeq is the last value of any function that obeys its recursion: two
\* such functions would differ at a first place, where they agree.
LEMMA FlattenUnique ==
  ASSUME NEW s, NEW n \in Nat, n > 0, Len(s) = n, NEW F, Flattens(F, s, n)
  PROVE  FlattenSeq(s) = F[n]
<1> DEFINE IsFlatten(g) == g = [i \in 1..n |-> IF i = 1 THEN s[i] ELSE g[i - 1] \o s[i]]
           G == CHOOSE g : IsFlatten(g)
<1>1. FlattenSeq(s) = G[n]
  BY DEF FlattenSeq
<1>2. IsFlatten(G)
  <2>1. \E g : IsFlatten(g)
    BY DEF Flattens
  <2> HIDE DEF IsFlatten
  <2> QED BY <2>1
<1>5. ASSUME NEW g, IsFlatten(g)
      PROVE  /\ g[1] = s[1]
             /\ \A k \in 1..n : k # 1 => g[k] = g[k - 1] \o s[k]
  <2>1. ASSUME NEW k \in 1..n PROVE g[k] = IF k = 1 THEN s[k] ELSE g[k - 1] \o s[k]
    BY ONLY <1>5, <2>1
  <2>2. 1 \in 1..n
    OBVIOUS
  <2> HIDE DEF IsFlatten
  <2> QED BY <2>1, <2>2
<1>6. IsFlatten(F)
  BY DEF Flattens
<1> HIDE DEF IsFlatten, G
<1>7. /\ G[1] = s[1]
      /\ \A k \in 1..n : k # 1 => G[k] = G[k - 1] \o s[k]
  BY <1>2, <1>5
<1>8. /\ F[1] = s[1]
      /\ \A k \in 1..n : k # 1 => F[k] = F[k - 1] \o s[k]
  BY <1>6, <1>5
<1>3. ASSUME NEW i \in 1..n, G[i] # F[i] PROVE FALSE
  <2> DEFINE T == {k \in 1..n : G[k] # F[k]}
  <2>1. T # {}
    BY <1>3
  <2>0. T \in SUBSET Nat
    OBVIOUS
  <2>9. \A k \in 1..n : k \notin T => G[k] = F[k]
    OBVIOUS
  <2>8. \A k \in T : k \in 1..n /\ G[k] # F[k]
    OBVIOUS
  <2> HIDE DEF T
  <2>2. PICK x \in T : \A y \in T : x <= y
    BY <2>0, <2>1, LeastElement
  <2>3. x # 1
    BY <1>7, <1>8, <2>8
  <2>4. x \in 1..n /\ x - 1 \in 1..n
    <3>1. x \in 1..n
      BY <2>8
    <3> QED BY ONLY <3>1, <2>3, n \in Nat
  <2>7. x - 1 \notin T
    BY <2>2, <2>4
  <2>5. G[x - 1] = F[x - 1]
    BY <2>4, <2>7, <2>9
  <2>6. G[x] = F[x]
    <3>1. G[x] = G[x - 1] \o s[x]
      BY <1>7, <2>3, <2>4
    <3>2. F[x] = F[x - 1] \o s[x]
      BY <1>8, <2>3, <2>4
    <3> QED BY ONLY <3>1, <3>2, <2>5, Zenon
  <2> QED BY <2>8, <2>6
<1>4. n \in 1..n
  OBVIOUS
<1> QED BY <1>1, <1>3, <1>4

\* Adjacent runs, put together, are one run.
LEMMA AdjacentInOrder == Order => WrittenInOrder
<1> SUFFICES ASSUME Order PROVE WrittenInOrder
  OBVIOUS
<1> DEFINE m == Len(outbuf)
<1>1. PICK cut \in [1..(m + 1) -> 0..MaxBytes] : Cuts(cut)
  BY DEF Order, Adjacent
<1>2. /\ wire = Run(0, cut[1]) /\ cut[m + 1] = pushed
      /\ \A j, k \in 1..(m + 1) : j <= k => cut[j] <= cut[k]
      /\ \A k \in 1..m : outbuf[k] = Run(cut[k], cut[k + 1])
  BY <1>1 DEF Cuts
<1>3. /\ outbuf \in Seq(Seq(Byte)) /\ wire \in Seq(Byte) /\ m \in Nat
      /\ MaxBytes \in Nat /\ pushed \in 0..MaxBytes
  BY BoundAssumption DEF Order, TypeOK
<1>4. Run(0, pushed) = [i \in 1..pushed |-> i]
  <2>1. pushed - 0 = pushed /\ \A i \in 1..pushed : 0 + i = i
    BY <1>3
  <2> QED BY <2>1 DEF Run
<1>5. CASE m = 0
  <2>1. outbuf = <<>>
    BY <1>3, <1>5, EmptySeq
  <2>2. FlattenSeq(outbuf) = <<>>
    BY <1>5, <2>1 DEF FlattenSeq
  <2>3. wire \o <<>> = wire
    BY <1>3, ConcatEmptySeq
  <2>4. cut[1] = pushed
    BY <1>2, <1>5
  <2> QED BY <2>2, <2>3, <2>4, <1>2, <1>4 DEF WrittenInOrder
<1>6. CASE m # 0
  <2> DEFINE F == [i \in 1..m |-> Run(cut[1], cut[i + 1])]
  <2>0. PICK s : s = outbuf
    OBVIOUS
  <2>1. m > 0 /\ Len(s) = m
    BY <1>3, <1>6, <2>0
  <2> HIDE DEF m
  <2>2. ASSUME NEW i \in 1..m
        PROVE  F[i] = IF i = 1 THEN s[i] ELSE F[i - 1] \o s[i]
    <3>1. F[i] = Run(cut[1], cut[i + 1])
      OBVIOUS
    <3>2. CASE i = 1
      BY <3>1, <3>2, <1>2, <2>0
    <3>3. CASE i # 1
      <4>1. /\ i - 1 \in 1..m /\ i \in 1..(m + 1) /\ i + 1 \in 1..(m + 1) /\ (i - 1) + 1 = i
            /\ 1 \in 1..(m + 1) /\ 1 <= i /\ i <= i + 1
        BY <1>3, <3>3
      <4>2. F[i - 1] = Run(cut[1], cut[i])
        BY <4>1
      <4> HIDE DEF F
      <4>3. s[i] = Run(cut[i], cut[i + 1])
        BY <1>2, <2>0
      <4>4. /\ cut[1] \in 0..MaxBytes /\ cut[i] \in 0..MaxBytes /\ cut[i + 1] \in 0..MaxBytes
            /\ cut[1] <= cut[i] /\ cut[i] <= cut[i + 1]
        BY <1>1, <1>2, <4>1
      <4>5. Run(cut[1], cut[i]) \o Run(cut[i], cut[i + 1]) = Run(cut[1], cut[i + 1])
        BY <4>4, RunConcat
      <4> QED BY <3>1, <3>3, <4>2, <4>3, <4>5
    <3> QED BY <3>2, <3>3
  <2>3. F = [i \in 1..m |-> IF i = 1 THEN s[i] ELSE F[i - 1] \o s[i]]
    BY ONLY <2>2
  <2>4. F[m] = Run(cut[1], pushed)
    <3>1. m \in 1..m
      BY <1>3, <2>1
    <3> QED BY <3>1, <1>2
  <2> HIDE DEF F
  <2>5. FlattenSeq(s) = F[m]
    <3>1. PICK N, G : N = m /\ G = F
      OBVIOUS
    <3>2. N \in Nat /\ N > 0 /\ Len(s) = N
      BY <1>3, <2>1, <3>1
    <3>3. Flattens(G, s, N)
      BY ONLY <2>3, <3>1 DEF Flattens
    <3>4. FlattenSeq(s) = G[N]
      BY <3>2, <3>3, FlattenUnique
    <3> QED BY <3>1, <3>4
  <2>6. /\ 0 \in 0..MaxBytes /\ cut[1] \in 0..MaxBytes /\ 0 <= cut[1] /\ cut[1] <= pushed
    <3>1. 1 \in 1..(m + 1) /\ m + 1 \in 1..(m + 1) /\ 1 <= m + 1
      BY <1>3
    <3>2. cut[1] \in 0..MaxBytes /\ cut[1] <= cut[m + 1]
      BY <1>1, <1>2, <3>1
    <3> QED BY <3>2, <1>2, <1>3
  <2>7. Run(0, cut[1]) \o Run(cut[1], pushed) = Run(0, pushed)
    BY <2>6, <1>3, RunConcat
  <2> QED BY <2>0, <2>4, <2>5, <2>7, <1>2, <1>4 DEF WrittenInOrder
<1> QED BY <1>5, <1>6

\* notify, writable and drain_write_queue_to_socket keep the types, and the
\* poller is told only after a drain that left something in outbuf.
THEOREM TypeCorrect == Spec => []TypeOK
<1>1. Order => TypeOK
  BY DEF Order
<1> QED BY <1>1, InitOrder, NextOrder, PTL DEF Spec

\* The bytes written to the socket followed by those left in outbuf are the
\* bytes handed to notify, in order: drain_write_queue_to_socket loses, doubles
\* and swaps none, whatever the socket takes at a time and wherever it fails.
THEOREM WrittenInOrderHolds == Spec => []WrittenInOrder
<1> QED BY AdjacentInOrder, InitOrder, NextOrder, PTL DEF Spec
=============================================================================
