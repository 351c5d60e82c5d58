------------------------ MODULE ConnectionReadProofs ------------------------
(***************************************************************************)
(* The framing of the read path for every frame size, buffer size and      *)
(* sequence of reads: the frames delivered are the stream, in order, until *)
(* buffers are changed with bytes of an earlier read unparsed; reads of    *)
(* whole frames never come to that; and a read finds room whenever a frame *)
(* fits into a buffer.                                                     *)
(***************************************************************************)
EXTENDS ConnectionRead, SequenceTheorems, TLAPS

Inv == TypeOK /\ RoomToRead /\ StreamIntact /\ WholeReadsDeliver

-----------------------------------------------------------------------------
(* Arithmetic of frames.                                                   *)

\* Frames end where they should: the products that the parser computes.
LEMMA Products ==
  ASSUME NEW k \in Nat, NEW i \in 1..k
  PROVE  /\ (i - 1) * FrameSize \in Nat /\ i * FrameSize \in Nat /\ k * FrameSize \in Nat
         /\ i * FrameSize = (i - 1) * FrameSize + FrameSize
         /\ i * FrameSize <= k * FrameSize
<1>1. FrameSize \in Nat
  BY SizeAssumption
<1>2. /\ (i - 1) * FrameSize \in Nat /\ i * FrameSize \in Nat
      /\ k * FrameSize \in Nat /\ (k - i) * FrameSize \in Nat
  BY <1>1
<1>3. i * FrameSize = (i - 1) * FrameSize + FrameSize
  BY <1>1
<1>4. k * FrameSize = i * FrameSize + (k - i) * FrameSize
  BY <1>1
<1> QED BY <1>2, <1>3, <1>4

\* The frames that lie whole in n bytes leave less than a frame, and nothing if
\* the bytes are a whole number of frames.
LEMMA Division ==
  ASSUME NEW n \in Nat
  PROVE  /\ FrameCount(n) \in Nat /\ Consumed(n) \in 0..n
         /\ n - Consumed(n) < FrameSize
         /\ n % FrameSize = 0 => Consumed(n) = n
<1>1. FrameSize \in Nat /\ FrameSize > 0
  BY SizeAssumption
<1>2. n \div FrameSize \in Nat
  BY <1>1
<1>3. n % FrameSize \in 0..(FrameSize - 1)
  BY <1>1
<1>4. n = FrameSize * (n \div FrameSize) + (n % FrameSize)
  BY <1>1
<1>5. FrameSize * (n \div FrameSize) = (n \div FrameSize) * FrameSize
  BY <1>1, <1>2
<1>6. (n \div FrameSize) * FrameSize \in Nat
  BY <1>1, <1>2
<1> QED BY <1>1, <1>2, <1>3, <1>4, <1>5, <1>6 DEF FrameCount, Consumed

-----------------------------------------------------------------------------
(* Slices.                                                                 *)

\* &buf[a..b] of a sequence of bytes.
LEMMA SliceFacts ==
  ASSUME NEW s \in Seq(Byte), NEW a \in Nat, NEW b \in Nat, a <= b, b <= Len(s)
  PROVE  /\ SubSeq(s, a + 1, b) \in Seq(Byte)
         /\ Len(SubSeq(s, a + 1, b)) = b - a
         /\ \A x \in 1..(b - a) : SubSeq(s, a + 1, b)[x] = s[a + x]
<1>1. \A i \in (a + 1)..b : i \in 1..Len(s)
  OBVIOUS
<1>2. \A i \in (a + 1)..b : s[i] \in Byte
  BY <1>1, ElementOfSeq
<1>3. /\ SubSeq(s, a + 1, b) \in Seq(Byte)
      /\ Len(SubSeq(s, a + 1, b)) = IF a + 1 <= b THEN b - (a + 1) + 1 ELSE 0
      /\ \A i \in 1..(b - (a + 1) + 1) : SubSeq(s, a + 1, b)[i] = s[a + 1 + i - 1]
  BY <1>2, SubSeqProperties
<1>4. b - (a + 1) + 1 = b - a
  OBVIOUS
<1>5. \A i \in 1..(b - a) : a + 1 + i - 1 = a + i
  OBVIOUS
<1> QED BY <1>3, <1>4, <1>5

\* The frames of a slice: as many as fit, each with its bytes in their order.
LEMMA ParseFacts ==
  ASSUME NEW slice \in Seq(Byte)
  PROVE  /\ Parse(slice) \in Seq(Frame)
         /\ Len(Parse(slice)) = FrameCount(Len(slice))
         /\ \A i \in 1..FrameCount(Len(slice)) : \A j \in 1..FrameSize :
              /\ (i - 1) * FrameSize + j \in 1..Consumed(Len(slice))
              /\ Parse(slice)[i][j] = slice[(i - 1) * FrameSize + j]
<1> DEFINE n == Len(slice)
           k == FrameCount(n)
<1>1. n \in Nat /\ k \in Nat /\ Consumed(n) = k * FrameSize /\ Consumed(n) \in 0..n
  BY Division DEF Consumed
<1>2. FrameSize \in Nat \ {0}
  BY SizeAssumption
<1>3. ASSUME NEW i \in 1..k
      PROVE  /\ SubSeq(slice, (i - 1) * FrameSize + 1, i * FrameSize) \in Frame
             /\ \A j \in 1..FrameSize :
                  /\ (i - 1) * FrameSize + j \in 1..Consumed(n)
                  /\ SubSeq(slice, (i - 1) * FrameSize + 1, i * FrameSize)[j]
                       = slice[(i - 1) * FrameSize + j]
  <2> DEFINE a == (i - 1) * FrameSize
             b == i * FrameSize
             s == SubSeq(slice, a + 1, b)
  <2>1. a \in Nat /\ b \in Nat /\ b = a + FrameSize /\ b <= Consumed(n)
    BY <1>1, <1>2, Products
  <2> HIDE DEF a, b
  <2>2. a <= b /\ b <= n /\ b - a = FrameSize
    BY <2>1, <1>1, <1>2
  <2>3. s \in Seq(Byte) /\ Len(s) = FrameSize /\ \A x \in 1..FrameSize : s[x] = slice[a + x]
    BY <2>1, <2>2, SliceFacts
  <2>4. \A x \in 1..FrameSize : a + x \in 1..Consumed(n)
    BY <2>1, <1>1, <1>2
  <2>5. s \in Frame
    BY <2>3, LenProperties DEF Frame
  <2> QED BY <2>3, <2>4, <2>5 DEF a, b
<1>4. Parse(slice) = [i \in 1..k |-> SubSeq(slice, (i - 1) * FrameSize + 1, i * FrameSize)]
  BY DEF Parse
<1>5. Parse(slice) \in [1..k -> Frame]
  BY <1>3, <1>4
<1>6. Parse(slice) \in Seq(Frame) /\ Len(Parse(slice)) = k
  BY <1>1, <1>5
<1>7. \A i \in 1..k : Parse(slice)[i] = SubSeq(slice, (i - 1) * FrameSize + 1, i * FrameSize)
  BY <1>4
<1> QED BY <1>3, <1>6, <1>7

-----------------------------------------------------------------------------
(* The steps.                                                              *)

\* Nothing was read yet.
LEMMA InitInv == Init => Inv
<1> SUFFICES ASSUME Init PROVE Inv
  OBVIOUS
<1>1. TypeOK
  <2>1. buf \in Seq(Byte) /\ delivered \in Seq(Frame) /\ Len(buf) = 0
    BY EmptySeq DEF Init
  <2>2. /\ sent \in 0..MaxBytes /\ taken \in 0..sent /\ marker \in 0..Len(buf)
        /\ Len(buf) <= BufSize
    BY <2>1, SizeAssumption DEF Init
  <2> QED BY <2>1, <2>2 DEF Init, TypeOK
<1>2. RoomToRead
  BY EmptySeq, SizeAssumption DEF Init, RoomToRead
<1>3. FrameSize \in Nat /\ Parsed = 0
  BY SizeAssumption DEF Init, Parsed
<1>4. StreamIntact /\ WholeReadsDeliver
  BY <1>3 DEF Init, StreamIntact, Intact, WholeReadsDeliver
<1> QED BY <1>1, <1>2, <1>4 DEF Inv

\* What arrives is not looked at before it is read.
LEMMA PeerInv == Inv /\ (PeerSends \/ PeerCloses) => Inv'
<1> SUFFICES ASSUME Inv, PeerSends \/ PeerCloses PROVE Inv'
  OBVIOUS
<1>0. TypeOK
  BY DEF Inv
<1>1. TypeOK'
  <2>1. CASE PeerSends
    BY <1>0, <2>1, SizeAssumption DEF TypeOK, PeerSends
  <2>2. CASE PeerCloses
    BY <1>0, <2>2 DEF TypeOK, PeerCloses
  <2> QED BY <2>1, <2>2
<1>2. UNCHANGED <<taken, buf, marker, delivered, torn, whole>>
  BY DEF PeerSends, PeerCloses
<1>3. RoomToRead' /\ StreamIntact' /\ WholeReadsDeliver'
  BY <1>2 DEF Inv, RoomToRead, StreamIntact, Intact, WholeReadsDeliver, Parsed
<1> QED BY <1>1, <1>3 DEF Inv

\* A read.  The slice that is parsed starts where parsing stopped, so that its
\* bytes follow what was delivered.
LEMMA ReadableInv == Inv /\ Readable => Inv'
<1> SUFFICES ASSUME Inv, Readable PROVE Inv'
  OBVIOUS
<1> DEFINE n      == ReadCount
           filled == buf \o [i \in 1..n |-> taken + i]
           slice  == SubSeq(filled, marker + 1, marker + n)
           C      == Consumed(n)
           rest   == SubSeq(slice, C + 1, n)
<1>1. /\ taken' = taken + n
      /\ delivered' = delivered \o Parse(slice)
      /\ IF RunsShort(filled) THEN SwapBuffers(rest, n) ELSE GoOn(filled, n)
      /\ whole' = (whole /\ n % FrameSize = 0)
      /\ UNCHANGED <<sent, fin>>
  BY DEF Readable
<1>2. /\ sent \in 0..MaxBytes /\ fin \in BOOLEAN /\ taken \in 0..sent
      /\ buf \in Seq(Byte) /\ delivered \in Seq(Frame)
      /\ marker \in 0..Len(buf)
      /\ torn \in BOOLEAN /\ whole \in BOOLEAN
      /\ Len(buf) \in Nat /\ Len(delivered) \in Nat
      /\ Len(buf) <= BufSize
  BY LenProperties DEF Inv, TypeOK
<1>3. /\ FrameSize \in Nat /\ FrameSize > 0
      /\ BufSize \in Nat
      /\ MinBuf \in Nat /\ MinBuf > 0 /\ MaxBytes \in Nat
  BY SizeAssumption
<1>4. n \in Nat /\ n <= sent - taken /\ n <= BufSize - Len(buf)
  BY <1>2, <1>3 DEF ReadCount, Window
<1> HIDE DEF n
<1>5. /\ filled \in Seq(Byte) /\ Len(filled) = Len(buf) + n
      /\ \A i \in 1..Len(buf) : filled[i] = buf[i]
      /\ \A i \in 1..n : filled[Len(buf) + i] = taken + i
  <2> DEFINE got == [i \in 1..n |-> taken + i]
  <2>1. \A i \in 1..n : taken + i \in Byte
    BY <1>2, <1>3, <1>4 DEF Byte
  <2>2. got \in [1..n -> Byte]
    BY <2>1
  <2>3. got \in Seq(Byte) /\ Len(got) = n
    BY <2>2, <1>4
  <2>4. \A i \in 1..n : got[i] = taken + i
    OBVIOUS
  <2> HIDE DEF got
  <2>5. /\ buf \o got \in Seq(Byte) /\ Len(buf \o got) = Len(buf) + n
        /\ \A i \in 1..(Len(buf) + n) :
             (buf \o got)[i] = IF i <= Len(buf) THEN buf[i] ELSE got[i - Len(buf)]
    BY <1>2, <2>3, ConcatProperties
  <2>6. filled = buf \o got
    BY DEF got
  <2>7. \A i \in 1..Len(buf) : (buf \o got)[i] = buf[i]
    BY <2>5, <1>2, <1>4
  <2>8. \A i \in 1..n : (buf \o got)[Len(buf) + i] = taken + i
    <3> TAKE i \in 1..n
    <3>1. Len(buf) + i \in 1..(Len(buf) + n) /\ ~(Len(buf) + i <= Len(buf)) /\ Len(buf) + i - Len(buf) = i
      BY <1>2, <1>4
    <3> QED BY <3>1, <2>4, <2>5
  <2> QED BY <2>5, <2>6, <2>7, <2>8
<1> HIDE DEF filled
<1>6. C \in 0..n /\ n - C < FrameSize /\ (n % FrameSize = 0 => C = n) /\ FrameCount(n) \in Nat
      /\ C = FrameCount(n) * FrameSize
  BY <1>4, Division DEF Consumed
<1> HIDE DEF C
<1>7. /\ slice \in Seq(Byte) /\ Len(slice) = n
      /\ \A x \in 1..n : slice[x] = filled[marker + x]
  <2>1. marker + n \in Nat /\ marker <= marker + n /\ marker + n <= Len(filled) /\ marker \in Nat
        /\ (marker + n) - marker = n
    BY <1>2, <1>4, <1>5
  <2>2. /\ slice \in Seq(Byte) /\ Len(slice) = (marker + n) - marker
        /\ \A x \in 1..((marker + n) - marker) : slice[x] = filled[marker + x]
    BY <2>1, <1>5, SliceFacts
  <2> QED BY <2>1, <2>2
<1> HIDE DEF slice
<1>8. /\ rest \in Seq(Byte) /\ Len(rest) = n - C
      /\ \A x \in 1..(n - C) : rest[x] = slice[C + x]
  <2>1. C \in Nat /\ C <= n /\ n <= Len(slice)
    BY <1>4, <1>6, <1>7
  <2> QED BY <2>1, <1>4, <1>7, SliceFacts
<1> HIDE DEF rest
<1>10. /\ delivered' \in Seq(Frame) /\ Len(delivered') = Len(delivered) + FrameCount(n)
       /\ \A i \in 1..Len(delivered) : delivered'[i] = delivered[i]
       /\ \A i \in 1..FrameCount(n) : \A j \in 1..FrameSize :
            /\ (i - 1) * FrameSize + j \in 1..n
            /\ delivered'[Len(delivered) + i][j] = slice[(i - 1) * FrameSize + j]
  <2> DEFINE new == Parse(slice)
  <2>1. /\ new \in Seq(Frame) /\ Len(new) = FrameCount(n)
        /\ \A i \in 1..FrameCount(n) : \A j \in 1..FrameSize :
             /\ (i - 1) * FrameSize + j \in 1..C
             /\ new[i][j] = slice[(i - 1) * FrameSize + j]
    BY <1>7, ParseFacts DEF C
  <2>2. delivered' = delivered \o new
    BY <1>1 DEF slice, filled
  <2> HIDE DEF new
  <2> DEFINE all == delivered \o new
  <2>3. /\ delivered' \in Seq(Frame) /\ Len(delivered') = Len(delivered) + FrameCount(n)
        /\ \A i \in 1..(Len(delivered) + FrameCount(n)) :
             delivered'[i] = IF i <= Len(delivered) THEN delivered[i] ELSE new[i - Len(delivered)]
    <3>1. /\ all \in Seq(Frame) /\ Len(all) = Len(delivered) + Len(new)
          /\ \A i \in 1..(Len(delivered) + Len(new)) :
               all[i] = IF i <= Len(delivered) THEN delivered[i] ELSE new[i - Len(delivered)]
      BY <1>2, <2>1, ConcatProperties
    <3>2. delivered' = all /\ Len(new) = FrameCount(n)
      BY <2>1, <2>2
    <3> HIDE DEF all
    <3> QED BY <3>1, <3>2
  <2>4. \A i \in 1..Len(delivered) : delivered'[i] = delivered[i]
    BY <1>2, <1>6, <2>3
  <2>5. \A i \in 1..FrameCount(n) : delivered'[Len(delivered) + i] = new[i]
    <3> TAKE i \in 1..FrameCount(n)
    <3>1. /\ Len(delivered) + i \in 1..(Len(delivered) + FrameCount(n))
          /\ ~(Len(delivered) + i <= Len(delivered)) /\ Len(delivered) + i - Len(delivered) = i
      BY <1>2, <1>6
    <3> QED BY <3>1, <2>3
  <2>6. 1..C \subseteq 1..n
    BY <1>4, <1>6
  <2> QED BY <2>1, <2>3, <2>4, <2>5, <2>6
<1>11. Parsed \in Nat /\ Parsed' \in Nat /\ Parsed' = Parsed + C
  <2>1. Parsed' = (Len(delivered) + FrameCount(n)) * FrameSize
    BY <1>10 DEF Parsed
  <2>2. (Len(delivered) + FrameCount(n)) * FrameSize = Len(delivered) * FrameSize + FrameCount(n) * FrameSize
    BY <1>2, <1>3, <1>6
  <2>3. Len(delivered) * FrameSize \in Nat
    BY <1>2, <1>3
  <2> QED BY <2>1, <2>2, <2>3, <1>6 DEF Parsed
<1>12. ASSUME ~torn
       PROVE  /\ taken = Parsed + (Len(buf) - marker)
              /\ \A j \in 1..(Len(filled) - marker) : filled[marker + j] = Parsed + j
  <2>1. /\ taken = Parsed + (Len(buf) - marker)
        /\ \A j \in 1..(Len(buf) - marker) : buf[marker + j] = Parsed + j
    BY <1>12 DEF Inv, StreamIntact, Intact
  <2>2. ASSUME NEW j \in 1..(Len(filled) - marker)
        PROVE  filled[marker + j] = Parsed + j
    <3>1. CASE marker + j <= Len(buf)
      <4>1. j \in 1..(Len(buf) - marker) /\ marker + j \in 1..Len(buf)
        BY <3>1, <1>2, <1>4, <1>5
      <4> QED BY <4>1, <2>1, <1>5
    <3>2. CASE ~(marker + j <= Len(buf))
      <4> DEFINE i == marker + j - Len(buf)
      <4>1. i \in 1..n /\ marker + j = Len(buf) + i
        BY <3>2, <1>2, <1>4, <1>5
      <4>2. filled[marker + j] = taken + i
        BY <4>1, <1>5
      <4> QED BY <4>2, <2>1, <1>2, <1>11
    <3> QED BY <3>1, <3>2
  <2> QED BY <2>1, <2>2
<1>13. ASSUME ~torn
       PROVE  \A i \in 1..Len(delivered') : \A j \in 1..FrameSize :
                delivered'[i][j] = (i - 1) * FrameSize + j
  <2>1. \A i \in 1..Len(delivered) : \A j \in 1..FrameSize :
          delivered[i][j] = (i - 1) * FrameSize + j
    BY <1>13 DEF Inv, StreamIntact, Intact
  <2>2. \A x \in 1..n : slice[x] = Parsed + x
    <3>1. 1..n \subseteq 1..(Len(filled) - marker)
      BY <1>2, <1>4, <1>5
    <3> QED BY <3>1, <1>7, <1>12, <1>13
  <2> TAKE i \in 1..Len(delivered')
  <2> TAKE j \in 1..FrameSize
  <2>3. CASE i <= Len(delivered)
    <3>1. i \in 1..Len(delivered)
      BY <2>3, <1>2, <1>6, <1>10
    <3> QED BY <3>1, <2>1, <1>10
  <2>4. CASE ~(i <= Len(delivered))
    <3> DEFINE m == i - Len(delivered)
    <3>1. m \in 1..FrameCount(n) /\ i = Len(delivered) + m
      BY <2>4, <1>2, <1>6, <1>10
    <3> HIDE DEF m
    <3>2. delivered'[i][j] = Parsed + ((m - 1) * FrameSize + j)
      BY <3>1, <2>2, <1>10
    <3>3. Len(delivered) * FrameSize + (m - 1) * FrameSize = (Len(delivered) + m - 1) * FrameSize
      <4>1. ASSUME NEW a \in Nat, NEW b \in Nat, NEW f \in Nat
            PROVE  a * f + b * f = (a + b) * f
        OBVIOUS
      <4>2. m - 1 \in Nat /\ Len(delivered) + m - 1 = Len(delivered) + (m - 1)
        BY <3>1, <1>2, <1>6
      <4> QED BY ONLY <4>1, <4>2, <1>2, <1>3
    <3>4. (m - 1) * FrameSize \in Nat /\ (Len(delivered) + m - 1) * FrameSize \in Nat
      <4>1. ASSUME NEW a \in Nat, NEW f \in Nat PROVE a * f \in Nat
        OBVIOUS
      <4>2. m - 1 \in Nat /\ Len(delivered) + m - 1 \in Nat
        BY <3>1, <1>2, <1>6
      <4> QED BY ONLY <4>1, <4>2, <1>3
    <3> QED BY <3>1, <3>2, <3>3, <3>4, <1>2, <1>11 DEF Parsed
  <2> QED BY <2>3, <2>4
<1>14. CASE RunsShort(filled)
  <2>1. buf' = rest /\ marker' = 0 /\ torn' = (torn \/ marker < Len(buf))
    BY <1>1, <1>14 DEF SwapBuffers, C, rest, slice, filled
  <2>2. TypeOK'
    <3>1. torn' \in BOOLEAN /\ whole' \in BOOLEAN
      BY <2>1, <1>1
    <3>2. marker' \in 0..Len(buf')
      BY <2>1, <1>4, <1>6, <1>8
    <3>3. sent' \in 0..MaxBytes /\ taken' \in 0..sent'
      BY <1>1, <1>2, <1>4
    <3>4. Len(buf') <= BufSize
      BY <2>1, <1>2, <1>3, <1>4, <1>6, <1>8
    <3> QED BY <3>1, <3>2, <3>3, <3>4, <2>1, <1>1, <1>2, <1>8, <1>10 DEF TypeOK
  <2>3. RoomToRead'
    BY <2>1, <1>3, <1>4, <1>6, <1>8 DEF RoomToRead
  <2>4. StreamIntact'
    <3> SUFFICES ASSUME ~torn' PROVE StreamIntact'
      BY DEF StreamIntact
    <3>1. ~torn /\ ~(marker < Len(buf))
      BY <2>1
    <3>2. Len(buf) = marker
      BY <3>1, <1>2
    <3>3. taken' = Parsed' + (Len(buf') - marker')
      <4>1. taken = Parsed
        BY <3>1, <3>2, <1>2, <1>11, <1>12
      <4>2. Len(buf') = n - C /\ marker' = 0
        BY <2>1, <1>8
      <4> QED BY <4>1, <4>2, <1>1, <1>4, <1>6, <1>11
    <3>4. ASSUME NEW j \in 1..(Len(buf') - marker')
          PROVE  buf'[marker' + j] = Parsed' + j
      <4>1. j \in 1..(n - C) /\ marker' + j = j /\ C + j \in 1..n /\ C + j \in 1..(Len(filled) - marker)
        <5>1. marker' = 0 /\ Len(buf') = n - C /\ Len(filled) = Len(buf) + n
          BY <2>1, <1>5, <1>8
        <5>2. C \in Nat /\ C <= n /\ n \in Nat /\ marker \in Nat /\ Len(buf) = marker
          BY <3>2, <1>2, <1>4, <1>6
        <5>3. j \in 1..(n - C)
          <6>1. (n - C) - 0 = n - C
            BY ONLY <5>2
          <6> QED BY ONLY <3>4, <5>1, <6>1
        <5>4. Len(filled) - marker = n
          BY ONLY <5>1, <5>2
        <5>5. 0 + j = j /\ C + j \in 1..n
          BY ONLY <5>2, <5>3
        <5> QED BY ONLY <5>1, <5>3, <5>4, <5>5
      <4>2. buf'[marker' + j] = filled[marker + (C + j)]
        BY <4>1, <2>1, <1>7, <1>8
      <4>3. filled[marker + (C + j)] = Parsed + (C + j)
        BY <4>1, <3>1, <1>12
      <4> QED BY <4>1, <4>2, <4>3, <1>6, <1>11
    <3> QED BY <3>1, <3>3, <3>4, <1>13 DEF StreamIntact, Intact
  <2>5. WholeReadsDeliver'
    <3> SUFFICES ASSUME whole' PROVE ~torn' /\ Parsed' = taken'
      BY DEF WholeReadsDeliver
    <3>1. whole /\ n % FrameSize = 0
      BY <1>1
    <3>2. ~torn /\ Parsed = taken /\ C = n
      BY <3>1, <1>6 DEF Inv, WholeReadsDeliver
    <3>3. Len(buf) = marker
      BY <3>2, <1>2, <1>11, <1>12
    <3>4. ~(marker < Len(buf))
      BY <3>3, <1>2
    <3> QED BY <3>2, <3>4, <2>1, <1>1, <1>11
  <2> QED BY <2>2, <2>3, <2>4, <2>5 DEF Inv
<1>15. CASE ~RunsShort(filled)
  <2>1. buf' = filled /\ marker' = marker + C /\ torn' = torn
    BY <1>1, <1>15 DEF GoOn, C, rest, slice, filled
  <2>2. TypeOK'
    <3>1. torn' \in BOOLEAN /\ whole' \in BOOLEAN
      BY <2>1, <1>1, <1>2
    <3>2. marker' \in 0..Len(buf')
      BY <2>1, <1>2, <1>4, <1>5, <1>6
    <3>3. sent' \in 0..MaxBytes /\ taken' \in 0..sent'
      BY <1>1, <1>2, <1>4
    <3>4. Len(buf') <= BufSize
      BY <2>1, <1>2, <1>3, <1>4, <1>5
    <3> QED BY <3>1, <3>2, <3>3, <3>4, <2>1, <1>1, <1>2, <1>5, <1>10 DEF TypeOK
  <2>3. RoomToRead'
    BY <2>1, <1>2, <1>3, <1>4, <1>5, <1>15 DEF RoomToRead, RunsShort, Window
  <2>4. StreamIntact'
    <3> SUFFICES ASSUME ~torn' PROVE StreamIntact'
      BY DEF StreamIntact
    <3>1. ~torn
      BY <2>1
    <3> DEFINE len == Len(buf)
    <3>2. Len(buf') = len + n /\ len \in Nat /\ Len(filled) = len + n /\ marker \in 0..len
      BY <2>1, <1>2, <1>5
    <3>3. taken' = Parsed' + (Len(buf') - marker')
      <4>1. taken = Parsed + (len - marker)
        BY <3>1, <1>12
      <4> HIDE DEF len
      <4>2. len + n - (marker + C) = (len - marker) + (n - C)
        BY <3>2, <1>4, <1>6
      <4>3. taken' = Parsed + C + ((len - marker) + (n - C))
        BY <4>1, <3>2, <1>1, <1>4, <1>6, <1>11
      <4>4. Len(buf') - marker' = (len - marker) + (n - C)
        BY <4>2, <3>2, <2>1, <1>4, <1>6
      <4> QED BY <4>3, <4>4, <1>11
    <3>4. ASSUME NEW j \in 1..(Len(buf') - marker')
          PROVE  buf'[marker' + j] = Parsed' + j
      <4>1. C + j \in 1..(Len(filled) - marker) /\ marker' + j = marker + (C + j)
        <5> HIDE DEF len
        <5>1. j \in 1..(len + n - (marker + C))
          BY <3>2, <2>1, <1>4, <1>6
        <5>2. C + j \in 1..(len + n - marker)
          <6>1. ASSUME NEW a \in Nat, NEW b \in Nat, NEW e \in Nat, NEW c \in Nat,
                       NEW k \in 1..(a + b - (e + c)), e <= a
                PROVE  c + k \in 1..(a + b - e)
            OBVIOUS
          <6>2. len \in Nat /\ n \in Nat /\ marker \in Nat /\ C \in Nat /\ marker <= len
            BY <3>2, <1>4, <1>6
          <6> QED BY ONLY <5>1, <6>1, <6>2
        <5>3. marker' + j = marker + (C + j)
          BY <5>1, <3>2, <2>1, <1>4, <1>6
        <5> QED BY <5>2, <5>3, <3>2, <1>4
      <4>2. filled[marker + (C + j)] = Parsed + (C + j)
        BY <4>1, <3>1, <1>12
      <4>3. Parsed + (C + j) = Parsed' + j
        BY <1>6, <1>11
      <4> QED BY <4>1, <4>2, <4>3, <2>1
    <3> QED BY <3>1, <3>3, <3>4, <1>13 DEF StreamIntact, Intact
  <2>5. WholeReadsDeliver'
    <3> SUFFICES ASSUME whole' PROVE ~torn' /\ Parsed' = taken'
      BY DEF WholeReadsDeliver
    <3>1. whole /\ n % FrameSize = 0
      BY <1>1
    <3>2. ~torn /\ Parsed = taken /\ C = n
      BY <3>1, <1>6 DEF Inv, WholeReadsDeliver
    <3> QED BY <3>2, <2>1, <1>1, <1>11
  <2> QED BY <2>2, <2>3, <2>4, <2>5 DEF Inv
<1> QED BY <1>14, <1>15

\* Every step keeps the invariant.
LEMMA NextInv == Inv /\ [Next]_vars => Inv'
<1> SUFFICES ASSUME Inv, [Next]_vars PROVE Inv'
  OBVIOUS
<1>1. CASE PeerSends \/ PeerCloses
  BY <1>1, PeerInv
<1>2. CASE Readable
  BY <1>2, ReadableInv
<1>3. CASE UNCHANGED vars
  BY <1>3 DEF vars, Inv, TypeOK, RoomToRead, StreamIntact, Intact, WholeReadsDeliver, Parsed
<1> QED BY <1>1, <1>2, <1>3 DEF Next

-----------------------------------------------------------------------------
(* The theorems.                                                           *)

\* The conjunction of the properties is inductive as it stands.
LEMMA Invariance == Spec => []Inv
  BY InitInv, NextInv, PTL DEF Spec

\* Marker never passes the filled part of the buffer, so the slice that readable
\* unwraps is always there, whatever the sizes of frames, buffers and reads.
THEOREM TypeCorrect == Spec => []TypeOK
<1>1. Inv => TypeOK
  BY DEF Inv
<1> QED BY <1>1, Invariance, PTL

\* The window of the read buffer never closes if a frame fits into a buffer: a full
\* one is swapped for one that has room, for every minimum of at least one byte.
\* A larger frame may close it (RoomToRead has this as its hypothesis).
THEOREM RoomHolds == Spec => []RoomToRead
<1>1. Inv => RoomToRead
  BY DEF Inv
<1> QED BY <1>1, Invariance, PTL

\* Until readable changes buffers with bytes of an earlier read unparsed, the frames
\* delivered and the bytes in the buffer are exactly the bytes read, in order.
THEOREM StreamIntactHolds == Spec => []StreamIntact
<1>1. Inv => StreamIntact
  BY DEF Inv
<1> QED BY <1>1, Invariance, PTL

\* Reads of whole frames deliver every frame at once and lose nothing.
THEOREM WholeReadsDeliverHolds == Spec => []WholeReadsDeliver
<1>1. Inv => WholeReadsDeliver
  BY DEF Inv
<1> QED BY <1>1, Invariance, PTL
=============================================================================
