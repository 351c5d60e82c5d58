--------------------------- MODULE ConnectionRead ---------------------------
(***************************************************************************)
(* The read path of a connection, byte by byte: EngineInner::readable for  *)
(* one socket, with BufProtocol cutting the stream into frames of a fixed  *)
(* size.  A byte is the number of its place in what the peer has sent.     *)
(*                                                                         *)
(* The read buffer is an iobuf AppendBuf: buf is its filled part, the rest *)
(* of BufSize its window.  marker is the place up to which it was parsed.  *)
(***************************************************************************)
EXTENDS Naturals, Sequences

CONSTANTS
  FrameSize,  \* HasSize::size() of the protocol
  BufSize,    \* config.read_buf_sz
  MinBuf,     \* config.min_read_buf_sz
  MaxBytes    \* bound: bytes the peer sends

ASSUME SizeAssumption ==
  /\ FrameSize \in Nat \ {0}
  /\ BufSize \in Nat
  /\ MinBuf \in Nat \ {0}
  /\ MaxBytes \in Nat

VARIABLES
  sent,       \* bytes that have arrived from the peer
  fin,        \* the peer has closed its side
  taken,      \* bytes read off the socket
  buf,        \* filled part of c.buf
  marker,     \* c.marker
  delivered,  \* the frames sent down conn_tx
  torn,       \* history: buffers changed with bytes of earlier reads unparsed
  whole       \* history: every read returned a whole number of frames

vars == <<sent, fin, taken, buf, marker, delivered, torn, whole>>

Byte  == 1..MaxBytes
Frame == [1..FrameSize -> Byte]

Init ==
  /\ sent = 0 /\ fin = FALSE /\ taken = 0
  /\ buf = <<>> /\ marker = 0
  /\ delivered = <<>>
  /\ torn = FALSE /\ whole = TRUE

\* Any number of bytes arrives.
PeerSends ==
  /\ ~fin
  /\ \E n \in 1..(MaxBytes - sent) : sent' = sent + n
  /\ UNCHANGED <<fin, taken, buf, marker, delivered, torn, whole>>

PeerCloses ==
  /\ ~fin /\ fin' = TRUE
  /\ UNCHANGED <<sent, taken, buf, marker, delivered, torn, whole>>

Window(b) == BufSize - Len(b)

\* c.read(): as many bytes as there are and the window holds.
ReadCount == IF sent - taken < Window(buf) THEN sent - taken ELSE Window(buf)

\* BufProtocol::append, called until it answers None: the frames that lie
\* whole in a slice, and how many bytes they take.
FrameCount(len) == len \div FrameSize
Parse(slice)    == [i \in 1..FrameCount(Len(slice)) |->
                      SubSeq(slice, (i - 1) * FrameSize + 1, i * FrameSize)]
Consumed(len)   == FrameCount(len) * FrameSize

\* Mutant: the window may close altogether.
RunsShortNever(b) == Window(b) > BufSize

\* c.buf.0.len() < min_read_buf_sz: a new buffer is needed.
RunsShort(b) == Window(b) < MinBuf

\* Mutants: what was left is not moved; marker is not reset; no frame is
\* skipped once it is parsed.
SwapDropsRest(rest, n) ==
  /\ buf' = <<>> /\ marker' = 0
  /\ torn' = (torn \/ marker < Len(buf))
SwapKeepsMarker(rest, n) ==
  /\ buf' = rest /\ marker' = marker + Consumed(n)
  /\ torn' = (torn \/ marker < Len(buf))
GoOnUnmarked(filled, n) == buf' = filled /\ UNCHANGED <<marker, torn>>

\* The rest of the slice, not of the buffer, is moved to the new one.
SwapBuffers(rest, n) ==
  /\ buf' = rest /\ marker' = 0
  /\ torn' = (torn \/ marker < Len(buf))

GoOn(filled, n) == buf' = filled /\ marker' = marker + Consumed(n) /\ UNCHANGED torn

\* The slice to parse starts at marker and is as long as the last read.  A read of
\* no bytes, at the end of the stream or into a window that is closed, takes the
\* same way.
Readable ==
  LET n      == ReadCount
      filled == buf \o [i \in 1..n |-> taken + i]
      slice  == SubSeq(filled, marker + 1, marker + n)
      rest   == SubSeq(slice, Consumed(n) + 1, n)
  IN
  /\ taken < sent \/ fin
  /\ taken' = taken + n
  /\ delivered' = delivered \o Parse(slice)
  /\ IF RunsShort(filled) THEN SwapBuffers(rest, n) ELSE GoOn(filled, n)
  /\ whole' = (whole /\ n % FrameSize = 0)
  /\ UNCHANGED <<sent, fin>>

Next == PeerSends \/ PeerCloses \/ Readable

Spec == Init /\ [][Next]_vars

-----------------------------------------------------------------------------
(* Properties.                                                             *)

\* Types, and the reason why unwrap() of the slice never panics: marker never
\* passes the filled part, so that marker + n bytes are there after a read.
TypeOK ==
  /\ sent \in 0..MaxBytes /\ fin \in BOOLEAN /\ taken \in 0..sent
  /\ buf \in Seq(Byte) /\ Len(buf) <= BufSize /\ delivered \in Seq(Frame)
  /\ marker \in 0..Len(buf)
  /\ torn \in BOOLEAN /\ whole \in BOOLEAN

\* The window never closes, if a frame fits into a buffer: a read into a closed
\* window would return no bytes, and the buffer would be changed for an empty one
\* with all that is unparsed in it.
RoomToRead == FrameSize <= BufSize => Len(buf) < BufSize

\* The place in the stream that parsing has reached.
Parsed == Len(delivered) * FrameSize

\* What was delivered and what is still in the buffer are together the bytes read:
\* no frame is lost, doubled, cut or out of order, however the bytes arrive.
Intact ==
  /\ taken = Parsed + (Len(buf) - marker)
  /\ \A i \in 1..Len(delivered) : \A j \in 1..FrameSize :
       delivered[i][j] = (i - 1) * FrameSize + j
  /\ \A j \in 1..(Len(buf) - marker) : buf[marker + j] = Parsed + j

\* The stream is intact until the buffer is changed by a read that found bytes of
\* an earlier read in it unparsed, and only such a change can break it.
StreamIntact == ~torn => Intact

\* If every read returns whole frames, every frame is delivered by the read
\* that brought it and no buffer change loses anything.
WholeReadsDeliver == whole => ~torn /\ Parsed = taken

\* What the comment on the change of buffers and the doc of connect say: all bytes
\* that were not eaten are moved to the new buffer, all data that arrives is sent
\* on.
NothingLost == Intact

=============================================================================
