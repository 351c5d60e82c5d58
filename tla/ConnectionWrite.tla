-------------------------- MODULE ConnectionWrite --------------------------
(***************************************************************************)
(* The write path of a connection, byte by byte: notify and writable, both *)
(* of which run drain_write_queue_to_socket, against an edge-triggered     *)
(* poller.  A byte is the number of its place in what was handed over.     *)
(*                                                                         *)
(* The socket is external: room is the space left in its send buffer,      *)
(* armed says that the poller has an event for it.  An event arises when   *)
(* space appears while WRITABLE is registered, when the connection breaks, *)
(* and on reregister if the socket is ready at that time.                  *)
(***************************************************************************)
EXTENDS Naturals, Sequences, SequencesExt

CONSTANTS
  Room,      \* size of the socket's send buffer
  MaxBuf,    \* bound: bytes of one StreamBuf
  MaxQueue,  \* bound: buffers in outbuf when one more is handed over
  MaxBytes   \* bound: bytes handed over altogether

ASSUME BoundAssumption ==
  /\ Room \in Nat \ {0} /\ MaxBuf \in Nat /\ MaxQueue \in Nat /\ MaxBytes \in Nat

VARIABLES
  outbuf,    \* c.outbuf, the bytes of each buffer that are not written yet
  room,      \* free bytes of the send buffer
  wire,      \* bytes written
  pushed,    \* bytes handed over by notify
  pc,        \* "poll", "drain" (in the loop) or "rearm" (after it, outbuf.len() > 0)
  reg,       \* WRITABLE is registered
  armed,     \* the poller has an event
  sock       \* "open", "broken" (reset by the peer), "closed" (out of the slab)

vars == <<outbuf, room, wire, pushed, pc, reg, armed, sock>>

Byte == 1..MaxBytes

Init ==
  /\ outbuf = <<>> /\ room = Room /\ wire = <<>> /\ pushed = 0
  /\ pc = "poll" /\ reg = FALSE /\ armed = FALSE /\ sock = "open"

\* notify: the buffer is queued and draining starts; without a connection for
\* the token it is dropped.
Notify(len) ==
  /\ pc = "poll" /\ pushed + len <= MaxBytes
  /\ IF sock = "closed"
     THEN UNCHANGED vars
     ELSE /\ Len(outbuf) <= MaxQueue
          /\ outbuf' = Append(outbuf, [i \in 1..len |-> pushed + i])
          /\ pushed' = pushed + len
          /\ pc' = "drain"
          /\ UNCHANGED <<room, wire, reg, armed, sock>>

\* Mutant: a buffer leaves the queue even if it was written in part.
AfterWritePops(n) == Tail(outbuf)

\* n == sz: the buffer leaves the queue; otherwise it was advanced by n.
AfterWrite(n) ==
  IF n = Len(Head(outbuf)) THEN Tail(outbuf)
  ELSE <<SubSeq(Head(outbuf), n + 1, Len(Head(outbuf)))>> \o Tail(outbuf)

\* Ready(n): the socket takes at least one byte, or all of an empty buffer.
WriteReady ==
  /\ pc = "drain" /\ outbuf # <<>> /\ sock = "open"
  /\ \E n \in 0..Len(Head(outbuf)) :
       /\ n <= room /\ (n = 0 => Head(outbuf) = <<>>)
       /\ wire' = wire \o SubSeq(Head(outbuf), 1, n)
       /\ room' = room - n
       /\ outbuf' = AfterWrite(n)
  /\ UNCHANGED <<pushed, pc, reg, armed, sock>>

\* Mutant: a buffer that could not be written is dropped.
WriteFailsDrops ==
  /\ pc = "drain" /\ outbuf # <<>>
  /\ sock = "broken" \/ (room = 0 /\ Head(outbuf) # <<>>)
  /\ pc' = "rearm" /\ outbuf' = Tail(outbuf)
  /\ UNCHANGED <<room, wire, pushed, reg, armed, sock>>

\* WouldBlock and Err end the loop and keep the buffer.
WriteFails ==
  /\ pc = "drain" /\ outbuf # <<>>
  /\ sock = "broken" \/ (room = 0 /\ Head(outbuf) # <<>>)
  /\ pc' = "rearm"
  /\ UNCHANGED <<outbuf, room, wire, pushed, reg, armed, sock>>

\* Everything is written: the registration stays as it is.
Drained ==
  /\ pc = "drain" /\ outbuf = <<>>
  /\ pc' = "poll"
  /\ UNCHANGED <<outbuf, room, wire, pushed, reg, armed, sock>>

\* Mutant: the interest is noted but the poller is not told.
RearmForgotten ==
  /\ pc = "rearm" /\ pc' = "poll"
  /\ UNCHANGED <<outbuf, room, wire, pushed, reg, armed, sock>>

\* interest.insert(WRITABLE), reregister: a socket that is ready by now has an
\* event at once.
Rearm ==
  /\ pc = "rearm" /\ pc' = "poll"
  /\ reg' = TRUE
  /\ armed' = (armed \/ room > 0 \/ sock = "broken")
  /\ UNCHANGED <<outbuf, room, wire, pushed, sock>>

\* Mutant: an error event is taken for a writable one.
EventNeverCloses ==
  /\ pc = "poll" /\ armed /\ sock # "closed"
  /\ armed' = FALSE /\ pc' = "drain"
  /\ UNCHANGED <<outbuf, room, wire, pushed, reg, sock>>

\* The event loop serves an event: writable drains; after a reset it comes with
\* HUPHINT and readable removes the connection.
Event ==
  /\ pc = "poll" /\ armed /\ sock # "closed"
  /\ armed' = FALSE
  /\ IF sock = "broken" THEN sock' = "closed" /\ pc' = pc ELSE pc' = "drain" /\ sock' = sock
  /\ UNCHANGED <<outbuf, room, wire, pushed, reg>>

\* The peer takes bytes out of the send buffer; space after none is an edge.
PeerReads ==
  /\ sock = "open" /\ room < Room
  /\ room' \in (room + 1)..Room
  /\ armed' = (armed \/ (reg /\ room = 0))
  /\ UNCHANGED <<outbuf, wire, pushed, pc, reg, sock>>

\* The peer resets the connection: reported whatever is registered.
PeerResets ==
  /\ sock = "open"
  /\ sock' = "broken" /\ armed' = TRUE
  /\ UNCHANGED <<outbuf, room, wire, pushed, pc, reg>>

Drain == WriteReady \/ WriteFails \/ Drained \/ Rearm

Next == (\E len \in 0..MaxBuf : Notify(len)) \/ Drain \/ Event \/ PeerReads \/ PeerResets

Spec == Init /\ [][Next]_vars

\* The event loop thread runs on and serves its events; the peer keeps reading.
FairSpec == Spec /\ WF_vars(Drain) /\ SF_vars(Event) /\ WF_vars(PeerReads)

-----------------------------------------------------------------------------
(* Properties.                                                             *)

\* Types; the poller is told only after a drain that left something.
TypeOK ==
  /\ outbuf \in Seq(Seq(Byte)) /\ wire \in Seq(Byte)
  /\ room \in 0..Room /\ pushed \in 0..MaxBytes
  /\ pc \in {"poll", "drain", "rearm"} /\ sock \in {"open", "broken", "closed"}
  /\ pc = "rearm" => outbuf # <<>>
  /\ reg \in BOOLEAN /\ armed \in BOOLEAN

\* What is on the wire and what is still queued are together the bytes handed
\* over, in order: partial writes, full sockets and errors neither lose, double
\* nor swap any.
WrittenInOrder == wire \o FlattenSeq(outbuf) = [i \in 1..pushed |-> i]

\* While output is queued and the loop is back at its poller, an event is there
\* if the socket has room or is broken, and is bound to come otherwise: the edge
\* between a failed write and reregister is not missed.
WakeupPending ==
  pc = "poll" /\ outbuf # <<>> /\ sock # "closed" =>
    reg /\ (room > 0 \/ sock = "broken" => armed)

\* Queued output is written or its connection is released, provided that the
\* peer keeps reading.
OutputFlushed == outbuf # <<>> ~> outbuf = <<>> \/ sock = "closed"
=============================================================================
