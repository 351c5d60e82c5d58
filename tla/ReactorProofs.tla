--------------------------- MODULE ReactorProofs ---------------------------
(***************************************************************************)
(* The engine for any number of connections, slots, peers and frames: its  *)
(* slab and its tokens stay consistent, a buffer strays only after the     *)
(* connection it was meant for was removed, and no event is missed.        *)
(***************************************************************************)
EXTENDS Reactor, SequenceTheorems, FiniteSetTheorems, TLAPS

-----------------------------------------------------------------------------
(* The inductive invariant.                                                *)

\* A connection that was given a slot and was not removed yet.
Live(c) == tok[c] # 0 /\ c \notin gone

\* The loop: a handler works for a connection that has a token and, until readable
\* has ended, is still in the slab.
LoopOK ==
  /\ pc \in {"setup", "poll", "sending", "writable", "stopped"}
  /\ job \in [conn : Conn \cup {None}, todo : 0..Window, hup : BOOLEAN, write : BOOLEAN]
  /\ timers \in [used : 0..TimerSlots, pending : 0..TimerSlots]
  /\ timers.pending <= timers.used
  /\ pc \in {"setup", "poll", "stopped"} => job.conn = None
  /\ pc = "sending" => job.conn \in Conn /\ Live(job.conn)
  /\ pc = "writable" => job.conn \in Conn /\ tok[job.conn] # 0

\* The free list has every free slot once.
FreeOnce ==
  /\ \A i \in 1..Len(free) : slab[free[i]] = None
  /\ \A i, j \in 1..Len(free) : free[i] = free[j] => i = j
  /\ \A t \in Slot : slab[t] = None => \E i \in 1..Len(free) : free[i] = t

\* The slab and the tokens are inverse to each other.
SlabOK ==
  /\ slab \in [Slot -> Conn \cup {None}] /\ free \in Seq(Slot) /\ 0 \notin Slot
  /\ tok \in [Conn -> {0} \cup Slot] /\ gone \subseteq Conn
  /\ FreeOnce
  /\ \A t \in Slot : slab[t] # None => tok[slab[t]] = t /\ slab[t] \notin gone
  /\ \A c \in Conn : Live(c) => slab[tok[c]] = c

\* What waits to be accepted was never in the slab, and waits once.
BacklogOK ==
  /\ backlog \in Seq(Inbound)
  /\ accepting = "armed" => backlog # <<>>
  /\ \A i, j \in 1..Len(backlog) : backlog[i] = backlog[j] => i = j
  /\ \A i \in 1..Len(backlog) :
       /\ tok[backlog[i]] = 0 /\ backlog[i] \notin gone
       /\ link[backlog[i]] \notin {"idle", "connecting"}

\* The sockets.  Nothing is reported of a connect in progress, so its connection
\* cannot have been removed.
LinkOK ==
  /\ accepting \in {"off", "idle", "armed"}
  /\ link \in [Conn -> {"idle", "connecting", "up", "fin", "reset"}]
  /\ sent \in [Conn -> 0..Frames] /\ read \in [Conn -> 0..Frames]
  /\ room \in [Conn -> 0..Room]
  /\ \A c \in Conn : read[c] <= sent[c]
  /\ \A c \in Conn : link[c] \in {"idle", "connecting"} => sent[c] = 0 /\ room[c] = 0
  /\ \A c \in Conn : link[c] = "idle" => tok[c] = 0
  /\ \A c \in Inbound : link[c] = "idle" => c \notin gone
  /\ \A c \in Conn : link[c] = "connecting" => Live(c) /\ c \notin armed /\ job.conn # c

\* The connection of a message on its way still has the token, or was removed.
Known(m) == m.conn \in gone \/ tok[m.conn] = m.tok
\* A buffer that a connection was given was meant for it.
Meant(m, c) == m.conn = c \/ m.conn \in gone

\* The queues.  Only a client that was given a token has a receiver.
QueuesOK ==
  /\ out \in [Conn -> Seq(Message)] /\ wire \in [Conn -> Seq(Message)]
  /\ queue \in [Queue -> Seq(Message)] /\ \A q \in Queue : Len(queue[q]) <= QueueSize
  /\ rx \in [Queue -> BOOLEAN] /\ hold \in [Queue -> Message \cup {None}]
  /\ asked \in [Client -> 0..Requests]
  /\ mailbox \in Seq(Message) /\ Len(mailbox) <= NotifyCap
  /\ \A c \in Client : rx[c] => tok[c] # 0

\* Messages on their way through a consumer back to the loop.
KnownOK ==
  /\ \A q \in Queue : \A i \in 1..Len(queue[q]) : Known(queue[q][i])
  /\ \A q \in Queue : hold[q] # None => Known(hold[q])
  /\ \A i \in 1..Len(mailbox) : Known(mailbox[i])

\* Buffers that have arrived at a connection.
MeantOK ==
  /\ \A c \in Conn : \A i \in 1..Len(out[c]) : Meant(out[c][i], c)
  /\ \A c \in Conn : \A i \in 1..Len(wire[c]) : Meant(wire[c][i], c)

\* The two halves of EventPending.  Input is looked at again when readable ends,
\* so it may be missing only until then.
InputPending(c) ==
  /\ "READABLE" \in reg[c] /\ HasInput(c) => c \in armed
  /\ HungUp(c, reg[c]) => c \in armed
OutputPending(c) ==
  out[c] # <<>> => "WRITABLE" \in reg[c] /\ (HasRoom(c, room[c]) => c \in armed)

\* The poller: it watches live connections, and WRITABLE stays in the interest of
\* a connection that has output.
WatchOK ==
  /\ interest \in [Conn -> SUBSET Event] /\ reg \in [Conn -> SUBSET Event] /\ armed \subseteq Conn
  /\ \A c \in Conn : reg[c] # {} \/ c \in armed => Live(c)
  /\ \A c \in Conn : out[c] # <<>> => Live(c) /\ "WRITABLE" \in interest[c]
  /\ \A c \in Conn : reg[c] # {} /\ ~(pc = "sending" /\ job.conn = c) => InputPending(c)
  /\ \A c \in Conn : reg[c] # {} /\ job.conn # c => OutputPending(c)

Inv == LoopOK /\ SlabOK /\ BacklogOK /\ LinkOK /\ QueuesOK /\ KnownOK /\ MeantOK /\ WatchOK

-----------------------------------------------------------------------------
(* What each part depends on.                                              *)

\* Each part is kept by a step that leaves its variables alone.
LEMMA LoopFrame == LoopOK /\ UNCHANGED <<pc, job, timers, tok, gone>> => LoopOK'
  BY DEF LoopOK, Live

LEMMA SlabFrame == SlabOK /\ UNCHANGED <<slab, free, tok, gone>> => SlabOK'
  BY DEF SlabOK, FreeOnce, Live, Slot

LEMMA BacklogFrame ==
  BacklogOK /\ UNCHANGED <<accepting, backlog, tok, gone, link>> => BacklogOK'
  BY DEF BacklogOK

LEMMA LinkFrame ==
  LinkOK /\ UNCHANGED <<accepting, link, sent, read, room, tok, gone, armed, job>> => LinkOK'
  BY DEF LinkOK, Live

LEMMA QueuesFrame ==
  QueuesOK /\ UNCHANGED <<out, wire, queue, rx, hold, asked, mailbox, tok, slab>> => QueuesOK'
<1> SUFFICES ASSUME QueuesOK, UNCHANGED <<out, wire, queue, rx, hold, asked, mailbox, tok, slab>>
             PROVE  QueuesOK'
  OBVIOUS
<1>1. Message' = Message
  BY DEF Message, Slot
<1> QED BY <1>1 DEF QueuesOK

LEMMA KnownFrame == KnownOK /\ UNCHANGED <<queue, hold, mailbox, tok, gone>> => KnownOK'
  BY DEF KnownOK, Known

LEMMA MeantFrame == MeantOK /\ UNCHANGED <<out, wire, gone>> => MeantOK'
  BY DEF MeantOK, Meant

LEMMA WatchFrame ==
  /\ WatchOK
  /\ UNCHANGED <<interest, reg, armed, tok, gone, out, link, sent, read, room, pc, job>>
  => WatchOK'
  BY DEF WatchOK, Live, InputPending, OutputPending, HasInput, HungUp, HasRoom

\* What is pending for a connection depends on that connection only.
LEMMA PendingFrame ==
  ASSUME NEW d, reg'[d] = reg[d], link'[d] = link[d], sent'[d] = sent[d], read'[d] = read[d],
         d \in armed => d \in armed'
  PROVE  /\ InputPending(d) => InputPending(d)'
         /\ OutputPending(d) /\ room'[d] = room[d] /\ out'[d] = out[d] => OutputPending(d)'
  BY DEF InputPending, OutputPending, HasInput, HungUp, HasRoom

\* Connections are given tokens and are removed, and neither is undone.
Grows ==
  /\ gone \subseteq gone' /\ Slot' = Slot
  /\ \A c \in Conn : tok[c] # 0 => tok'[c] = tok[c]

\* Messages stay good when connections are added or removed.
LEMMA QueuesGrow ==
  QueuesOK /\ Grows /\ UNCHANGED <<out, wire, queue, rx, hold, asked, mailbox>> => QueuesOK'
<1> SUFFICES ASSUME QueuesOK, Grows, UNCHANGED <<out, wire, queue, rx, hold, asked, mailbox>>
             PROVE  QueuesOK'
  OBVIOUS
<1>1. Message' = Message
  BY DEF Message, Grows
<1>2. \A c \in Client : rx'[c] => tok'[c] # 0
  BY DEF QueuesOK, Grows, Conn
<1> QED BY <1>1, <1>2 DEF QueuesOK

\* A token in a message is not 0, so the connection it belongs to keeps it.
LEMMA KnownGrows ==
  ASSUME NEW m \in Message, 0 \notin Slot, Grows, Known(m)
  PROVE  Known(m)'
  BY DEF Message, Grows, Known

LEMMA AllKnownGrow ==
  SlabOK /\ QueuesOK /\ KnownOK /\ Grows /\ UNCHANGED <<queue, hold, mailbox>> => KnownOK'
<1> SUFFICES ASSUME SlabOK, QueuesOK, KnownOK, Grows, UNCHANGED <<queue, hold, mailbox>>
             PROVE  KnownOK'
  OBVIOUS
<1>1. 0 \notin Slot
  BY DEF SlabOK
<1>2. ASSUME NEW q \in Queue, NEW i \in 1..Len(queue[q]) PROVE Known(queue[q][i])'
  <2>1. queue[q][i] \in Message
    BY ElementOfSeq DEF QueuesOK
  <2>2. Known(queue[q][i])
    BY DEF KnownOK
  <2> QED BY <1>1, <2>1, <2>2, KnownGrows DEF Known
<1>3. ASSUME NEW q \in Queue, hold[q] # None PROVE Known(hold[q])'
  <2>1. hold[q] \in Message /\ Known(hold[q])
    BY <1>3 DEF QueuesOK, KnownOK
  <2> QED BY <1>1, <2>1, KnownGrows DEF Known
<1>4. ASSUME NEW i \in 1..Len(mailbox) PROVE Known(mailbox[i])'
  <2>1. mailbox[i] \in Message
    BY ElementOfSeq DEF QueuesOK
  <2>2. Known(mailbox[i])
    BY DEF KnownOK
  <2> QED BY <1>1, <2>1, <2>2, KnownGrows DEF Known
<1> QED BY <1>2, <1>3, <1>4 DEF KnownOK

LEMMA MeantGrows == MeantOK /\ Grows /\ UNCHANGED <<out, wire>> => MeantOK'
  BY DEF MeantOK, Meant, Grows

-----------------------------------------------------------------------------
(* The slab.                                                               *)

\* A new connection takes the first free slot, which is then no longer free.
LEMMA InsertSlab ==
  ASSUME SlabOK, NEW c \in Conn, tok[c] = 0, c \notin gone, free # <<>>,
         Insert(c), UNCHANGED gone
  PROVE  SlabOK' /\ Grows /\ tok'[c] \in Slot /\ tok'[c] # 0
         /\ \A d \in Conn : d # c => tok'[d] = tok[d]
<1> DEFINE h == Head(free)
<1>1. /\ slab' = [slab EXCEPT ![h] = c] /\ free' = Tail(free)
      /\ tok' = [tok EXCEPT ![c] = h] /\ gone' = gone
  BY DEF Insert
<1>2. /\ slab \in [Slot -> Conn \cup {None}] /\ free \in Seq(Slot) /\ 0 \notin Slot
      /\ tok \in [Conn -> {0} \cup Slot] /\ gone \subseteq Conn
      /\ \A t \in Slot : slab[t] # None => tok[slab[t]] = t /\ slab[t] \notin gone
      /\ \A d \in Conn : Live(d) => slab[tok[d]] = d
  BY DEF SlabOK
<1>3. /\ \A i \in 1..Len(free) : slab[free[i]] = None
      /\ \A i, j \in 1..Len(free) : free[i] = free[j] => i = j
      /\ \A t \in Slot : slab[t] = None => \E i \in 1..Len(free) : free[i] = t
  BY DEF SlabOK, FreeOnce
<1>4. /\ Len(free) \in Nat /\ 1 \in 1..Len(free) /\ h = free[1] /\ h \in Slot
      /\ free' \in Seq(Slot) /\ Len(free') = Len(free) - 1
      /\ \A i \in 1..Len(free') : free'[i] = free[i + 1]
  BY <1>1, <1>2, HeadTailProperties, LenProperties
<1>5. slab[h] = None /\ c # None
  BY <1>3, <1>4, EngineAssumption DEF Conn
<1> HIDE DEF h
<1>6. slab' \in [Slot -> Conn \cup {None}] /\ Slot' = Slot
      /\ slab'[h] = c /\ \A t \in Slot : t # h => slab'[t] = slab[t]
  BY <1>1, <1>2, <1>4 DEF Slot
<1>7. /\ tok' \in [Conn -> {0} \cup Slot] /\ tok'[c] = h
      /\ \A d \in Conn : d # c => tok'[d] = tok[d]
  BY <1>1, <1>2, <1>4
<1>8. FreeOnce'
  <2>1. \A i \in 1..Len(free') : i + 1 \in 1..Len(free) /\ i + 1 # 1
    BY <1>4
  <2>2. \A i \in 1..Len(free') : slab'[free'[i]] = None
    <3> TAKE i \in 1..Len(free')
    <3>1. free'[i] = free[i + 1] /\ free'[i] # h /\ free'[i] \in Slot
      BY <2>1, <1>3, <1>4, <1>2, ElementOfSeq
    <3> QED BY <3>1, <2>1, <1>3, <1>6
  <2>3. \A i, j \in 1..Len(free') : free'[i] = free'[j] => i = j
    <3> TAKE i, j \in 1..Len(free')
    <3> HAVE free'[i] = free'[j]
    <3>1. i + 1 = j + 1
      BY <2>1, <1>3, <1>4
    <3> QED BY <3>1
  <2>4. \A t \in Slot : slab'[t] = None => \E i \in 1..Len(free') : free'[i] = t
    <3> TAKE t \in Slot
    <3> HAVE slab'[t] = None
    <3>1. t # h /\ slab[t] = None
      BY <1>5, <1>6
    <3>2. PICK i \in 1..Len(free) : free[i] = t
      BY <3>1, <1>3
    <3>3. i # 1
      BY <3>1, <3>2, <1>4
    <3>4. i - 1 \in 1..Len(free') /\ (i - 1) + 1 = i
      BY <3>3, <1>4
    <3> QED BY <3>2, <3>4, <1>4
  <2> QED BY <2>2, <2>3, <2>4, <1>6 DEF FreeOnce
<1>9. \A t \in Slot : slab'[t] # None => tok'[slab'[t]] = t /\ slab'[t] \notin gone'
  <2> TAKE t \in Slot
  <2> HAVE slab'[t] # None
  <2>1. CASE t = h
    BY <2>1, <1>1, <1>6, <1>7
  <2>2. CASE t # h
    <3>1. slab'[t] = slab[t] /\ slab[t] # None
      BY <2>2, <1>6
    <3>2. tok[slab[t]] = t /\ slab[t] \notin gone /\ slab[t] \in Conn
      BY <3>1, <1>2
    <3>3. slab[t] # c
      BY <3>2, <1>2
    <3> QED BY <3>1, <3>2, <3>3, <1>1, <1>7
  <2> QED BY <2>1, <2>2
<1>10. \A d \in Conn : Live(d)' => slab'[tok'[d]] = d
  <2> TAKE d \in Conn
  <2> HAVE Live(d)'
  <2>1. CASE d = c
    BY <2>1, <1>6, <1>7
  <2>2. CASE d # c
    <3>1. tok'[d] = tok[d] /\ Live(d)
      BY <2>2, <1>1, <1>7 DEF Live
    <3>2. slab[tok[d]] = d /\ tok[d] \in Slot
      BY <3>1, <1>2 DEF Live
    <3>3. tok[d] # h
      BY <3>2, <1>5, EngineAssumption DEF Conn
    <3> QED BY <3>1, <3>2, <3>3, <1>6
  <2> QED BY <2>1, <2>2
<1>11. SlabOK'
  BY <1>1, <1>2, <1>4, <1>6, <1>7, <1>8, <1>9, <1>10 DEF SlabOK
<1>12. Grows
  BY <1>1, <1>6, <1>7 DEF Grows
<1> QED BY <1>2, <1>4, <1>7, <1>11, <1>12

\* A removed connection's slot is the next one to be used.
LEMMA ReleaseSlab ==
  ASSUME SlabOK, NEW c \in Conn, Live(c), Release(c), UNCHANGED tok
  PROVE  SlabOK' /\ Grows
<1> DEFINE h == tok[c]
<1>1. /\ slab' = [slab EXCEPT ![h] = None] /\ free' = <<h>> \o free
      /\ tok' = tok /\ gone' = gone \cup {c}
  BY DEF Release
<1>2. /\ slab \in [Slot -> Conn \cup {None}] /\ free \in Seq(Slot) /\ 0 \notin Slot
      /\ tok \in [Conn -> {0} \cup Slot] /\ gone \subseteq Conn
      /\ \A t \in Slot : slab[t] # None => tok[slab[t]] = t /\ slab[t] \notin gone
      /\ \A d \in Conn : Live(d) => slab[tok[d]] = d
  BY DEF SlabOK
<1>3. /\ \A i \in 1..Len(free) : slab[free[i]] = None
      /\ \A i, j \in 1..Len(free) : free[i] = free[j] => i = j
      /\ \A t \in Slot : slab[t] = None => \E i \in 1..Len(free) : free[i] = t
  BY DEF SlabOK, FreeOnce
<1>4. h \in Slot /\ slab[h] = c /\ c # None
  BY <1>2, EngineAssumption DEF Live, Conn
<1> HIDE DEF h
<1>5. /\ Len(free) \in Nat /\ free' \in Seq(Slot) /\ Len(free') = Len(free) + 1
      /\ free'[1] = h /\ \A i \in 1..Len(free) : free'[i + 1] = free[i]
  <2> DEFINE one == <<h>>
  <2>1. one \in Seq(Slot) /\ Len(one) = 1 /\ one[1] = h
    BY <1>4
  <2> HIDE DEF one
  <2>2. /\ one \o free \in Seq(Slot) /\ Len(one \o free) = 1 + Len(free)
        /\ \A i \in 1..(1 + Len(free)) :
             (one \o free)[i] = IF i <= 1 THEN one[i] ELSE free[i - 1]
    <3>1. /\ one \o free \in Seq(Slot) /\ Len(one \o free) = Len(one) + Len(free)
          /\ \A i \in 1..(Len(one) + Len(free)) :
               (one \o free)[i] = IF i <= Len(one) THEN one[i] ELSE free[i - Len(one)]
      <4>1. one \in Seq(Slot) /\ free \in Seq(Slot)
        BY <1>2, <2>1
      <4> QED BY <4>1, ConcatProperties
    <3> QED BY <3>1, <2>1
  <2>3. Len(free) \in Nat
    BY <1>2, LenProperties
  <2>4. free' = one \o free
    BY <1>1 DEF one
  <2>5. (one \o free)[1] = h
    BY <2>1, <2>2, <2>3
  <2>6. \A i \in 1..Len(free) : (one \o free)[i + 1] = free[i]
    <3> TAKE i \in 1..Len(free)
    <3>1. i + 1 \in 1..(1 + Len(free)) /\ ~(i + 1 <= 1) /\ (i + 1) - 1 = i
      BY <2>3
    <3> QED BY <3>1, <2>2
  <2> QED BY <2>2, <2>3, <2>4, <2>5, <2>6
<1>6. slab' \in [Slot -> Conn \cup {None}] /\ Slot' = Slot
      /\ slab'[h] = None /\ \A t \in Slot : t # h => slab'[t] = slab[t]
  BY <1>1, <1>2, <1>4 DEF Slot
<1>7. \A i \in 1..Len(free') : i = 1 \/ (i - 1 \in 1..Len(free) /\ free'[i] = free[i - 1])
  <2> TAKE i \in 1..Len(free')
  <2> SUFFICES ASSUME i # 1 PROVE i - 1 \in 1..Len(free) /\ free'[i] = free[i - 1]
    OBVIOUS
  <2>1. i - 1 \in 1..Len(free) /\ (i - 1) + 1 = i
    BY <1>5
  <2> QED BY <2>1, <1>5
<1>8. \A i \in 1..Len(free) : free[i] # h
  BY <1>3, <1>4
<1>9. FreeOnce'
  <2>1. \A i \in 1..Len(free') : slab'[free'[i]] = None
    <3> TAKE i \in 1..Len(free')
    <3>1. CASE i = 1
      BY <3>1, <1>5, <1>6
    <3>2. CASE i - 1 \in 1..Len(free) /\ free'[i] = free[i - 1]
      BY <3>2, <1>2, <1>3, <1>6, <1>8, ElementOfSeq
    <3> QED BY <3>1, <3>2, <1>7
  <2>2. \A i, j \in 1..Len(free') : free'[i] = free'[j] => i = j
    <3> TAKE i, j \in 1..Len(free')
    <3> HAVE free'[i] = free'[j]
    <3>1. CASE i = 1 \/ j = 1
      BY <3>1, <1>5, <1>7, <1>8
    <3>2. CASE i # 1 /\ j # 1
      <4>1. i - 1 = j - 1
        BY <3>2, <1>3, <1>7
      <4> QED BY <4>1
    <3> QED BY <3>1, <3>2
  <2>3. \A t \in Slot : slab'[t] = None => \E i \in 1..Len(free') : free'[i] = t
    <3> TAKE t \in Slot
    <3> HAVE slab'[t] = None
    <3>1. CASE t = h
      <4>1. 1 \in 1..Len(free')
        BY <1>5
      <4> QED BY <4>1, <3>1, <1>5
    <3>2. CASE t # h
      <4>1. PICK i \in 1..Len(free) : free[i] = t
        BY <3>2, <1>3, <1>6
      <4>2. i + 1 \in 1..Len(free')
        BY <1>5
      <4> QED BY <4>1, <4>2, <1>5
    <3> QED BY <3>1, <3>2
  <2> QED BY <2>1, <2>2, <2>3, <1>6 DEF FreeOnce
<1>10. \A t \in Slot : slab'[t] # None => tok'[slab'[t]] = t /\ slab'[t] \notin gone'
  <2> TAKE t \in Slot
  <2> HAVE slab'[t] # None
  <2>1. t # h /\ slab'[t] = slab[t]
    BY <1>6
  <2>2. tok[slab[t]] = t /\ slab[t] \notin gone
    BY <2>1, <1>2
  <2>3. slab[t] # c
    BY <2>1, <2>2 DEF h
  <2> QED BY <2>1, <2>2, <2>3, <1>1
<1>11. \A d \in Conn : Live(d)' => slab'[tok'[d]] = d
  <2> TAKE d \in Conn
  <2> HAVE Live(d)'
  <2>1. Live(d) /\ d # c
    BY <1>1 DEF Live
  <2>2. slab[tok[d]] = d /\ tok[d] \in Slot
    BY <2>1, <1>2 DEF Live
  <2>3. tok[d] # h
    BY <2>1, <2>2, <1>4
  <2> QED BY <2>2, <2>3, <1>1, <1>6
<1>12. gone' \subseteq Conn /\ tok' \in [Conn -> {0} \cup Slot]
  BY <1>1, <1>2
<1>13. SlabOK'
  BY <1>2, <1>5, <1>6, <1>9, <1>10, <1>11, <1>12 DEF SlabOK
<1>14. Grows
  BY <1>1, <1>6 DEF Grows
<1> QED BY <1>13, <1>14

\* A connection for which there is no slot changes nothing in the slab.
LEMMA RefuseSlab ==
  ASSUME SlabOK, NEW c \in Conn, tok[c] = 0, gone' = gone \cup {c}, UNCHANGED <<slab, free, tok>>
  PROVE  SlabOK' /\ Grows
<1>1. FreeOnce' /\ Slot' = Slot
  BY DEF SlabOK, FreeOnce, Slot
<1>2. \A t \in Slot : slab[t] # None => slab[t] # c
  BY DEF SlabOK
<1>3. SlabOK'
  BY <1>1, <1>2 DEF SlabOK, Live
<1> QED BY <1>1, <1>3 DEF Grows

-----------------------------------------------------------------------------
(* Setting up.                                                             *)

\* An empty slab.
LEMMA InitInv == Init => Inv
<1> SUFFICES ASSUME Init PROVE Inv
  OBVIOUS
<1>1. LoopOK
  BY EngineAssumption DEF Init, LoopOK, NoJob
<1>2. PICK n \in Slots : slab = [t \in 1..n |-> None] /\ free = [t \in 1..n |-> t]
  BY DEF Init
<1>3. n \in Nat /\ Slot = 1..n
  BY <1>2, EngineAssumption DEF Slot
<1>4. SlabOK
  <2>1. free \in Seq(Slot) /\ Len(free) = n
    BY <1>2, <1>3
  <2>2. FreeOnce
    BY <1>2, <1>3, <2>1 DEF FreeOnce
  <2>3. /\ slab \in [Slot -> Conn \cup {None}] /\ 0 \notin Slot
        /\ tok \in [Conn -> {0} \cup Slot] /\ gone \subseteq Conn
        /\ \A t \in Slot : slab[t] = None
        /\ \A c \in Conn : ~Live(c)
    BY <1>2, <1>3 DEF Init, Live
  <2> QED BY <2>1, <2>2, <2>3 DEF SlabOK
<1>5. BacklogOK
  BY DEF Init, BacklogOK
<1>6. LinkOK
  BY EngineAssumption DEF Init, LinkOK
<1>7. QueuesOK
  <2>1. <<>> \in Seq(Message) /\ Len(<<>>) = 0
    BY EmptySeq
  <2>2. /\ out \in [Conn -> Seq(Message)] /\ wire \in [Conn -> Seq(Message)]
        /\ queue \in [Queue -> Seq(Message)] /\ mailbox \in Seq(Message)
    BY <2>1 DEF Init
  <2>3. /\ rx \in [Queue -> BOOLEAN] /\ hold \in [Queue -> Message \cup {None}]
        /\ \A c \in Client : ~rx[c]
    BY DEF Init, Queue
  <2>4. /\ asked \in [Client -> 0..Requests] /\ Len(mailbox) <= NotifyCap
        /\ \A q \in Queue : Len(queue[q]) <= QueueSize
    BY <2>1, EngineAssumption DEF Init
  <2> QED BY <2>2, <2>3, <2>4 DEF QueuesOK
<1>9. KnownOK /\ MeantOK
  BY DEF Init, KnownOK, MeantOK
<1>8. WatchOK
  BY DEF Init, WatchOK
<1> QED BY <1>1, <1>4, <1>5, <1>6, <1>7, <1>8, <1>9 DEF Inv

\* The client was never in the slab; a failed connect is armed or not watched.
LEMMA ConnectInv == ASSUME NEW c \in Client, Inv, Connect(c) PROVE Inv'
<1>1. /\ pc = "setup" /\ link[c] = "idle" /\ c \notin gone
      /\ UNCHANGED <<pc, job, read, out, wire, timers, sent, room, backlog, accepting,
                     hold, asked, queue, mailbox>>
  BY DEF Connect
<1>2. c \in Conn /\ tok[c] = 0 /\ c \notin Inbound /\ job.conn = None /\ c # None
  BY <1>1, EngineAssumption DEF Inv, LinkOK, LoopOK, Conn
<1>3. reg[c] = {} /\ c \notin armed /\ out[c] = <<>>
  BY <1>2 DEF Inv, WatchOK, Live
<1>4. \A i \in 1..Len(backlog) : backlog[i] # c /\ backlog[i] \in Conn
  BY <1>2, ElementOfSeq DEF Inv, BacklogOK, Conn
<1>5. CASE free = <<>>
  <2>1. gone' = gone \cup {c} /\ UNCHANGED <<slab, free, tok, interest, reg, armed, link, rx>>
    BY <1>5 DEF Connect
  <2>2. SlabOK' /\ Grows
    BY <1>2, <2>1, RefuseSlab DEF Inv
  <2>3. LoopOK'
    BY <1>1, <2>1 DEF Inv, LoopOK
  <2>4. BacklogOK'
    BY <1>1, <1>4, <2>1 DEF Inv, BacklogOK
  <2>5. LinkOK'
    BY <1>1, <1>2, <2>1 DEF Inv, LinkOK, Live
  <2>6. QueuesOK' /\ KnownOK' /\ MeantOK'
    BY <1>1, <2>1, <2>2, QueuesGrow, AllKnownGrow, MeantGrows DEF Inv
  <2>7. WatchOK'
    BY <1>1, <1>3, <2>1 DEF Inv, WatchOK, Live, InputPending, OutputPending, HasInput, HungUp, HasRoom
  <2> QED BY <2>2, <2>3, <2>4, <2>5, <2>6, <2>7 DEF Inv
<1>6. CASE free # <<>>
  <2>1. /\ Insert(c) /\ UNCHANGED gone
        /\ \/ /\ link' = [link EXCEPT ![c] = "connecting"]
              /\ rx' = [rx EXCEPT ![c] = TRUE]
              /\ reg' = [reg EXCEPT ![c] = {"READABLE"}]
              /\ UNCHANGED armed
           \/ /\ link' = [link EXCEPT ![c] = "reset"]
              /\ reg' = [reg EXCEPT ![c] = {"READABLE"}]
              /\ armed' = armed \cup {c}
              /\ UNCHANGED rx
           \/ /\ link' = [link EXCEPT ![c] = "reset"]
              /\ UNCHANGED <<reg, armed, rx>>
    BY <1>6 DEF Connect
  <2>2. /\ SlabOK' /\ Grows /\ tok'[c] \in Slot /\ tok'[c] # 0
        /\ \A d \in Conn : d # c => tok'[d] = tok[d]
    BY <1>1, <1>2, <1>6, <2>1, InsertSlab DEF Inv
  <2>3. Live(c)' /\ \A d \in Conn : d # c => (Live(d)' <=> Live(d))
    BY <1>1, <2>1, <2>2 DEF Live
  <2>4. link' \in [Conn -> {"idle", "connecting", "up", "fin", "reset"}]
        /\ link'[c] \in {"connecting", "reset"} /\ \A d \in Conn : d # c => link'[d] = link[d]
    BY <1>2, <2>1 DEF Inv, LinkOK
  <2>5. LoopOK'
    BY <1>1 DEF Inv, LoopOK
  <2>6. BacklogOK'
    BY <1>1, <1>4, <2>1, <2>2, <2>4 DEF Inv, BacklogOK
  <2>7. LinkOK'
    <3>1. \A d \in Conn : link'[d] = "connecting" => Live(d)' /\ d \notin armed' /\ job'.conn # d
      <4> TAKE d \in Conn
      <4> HAVE link'[d] = "connecting"
      <4>1. CASE d = c
        BY <4>1, <1>1, <1>2, <1>3, <2>1, <2>3 DEF Inv, LinkOK
      <4>2. CASE d # c
        BY <4>2, <1>1, <2>1, <2>3, <2>4 DEF Inv, LinkOK
      <4> QED BY <4>1, <4>2
    <3>2. \A d \in Conn : /\ link'[d] \in {"idle", "connecting"} => sent'[d] = 0 /\ room'[d] = 0
                          /\ link'[d] = "idle" => tok'[d] = 0
      BY <1>1, <2>2, <2>4 DEF Inv, LinkOK
    <3>3. \A d \in Inbound : link'[d] = "idle" => d \notin gone'
      BY <1>2, <2>1, <2>4 DEF Inv, LinkOK, Conn
    <3> QED BY <3>1, <3>2, <3>3, <1>1, <2>4 DEF Inv, LinkOK
  <2>8. QueuesOK'
    <3>1. Message' = Message
      BY <2>2 DEF Message, Grows
    <3>2. rx' \in [Queue -> BOOLEAN]
      BY <2>1 DEF Inv, QueuesOK
    <3>3. \A d \in Client : rx'[d] => tok'[d] # 0
      <4> TAKE d \in Client
      <4>1. CASE d = c
        BY <4>1, <2>2
      <4>2. CASE d # c
        BY <4>2, <2>1, <2>2 DEF Inv, QueuesOK, Conn, Queue
      <4> QED BY <4>1, <4>2
    <3> QED BY <3>1, <3>2, <3>3, <1>1 DEF Inv, QueuesOK
  <2>9. KnownOK' /\ MeantOK'
    BY <1>1, <2>2, AllKnownGrow, MeantGrows DEF Inv
  <2>10. WatchOK'
    <3>1. /\ interest' \in [Conn -> SUBSET Event] /\ interest'[c] = {"HUP"}
          /\ \A d \in Conn : d # c => interest'[d] = interest[d]
      BY <1>2, <2>1 DEF Insert, Inv, WatchOK, Event
    <3>2. /\ reg' \in [Conn -> SUBSET Event]
          /\ \A d \in Conn : d # c => reg'[d] = reg[d]
          /\ armed' \subseteq Conn /\ \A d \in Conn : d # c => (d \in armed' <=> d \in armed)
      BY <1>2, <2>1 DEF Inv, WatchOK, Event
    <3>3. ASSUME NEW d \in Conn, d # c
          PROVE  /\ reg'[d] # {} \/ d \in armed' => Live(d)'
                 /\ out'[d] # <<>> => Live(d)' /\ "WRITABLE" \in interest'[d]
                 /\ reg'[d] # {} => InputPending(d)'
                 /\ reg'[d] # {} => OutputPending(d)'
      <4>1. /\ reg[d] # {} => InputPending(d) /\ OutputPending(d)
            /\ reg[d] # {} \/ d \in armed => Live(d)
            /\ out[d] # <<>> => Live(d) /\ "WRITABLE" \in interest[d]
        BY <1>1, <1>2, EngineAssumption DEF Inv, WatchOK, Conn
      <4> QED BY <4>1, <3>1, <3>2, <3>3, <1>1, <2>3, <2>4, PendingFrame
    <3>4. reg'[c] # {} => InputPending(c)' /\ OutputPending(c)'
      <4>1. sent[c] = 0 /\ read[c] \in Nat /\ ~(sent[c] > read[c])
        BY <1>1, <1>2, EngineAssumption DEF Inv, LinkOK
      <4> QED BY <4>1, <1>1, <1>2, <1>3, <2>1
              DEF Inv, WatchOK, LinkOK, InputPending, OutputPending, HasInput, HungUp, HasRoom
    <3> QED BY <3>1, <3>2, <3>3, <3>4, <1>1, <1>3, <2>3 DEF WatchOK
  <2> QED BY <2>2, <2>5, <2>6, <2>7, <2>8, <2>9, <2>10 DEF Inv
<1> QED BY <1>5, <1>6

LEMMA ListenInv == Inv /\ Listen => Inv'
<1> SUFFICES ASSUME Inv, Listen PROVE Inv'
  OBVIOUS
<1>1. UNCHANGED <<pc, job, timers, slab, free, tok, gone, backlog, link, sent, read, room, armed,
                  out, wire, queue, hold, asked, mailbox, interest, reg>>
  BY DEF Listen, loop
<1>2. LoopOK' /\ SlabOK' /\ WatchOK'
  BY <1>1, LoopFrame, SlabFrame, WatchFrame DEF Inv
<1>3. BacklogOK' /\ LinkOK'
  BY <1>1 DEF Inv, BacklogOK, LinkOK, Live, Listen
<1>4. QueuesOK'
  <2>1. rx' \in [Queue -> BOOLEAN] /\ \A c \in Client : rx'[c] = rx[c]
    BY EngineAssumption DEF Listen, Inv, QueuesOK, Queue, Conn
  <2>2. Message' = Message
    BY <1>1 DEF Message, Slot
  <2> QED BY <1>1, <2>1, <2>2 DEF Inv, QueuesOK
<1>5. KnownOK' /\ MeantOK'
  BY <1>1, KnownFrame, MeantFrame DEF Inv
<1> QED BY <1>2, <1>3, <1>4, <1>5 DEF Inv

LEMMA SetTimeoutInv == Inv /\ SetTimeout => Inv'
<1> SUFFICES ASSUME Inv, SetTimeout PROVE Inv'
  OBVIOUS
<1>1. UNCHANGED <<job, slab, free, tok, gone, backlog, accepting, link, sent, read, room, armed,
                  out, wire, queue, rx, hold, asked, mailbox, interest, reg>>
  BY DEF SetTimeout, net, users
<1>2. SlabOK' /\ BacklogOK' /\ LinkOK' /\ QueuesOK' /\ KnownOK' /\ MeantOK'
  BY <1>1, SlabFrame, BacklogFrame, LinkFrame, QueuesFrame, KnownFrame, MeantFrame DEF Inv
<1>3. LoopOK'
  BY <1>1, EngineAssumption DEF Inv, LoopOK, SetTimeout, Live
<1>4. pc = "setup" /\ pc' \in {"setup", "stopped"}
  BY DEF SetTimeout
<1>5. WatchOK'
  BY <1>1, <1>4 DEF Inv, WatchOK, Live, InputPending, OutputPending, HasInput, HungUp, HasRoom
<1> QED BY <1>2, <1>3, <1>5 DEF Inv

LEMMA RunInv == Inv /\ Run => Inv'
<1> SUFFICES ASSUME Inv, Run PROVE Inv'
  OBVIOUS
<1>1. UNCHANGED <<job, timers, slab, free, tok, gone, backlog, accepting, link, sent, read, room, armed,
                  out, wire, queue, rx, hold, asked, mailbox, interest, reg>>
  BY DEF Run, net, users
<1>2. SlabOK' /\ BacklogOK' /\ LinkOK' /\ QueuesOK' /\ KnownOK' /\ MeantOK'
  BY <1>1, SlabFrame, BacklogFrame, LinkFrame, QueuesFrame, KnownFrame, MeantFrame DEF Inv
<1>3. pc = "setup" /\ pc' \in {"poll", "stopped"}
  BY DEF Run
<1>4. LoopOK'
  BY <1>1, <1>3 DEF Inv, LoopOK, Live
<1>5. WatchOK'
  BY <1>1, <1>3 DEF Inv, WatchOK, Live, InputPending, OutputPending, HasInput, HungUp, HasRoom
<1> QED BY <1>2, <1>4, <1>5 DEF Inv

-----------------------------------------------------------------------------
(* The peers.                                                              *)

\* A peer changes its own socket and may arm its connection.
OnlyAt(c) ==
  /\ UNCHANGED <<loop, users, queue, mailbox>>
  /\ armed \subseteq armed' /\ armed' \subseteq armed \cup {c}
  /\ link' \in [Conn -> {"idle", "connecting", "up", "fin", "reset"}]
  /\ sent' \in [Conn -> 0..Frames] /\ room' \in [Conn -> 0..Room]
  /\ \A d \in Conn : d # c => link'[d] = link[d] /\ sent'[d] = sent[d] /\ room'[d] = room[d]

\* A peer's step touches neither the loop nor the queues.
LEMMA PeerFrame ==
  ASSUME Inv, NEW c \in Conn, OnlyAt(c)
  PROVE  LoopOK' /\ SlabOK' /\ QueuesOK' /\ KnownOK' /\ MeantOK'
<1>1. UNCHANGED <<pc, job, timers, slab, free, tok, gone, out, wire, queue, rx, hold, asked, mailbox>>
  BY DEF OnlyAt, loop, users
<1> QED BY <1>1, LoopFrame, SlabFrame, QueuesFrame, KnownFrame, MeantFrame DEF Inv

\* It is enough to look at what is pending for the peer's own connection.
LEMMA PeerWatch ==
  ASSUME Inv, NEW c \in Conn, OnlyAt(c),
         c \in armed' => Live(c),
         reg[c] # {} /\ ~(pc = "sending" /\ job.conn = c) => InputPending(c)',
         reg[c] # {} /\ job.conn # c => OutputPending(c)'
  PROVE  WatchOK'
<1>1. UNCHANGED <<pc, job, tok, gone, interest, reg, read, out>>
  BY DEF OnlyAt, loop
<1>2. ASSUME NEW d \in Conn, d # c
      PROVE  /\ d \in armed' <=> d \in armed
             /\ reg[d] # {} /\ ~(pc = "sending" /\ job.conn = d) => InputPending(d)'
             /\ reg[d] # {} /\ job.conn # d => OutputPending(d)'
  <2>1. /\ d \in armed' <=> d \in armed
        /\ link'[d] = link[d] /\ sent'[d] = sent[d] /\ room'[d] = room[d]
    BY <1>2 DEF OnlyAt
  <2>2. /\ reg[d] # {} /\ ~(pc = "sending" /\ job.conn = d) => InputPending(d)
        /\ reg[d] # {} /\ job.conn # d => OutputPending(d)
    BY DEF Inv, WatchOK
  <2> QED BY <2>1, <2>2, <1>1, PendingFrame
<1>3. armed' \subseteq Conn
  BY DEF OnlyAt, Inv, WatchOK
<1>4. \A d \in Conn : Live(d)' <=> Live(d)
  BY <1>1 DEF Live
<1>5. /\ \A d \in Conn : reg[d] # {} \/ d \in armed' => Live(d)
      /\ \A d \in Conn : out[d] # <<>> => Live(d) /\ "WRITABLE" \in interest[d]
      /\ interest \in [Conn -> SUBSET Event] /\ reg \in [Conn -> SUBSET Event]
  BY <1>2 DEF Inv, WatchOK
<1> QED BY <1>1, <1>2, <1>3, <1>4, <1>5 DEF WatchOK

\* The link of a peer is neither new nor being set up after its step.
LEMMA PeerLinkOK ==
  ASSUME Inv, NEW c \in Conn, OnlyAt(c), accepting' \in {"off", "idle", "armed"},
         link'[c] \notin {"idle", "connecting"}, sent'[c] >= sent[c]
  PROVE  LinkOK'
<1>1. UNCHANGED <<pc, job, tok, gone, read>>
  BY DEF OnlyAt, loop
<1>2. \A d \in Conn : read'[d] <= sent'[d]
  <2> TAKE d \in Conn
  <2>1. read[d] <= sent[d] /\ read[d] \in Nat /\ sent[d] \in Nat /\ sent'[d] \in Nat
    BY EngineAssumption DEF Inv, LinkOK, OnlyAt
  <2>2. sent'[d] >= sent[d]
    BY <2>1 DEF OnlyAt
  <2> QED BY <1>1, <2>1, <2>2
<1>3. \A d \in Conn : link'[d] \in {"idle", "connecting"} =>
        /\ d # c /\ link[d] = link'[d] /\ sent'[d] = 0 /\ room'[d] = 0
        /\ (d \in armed' <=> d \in armed)
  BY DEF OnlyAt, Inv, LinkOK
<1>4. \A d \in Conn : /\ link'[d] = "idle" => tok'[d] = 0
                      /\ link'[d] = "connecting" => Live(d)' /\ d \notin armed' /\ job'.conn # d
  BY <1>1, <1>3 DEF Inv, LinkOK, Live
<1>5. \A d \in Inbound : link'[d] = "idle" => d \notin gone'
  BY <1>1, <1>3 DEF Inv, LinkOK, Conn
<1> QED BY <1>1, <1>2, <1>3, <1>4, <1>5 DEF OnlyAt, Inv, LinkOK

\* The same with the backlog, if the step leaves that alone.
LEMMA PeerLink ==
  ASSUME Inv, NEW c \in Conn, OnlyAt(c), UNCHANGED <<backlog, accepting>>,
         link'[c] \notin {"idle", "connecting"}, sent'[c] >= sent[c]
  PROVE  BacklogOK' /\ LinkOK'
<1>1. UNCHANGED <<pc, job, tok, gone, read>>
  BY DEF OnlyAt, loop
<1>2. \A i \in 1..Len(backlog) : link'[backlog[i]] \notin {"idle", "connecting"}
  <2> TAKE i \in 1..Len(backlog)
  <2>1. backlog[i] \in Conn /\ link[backlog[i]] \notin {"idle", "connecting"}
    BY ElementOfSeq DEF Inv, BacklogOK, Conn
  <2> QED BY <2>1 DEF OnlyAt
<1>3. BacklogOK'
  BY <1>1, <1>2 DEF Inv, BacklogOK
<1>4. LinkOK'
  BY PeerLinkOK DEF Inv, LinkOK
<1> QED BY <1>3, <1>4

\* Numbers of a socket.
LEMMA LinkTypes ==
  ASSUME Inv, NEW c \in Conn
  PROVE  /\ sent[c] \in Nat /\ read[c] \in Nat /\ room[c] \in Nat
         /\ read[c] <= sent[c] /\ sent[c] <= Frames /\ room[c] <= Room
         /\ Frames \in Nat /\ Room \in Nat \ {0} /\ Window \in Nat \ {0}
  BY EngineAssumption DEF Inv, LinkOK

\* A connect in progress ends: output that was queued before is written now.
LEMMA EstablishedInv == ASSUME NEW c \in Client, Inv, Established(c) PROVE Inv'
<1>1. /\ link[c] = "connecting" /\ c \in Conn
      /\ UNCHANGED <<sent, backlog, accepting, loop, users, queue, mailbox>>
  BY DEF Established, Conn
<1>2. UNCHANGED <<reg, out, read>>
  BY <1>1 DEF loop
<1>3. Live(c) /\ c \notin armed /\ job.conn # c /\ sent[c] = 0 /\ ~(sent[c] > read[c])
  BY <1>1, LinkTypes DEF Inv, LinkOK
<1>4. CASE /\ link' = [link EXCEPT ![c] = "up"]
           /\ room' = [room EXCEPT ![c] = Room]
           /\ armed' = Edge(c, {"WRITABLE"})
  <2>1. OnlyAt(c)
    BY <1>1, <1>4, LinkTypes DEF OnlyAt, Edge, Inv, LinkOK
  <2>2. link'[c] = "up" /\ room'[c] = Room /\ sent'[c] = sent[c]
    BY <1>1, <1>4 DEF Inv, LinkOK
  <2>3. InputPending(c)'
    BY <2>2, <1>2, <1>3 DEF InputPending, HasInput, HungUp
  <2>4. reg[c] # {} => OutputPending(c)'
    <3> HAVE reg[c] # {}
    <3>1. OutputPending(c)
      BY <1>1, <1>3 DEF Inv, WatchOK
    <3>2. "WRITABLE" \in reg[c] => c \in armed'
      BY <1>4 DEF Edge
    <3> QED BY <3>1, <3>2, <1>2 DEF OutputPending
  <2>5. WatchOK'
    BY <2>1, <2>3, <2>4, <1>1, <1>3, PeerWatch
  <2>6. sent'[c] >= sent[c]
    BY <1>1, <2>2, LinkTypes
  <2> QED BY <1>1, <2>1, <2>2, <2>5, <2>6, PeerFrame, PeerLink DEF Inv
<1>5. CASE /\ link' = [link EXCEPT ![c] = "reset"]
           /\ armed' = armed \cup {c}
           /\ UNCHANGED room
  <2>1. OnlyAt(c)
    BY <1>1, <1>5, LinkTypes DEF OnlyAt, Inv, LinkOK
  <2>2. link'[c] = "reset" /\ sent'[c] = sent[c] /\ c \in armed'
    BY <1>1, <1>5 DEF Inv, LinkOK
  <2>3. InputPending(c)'
    BY <2>2 DEF InputPending
  <2>4. reg[c] # {} => OutputPending(c)'
    <3> HAVE reg[c] # {}
    <3>1. OutputPending(c)
      BY <1>1, <1>3 DEF Inv, WatchOK
    <3> QED BY <3>1, <2>2, <1>2 DEF OutputPending
  <2>5. WatchOK'
    BY <2>1, <2>3, <2>4, <1>1, <1>3, PeerWatch
  <2>6. sent'[c] >= sent[c]
    BY <1>1, <2>2, LinkTypes
  <2> QED BY <1>1, <2>1, <2>2, <2>5, <2>6, PeerFrame, PeerLink DEF Inv
<1> QED BY <1>4, <1>5 DEF Established

\* What a peer does to a connection that was not removed yet.
LEMMA PeerSendsInv == ASSUME NEW c \in Conn \ gone, Inv, PeerSends(c) PROVE Inv'
<1>1. /\ link[c] = "up" /\ sent[c] < Frames /\ c \in Conn
      /\ sent' = [sent EXCEPT ![c] = @ + 1] /\ armed' = Edge(c, {"READABLE"})
      /\ UNCHANGED <<link, room, backlog, accepting, loop, users, queue, mailbox>>
  BY DEF PeerSends
<1>2. UNCHANGED <<reg, out, read>>
  BY <1>1 DEF loop
<1>3. sent[c] + 1 \in 0..Frames /\ sent'[c] = sent[c] + 1 /\ sent'[c] >= sent[c]
  BY <1>1, LinkTypes DEF Inv, LinkOK
<1>4. OnlyAt(c)
  BY <1>1, <1>3 DEF OnlyAt, Edge, Inv, LinkOK
<1>5. c \in armed' => Live(c)
  BY <1>1 DEF Edge, Inv, WatchOK
<1>6. reg[c] # {} /\ ~(pc = "sending" /\ job.conn = c) => InputPending(c)'
  <2> HAVE reg[c] # {} /\ ~(pc = "sending" /\ job.conn = c)
  <2>1. InputPending(c)
    BY <1>1 DEF Inv, WatchOK
  <2>2. "READABLE" \in reg[c] => c \in armed'
    BY <1>1 DEF Edge
  <2> QED BY <1>1, <1>2, <2>2 DEF InputPending, HungUp
<1>7. reg[c] # {} /\ job.conn # c => OutputPending(c)'
  <2> HAVE reg[c] # {} /\ job.conn # c
  <2>1. OutputPending(c)
    BY <1>1 DEF Inv, WatchOK
  <2> QED BY <2>1, <1>1, <1>2, <1>4 DEF OutputPending, HasRoom, OnlyAt
<1>8. WatchOK'
  BY <1>1, <1>4, <1>5, <1>6, <1>7, PeerWatch
<1>9. link'[c] \notin {"idle", "connecting"}
  BY <1>1
<1> QED BY <1>1, <1>3, <1>4, <1>8, <1>9, PeerFrame, PeerLink DEF Inv

\* Space after none is an edge; space after some had its event already.
LEMMA PeerReadsInv == ASSUME NEW c \in Conn \ gone, Inv, PeerReads(c) PROVE Inv'
<1>1. /\ link[c] \in {"up", "fin"} /\ room[c] < Room /\ c \in Conn
      /\ room' = [room EXCEPT ![c] = @ + 1]
      /\ armed' = IF room[c] = 0 THEN Edge(c, {"WRITABLE"}) ELSE armed
      /\ UNCHANGED <<link, sent, backlog, accepting, loop, users, queue, mailbox>>
  BY DEF PeerReads
<1>2. UNCHANGED <<reg, out, read>>
  BY <1>1 DEF loop
<1>3. room[c] + 1 \in 0..Room /\ sent'[c] >= sent[c]
  BY <1>1, LinkTypes
<1>4. OnlyAt(c)
  BY <1>1, <1>3 DEF OnlyAt, Edge, Inv, LinkOK
<1>5. c \in armed' => Live(c)
  BY <1>1 DEF Edge, Inv, WatchOK
<1>6. reg[c] # {} /\ ~(pc = "sending" /\ job.conn = c) => InputPending(c)'
  <2> HAVE reg[c] # {} /\ ~(pc = "sending" /\ job.conn = c)
  <2>1. InputPending(c)
    BY <1>1 DEF Inv, WatchOK
  <2> QED BY <2>1, <1>1, <1>2, <1>4, PendingFrame DEF OnlyAt
<1>7. reg[c] # {} /\ job.conn # c => OutputPending(c)'
  <2> HAVE reg[c] # {} /\ job.conn # c
  <2>1. OutputPending(c)
    BY <1>1 DEF Inv, WatchOK
  <2>2. CASE room[c] = 0
    <3>1. "WRITABLE" \in reg[c] => c \in armed'
      BY <1>1, <2>2 DEF Edge
    <3> QED BY <3>1, <2>1, <1>2 DEF OutputPending
  <2>3. CASE room[c] # 0
    <3>1. HasRoom(c, room[c]) /\ armed' = armed
      BY <1>1, <2>3, LinkTypes DEF HasRoom
    <3> QED BY <3>1, <2>1, <1>2 DEF OutputPending
  <2> QED BY <2>2, <2>3
<1>8. WatchOK'
  BY <1>1, <1>4, <1>5, <1>6, <1>7, PeerWatch
<1>9. link'[c] \notin {"idle", "connecting"}
  BY <1>1
<1> QED BY <1>1, <1>3, <1>4, <1>8, <1>9, PeerFrame, PeerLink DEF Inv

\* A FIN is reported to whoever watches for input or hang-ups.
LEMMA PeerClosesInv == ASSUME NEW c \in Conn \ gone, Inv, PeerCloses(c) PROVE Inv'
<1>1. /\ link[c] = "up" /\ c \in Conn
      /\ link' = [link EXCEPT ![c] = "fin"]
      /\ armed' = Edge(c, {"READABLE", "HUP"})
      /\ UNCHANGED <<sent, room, backlog, accepting, loop, users, queue, mailbox>>
  BY DEF PeerCloses
<1>2. UNCHANGED <<reg, out, read>>
  BY <1>1 DEF loop
<1>3. link'[c] = "fin" /\ sent'[c] >= sent[c]
  BY <1>1, LinkTypes DEF Inv, LinkOK
<1>4. OnlyAt(c)
  BY <1>1, <1>3 DEF OnlyAt, Edge, Inv, LinkOK
<1>5. c \in armed' => Live(c)
  BY <1>1 DEF Edge, Inv, WatchOK
<1>6. InputPending(c)'
  <2>1. "READABLE" \in reg[c] \/ "HUP" \in reg[c] => c \in armed'
    BY <1>1 DEF Edge
  <2> QED BY <2>1, <1>2, <1>3 DEF InputPending, HungUp
<1>7. reg[c] # {} /\ job.conn # c => OutputPending(c)'
  <2> HAVE reg[c] # {} /\ job.conn # c
  <2>1. OutputPending(c)
    BY <1>1 DEF Inv, WatchOK
  <2> QED BY <2>1, <1>1, <1>2, <1>3, <1>4 DEF OutputPending, HasRoom, OnlyAt
<1>8. WatchOK'
  BY <1>1, <1>4, <1>5, <1>6, <1>7, PeerWatch
<1>9. link'[c] \notin {"idle", "connecting"}
  BY <1>3
<1> QED BY <1>1, <1>3, <1>4, <1>8, <1>9, PeerFrame, PeerLink DEF Inv

\* A reset is reported whatever is watched.
LEMMA PeerResetsInv == ASSUME NEW c \in Conn \ gone, Inv, PeerResets(c) PROVE Inv'
<1>1. /\ link[c] \in {"up", "fin"} /\ c \in Conn
      /\ link' = [link EXCEPT ![c] = "reset"]
      /\ armed' = Edge(c, Event)
      /\ UNCHANGED <<sent, room, backlog, accepting, loop, users, queue, mailbox>>
  BY DEF PeerResets
<1>2. UNCHANGED <<reg, out, read>>
  BY <1>1 DEF loop
<1>3. link'[c] = "reset" /\ sent'[c] >= sent[c]
  BY <1>1, LinkTypes DEF Inv, LinkOK
<1>4. OnlyAt(c)
  BY <1>1, <1>3 DEF OnlyAt, Edge, Inv, LinkOK
<1>5. c \in armed' => Live(c)
  BY <1>1 DEF Edge, Inv, WatchOK
<1>6. reg[c] # {} => c \in armed'
  <2>1. reg[c] \subseteq Event
    BY <1>1 DEF Inv, WatchOK
  <2> QED BY <2>1, <1>1 DEF Edge
<1>7. reg[c] # {} => InputPending(c)'
  BY <1>6 DEF InputPending
<1>8. reg[c] # {} /\ job.conn # c => OutputPending(c)'
  <2> HAVE reg[c] # {} /\ job.conn # c
  <2>1. OutputPending(c)
    BY <1>1 DEF Inv, WatchOK
  <2> QED BY <2>1, <1>2, <1>6 DEF OutputPending
<1>9. WatchOK'
  BY <1>1, <1>4, <1>5, <1>7, <1>8, PeerWatch
<1>10. link'[c] \notin {"idle", "connecting"}
  BY <1>3
<1> QED BY <1>1, <1>3, <1>4, <1>9, <1>10, PeerFrame, PeerLink DEF Inv

\* A new inbound connection waits behind those that are not accepted yet.
LEMMA ArriveInv == ASSUME NEW c \in Inbound, Inv, Arrive(c) PROVE Inv'
<1>1. /\ link[c] = "idle" /\ c \in Conn
      /\ link' = [link EXCEPT ![c] = "up"] /\ room' = [room EXCEPT ![c] = Room]
      /\ backlog' = Append(backlog, c) /\ accepting' = "armed"
      /\ UNCHANGED <<sent, loop, users, armed, queue, mailbox>>
  BY DEF Arrive, Conn
<1>2. UNCHANGED <<tok, gone>>
  BY <1>1 DEF loop
<1>3. tok[c] = 0 /\ c \notin gone /\ reg[c] = {} /\ c \notin armed
  BY <1>1 DEF Inv, LinkOK, WatchOK, Live
<1>4. OnlyAt(c) /\ link'[c] = "up" /\ sent'[c] >= sent[c]
  BY <1>1, LinkTypes DEF OnlyAt, Inv, LinkOK
<1>5. WatchOK'
  BY <1>1, <1>3, <1>4, PeerWatch
<1>6. LinkOK'
  BY <1>1, <1>4, PeerLinkOK
<1>7. BacklogOK'
  <2>1. backlog \in Seq(Inbound) /\ Len(backlog) \in Nat
    BY LenProperties DEF Inv, BacklogOK
  <2>2. /\ backlog' \in Seq(Inbound) /\ backlog' # <<>> /\ Len(backlog') = Len(backlog) + 1
        /\ \A i \in 1..Len(backlog) : backlog'[i] = backlog[i]
        /\ backlog'[Len(backlog) + 1] = c
    BY <1>1, <2>1, AppendProperties
  <2>3. \A i \in 1..Len(backlog') : i \in 1..Len(backlog) \/ i = Len(backlog) + 1
    BY <2>1, <2>2
  <2>4. \A i \in 1..Len(backlog) :
          /\ backlog[i] \in Conn /\ tok[backlog[i]] = 0 /\ backlog[i] \notin gone
          /\ link[backlog[i]] \notin {"idle", "connecting"} /\ backlog[i] # c
    BY <1>1, <2>1, ElementOfSeq DEF Inv, BacklogOK, Conn
  <2>5. \A i \in 1..Len(backlog') :
          /\ tok'[backlog'[i]] = 0 /\ backlog'[i] \notin gone'
          /\ link'[backlog'[i]] \notin {"idle", "connecting"}
    <3> TAKE i \in 1..Len(backlog')
    <3>1. CASE i \in 1..Len(backlog)
      BY <3>1, <2>2, <2>4, <1>2, <1>4 DEF OnlyAt
    <3>2. CASE i = Len(backlog) + 1
      BY <3>2, <2>2, <1>2, <1>3, <1>4
    <3> QED BY <3>1, <3>2, <2>3
  <2>6. \A i, j \in 1..Len(backlog') : backlog'[i] = backlog'[j] => i = j
    <3> TAKE i, j \in 1..Len(backlog')
    <3>1. CASE i \in 1..Len(backlog) /\ j \in 1..Len(backlog)
      BY <3>1, <2>2 DEF Inv, BacklogOK
    <3>2. CASE i = Len(backlog) + 1 \/ j = Len(backlog) + 1
      BY <3>2, <2>2, <2>3, <2>4
    <3> QED BY <3>1, <3>2, <2>3
  <2> QED BY <2>2, <2>5, <2>6 DEF BacklogOK
<1> QED BY <1>1, <1>4, <1>5, <1>6, <1>7, PeerFrame DEF Inv

-----------------------------------------------------------------------------
(* The users.                                                              *)

\* A user changes its own queue, what it holds and the notify queue.
UserStep == UNCHANGED <<net, loop, armed>>

\* The engine does not see what the users do among themselves.
LEMMA UserFrame ==
  Inv /\ UserStep => LoopOK' /\ SlabOK' /\ BacklogOK' /\ LinkOK' /\ MeantOK' /\ WatchOK'
<1> SUFFICES ASSUME Inv, UserStep
             PROVE  LoopOK' /\ SlabOK' /\ BacklogOK' /\ LinkOK' /\ MeantOK' /\ WatchOK'
  OBVIOUS
<1>1. UNCHANGED <<pc, job, timers, slab, free, tok, gone, backlog, accepting, link, sent, read, room,
                  armed, out, wire, interest, reg>>
  BY DEF UserStep, net, loop
<1> QED BY <1>1, LoopFrame, SlabFrame, BacklogFrame, LinkFrame, MeantFrame, WatchFrame DEF Inv

\* A frame leaves the queue and may be held for an answer.
LEMMA ConsumeInv == ASSUME NEW q \in Queue, Inv, Consume(q) PROVE Inv'
<1>1. UserStep /\ UNCHANGED <<asked, mailbox, out, wire, tok, gone, slab>>
  BY DEF Consume, UserStep, loop
<1>2. Message' = Message /\ \A m : Known(m)' <=> Known(m)
  BY <1>1 DEF Message, Slot, Known
<1>3. CASE /\ queue[q] # <<>>
           /\ hold' \in {[hold EXCEPT ![q] = Head(queue[q])], hold}
           /\ queue' = [queue EXCEPT ![q] = Tail(@)]
           /\ UNCHANGED rx
  <2>1. /\ queue[q] \in Seq(Message) /\ Len(queue[q]) \in Nat /\ Len(queue[q]) <= QueueSize
        /\ queue \in [Queue -> Seq(Message)] /\ hold \in [Queue -> Message \cup {None}]
    BY LenProperties DEF Inv, QueuesOK
  <2>2. /\ Head(queue[q]) \in Message /\ Head(queue[q]) = queue[q][1] /\ 1 \in 1..Len(queue[q])
        /\ Tail(queue[q]) \in Seq(Message) /\ Len(Tail(queue[q])) = Len(queue[q]) - 1
        /\ \A i \in 1..Len(Tail(queue[q])) :
             i + 1 \in 1..Len(queue[q]) /\ Tail(queue[q])[i] = queue[q][i + 1]
    BY <1>3, <2>1, HeadTailProperties
  <2>3. /\ queue' \in [Queue -> Seq(Message)] /\ queue'[q] = Tail(queue[q])
        /\ \A r \in Queue : r # q => queue'[r] = queue[r]
    BY <1>3, <2>1, <2>2
  <2>4. /\ hold' \in [Queue -> Message \cup {None}]
        /\ hold'[q] \in {Head(queue[q]), hold[q]}
        /\ \A r \in Queue : r # q => hold'[r] = hold[r]
    BY <1>3, <2>1, <2>2
  <2>5. \A r \in Queue : Len(queue'[r]) <= QueueSize
    <3> TAKE r \in Queue
    <3>1. CASE r = q
      BY <3>1, <2>1, <2>2, <2>3, EngineAssumption
    <3>2. CASE r # q
      BY <3>2, <2>3 DEF Inv, QueuesOK
    <3> QED BY <3>1, <3>2
  <2>6. QueuesOK'
    BY <1>1, <1>2, <1>3, <2>3, <2>4, <2>5 DEF Inv, QueuesOK
  <2>7. KnownOK'
    <3>1. \A r \in Queue : \A i \in 1..Len(queue'[r]) : Known(queue'[r][i])
      <4> TAKE r \in Queue
      <4>1. CASE r = q
        BY <4>1, <2>2, <2>3 DEF Inv, KnownOK
      <4>2. CASE r # q
        BY <4>2, <2>3 DEF Inv, KnownOK
      <4> QED BY <4>1, <4>2
    <3>2. \A r \in Queue : hold'[r] # None => Known(hold'[r])
      <4> TAKE r \in Queue
      <4>1. CASE r = q
        BY <4>1, <2>2, <2>4 DEF Inv, KnownOK
      <4>2. CASE r # q
        BY <4>2, <2>4 DEF Inv, KnownOK
      <4> QED BY <4>1, <4>2
    <3> QED BY <1>1, <1>2, <3>1, <3>2 DEF Inv, KnownOK
  <2> QED BY <1>1, <2>6, <2>7, UserFrame DEF Inv
<1>4. CASE rx' = [rx EXCEPT ![q] = FALSE] /\ UNCHANGED <<hold, queue>>
  <2>1. QueuesOK'
    BY <1>1, <1>2, <1>4 DEF Inv, QueuesOK, Queue
  <2>2. KnownOK'
    BY <1>1, <1>4, KnownFrame DEF Inv
  <2> QED BY <1>1, <2>1, <2>2, UserFrame DEF Inv
<1> QED BY <1>3, <1>4 DEF Consume

\* A message added to the notify queue.
LEMMA MailboxAppend ==
  ASSUME Inv, NEW m \in Message, Known(m), Len(mailbox) < NotifyCap,
         mailbox' = Append(mailbox, m), UNCHANGED <<tok, gone, slab>>
  PROVE  /\ mailbox' \in Seq(Message) /\ Len(mailbox') <= NotifyCap
         /\ \A i \in 1..Len(mailbox') : Known(mailbox'[i])
<1>1. mailbox \in Seq(Message) /\ Len(mailbox) \in Nat /\ NotifyCap \in Nat
  BY LenProperties, EngineAssumption DEF Inv, QueuesOK
<1>2. /\ mailbox' \in Seq(Message) /\ Len(mailbox') = Len(mailbox) + 1
      /\ \A i \in 1..Len(mailbox) : mailbox'[i] = mailbox[i]
      /\ mailbox'[Len(mailbox) + 1] = m
  BY <1>1, AppendProperties
<1>3. \A i \in 1..Len(mailbox') : i \in 1..Len(mailbox) \/ i = Len(mailbox) + 1
  BY <1>1, <1>2
<1> QED BY <1>1, <1>2, <1>3 DEF Inv, KnownOK

\* The answer carries the token of the frame.
LEMMA ReplyInv == ASSUME NEW q \in Queue, Inv, Reply(q) PROVE Inv'
<1>1. /\ UserStep /\ UNCHANGED <<asked, queue, out, wire, tok, gone, slab>>
      /\ rx[q] /\ hold[q] # None /\ hold' = [hold EXCEPT ![q] = None]
  BY DEF Reply, UserStep, loop
<1>2. Message' = Message /\ \A m : Known(m)' <=> Known(m)
  BY <1>1 DEF Message, Slot, Known
<1>3. /\ hold' \in [Queue -> Message \cup {None}]
      /\ \A r \in Queue : hold'[r] # None => Known(hold'[r])
  BY <1>1 DEF Inv, QueuesOK, KnownOK
<1>4. hold[q] \in Message /\ Known(hold[q])
  BY <1>1 DEF Inv, QueuesOK, KnownOK
<1>5. CASE Len(mailbox) < NotifyCap /\ mailbox' = Append(mailbox, hold[q]) /\ UNCHANGED rx
  <2>1. /\ mailbox' \in Seq(Message) /\ Len(mailbox') <= NotifyCap
        /\ \A i \in 1..Len(mailbox') : Known(mailbox'[i])
    BY <1>1, <1>4, <1>5, MailboxAppend
  <2>2. QueuesOK'
    BY <1>1, <1>2, <1>3, <1>5, <2>1 DEF Inv, QueuesOK
  <2>3. KnownOK'
    BY <1>1, <1>2, <1>3, <2>1 DEF Inv, KnownOK
  <2> QED BY <1>1, <2>2, <2>3, UserFrame DEF Inv
<1>6. CASE rx' = [rx EXCEPT ![q] = FALSE] /\ UNCHANGED mailbox
  <2>1. QueuesOK'
    BY <1>1, <1>2, <1>3, <1>6 DEF Inv, QueuesOK, Queue
  <2>2. KnownOK'
    BY <1>1, <1>2, <1>3, <1>6 DEF Inv, KnownOK
  <2> QED BY <1>1, <2>1, <2>2, UserFrame DEF Inv
<1> QED BY <1>5, <1>6 DEF Reply

LEMMA QuitInv == ASSUME NEW q \in Queue, Inv, Quit(q) PROVE Inv'
<1>1. /\ UserStep /\ UNCHANGED <<asked, queue, mailbox, out, wire, tok, gone, slab>>
      /\ rx' = [rx EXCEPT ![q] = FALSE] /\ hold' = [hold EXCEPT ![q] = None]
  BY DEF Quit, UserStep, loop
<1>2. Message' = Message /\ \A m : Known(m)' <=> Known(m)
  BY <1>1 DEF Message, Slot, Known
<1>3. /\ hold' \in [Queue -> Message \cup {None}]
      /\ \A r \in Queue : hold'[r] # None => Known(hold'[r])
  BY <1>1 DEF Inv, QueuesOK, KnownOK
<1>4. QueuesOK'
  BY <1>1, <1>2, <1>3 DEF Inv, QueuesOK, Queue
<1>5. KnownOK'
  BY <1>1, <1>2, <1>3 DEF Inv, KnownOK
<1> QED BY <1>1, <1>4, <1>5, UserFrame DEF Inv

\* A consumer that only stops taking frames forgets the one it held.
LEMMA NeglectInv == ASSUME NEW q \in Queue, Inv, Neglect(q) PROVE Inv'
<1>1. /\ UserStep /\ UNCHANGED <<rx, asked, queue, mailbox, out, wire, tok, gone, slab>>
      /\ hold' = [hold EXCEPT ![q] = None]
  BY DEF Neglect, UserStep, loop
<1>2. Message' = Message /\ \A m : Known(m)' <=> Known(m)
  BY <1>1 DEF Message, Slot, Known
<1>3. /\ hold' \in [Queue -> Message \cup {None}]
      /\ \A r \in Queue : hold'[r] # None => Known(hold'[r])
  BY <1>1 DEF Inv, QueuesOK, KnownOK
<1>4. QueuesOK'
  BY <1>1, <1>2, <1>3 DEF Inv, QueuesOK, Queue
<1>5. KnownOK'
  BY <1>1, <1>2, <1>3 DEF Inv, KnownOK
<1> QED BY <1>1, <1>4, <1>5, UserFrame DEF Inv

\* A client's own message carries its own token.
LEMMA RequestInv == ASSUME NEW c \in Client, Inv, Request(c) PROVE Inv'
<1>1. /\ UserStep /\ UNCHANGED <<rx, hold, queue, out, wire, tok, gone, slab>>
      /\ rx[c] /\ asked[c] < Requests /\ Len(mailbox) < NotifyCap
      /\ asked' = [asked EXCEPT ![c] = @ + 1] /\ mailbox' = Append(mailbox, Tagged(c))
  BY DEF Request, UserStep, loop
<1>2. Message' = Message /\ \A m : Known(m)' <=> Known(m)
  BY <1>1 DEF Message, Slot, Known
<1>3. Tagged(c) \in Message /\ Known(Tagged(c))
  <2>1. c \in Conn /\ tok[c] \in Slot
    BY <1>1 DEF Inv, QueuesOK, SlabOK, Conn
  <2> QED BY <2>1 DEF Tagged, Message, Known
<1>4. /\ mailbox' \in Seq(Message) /\ Len(mailbox') <= NotifyCap
      /\ \A i \in 1..Len(mailbox') : Known(mailbox'[i])
  BY <1>1, <1>3, MailboxAppend
<1>5. asked' \in [Client -> 0..Requests]
  BY <1>1, EngineAssumption DEF Inv, QueuesOK
<1>6. QueuesOK'
  BY <1>1, <1>2, <1>4, <1>5 DEF Inv, QueuesOK
<1>7. KnownOK'
  BY <1>1, <1>2, <1>4 DEF Inv, KnownOK
<1> QED BY <1>1, <1>6, <1>7, UserFrame DEF Inv

-----------------------------------------------------------------------------
(* The handlers.                                                           *)

\* Registration looks at the socket at once: nothing that is there is missed.
LEMMA WatchPends ==
  ASSUME WatchOK, NEW c \in Conn, NEW events \in SUBSET Event, NEW n,
         Watch(c, events, n), UNCHANGED <<link, sent, read>>
  PROVE  /\ reg' \in [Conn -> SUBSET Event] /\ reg'[c] = events
         /\ armed' \subseteq Conn /\ armed \subseteq armed' /\ armed' \subseteq armed \cup {c}
         /\ \A d \in Conn : d # c => reg'[d] = reg[d] /\ (d \in armed' <=> d \in armed)
         /\ InputPending(c)'
         /\ "WRITABLE" \in events /\ HasRoom(c, n) => c \in armed'
<1>1. /\ reg' = [reg EXCEPT ![c] = events]
      /\ armed' = IF Ready(c, events, n) THEN armed \cup {c} ELSE armed
  BY DEF Watch
<1>2. /\ reg' \in [Conn -> SUBSET Event] /\ reg'[c] = events
      /\ \A d \in Conn : d # c => reg'[d] = reg[d]
  BY <1>1 DEF WatchOK
<1>3. /\ armed' \subseteq Conn /\ armed \subseteq armed' /\ armed' \subseteq armed \cup {c}
      /\ Ready(c, events, n) => c \in armed'
  BY <1>1 DEF WatchOK
<1>4. InputPending(c)'
  BY <1>2, <1>3 DEF InputPending, Ready, HasInput, HungUp
<1> QED BY <1>2, <1>3, <1>4 DEF Ready

\* The connection was never in the slab, and is watched as soon as it is.
LEMMA AcceptInv == Inv /\ Accept => Inv'
<1> SUFFICES ASSUME Inv, Accept PROVE Inv'
  OBVIOUS
<1>0. PICK c : c = Head(backlog)
  OBVIOUS
<1>1. /\ pc = "poll" /\ accepting = "armed" /\ backlog' = Tail(backlog)
      /\ accepting' = IF backlog' = <<>> THEN "idle" ELSE "armed"
      /\ IF free = <<>>
         THEN gone' = gone \cup {c} /\ UNCHANGED <<slab, free, tok, interest, reg, armed>>
         ELSE Insert(c) /\ Watch(c, {"READABLE", "HUP"}, room[c]) /\ UNCHANGED gone
      /\ UNCHANGED <<pc, job, read, out, wire, timers, link, sent, room, rx, hold, asked, queue, mailbox>>
  BY <1>0 DEF Accept, users
<1>2. backlog \in Seq(Inbound) /\ Len(backlog) \in Nat /\ backlog # <<>>
  BY <1>1, LenProperties DEF Inv, BacklogOK
<1>3. /\ c \in Inbound /\ c = backlog[1] /\ 1 \in 1..Len(backlog)
      /\ backlog' \in Seq(Inbound) /\ Len(backlog') = Len(backlog) - 1
      /\ \A i \in 1..Len(backlog') :
           backlog'[i] = backlog[i + 1] /\ i + 1 \in 1..Len(backlog) /\ i + 1 # 1
  BY <1>0, <1>1, <1>2, HeadTailProperties
<1>4. c \in Conn /\ tok[c] = 0 /\ c \notin gone /\ link[c] \notin {"idle", "connecting"}
  BY <1>3 DEF Inv, BacklogOK, Conn
<1>5. reg[c] = {} /\ c \notin armed /\ out[c] = <<>> /\ job.conn = None /\ job.conn \notin Conn
  BY <1>1, <1>4, EngineAssumption DEF Inv, WatchOK, Live, LoopOK, Conn
<1>6. \A i \in 1..Len(backlog') :
        /\ backlog'[i] \in Conn /\ backlog'[i] # c
        /\ tok[backlog'[i]] = 0 /\ backlog'[i] \notin gone
        /\ link[backlog'[i]] \notin {"idle", "connecting"}
  <2> TAKE i \in 1..Len(backlog')
  <2>1. backlog[i + 1] \in Inbound /\ backlog[i + 1] # backlog[1]
    BY <1>2, <1>3, ElementOfSeq DEF Inv, BacklogOK
  <2> QED BY <2>1, <1>3 DEF Inv, BacklogOK, Conn
<1>7. /\ accepting' \in {"off", "idle", "armed"}
      /\ accepting' = "armed" => backlog' # <<>>
      /\ \A i, j \in 1..Len(backlog') : backlog'[i] = backlog'[j] => i = j
  <2>1. ASSUME NEW i \in 1..Len(backlog'), NEW j \in 1..Len(backlog'), backlog'[i] = backlog'[j]
        PROVE  i = j
    <3>1. i + 1 = j + 1
      BY <2>1, <1>3 DEF Inv, BacklogOK
    <3> QED BY <3>1
  <2> QED BY <1>1, <2>1
<1>8. LoopOK'
  BY <1>1 DEF Inv, LoopOK
<1>9. CASE free = <<>>
  <2>1. gone' = gone \cup {c} /\ UNCHANGED <<slab, free, tok, interest, reg, armed>>
    BY <1>1, <1>9
  <2>2. SlabOK' /\ Grows
    BY <1>4, <2>1, RefuseSlab DEF Inv
  <2>3. BacklogOK'
    BY <1>1, <1>3, <1>6, <1>7, <2>1 DEF BacklogOK
  <2>4. LinkOK'
    BY <1>1, <1>4, <1>7, <2>1 DEF Inv, LinkOK, Live
  <2>5. QueuesOK' /\ KnownOK' /\ MeantOK'
    BY <1>1, <2>1, <2>2, QueuesGrow, AllKnownGrow, MeantGrows DEF Inv
  <2>6. WatchOK'
    BY <1>1, <1>5, <2>1 DEF Inv, WatchOK, Live, InputPending, OutputPending, HasInput, HungUp, HasRoom
  <2> QED BY <1>8, <2>2, <2>3, <2>4, <2>5, <2>6 DEF Inv
<1>10. CASE free # <<>>
  <2>1. Insert(c) /\ Watch(c, {"READABLE", "HUP"}, room[c]) /\ UNCHANGED gone
    BY <1>1, <1>10
  <2>2. /\ SlabOK' /\ Grows /\ tok'[c] \in Slot /\ tok'[c] # 0
        /\ \A d \in Conn : d # c => tok'[d] = tok[d]
    BY <1>4, <1>10, <2>1, InsertSlab DEF Inv
  <2>3. Live(c)' /\ \A d \in Conn : d # c => (Live(d)' <=> Live(d))
    BY <1>4, <2>1, <2>2 DEF Live
  <2>4. /\ reg' \in [Conn -> SUBSET Event] /\ armed' \subseteq Conn
        /\ \A d \in Conn : d # c => reg'[d] = reg[d] /\ (d \in armed' <=> d \in armed)
        /\ InputPending(c)'
    <3>1. {"READABLE", "HUP"} \in SUBSET Event
      BY DEF Event
    <3> QED BY <3>1, <1>1, <1>4, <2>1, WatchPends DEF Inv
  <2>5. /\ interest' \in [Conn -> SUBSET Event]
        /\ \A d \in Conn : d # c => interest'[d] = interest[d]
    BY <1>4, <2>1 DEF Insert, Inv, WatchOK, Event
  <2>6. BacklogOK'
    BY <1>1, <1>3, <1>6, <1>7, <2>1, <2>2 DEF BacklogOK
  <2>7. LinkOK'
    <3>1. \A d \in Conn : link[d] \in {"idle", "connecting"} => d # c
      BY <1>4
    <3>2. \A d \in Conn : /\ link[d] = "idle" => tok'[d] = 0
                          /\ link[d] = "connecting" => Live(d)' /\ d \notin armed' /\ job.conn # d
      BY <3>1, <2>2, <2>3, <2>4 DEF Inv, LinkOK
    <3> QED BY <3>2, <1>1, <1>7, <2>1 DEF Inv, LinkOK
  <2>8. QueuesOK' /\ KnownOK' /\ MeantOK'
    BY <1>1, <2>2, QueuesGrow, AllKnownGrow, MeantGrows DEF Inv
  <2>9. WatchOK'
    <3>1. ASSUME NEW d \in Conn, d # c
          PROVE  /\ reg'[d] # {} \/ d \in armed' => Live(d)'
                 /\ out'[d] # <<>> => Live(d)' /\ "WRITABLE" \in interest'[d]
                 /\ reg'[d] # {} => InputPending(d)' /\ OutputPending(d)'
      <4>1. /\ reg[d] # {} => InputPending(d) /\ OutputPending(d)
            /\ reg[d] # {} \/ d \in armed => Live(d)
            /\ out[d] # <<>> => Live(d) /\ "WRITABLE" \in interest[d]
        BY <1>1, <1>5 DEF Inv, WatchOK
      <4> QED BY <4>1, <3>1, <1>1, <2>3, <2>4, <2>5, PendingFrame
    <3>2. OutputPending(c)'
      BY <1>1, <1>5 DEF OutputPending
    <3> QED BY <3>1, <3>2, <1>1, <1>5, <2>3, <2>4, <2>5 DEF WatchOK
  <2> QED BY <1>8, <2>2, <2>6, <2>7, <2>8, <2>9 DEF Inv
<1> QED BY <1>9, <1>10

\* One event: what was reported is no longer pending, and is now the job's.
LEMMA IoEventInv == ASSUME NEW c \in Conn, Inv, IoEvent(c) PROVE Inv'
<1> DEFINE hup   == HungUp(c, reg[c])
           input == ("READABLE" \in reg[c] /\ HasInput(c)) \/ hup
           write == "WRITABLE" \in reg[c] /\ HasRoom(c, room[c])
           n     == IF input /\ link[c] # "reset" THEN Least(Window, sent[c] - read[c]) ELSE 0
<1>1. /\ pc = "poll" /\ c \in armed
      /\ armed' = armed \ {c}
      /\ read' = [read EXCEPT ![c] = @ + n]
      /\ job' = IF input \/ write THEN [conn |-> c, todo |-> n, hup |-> hup, write |-> write] ELSE job
      /\ pc' = IF input THEN "sending" ELSE IF write THEN "writable" ELSE pc
      /\ UNCHANGED <<link, sent, room, backlog, accepting, slab, free, tok, gone, interest, reg,
                     out, wire, timers, rx, hold, asked, queue, mailbox>>
  BY DEF IoEvent, net, users
<1>2. Live(c) /\ link[c] \notin {"idle", "connecting"} /\ job.conn = None /\ job.conn \notin Conn
  BY <1>1, EngineAssumption DEF Inv, WatchOK, LinkOK, LoopOK, Live, Conn
<1>3. n \in 0..Window /\ read[c] + n <= sent[c] /\ read[c] + n \in 0..Frames
  BY LinkTypes DEF Least
<1>4. ~input => n = 0
  OBVIOUS
<1>5. hup \in BOOLEAN /\ write \in BOOLEAN /\ input \in BOOLEAN
  BY DEF HungUp
<1>6. ~input => ~("READABLE" \in reg[c] /\ HasInput(c)) /\ ~HungUp(c, reg[c])
  OBVIOUS
<1>7. ~write => ~("WRITABLE" \in reg[c] /\ HasRoom(c, room[c]))
  OBVIOUS
<1> HIDE DEF hup, input, write, n
<1>8. /\ read' \in [Conn -> 0..Frames] /\ read'[c] = read[c] + n
      /\ \A d \in Conn : d # c => read'[d] = read[d]
  BY <1>1, <1>3 DEF Inv, LinkOK
<1>9. LoopOK'
  <2>1. CASE input \/ write
    <3>1. job' = [conn |-> c, todo |-> n, hup |-> hup, write |-> write] /\ pc' \in {"sending", "writable"}
      BY <2>1, <1>1
    <3>2. job' \in [conn : Conn \cup {None}, todo : 0..Window, hup : BOOLEAN, write : BOOLEAN]
          /\ job'.conn = c
      BY <3>1, <1>3, <1>5
    <3> QED BY <3>1, <3>2, <1>1, <1>2 DEF Inv, LoopOK, Live
  <2>2. CASE ~(input \/ write)
    BY <2>2, <1>1 DEF Inv, LoopOK
  <2> QED BY <2>1, <2>2
<1>10. job'.conn \in {c, None}
  BY <1>1, <1>2
<1>11. SlabOK' /\ BacklogOK' /\ QueuesOK' /\ KnownOK' /\ MeantOK'
  BY <1>1, SlabFrame, BacklogFrame, QueuesFrame, KnownFrame, MeantFrame DEF Inv
<1>12. LinkOK'
  <2>1. \A d \in Conn : read'[d] <= sent[d]
    BY <1>3, <1>8 DEF Inv, LinkOK
  <2>2. \A d \in Conn : link[d] = "connecting" => Live(d)' /\ d \notin armed' /\ job'.conn # d
    BY <1>1, <1>2, <1>10, EngineAssumption DEF Inv, LinkOK, Live, Conn
  <2> QED BY <2>1, <2>2, <1>1, <1>8 DEF Inv, LinkOK
<1>13. WatchOK'
  <2>1. ASSUME NEW d \in Conn, d # c
        PROVE  reg[d] # {} => InputPending(d)' /\ OutputPending(d)'
    <3>1. reg[d] # {} => InputPending(d) /\ OutputPending(d)
      BY <1>1, <1>2 DEF Inv, WatchOK
    <3> QED BY <3>1, <2>1, <1>1, <1>8, PendingFrame
  <2>2. reg[c] # {} /\ ~(pc' = "sending" /\ job'.conn = c) => InputPending(c)'
    <3> HAVE reg[c] # {} /\ ~(pc' = "sending" /\ job'.conn = c)
    <3>1. ~input
      BY <1>1
    <3>2. read'[c] = read[c]
      BY <3>1, <1>4, <1>8, LinkTypes
    <3> QED BY <3>1, <3>2, <1>1, <1>6 DEF InputPending, HasInput, HungUp
  <2>3. reg[c] # {} /\ job'.conn # c => OutputPending(c)'
    <3> HAVE reg[c] # {} /\ job'.conn # c
    <3>1. ~write
      BY <1>1
    <3>2. OutputPending(c)
      BY <1>2 DEF Inv, WatchOK
    <3> QED BY <3>1, <3>2, <1>1, <1>7 DEF OutputPending, HasRoom
  <2>4. \A d \in Conn : Live(d)' <=> Live(d)
    BY <1>1 DEF Live
  <2> QED BY <2>1, <2>2, <2>3, <2>4, <1>1, <1>10 DEF Inv, WatchOK
<1> QED BY <1>9, <1>11, <1>12, <1>13 DEF Inv

\* A frame is queued with the token that its connection has now.
LEMMA SendFrameInv == Inv /\ SendFrame => Inv'
<1> SUFFICES ASSUME Inv, SendFrame PROVE Inv'
  OBVIOUS
<1>0. PICK c, q : c = job.conn /\ q = QueueOf(c)
  OBVIOUS
<1>1. /\ pc = "sending" /\ job.todo > 0
      /\ \/ ~rx[q] /\ UNCHANGED queue
         \/ /\ rx[q] /\ Len(queue[q]) < QueueSize
            /\ queue' = [queue EXCEPT ![q] = Append(@, Tagged(c))]
      /\ job' = [job EXCEPT !.todo = @ - 1]
      /\ UNCHANGED <<pc, link, sent, room, backlog, accepting, slab, free, tok, gone, interest, reg,
                     read, out, wire, timers, rx, hold, asked, armed, mailbox>>
  BY <1>0 DEF SendFrame, net, users
<1>2. c \in Conn /\ q \in Queue /\ Live(c) /\ tok[c] \in Slot
  BY <1>0, <1>1 DEF Inv, LoopOK, SlabOK, Live, QueueOf, Queue
<1>3. job' \in [conn : Conn \cup {None}, todo : 0..Window, hup : BOOLEAN, write : BOOLEAN]
      /\ job'.conn = job.conn
  <2>1. job \in [conn : Conn \cup {None}, todo : 0..Window, hup : BOOLEAN, write : BOOLEAN]
    BY DEF Inv, LoopOK
  <2>2. job.todo \in 0..Window /\ job.todo > 0 /\ Window \in Nat
    BY <1>1, <2>1, EngineAssumption
  <2>3. job.todo - 1 \in 0..Window
    BY ONLY <2>2
  <2>4. job' = [job EXCEPT !.todo = job.todo - 1]
    BY <1>1
  <2> QED BY ONLY <2>1, <2>3, <2>4
<1>4. LoopOK'
  BY <1>1, <1>3 DEF Inv, LoopOK, Live
<1>5. SlabOK' /\ BacklogOK' /\ MeantOK'
  BY <1>1, SlabFrame, BacklogFrame, MeantFrame DEF Inv
<1>6. LinkOK'
  BY <1>1, <1>3 DEF Inv, LinkOK, Live
<1>7. WatchOK'
  <2>1. \A d \in Conn : /\ InputPending(d) => InputPending(d)'
                        /\ OutputPending(d) => OutputPending(d)'
                        /\ Live(d)' <=> Live(d)
    BY <1>1, PendingFrame DEF Live
  <2> QED BY <2>1, <1>1, <1>3 DEF Inv, WatchOK
<1>8. QueuesOK' /\ KnownOK'
  <2>1. CASE UNCHANGED queue
    BY <2>1, <1>1, QueuesFrame, KnownFrame DEF Inv
  <2>2. CASE Len(queue[q]) < QueueSize /\ queue' = [queue EXCEPT ![q] = Append(@, Tagged(c))]
    <3>1. Message' = Message /\ \A m : Known(m)' <=> Known(m)
      BY <1>1 DEF Message, Slot, Known
    <3>2. Tagged(c) \in Message /\ Known(Tagged(c))
      BY <1>2 DEF Tagged, Message, Known
    <3>3. /\ queue[q] \in Seq(Message) /\ Len(queue[q]) \in Nat /\ QueueSize \in Nat
          /\ queue \in [Queue -> Seq(Message)]
      BY <1>2, LenProperties, EngineAssumption DEF Inv, QueuesOK
    <3> DEFINE more == Append(queue[q], Tagged(c))
    <3>4. /\ more \in Seq(Message) /\ Len(more) = Len(queue[q]) + 1
          /\ \A i \in 1..Len(queue[q]) : more[i] = queue[q][i]
          /\ more[Len(queue[q]) + 1] = Tagged(c)
      BY <3>2, <3>3, AppendProperties
    <3>5. /\ queue' \in [Queue -> Seq(Message)] /\ queue'[q] = more
          /\ \A r \in Queue : r # q => queue'[r] = queue[r]
      BY <1>2, <2>2, <3>3, <3>4
    <3> HIDE DEF more
    <3>6. \A r \in Queue : Len(queue'[r]) <= QueueSize
      <4> TAKE r \in Queue
      <4>1. CASE r = q
        BY <4>1, <2>2, <3>3, <3>4, <3>5
      <4>2. CASE r # q
        BY <4>2, <3>5 DEF Inv, QueuesOK
      <4> QED BY <4>1, <4>2
    <3>7. \A r \in Queue : \A i \in 1..Len(queue'[r]) : Known(queue'[r][i])
      <4> TAKE r \in Queue
      <4>1. CASE r = q
        <5>1. \A i \in 1..Len(more) : i \in 1..Len(queue[q]) \/ i = Len(queue[q]) + 1
          BY <3>3, <3>4
        <5> QED BY <4>1, <5>1, <1>2, <3>2, <3>4, <3>5 DEF Inv, KnownOK
      <4>2. CASE r # q
        BY <4>2, <3>5 DEF Inv, KnownOK
      <4> QED BY <4>1, <4>2
    <3>8. QueuesOK'
      BY <1>1, <3>1, <3>5, <3>6 DEF Inv, QueuesOK
    <3>9. KnownOK'
      BY <1>1, <3>1, <3>7 DEF Inv, KnownOK
    <3> QED BY <3>8, <3>9
  <2> QED BY <2>1, <2>2, <1>1
<1> QED BY <1>4, <1>5, <1>6, <1>7, <1>8 DEF Inv

\* Removal leaves nothing behind; otherwise the registration is renewed, with the
\* interest in WRITABLE that earlier output has left.
LEMMA FinishReadInv == Inv /\ FinishRead => Inv'
<1> SUFFICES ASSUME Inv, FinishRead PROVE Inv'
  OBVIOUS
<1>0. PICK c : c = job.conn
  OBVIOUS
<1>1. /\ pc = "sending"
      /\ pc' = IF job.write THEN "writable" ELSE "poll"
      /\ job' = IF job.write THEN job ELSE NoJob
      /\ IF job.hup
         THEN Release(c) /\ UNCHANGED interest
         ELSE KeepReading(c) /\ UNCHANGED <<slab, free, gone, out>>
      /\ UNCHANGED <<link, sent, room, backlog, accepting, tok, read, wire, timers,
                     rx, hold, asked, queue, mailbox>>
  BY <1>0 DEF FinishRead, net, users
<1>2. c \in Conn /\ Live(c) /\ tok[c] # 0 /\ link[c] \notin {"idle", "connecting"} /\ None \notin Conn
  BY <1>0, <1>1, EngineAssumption DEF Inv, LoopOK, LinkOK, Live, Conn
<1>3. job'.conn \in {c, None}
  BY <1>0, <1>1 DEF NoJob
<1>4. LoopOK'
  BY <1>0, <1>1, <1>2, EngineAssumption DEF Inv, LoopOK, NoJob, Live
<1>5. \A i \in 1..Len(backlog) : backlog[i] # c
  BY <1>2 DEF Inv, BacklogOK
<1>6. CASE job.hup
  <2>1. Release(c) /\ UNCHANGED interest
    BY <1>1, <1>6
  <2>2. /\ gone' = gone \cup {c} /\ armed' = armed \ {c}
        /\ reg' = [reg EXCEPT ![c] = {}] /\ out' = [out EXCEPT ![c] = <<>>]
    BY <2>1 DEF Release
  <2>3. SlabOK' /\ Grows
    BY <1>1, <1>2, <2>1, ReleaseSlab DEF Inv
  <2>4. BacklogOK'
    BY <1>1, <1>5, <2>2 DEF Inv, BacklogOK
  <2>5. LinkOK'
    <3>1. \A d \in Conn : link[d] = "connecting" => Live(d)' /\ d \notin armed' /\ job'.conn # d
      BY <1>1, <1>2, <1>3, <2>2 DEF Inv, LinkOK, Live
    <3>2. \A d \in Inbound : link[d] = "idle" => d \notin gone'
      BY <1>2, <2>2 DEF Inv, LinkOK
    <3> QED BY <3>1, <3>2, <1>1 DEF Inv, LinkOK
  <2>6. /\ out' \in [Conn -> Seq(Message)] /\ out'[c] = <<>> /\ Len(out'[c]) = 0
        /\ \A d \in Conn : d # c => out'[d] = out[d]
    <3>1. <<>> \in Seq(Message) /\ Len(<<>>) = 0
      BY EmptySeq
    <3> QED BY <3>1, <1>2, <2>2 DEF Inv, QueuesOK
  <2>7. QueuesOK'
    <3>1. Message' = Message
      BY <2>3 DEF Message, Grows
    <3> QED BY <3>1, <2>6, <1>1 DEF Inv, QueuesOK
  <2>8. KnownOK'
    BY <1>1, <2>3, AllKnownGrow DEF Inv
  <2>9. MeantOK'
    <3>1. ASSUME NEW d \in Conn, NEW i \in 1..Len(out'[d])
          PROVE  out'[d][i].conn = d \/ out'[d][i].conn \in gone'
      <4>1. d # c /\ out'[d] = out[d]
        BY <2>6, <3>1
      <4> QED BY <4>1, <2>2 DEF Inv, MeantOK, Meant
    <3> QED BY <3>1, <1>1, <2>2 DEF Inv, MeantOK, Meant
  <2>10. WatchOK'
    <3>1. /\ reg' \in [Conn -> SUBSET Event] /\ reg'[c] = {}
          /\ \A d \in Conn : d # c => reg'[d] = reg[d]
      BY <1>2, <2>2 DEF Inv, WatchOK
    <3>2. ASSUME NEW d \in Conn, d # c
          PROVE  /\ Live(d)' <=> Live(d)
                 /\ reg'[d] # {} => InputPending(d)' /\ OutputPending(d)'
      <4>1. reg[d] # {} => InputPending(d) /\ OutputPending(d)
        BY <1>0, <3>2 DEF Inv, WatchOK
      <4> QED BY <4>1, <3>1, <3>2, <1>1, <2>2, <2>6, PendingFrame DEF Live
    <3>3. armed' \subseteq Conn /\ c \notin armed' /\ \A d \in Conn : d \in armed' => d \in armed
      BY <2>2 DEF Inv, WatchOK
    <3>4. \A d \in Conn : /\ reg'[d] # {} \/ d \in armed' => Live(d)'
                          /\ out'[d] # <<>> => Live(d)' /\ "WRITABLE" \in interest'[d]
      BY <3>1, <3>2, <3>3, <2>1, <2>6 DEF Inv, WatchOK
    <3> QED BY <3>1, <3>2, <3>3, <3>4, <2>1 DEF Inv, WatchOK
  <2> QED BY <1>4, <2>3, <2>4, <2>5, <2>7, <2>8, <2>9, <2>10 DEF Inv
<1>7. CASE ~job.hup
  <2>1. KeepReading(c) /\ UNCHANGED <<slab, free, gone, out>>
    BY <1>1, <1>7
  <2>2. SlabOK' /\ BacklogOK' /\ QueuesOK' /\ KnownOK' /\ MeantOK'
    BY <1>1, <2>1, SlabFrame, BacklogFrame, QueuesFrame, KnownFrame, MeantFrame DEF Inv
  <2>3. /\ interest' \in [Conn -> SUBSET Event]
        /\ interest'[c] = interest[c] \cup {"READABLE"}
        /\ \A d \in Conn : d # c => interest'[d] = interest[d]
    BY <1>2, <2>1 DEF KeepReading, Inv, WatchOK, Event
  <2>4. PICK events : events = interest'[c]
    OBVIOUS
  <2>5. events \in SUBSET Event /\ Watch(c, events, room[c])
    BY <1>2, <2>1, <2>3, <2>4 DEF KeepReading
  <2>6. /\ reg' \in [Conn -> SUBSET Event] /\ reg'[c] = events
        /\ armed' \subseteq Conn /\ armed \subseteq armed' /\ armed' \subseteq armed \cup {c}
        /\ \A d \in Conn : d # c => reg'[d] = reg[d] /\ (d \in armed' <=> d \in armed)
        /\ InputPending(c)'
        /\ "WRITABLE" \in events /\ HasRoom(c, room[c]) => c \in armed'
    BY <1>1, <1>2, <2>5, WatchPends DEF Inv
  <2>7. LinkOK'
    <3>1. \A d \in Conn : link[d] = "connecting" => Live(d)' /\ d \notin armed' /\ job'.conn # d
      BY <1>1, <1>2, <1>3, <2>1, <2>6 DEF Inv, LinkOK, Live
    <3> QED BY <3>1, <1>1, <2>1 DEF Inv, LinkOK
  <2>8. OutputPending(c)'
    <3>1. out[c] # <<>> => "WRITABLE" \in events
      BY <1>2, <2>3, <2>4 DEF Inv, WatchOK
    <3> QED BY <3>1, <1>1, <2>1, <2>6 DEF OutputPending, HasRoom
  <2>9. WatchOK'
    <3>1. \A d \in Conn : Live(d)' <=> Live(d)
      BY <1>1, <2>1 DEF Live
    <3>2. ASSUME NEW d \in Conn, d # c
          PROVE  reg'[d] # {} => InputPending(d)' /\ OutputPending(d)'
      <4>1. reg[d] # {} => InputPending(d) /\ OutputPending(d)
        BY <1>0, <3>2 DEF Inv, WatchOK
      <4> QED BY <4>1, <3>2, <1>1, <2>1, <2>6, PendingFrame
    <3>3. \A d \in Conn : reg'[d] # {} \/ d \in armed' => Live(d)'
      BY <3>1, <1>2, <2>6 DEF Inv, WatchOK
    <3>4. \A d \in Conn : out'[d] # <<>> => Live(d)' /\ "WRITABLE" \in interest'[d]
      BY <3>1, <2>1, <2>3 DEF Inv, WatchOK
    <3> QED BY <3>2, <3>3, <3>4, <2>3, <2>6, <2>8 DEF WatchOK
  <2> QED BY <1>4, <2>2, <2>7, <2>9 DEF Inv
<1> QED BY <1>6, <1>7

LEMMA TimeoutInv == Inv /\ Timeout => Inv'
<1> SUFFICES ASSUME Inv, Timeout PROVE Inv'
  OBVIOUS
<1>1. /\ pc = "poll" /\ timers.pending > 0
      /\ timers' = [timers EXCEPT !.pending = @ - 1]
      /\ pc' \in {"poll", "stopped"}
      /\ UNCHANGED <<job, slab, free, tok, gone, backlog, accepting, link, sent, read, room, armed,
                     out, wire, queue, rx, hold, asked, mailbox, interest, reg>>
  BY DEF Timeout, net, users
<1>2. SlabOK' /\ BacklogOK' /\ LinkOK' /\ QueuesOK' /\ KnownOK' /\ MeantOK'
  BY <1>1, SlabFrame, BacklogFrame, LinkFrame, QueuesFrame, KnownFrame, MeantFrame DEF Inv
<1>3. timers' \in [used : 0..TimerSlots, pending : 0..TimerSlots] /\ timers'.pending <= timers'.used
  BY <1>1, EngineAssumption DEF Inv, LoopOK
<1>4. LoopOK'
  BY <1>1, <1>3 DEF Inv, LoopOK
<1>5. WatchOK'
  BY <1>1 DEF Inv, WatchOK, Live, InputPending, OutputPending, HasInput, HungUp, HasRoom
<1> QED BY <1>2, <1>4, <1>5 DEF Inv
\* drain_write_queue_to_socket: what is left is watched for, and everything that
\* was written or is left was meant for this connection.
LEMMA DrainInv ==
  ASSUME Inv, NEW c \in Conn, Live(c), NEW bufs \in Seq(Message),
         \A i \in 1..Len(bufs) : Meant(bufs[i], c),
         Drain(c, bufs), pc # "sending", job.conn \in {c, None},
         pc' = "poll", job'.conn = None,
         UNCHANGED <<link, sent, read, accepting, backlog, slab, free, tok, gone,
                     rx, hold, asked, queue>>
  PROVE  /\ LinkOK' /\ WatchOK' /\ MeantOK'
         /\ out' \in [Conn -> Seq(Message)] /\ wire' \in [Conn -> Seq(Message)]
<1>0. PICK n : n = IF link[c] = "reset" THEN 0 ELSE Least(room[c], Len(bufs))
  OBVIOUS
<1>1. /\ wire' = [wire EXCEPT ![c] = @ \o SubSeq(bufs, 1, n)]
      /\ room' = [room EXCEPT ![c] = @ - n]
      /\ out' = [out EXCEPT ![c] = SubSeq(bufs, n + 1, Len(bufs))]
      /\ IF n = Len(bufs)
         THEN UNCHANGED <<interest, reg, armed>>
         ELSE /\ interest' = [interest EXCEPT ![c] = @ \cup {"WRITABLE"}]
              /\ Watch(c, interest'[c], room[c] - n)
  BY <1>0 DEF Drain
<1>2. Len(bufs) \in Nat /\ room[c] \in Nat
  BY LenProperties, LinkTypes
<1>3. n \in Nat /\ n <= Len(bufs) /\ n <= room[c]
  BY <1>0, <1>2 DEF Least
<1>4. None \notin Conn
  BY EngineAssumption DEF Conn
<1>5. /\ room' \in [Conn -> 0..Room] /\ room'[c] = room[c] - n
      /\ \A d \in Conn : d # c => room'[d] = room[d]
  BY <1>1, <1>3, LinkTypes DEF Inv, LinkOK
<1>6. /\ SubSeq(bufs, 1, n) \in Seq(Message) /\ Len(SubSeq(bufs, 1, n)) = n
      /\ \A i \in 1..n : SubSeq(bufs, 1, n)[i] = bufs[i] /\ i \in 1..Len(bufs)
  <2>1. \A i \in 1..n : i \in 1..Len(bufs) /\ bufs[i] \in Message
    BY <1>2, <1>3, ElementOfSeq
  <2>2. /\ SubSeq(bufs, 1, n) \in Seq(Message)
        /\ Len(SubSeq(bufs, 1, n)) = IF 1 <= n THEN n - 1 + 1 ELSE 0
        /\ \A i \in 1..(n - 1 + 1) : SubSeq(bufs, 1, n)[i] = bufs[1 + i - 1]
    BY <1>3, <2>1, SubSeqProperties
  <2>3. n - 1 + 1 = n /\ \A i \in 1..n : 1 + i - 1 = i
    BY <1>3
  <2> QED BY <1>3, <2>1, <2>2, <2>3
<1> DEFINE rest == SubSeq(bufs, n + 1, Len(bufs))
<1>7. /\ rest \in Seq(Message) /\ Len(rest) = Len(bufs) - n
      /\ \A i \in 1..Len(rest) : n + i \in 1..Len(bufs) /\ rest[i] = bufs[n + i]
  <2>1. \A i \in (n + 1)..Len(bufs) : i \in 1..Len(bufs) /\ bufs[i] \in Message
    BY <1>2, <1>3, ElementOfSeq
  <2>2. /\ rest \in Seq(Message)
        /\ Len(rest) = IF n + 1 <= Len(bufs) THEN Len(bufs) - (n + 1) + 1 ELSE 0
        /\ \A i \in 1..(Len(bufs) - (n + 1) + 1) : rest[i] = bufs[n + 1 + i - 1]
    BY <1>2, <1>3, <2>1, SubSeqProperties
  <2> HIDE DEF rest
  <2>3. Len(rest) = Len(bufs) - n /\ Len(bufs) - (n + 1) + 1 = Len(bufs) - n
    BY <1>2, <1>3, <2>2
  <2>4. \A i \in 1..(Len(bufs) - n) : n + 1 + i - 1 = n + i /\ n + i \in 1..Len(bufs)
    BY <1>2, <1>3
  <2> QED BY <2>2, <2>3, <2>4
<1>8. /\ out' \in [Conn -> Seq(Message)] /\ out'[c] = rest
      /\ \A d \in Conn : d # c => out'[d] = out[d]
  BY <1>1, <1>7 DEF Inv, QueuesOK
<1> HIDE DEF rest
<1> DEFINE head == SubSeq(bufs, 1, n)
           now  == wire[c] \o head
<1>9. /\ wire[c] \in Seq(Message) /\ Len(wire[c]) \in Nat
      /\ now \in Seq(Message) /\ Len(now) = Len(wire[c]) + n
      /\ \A i \in 1..(Len(wire[c]) + n) :
           now[i] = IF i <= Len(wire[c]) THEN wire[c][i] ELSE head[i - Len(wire[c])]
  <2>1. wire[c] \in Seq(Message) /\ head \in Seq(Message) /\ Len(head) = n
    BY <1>6 DEF Inv, QueuesOK
  <2> HIDE DEF head
  <2>2. /\ now \in Seq(Message) /\ Len(now) = Len(wire[c]) + Len(head)
        /\ \A i \in 1..(Len(wire[c]) + Len(head)) :
             now[i] = IF i <= Len(wire[c]) THEN wire[c][i] ELSE head[i - Len(wire[c])]
    BY <2>1, ConcatProperties
  <2> HIDE DEF now
  <2> QED BY <2>1, <2>2, LenProperties
<1>10. /\ wire' \in [Conn -> Seq(Message)] /\ wire'[c] = now
       /\ \A d \in Conn : d # c => wire'[d] = wire[d]
  BY <1>1, <1>9 DEF Inv, QueuesOK
<1> HIDE DEF now, head
<1>11. MeantOK'
  <2>1. ASSUME NEW d \in Conn, NEW i \in 1..Len(out'[d])
        PROVE  out'[d][i].conn = d \/ out'[d][i].conn \in gone'
    <3>1. CASE d = c
      BY <3>1, <1>7, <1>8 DEF Meant
    <3>2. CASE d # c
      BY <3>2, <1>8 DEF Inv, MeantOK, Meant
    <3> QED BY <3>1, <3>2
  <2>2. ASSUME NEW d \in Conn, NEW i \in 1..Len(wire'[d])
        PROVE  wire'[d][i].conn = d \/ wire'[d][i].conn \in gone'
    <3>1. CASE d = c /\ i <= Len(wire[c])
      <4>1. i \in 1..Len(wire[c]) /\ wire'[d][i] = wire[c][i]
        BY <3>1, <1>3, <1>9, <1>10
      <4> QED BY <4>1, <3>1 DEF Inv, MeantOK, Meant
    <3>2. CASE d = c /\ ~(i <= Len(wire[c]))
      <4>1. i - Len(wire[c]) \in 1..n /\ wire'[d][i] = head[i - Len(wire[c])]
        BY <3>2, <1>3, <1>9, <1>10
      <4>2. i - Len(wire[c]) \in 1..Len(bufs) /\ wire'[d][i] = bufs[i - Len(wire[c])]
        BY <4>1, <1>6 DEF head
      <4> QED BY <4>2, <3>2 DEF Meant
    <3>3. CASE d # c
      BY <3>3, <1>10 DEF Inv, MeantOK, Meant
    <3> QED BY <3>1, <3>2, <3>3
  <2> QED BY <2>1, <2>2 DEF MeantOK, Meant
<1>12. \A d \in Conn : /\ Live(d)' <=> Live(d)
                       /\ d # c /\ reg[d] # {} => InputPending(d) /\ OutputPending(d)
  BY <1>4 DEF Live, Inv, WatchOK
<1>13. reg[c] # {} => InputPending(c)
  BY DEF Inv, WatchOK
<1>14. CASE n = Len(bufs)
  <2>1. UNCHANGED <<interest, reg, armed>> /\ out'[c] = <<>>
    BY <1>1, <1>2, <1>7, <1>8, <1>14
  <2>2. WatchOK'
    <3>1. ASSUME NEW d \in Conn
          PROVE  reg'[d] # {} => InputPending(d)' /\ OutputPending(d)'
      <4>1. CASE d = c
        <5>1. OutputPending(c)'
          BY <2>1 DEF OutputPending
        <5> QED BY <4>1, <5>1, <1>13, <2>1, PendingFrame
      <4>2. CASE d # c
        BY <4>2, <1>5, <1>8, <1>12, <2>1, PendingFrame
      <4> QED BY <4>1, <4>2
    <3>2. \A d \in Conn : out'[d] # <<>> => Live(d)' /\ "WRITABLE" \in interest'[d]
      BY <1>8, <1>12, <2>1 DEF Inv, WatchOK
    <3> QED BY <3>1, <3>2, <1>12, <2>1 DEF Inv, WatchOK
  <2>3. LinkOK'
    <3>1. \A d \in Conn : link[d] \in {"idle", "connecting"} => room'[d] = 0
      <4> TAKE d \in Conn
      <4> HAVE link[d] \in {"idle", "connecting"}
      <4>1. room[d] = 0
        BY DEF Inv, LinkOK
      <4>2. CASE d = c
        BY <4>1, <4>2, <1>3, <1>5
      <4>3. CASE d # c
        BY <4>1, <4>3, <1>5
      <4> QED BY <4>2, <4>3
    <3>2. \A d \in Conn : link[d] = "connecting" => Live(d)' /\ d \notin armed' /\ job'.conn # d
      BY <1>4, <1>12, <2>1 DEF Inv, LinkOK
    <3> QED BY <3>1, <3>2, <1>5 DEF Inv, LinkOK
  <2> QED BY <1>8, <1>10, <1>11, <2>2, <2>3
<1>15. CASE n # Len(bufs)
  <2>1. /\ interest' \in [Conn -> SUBSET Event]
        /\ interest'[c] = interest[c] \cup {"WRITABLE"}
        /\ \A d \in Conn : d # c => interest'[d] = interest[d]
    BY <1>1, <1>15 DEF Inv, WatchOK, Event
  <2>2. PICK events : events = interest'[c]
    OBVIOUS
  <2>3. events \in SUBSET Event /\ "WRITABLE" \in events /\ Watch(c, events, room[c] - n)
    BY <1>1, <1>15, <2>1, <2>2
  <2>4. /\ reg' \in [Conn -> SUBSET Event] /\ reg'[c] = events
        /\ armed' \subseteq Conn /\ armed \subseteq armed' /\ armed' \subseteq armed \cup {c}
        /\ \A d \in Conn : d # c => reg'[d] = reg[d] /\ (d \in armed' <=> d \in armed)
        /\ InputPending(c)'
        /\ "WRITABLE" \in events /\ HasRoom(c, room[c] - n) => c \in armed'
    BY <2>3, WatchPends DEF Inv
  <2>5. OutputPending(c)'
    BY <1>5, <2>3, <2>4 DEF OutputPending, HasRoom
  <2>6. WatchOK'
    <3>1. ASSUME NEW d \in Conn, d # c
          PROVE  reg'[d] # {} => InputPending(d)' /\ OutputPending(d)'
      BY <3>1, <1>5, <1>8, <1>12, <2>4, PendingFrame
    <3>2. \A d \in Conn : out'[d] # <<>> => Live(d)' /\ "WRITABLE" \in interest'[d]
      BY <1>8, <1>12, <2>1 DEF Inv, WatchOK
    <3>3. \A d \in Conn : reg'[d] # {} \/ d \in armed' => Live(d)'
      BY <1>12, <2>4 DEF Inv, WatchOK
    <3> QED BY <3>1, <3>2, <3>3, <2>1, <2>4, <2>5 DEF WatchOK
  <2>7. LinkOK'
    <3>1. \A d \in Conn : link[d] \in {"idle", "connecting"} => room'[d] = 0
      <4> TAKE d \in Conn
      <4> HAVE link[d] \in {"idle", "connecting"}
      <4>1. room[d] = 0
        BY DEF Inv, LinkOK
      <4>2. CASE d = c
        BY <4>1, <4>2, <1>3, <1>5
      <4>3. CASE d # c
        BY <4>1, <4>3, <1>5
      <4> QED BY <4>2, <4>3
    <3>2. link[c] = "connecting" => armed' = armed
      <4> HAVE link[c] = "connecting"
      <4>1. sent[c] = 0 /\ room[c] = 0 /\ ~(sent[c] > read[c])
        BY LinkTypes DEF Inv, LinkOK
      <4>2. ~(room[c] - n > 0)
        BY <4>1, <1>3
      <4>3. ~Ready(c, events, room[c] - n)
        BY <4>1, <4>2 DEF Ready, HasInput, HungUp, HasRoom
      <4> QED BY <4>3, <2>3 DEF Watch
    <3>3. \A d \in Conn : link[d] = "connecting" => Live(d)' /\ d \notin armed' /\ job'.conn # d
      BY <3>2, <1>4, <1>12, <2>4 DEF Inv, LinkOK
    <3> QED BY <3>1, <3>3, <1>5 DEF Inv, LinkOK
  <2> QED BY <1>8, <1>10, <1>11, <2>6, <2>7
<1> QED BY <1>14, <1>15

\* writable finds the connection removed, or drains its own output.
LEMMA WritableInv == Inv /\ Writable => Inv'
<1> SUFFICES ASSUME Inv, Writable PROVE Inv'
  OBVIOUS
<1>0. PICK c : c = job.conn
  OBVIOUS
<1>1. /\ pc = "writable" /\ pc' = "poll" /\ job' = NoJob
      /\ IF c \in gone
         THEN UNCHANGED <<wire, room, out, interest, reg, armed>>
         ELSE Drain(c, out[c])
      /\ UNCHANGED <<link, sent, backlog, accepting, slab, free, tok, gone, read, timers,
                     rx, hold, asked, queue, mailbox>>
  BY <1>0 DEF Writable, users
<1>2. c \in Conn /\ tok[c] # 0 /\ None \notin Conn /\ job'.conn = None
  BY <1>0, <1>1, EngineAssumption DEF Inv, LoopOK, NoJob, Conn
<1>3. LoopOK'
  BY <1>1, EngineAssumption DEF Inv, LoopOK, NoJob
<1>4. SlabOK' /\ BacklogOK' /\ KnownOK'
  BY <1>1, SlabFrame, BacklogFrame, KnownFrame DEF Inv
<1>5. CASE c \in gone
  <2>1. UNCHANGED <<wire, room, out, interest, reg, armed>>
    BY <1>1, <1>5
  <2>2. QueuesOK' /\ MeantOK'
    BY <1>1, <2>1, QueuesFrame, MeantFrame DEF Inv
  <2>3. LinkOK'
    BY <1>1, <1>2, <2>1 DEF Inv, LinkOK, Live
  <2>4. WatchOK'
    <3>1. reg[c] = {}
      BY <1>2, <1>5 DEF Inv, WatchOK, Live
    <3>2. \A d \in Conn : /\ Live(d)' <=> Live(d)
                          /\ reg[d] # {} => InputPending(d) /\ OutputPending(d)
      BY <1>0, <1>1, <3>1 DEF Inv, WatchOK, Live
    <3>3. \A d \in Conn : reg[d] # {} => InputPending(d)' /\ OutputPending(d)'
      BY <3>2, <1>1, <2>1, PendingFrame
    <3> QED BY <3>2, <3>3, <1>1, <2>1 DEF Inv, WatchOK
  <2> QED BY <1>3, <1>4, <2>2, <2>3, <2>4 DEF Inv
<1>6. CASE c \notin gone
  <2>1. Drain(c, out[c]) /\ Live(c)
    BY <1>1, <1>2, <1>6 DEF Live
  <2>2. out[c] \in Seq(Message) /\ \A i \in 1..Len(out[c]) : Meant(out[c][i], c)
    BY <1>2 DEF Inv, QueuesOK, MeantOK
  <2>3. /\ LinkOK' /\ WatchOK' /\ MeantOK'
        /\ out' \in [Conn -> Seq(Message)] /\ wire' \in [Conn -> Seq(Message)]
    BY <1>0, <1>1, <1>2, <2>1, <2>2, DrainInv
  <2>4. Message' = Message
    BY <1>1 DEF Message, Slot
  <2>5. QueuesOK'
    BY <1>1, <2>3, <2>4 DEF Inv, QueuesOK
  <2> QED BY <1>3, <1>4, <2>3, <2>5 DEF Inv
<1> QED BY <1>5, <1>6

\* The connection that has the message's token is the one the message was meant
\* for, unless that one was removed.
LEMMA NotifyInv == Inv /\ Notify => Inv'
<1> SUFFICES ASSUME Inv, Notify PROVE Inv'
  OBVIOUS
<1>0. PICK msg, c : msg = Head(mailbox) /\ c = slab[msg.tok]
  OBVIOUS
<1>1. /\ pc = "poll" /\ mailbox # <<>> /\ mailbox' = Tail(mailbox)
      /\ IF c = None
         THEN UNCHANGED <<wire, room, out, interest, reg, armed>>
         ELSE Drain(c, Append(out[c], msg))
      /\ UNCHANGED <<link, sent, backlog, accepting, pc, job, slab, free, tok, gone, read, timers,
                     rx, hold, asked, queue>>
  BY <1>0 DEF Notify, users
<1>2. mailbox \in Seq(Message) /\ Len(mailbox) \in Nat /\ Len(mailbox) <= NotifyCap /\ NotifyCap \in Nat
  BY LenProperties, EngineAssumption DEF Inv, QueuesOK
<1>3. /\ msg \in Message /\ msg = mailbox[1] /\ 1 \in 1..Len(mailbox)
      /\ mailbox' \in Seq(Message) /\ Len(mailbox') = Len(mailbox) - 1
      /\ \A i \in 1..Len(mailbox') : i + 1 \in 1..Len(mailbox) /\ mailbox'[i] = mailbox[i + 1]
  BY <1>0, <1>1, <1>2, HeadTailProperties
<1>4. Known(msg) /\ Len(mailbox') <= NotifyCap
  BY <1>2, <1>3 DEF Inv, KnownOK
<1>5. Message' = Message /\ \A m : Known(m)' <=> Known(m)
  BY <1>1 DEF Message, Slot, Known
<1>6. KnownOK'
  <2>1. \A i \in 1..Len(mailbox') : Known(mailbox'[i])
    BY <1>3 DEF Inv, KnownOK
  <2> QED BY <2>1, <1>1, <1>5 DEF Inv, KnownOK
<1>7. LoopOK' /\ SlabOK' /\ BacklogOK'
  BY <1>1, LoopFrame, SlabFrame, BacklogFrame DEF Inv
<1>8. job.conn = None
  BY <1>1 DEF Inv, LoopOK
<1>9. CASE c = None
  <2>1. UNCHANGED <<wire, room, out, interest, reg, armed>>
    BY <1>1, <1>9
  <2>2. QueuesOK'
    BY <1>1, <1>3, <1>4, <1>5, <2>1 DEF Inv, QueuesOK
  <2> QED BY <1>1, <1>6, <1>7, <2>1, <2>2, LinkFrame, MeantFrame, WatchFrame DEF Inv
<1>10. CASE c # None
  <2>1. msg.tok \in Slot /\ msg.conn \in Conn
    BY <1>3 DEF Message
  <2>2. c \in Conn /\ tok[c] = msg.tok /\ Live(c)
    BY <1>0, <1>10, <2>1 DEF Inv, SlabOK, Live
  <2>3. Meant(msg, c)
    <3> SUFFICES ASSUME msg.conn \notin gone PROVE msg.conn = c
      BY DEF Meant
    <3>1. tok[msg.conn] = msg.tok /\ Live(msg.conn)
      BY <1>4, <2>1 DEF Known, Live, Inv, SlabOK
    <3> QED BY <3>1, <2>1, <1>0 DEF Inv, SlabOK
  <2> DEFINE bufs == Append(out[c], msg)
  <2>4. out[c] \in Seq(Message) /\ Len(out[c]) \in Nat
    BY <2>2, LenProperties DEF Inv, QueuesOK
  <2>5. /\ bufs \in Seq(Message) /\ Len(bufs) = Len(out[c]) + 1
        /\ \A i \in 1..Len(out[c]) : bufs[i] = out[c][i]
        /\ bufs[Len(out[c]) + 1] = msg
    BY <1>3, <2>4, AppendProperties
  <2>6. Drain(c, bufs)
    BY <1>1, <1>10
  <2> HIDE DEF bufs
  <2>7. \A i \in 1..Len(bufs) : Meant(bufs[i], c)
    <3>1. \A i \in 1..Len(bufs) : i \in 1..Len(out[c]) \/ i = Len(out[c]) + 1
      BY <2>4, <2>5
    <3> QED BY <3>1, <2>2, <2>3, <2>5 DEF Inv, MeantOK
  <2>8. /\ LinkOK' /\ WatchOK' /\ MeantOK'
        /\ out' \in [Conn -> Seq(Message)] /\ wire' \in [Conn -> Seq(Message)]
    BY <1>1, <1>8, <2>2, <2>5, <2>6, <2>7, DrainInv
  <2>9. QueuesOK'
    BY <1>1, <1>3, <1>4, <1>5, <2>8 DEF Inv, QueuesOK
  <2> QED BY <1>6, <1>7, <2>8, <2>9 DEF Inv
<1> QED BY <1>9, <1>10

-----------------------------------------------------------------------------
(* The theorems.                                                           *)

\* Every step keeps the invariant.
LEMMA NextInv == Inv /\ [Next]_vars => Inv'
<1> SUFFICES ASSUME Inv, [Next]_vars PROVE Inv'
  OBVIOUS
<1>1. CASE Setup
  BY <1>1, ConnectInv, ListenInv, SetTimeoutInv, RunInv DEF Setup
<1>2. CASE Loop
  BY <1>2, AcceptInv, IoEventInv, SendFrameInv, FinishReadInv, WritableInv, NotifyInv, TimeoutInv
     DEF Loop, Handler
<1>3. CASE User
  BY <1>3, ConsumeInv, ReplyInv, NeglectInv, QuitInv, RequestInv DEF User
<1>4. CASE Peer
  BY <1>4, EstablishedInv, ArriveInv, PeerSendsInv, PeerReadsInv, PeerClosesInv, PeerResetsInv DEF Peer
<1>5. CASE UNCHANGED vars
  <2>1. UserStep /\ UNCHANGED <<queue, hold, rx, asked, mailbox, out, wire, tok, gone, slab>>
    BY <1>5 DEF vars, net, loop, users, UserStep
  <2> QED BY <2>1, UserFrame, QueuesFrame, KnownFrame DEF Inv
<1> QED BY <1>1, <1>2, <1>3, <1>4, <1>5 DEF Next

\* The invariant holds in every state of every behaviour.
LEMMA Invariance == Spec => []Inv
  BY InitInv, NextInv, PTL DEF Spec

\* Only queues are neglected.
LEMMA IdleInv == Spec => [](idle \subseteq Queue)
<1>1. Init => idle \subseteq Queue
  BY DEF Init
<1>2. idle \subseteq Queue /\ [Next]_vars => (idle \subseteq Queue)'
  <2> SUFFICES ASSUME idle \subseteq Queue, [Next]_vars PROVE idle' \subseteq Queue
    OBVIOUS
  <2>1. CASE Setup
    BY <2>1 DEF Setup, Connect, Listen, SetTimeout, Run, users
  <2>2. CASE Loop
    BY <2>2 DEF Loop, Accept, IoEvent, Handler, SendFrame, FinishRead, Writable, Notify, Timeout, users
  <2>3. CASE User
    BY <2>3 DEF User, Consume, Reply, Neglect, Quit, Request
  <2>4. CASE Peer
    BY <2>4 DEF Peer, Established, Arrive, PeerSends, PeerReads, PeerCloses, PeerResets, users
  <2>5. CASE UNCHANGED vars
    BY <2>5 DEF vars, users
  <2> QED BY <2>1, <2>2, <2>3, <2>4, <2>5 DEF Next
<1> QED BY <1>1, <1>2, PTL DEF Spec

\* Types hold and every queue, the free list and the slab of timers stay within
\* their capacities, for any number of connections and slots.
THEOREM TypeCorrect == Spec => []TypeOK
<1>1. Inv /\ idle \subseteq Queue => TypeOK
  <2> SUFFICES ASSUME Inv, idle \subseteq Queue PROVE TypeOK
    OBVIOUS
  <2>1. timers.used \in 0..TimerSlots /\ timers.pending \in 0..timers.used
    BY EngineAssumption DEF Inv, LoopOK
  <2> QED BY <2>1 DEF Inv, LoopOK, SlabOK, BacklogOK, LinkOK, QueuesOK, WatchOK, TypeOK
<1> QED BY <1>1, Invariance, IdleInv, PTL

\* No two connections ever share a token and no slot is lost, whatever is accepted,
\* refused and removed in the middle of a handler.
THEOREM SlabConsistentHolds == Spec => []SlabConsistent
<1>1. Inv => SlabConsistent
  <2> SUFFICES ASSUME Inv PROVE SlabConsistent
    OBVIOUS
  <2>1. ASSUME NEW t \in Slot
        PROVE  Cardinality({i \in 1..Len(free) : free[i] = t}) = IF slab[t] = None THEN 1 ELSE 0
    <3> DEFINE S == {i \in 1..Len(free) : free[i] = t}
    <3>1. CASE slab[t] = None
      <4>1. PICK i \in 1..Len(free) : free[i] = t
        BY <3>1 DEF Inv, SlabOK, FreeOnce
      <4>2. S = {i}
        BY <4>1 DEF Inv, SlabOK, FreeOnce
      <4> QED BY <4>2, <3>1, FS_Singleton
    <3>2. CASE slab[t] # None
      <4>1. S = {}
        BY <3>2 DEF Inv, SlabOK, FreeOnce
      <4> QED BY <4>1, <3>2, FS_EmptySet
    <3> QED BY <3>1, <3>2
  <2>2. /\ \A t \in Slot : slab[t] # None => tok[slab[t]] = t /\ slab[t] \notin gone
        /\ \A c \in Conn : tok[c] # 0 /\ c \notin gone => slab[tok[c]] = c
        /\ \A c \in Conn : reg[c] # {} \/ c \in armed => tok[c] # 0 /\ c \notin gone
    BY DEF Inv, SlabOK, WatchOK, Live
  <2> QED BY <2>1, <2>2 DEF SlabConsistent
<1> QED BY <1>1, Invariance, PTL

\* The poller has an event for whatever it was asked to watch and that is there:
\* edges are not lost between a handler's read or write and its reregister.
THEOREM EventPendingHolds == Spec => []EventPending
<1>1. Inv => EventPending
  <2> SUFFICES ASSUME Inv, NEW c \in Conn, reg[c] # {}, job.conn # c
               PROVE  InputPending(c) /\ OutputPending(c)
    BY DEF EventPending, InputPending, OutputPending
  <2> QED BY DEF Inv, WatchOK
<1> QED BY <1>1, Invariance, PTL

\* Tokens are reused, but a buffer reaches another connection than the one it was
\* meant for only after that one was removed.
THEOREM StrayHolds == Spec => []StrayOnlyAfterRemoval
<1>1. Inv => StrayOnlyAfterRemoval
  <2> SUFFICES ASSUME Inv, NEW c \in Conn, NEW m \in ToSet(wire[c]) \cup ToSet(out[c])
               PROVE  m.conn = c \/ m.conn \in gone
    BY DEF StrayOnlyAfterRemoval
  <2>1. wire[c] \in Seq(Message) /\ out[c] \in Seq(Message)
    BY DEF Inv, QueuesOK
  <2>2. DOMAIN wire[c] = 1..Len(wire[c]) /\ DOMAIN out[c] = 1..Len(out[c])
    BY <2>1, LenProperties
  <2> QED BY <2>2 DEF ToSet, Inv, MeantOK, Meant
<1> QED BY <1>1, Invariance, PTL
=============================================================================
