------------------------------ MODULE Reactor ------------------------------
(***************************************************************************)
(* The network engine: one event loop thread that accepts, reads, writes   *)
(* and removes connections, with the peers on one side of it and, on the   *)
(* other, the threads that take frames from its queues and hand it buffers *)
(* to send.  A read returns whole frames and a write whole buffers here;   *)
(* ConnectionRead and ConnectionWrite treat them byte by byte.             *)
(*                                                                         *)
(* External, modelled from how reactor.rs uses them: the sockets, mio's    *)
(* Slab (a removed slot is the next one to be used), its notify queue, and *)
(* its edge-triggered poller.  A connection is armed when the poller has   *)
(* an event for it; reregister checks at once whether it is ready.  A FIN  *)
(* is reported as a hang-up only if HUP is registered, a reset always.     *)
(***************************************************************************)
EXTENDS Naturals, Sequences, FiniteSets, SequencesExt

CONSTANTS
  Client,      \* connections the program opens with connect
  Inbound,     \* connections that peers open to the listener
  Srv,         \* the queue that listen returns
  None,
  Slots,       \* capacities that conns may have
  TimerSlots,  \* capacity of timeouts
  QueueSize,   \* capacity of a queue of frames (config.queue_size)
  NotifyCap,   \* capacity of the notify queue (config.queue_size)
  Window,      \* frames that fit into the read buffer
  Room,        \* buffers that fit into a socket
  Frames,      \* bound: frames each peer sends
  Requests     \* bound: buffers a client sends without being asked

ASSUME EngineAssumption ==
  /\ Client \cap Inbound = {} /\ None \notin Client \cup Inbound
  /\ Srv \notin Client \cup Inbound
  /\ {QueueSize, NotifyCap, Window, Room} \subseteq Nat \ {0}
  /\ Slots \subseteq Nat /\ {TimerSlots, Frames, Requests} \subseteq Nat

VARIABLES
  pc,        \* "setup", "poll", "sending" or "writable" (inside a handler), "stopped"
  job,       \* the event being handled: conn, frames still to send, HUPHINT, WRITABLE
  slab,      \* conns: slot -> connection
  free,      \* free slots, in the order in which they will be used
  tok,       \* the token a connection was given
  gone,      \* connections that were removed, refused or never made
  interest,  \* c.interest
  reg,       \* what the poller watches a connection for, {} if it does not
  armed,     \* connections for which the poller has an event
  accepting, \* the listener: "off", "idle" or "armed"
  backlog,   \* connections that wait to be accepted
  link,      \* socket: "idle", "connecting", "up", "fin" or "reset"
  sent,      \* frames that arrived from the peer
  read,      \* frames read off the socket
  room,      \* space in the socket
  out,       \* c.outbuf
  wire,      \* what was written to the socket
  queue,     \* frames between the loop and a consumer
  rx,        \* the Receiver of that queue is alive
  hold,      \* frame that a consumer is about to answer, or None
  asked,     \* unsolicited buffers sent by a client
  idle,      \* queues from which nobody will take a frame any more
  mailbox,   \* notify queue
  timers     \* timer slots: used, and timers that have not fired

net   == <<link, sent, room, backlog, accepting>>
loop  == <<pc, job, slab, free, tok, gone, interest, reg, read, out, wire, timers>>
users == <<rx, hold, asked, idle>>
vars  == <<net, loop, users, armed, queue, mailbox>>

Conn       == Client \cup Inbound
Queue      == Client \cup {Srv}
QueueOf(c) == IF c \in Client THEN c ELSE Srv
Event      == {"READABLE", "WRITABLE", "HUP"}
Least(m, n) == IF m < n THEN m ELSE n
NoJob      == [conn |-> None, todo |-> 0, hup |-> FALSE, write |-> FALSE]

Init ==
  /\ pc = "setup" /\ job = NoJob
  /\ \E n \in Slots : slab = [t \in 1..n |-> None] /\ free = [t \in 1..n |-> t]
  /\ tok = [c \in Conn |-> 0]
  /\ gone = {}
  /\ interest = [c \in Conn |-> {}] /\ reg = [c \in Conn |-> {}]
  /\ armed = {} /\ accepting = "off" /\ backlog = <<>>
  /\ link = [c \in Conn |-> "idle"]
  /\ sent = [c \in Conn |-> 0] /\ read = [c \in Conn |-> 0]
  /\ room = [c \in Conn |-> 0]
  /\ out = [c \in Conn |-> <<>>] /\ wire = [c \in Conn |-> <<>>]
  /\ queue = [q \in Queue |-> <<>>]
  /\ rx = [q \in Queue |-> FALSE] /\ hold = [q \in Queue |-> None]
  /\ asked = [c \in Client |-> 0] /\ idle = {}
  /\ mailbox = <<>>
  /\ timers = [used |-> 0, pending |-> 0]

-----------------------------------------------------------------------------
(* The poller.                                                             *)

HungUp(c, events) == link[c] = "reset" \/ (link[c] = "fin" /\ "HUP" \in events)
HasInput(c)       == sent[c] > read[c] \/ link[c] \in {"fin", "reset"}
HasRoom(c, n)     == n > 0 \/ link[c] = "reset"

\* Ready(c): there is something to report of what events asks for.
Ready(c, events, n) ==
  \/ "READABLE" \in events /\ HasInput(c)
  \/ HungUp(c, events)
  \/ "WRITABLE" \in events /\ HasRoom(c, n)

\* register_opt and reregister, edge-triggered.
Watch(c, events, n) ==
  /\ reg' = [reg EXCEPT ![c] = events]
  /\ armed' = IF Ready(c, events, n) THEN armed \cup {c} ELSE armed

-----------------------------------------------------------------------------
(* The slab of connections.                                                *)

\* Mutants: the slot stays free; the new connection does not ask for HUP.
InsertKeepsFree(c) ==
  /\ slab' = [slab EXCEPT ![Head(free)] = c]
  /\ tok' = [tok EXCEPT ![c] = Head(free)]
  /\ interest' = [interest EXCEPT ![c] = {"HUP"}]
  /\ UNCHANGED free
InsertWithoutHup(c) ==
  /\ slab' = [slab EXCEPT ![Head(free)] = c]
  /\ free' = Tail(free)
  /\ tok' = [tok EXCEPT ![c] = Head(free)]
  /\ UNCHANGED interest

\* conns.insert(Connection::new(..)) when there is a free slot.
Insert(c) ==
  /\ slab' = [slab EXCEPT ![Head(free)] = c]
  /\ free' = Tail(free)
  /\ tok' = [tok EXCEPT ![c] = Head(free)]
  /\ interest' = [interest EXCEPT ![c] = {"HUP"}]

\* conns.remove(token): the socket is closed and no longer watched.
Release(c) ==
  /\ slab' = [slab EXCEPT ![tok[c]] = None]
  /\ free' = <<tok[c]>> \o free
  /\ gone' = gone \cup {c}
  /\ reg' = [reg EXCEPT ![c] = {}]
  /\ armed' = armed \ {c}
  /\ out' = [out EXCEPT ![c] = <<>>]

-----------------------------------------------------------------------------
(* Setting up: run() takes the engine, so all this happens before it.      *)

\* connect.  The error paths drop the receiver; after a failed register the
\* connection stays in the slab unwatched, after a failed connect it is watched
\* and its socket reports a hang-up.
Connect(c) ==
  /\ pc = "setup" /\ link[c] = "idle" /\ c \notin gone
  /\ IF free = <<>>
     THEN /\ gone' = gone \cup {c}
          /\ UNCHANGED <<slab, free, tok, interest, reg, armed, link, rx>>
     ELSE /\ Insert(c)
          /\ \/ /\ link' = [link EXCEPT ![c] = "connecting"]
                /\ rx' = [rx EXCEPT ![c] = TRUE]
                /\ reg' = [reg EXCEPT ![c] = {"READABLE"}]
                /\ UNCHANGED armed
             \/ /\ link' = [link EXCEPT ![c] = "reset"]
                /\ reg' = [reg EXCEPT ![c] = {"READABLE"}]
                /\ armed' = armed \cup {c}
                /\ UNCHANGED rx
             \/ /\ link' = [link EXCEPT ![c] = "reset"]
                /\ UNCHANGED <<reg, armed, rx>>
          /\ UNCHANGED gone
  /\ UNCHANGED <<pc, job, read, out, wire, timers, sent, room, backlog, accepting,
                 hold, asked, idle, queue, mailbox>>

\* listen; when it fails nothing is left that could accept.
Listen ==
  /\ pc = "setup" /\ accepting = "off" /\ Inbound # {}
  /\ accepting' = "idle" /\ rx' = [rx EXCEPT ![Srv] = TRUE]
  /\ UNCHANGED <<loop, link, sent, room, backlog, hold, asked, idle, armed, queue, mailbox>>

\* Mutant: the slab of timers grows.
SetTimeoutUnchecked ==
  /\ pc = "setup" /\ timers.used <= TimerSlots
  /\ timers' = [used |-> timers.used + 1, pending |-> timers.pending + 1]
  /\ UNCHANGED <<net, pc, job, slab, free, tok, gone, interest, reg, read, out, wire,
                 users, armed, queue, mailbox>>

\* timeout(): a full slab panics, which drops the engine.
SetTimeout ==
  /\ pc = "setup"
  /\ IF timers.used = TimerSlots
     THEN pc' = "stopped" /\ UNCHANGED timers
     ELSE /\ timers' = [used |-> timers.used + 1, pending |-> timers.pending + 1]
          /\ UNCHANGED pc
  /\ UNCHANGED <<net, job, slab, free, tok, gone, interest, reg, read, out, wire,
                 users, armed, queue, mailbox>>

\* run, or shutdown, which drops the engine.
Run ==
  /\ pc = "setup" /\ pc' \in {"poll", "stopped"}
  /\ UNCHANGED <<net, job, slab, free, tok, gone, interest, reg, read, out, wire, timers,
                 users, armed, queue, mailbox>>

-----------------------------------------------------------------------------
(* Handlers of the event loop.                                             *)

\* readable for the listener: one connection per event; a full slab drops it.
\* (An accept that fails is tried again: the listener is reregistered anyway.)
Accept ==
  /\ pc = "poll" /\ accepting = "armed"
  /\ backlog' = Tail(backlog)
  /\ accepting' = IF backlog' = <<>> THEN "idle" ELSE "armed"
  /\ LET c == Head(backlog) IN
     IF free = <<>>
     THEN /\ gone' = gone \cup {c}
          /\ UNCHANGED <<slab, free, tok, interest, reg, armed>>
     ELSE Insert(c) /\ Watch(c, {"READABLE", "HUP"}, room[c]) /\ UNCHANGED gone
  /\ UNCHANGED <<pc, job, read, out, wire, timers, link, sent, room, users, queue, mailbox>>

\* An event: readable is called for READABLE and HUP, then writable for
\* WRITABLE.  readable reads once; a reset socket yields an error.
IoEvent(c) ==
  LET hup   == HungUp(c, reg[c])
      input == ("READABLE" \in reg[c] /\ HasInput(c)) \/ hup
      write == "WRITABLE" \in reg[c] /\ HasRoom(c, room[c])
      n     == IF input /\ link[c] # "reset" THEN Least(Window, sent[c] - read[c]) ELSE 0
  IN
  /\ pc = "poll" /\ c \in armed
  /\ armed' = armed \ {c}
  /\ read' = [read EXCEPT ![c] = @ + n]
  /\ job' = IF input \/ write THEN [conn |-> c, todo |-> n, hup |-> hup, write |-> write] ELSE job
  /\ pc' = IF input THEN "sending" ELSE IF write THEN "writable" ELSE pc
  /\ UNCHANGED <<net, slab, free, tok, gone, interest, reg, out, wire, timers,
                 users, queue, mailbox>>

\* ProtoMsg(item, token); conn is history.
Tagged(c) == [conn |-> c, tok |-> tok[c]]

\* Mutant: a queue without a receiver is waited for.
SendFrameWaits ==
  LET q == QueueOf(job.conn) IN
  /\ pc = "sending" /\ job.todo > 0 /\ Len(queue[q]) < QueueSize
  /\ queue' = [queue EXCEPT ![q] = Append(@, Tagged(job.conn))]
  /\ job' = [job EXCEPT !.todo = @ - 1]
  /\ UNCHANGED <<net, pc, slab, free, tok, gone, interest, reg, read, out, wire, timers,
                 users, armed, mailbox>>

\* conn_tx.send: blocks while the queue is full; its failure is ignored.
SendFrame ==
  LET q == QueueOf(job.conn) IN
  /\ pc = "sending" /\ job.todo > 0
  /\ \/ ~rx[q] /\ UNCHANGED queue
     \/ /\ rx[q] /\ Len(queue[q]) < QueueSize
        /\ queue' = [queue EXCEPT ![q] = Append(@, Tagged(job.conn))]
  /\ job' = [job EXCEPT !.todo = @ - 1]
  /\ UNCHANGED <<net, pc, slab, free, tok, gone, interest, reg, read, out, wire, timers,
                 users, armed, mailbox>>

\* Mutant: the interest is noted but the poller is not told.
KeepReadingSilently(c) ==
  /\ interest' = [interest EXCEPT ![c] = @ \cup {"READABLE"}]
  /\ UNCHANGED <<reg, armed>>

\* c.interest.insert(READABLE), reregister.
KeepReading(c) ==
  /\ interest' = [interest EXCEPT ![c] = @ \cup {"READABLE"}]
  /\ Watch(c, interest'[c], room[c])

\* The end of readable: with HUPHINT the connection is removed.
FinishRead ==
  LET c == job.conn IN
  /\ pc = "sending" /\ job.todo = 0
  /\ pc' = IF job.write THEN "writable" ELSE "poll"
  /\ job' = IF job.write THEN job ELSE NoJob
  /\ IF job.hup
     THEN Release(c) /\ UNCHANGED interest
     ELSE KeepReading(c) /\ UNCHANGED <<slab, free, gone, out>>
  /\ UNCHANGED <<net, tok, read, wire, timers, users, queue, mailbox>>

\* Mutant: what is left waits for the next buffer.
DrainSilently(c, bufs) ==
  LET n == IF link[c] = "reset" THEN 0 ELSE Least(room[c], Len(bufs)) IN
  /\ wire' = [wire EXCEPT ![c] = @ \o SubSeq(bufs, 1, n)]
  /\ room' = [room EXCEPT ![c] = @ - n]
  /\ out' = [out EXCEPT ![c] = SubSeq(bufs, n + 1, Len(bufs))]
  /\ UNCHANGED <<interest, reg, armed>>

\* drain_write_queue_to_socket and, if something is left, reregister.
Drain(c, bufs) ==
  LET n == IF link[c] = "reset" THEN 0 ELSE Least(room[c], Len(bufs)) IN
  /\ wire' = [wire EXCEPT ![c] = @ \o SubSeq(bufs, 1, n)]
  /\ room' = [room EXCEPT ![c] = @ - n]
  /\ out' = [out EXCEPT ![c] = SubSeq(bufs, n + 1, Len(bufs))]
  /\ IF n = Len(bufs)
     THEN UNCHANGED <<interest, reg, armed>>
     ELSE /\ interest' = [interest EXCEPT ![c] = @ \cup {"WRITABLE"}]
          /\ Watch(c, interest'[c], room[c] - n)

\* writable; nothing happens if readable has just removed the connection.
Writable ==
  /\ pc = "writable"
  /\ pc' = "poll" /\ job' = NoJob
  /\ IF job.conn \in gone
     THEN UNCHANGED <<wire, room, out, interest, reg, armed>>
     ELSE Drain(job.conn, out[job.conn])
  /\ UNCHANGED <<link, sent, backlog, accepting, slab, free, tok, gone, read, timers,
                 users, queue, mailbox>>

\* notify: the buffer goes to whatever connection has the token now.
Notify ==
  /\ pc = "poll" /\ mailbox # <<>>
  /\ mailbox' = Tail(mailbox)
  /\ LET msg == Head(mailbox)
         c   == slab[msg.tok]
     IN IF c = None
        THEN UNCHANGED <<wire, room, out, interest, reg, armed>>
        ELSE Drain(c, Append(out[c], msg))
  /\ UNCHANGED <<link, sent, backlog, accepting, pc, job, slab, free, tok, gone, read, timers,
                 users, queue>>

\* timeout: the callback runs once; it may shut the loop down.  Its slot stays
\* used whatever it returns.
Timeout ==
  /\ pc = "poll" /\ timers.pending > 0
  /\ timers' = [timers EXCEPT !.pending = @ - 1]
  /\ pc' \in {"poll", "stopped"}
  /\ UNCHANGED <<net, job, slab, free, tok, gone, interest, reg, read, out, wire,
                 users, armed, queue, mailbox>>

-----------------------------------------------------------------------------
(* The threads that use the engine: a NetStreamer per client, and one that *)
(* takes the frames of all inbound connections and answers some of them.   *)

\* Mutant: a clone of the sender is kept for a connection that was removed.
HasSenderForever(q) == pc # "stopped" /\ (q \in Client => tok[q] # 0)

\* A conn_tx of the queue is alive: the listener keeps one, each connection in
\* conns has one, and all of them are dropped with the engine.
HasSender(q) ==
  /\ pc # "stopped"
  /\ \/ q = Srv /\ accepting # "off"
     \/ \E t \in DOMAIN slab : slab[t] # None /\ QueueOf(slab[t]) = q

\* recv.
Consume(q) ==
  /\ rx[q] /\ q \notin idle /\ hold[q] = None
  /\ \/ /\ queue[q] # <<>>
        /\ hold' \in {[hold EXCEPT ![q] = Head(queue[q])], hold}
        /\ queue' = [queue EXCEPT ![q] = Tail(@)]
        /\ UNCHANGED rx
     \/ /\ queue[q] = <<>> /\ ~HasSender(q)
        /\ rx' = [rx EXCEPT ![q] = FALSE]
        /\ UNCHANGED <<hold, queue>>
  /\ UNCHANGED <<net, loop, asked, idle, armed, mailbox>>

\* A buffer is sent with the frame's token (a NetStreamer's own is the same); a
\* full notify queue ends the thread.
Reply(q) ==
  /\ rx[q] /\ hold[q] # None
  /\ hold' = [hold EXCEPT ![q] = None]
  /\ IF Len(mailbox) < NotifyCap
     THEN mailbox' = Append(mailbox, hold[q]) /\ UNCHANGED rx
     ELSE rx' = [rx EXCEPT ![q] = FALSE] /\ UNCHANGED mailbox
  /\ UNCHANGED <<net, loop, asked, idle, armed, queue>>

\* A consumer stops early, as below a Take, but its Receiver lives on: NetStream
\* keeps it in an Arc, and a caller may never have read from it at all.
Neglect(q) ==
  /\ rx[q] /\ q \notin idle
  /\ idle' = idle \cup {q} /\ hold' = [hold EXCEPT ![q] = None]
  /\ UNCHANGED <<net, loop, rx, asked, armed, queue, mailbox>>

\* The Receiver itself is dropped, by a consumer that stops early or later.
Quit(q) ==
  /\ rx[q]
  /\ rx' = [rx EXCEPT ![q] = FALSE] /\ hold' = [hold EXCEPT ![q] = None]
  /\ UNCHANGED <<net, loop, asked, idle, armed, queue, mailbox>>

\* A client sends something of its own accord.
Request(c) ==
  /\ rx[c] /\ asked[c] < Requests /\ Len(mailbox) < NotifyCap
  /\ asked' = [asked EXCEPT ![c] = @ + 1]
  /\ mailbox' = Append(mailbox, Tagged(c))
  /\ UNCHANGED <<net, loop, rx, hold, idle, armed, queue>>

-----------------------------------------------------------------------------
(* The peers and their network.                                            *)

Edge(c, events) == IF events \cap reg[c] # {} THEN armed \cup {c} ELSE armed

\* A connect in progress succeeds or is refused.
Established(c) ==
  /\ link[c] = "connecting"
  /\ \/ /\ link' = [link EXCEPT ![c] = "up"]
        /\ room' = [room EXCEPT ![c] = Room]
        /\ armed' = Edge(c, {"WRITABLE"})
     \/ /\ link' = [link EXCEPT ![c] = "reset"]
        /\ armed' = armed \cup {c}
        /\ UNCHANGED room
  /\ UNCHANGED <<sent, backlog, accepting, loop, users, queue, mailbox>>

Arrive(c) ==
  /\ link[c] = "idle" /\ accepting # "off"
  /\ link' = [link EXCEPT ![c] = "up"]
  /\ room' = [room EXCEPT ![c] = Room]
  /\ backlog' = Append(backlog, c) /\ accepting' = "armed"
  /\ UNCHANGED <<sent, loop, users, armed, queue, mailbox>>

PeerSends(c) ==
  /\ link[c] = "up" /\ sent[c] < Frames
  /\ sent' = [sent EXCEPT ![c] = @ + 1]
  /\ armed' = Edge(c, {"READABLE"})
  /\ UNCHANGED <<link, room, backlog, accepting, loop, users, queue, mailbox>>

PeerReads(c) ==
  /\ link[c] \in {"up", "fin"} /\ room[c] < Room
  /\ room' = [room EXCEPT ![c] = @ + 1]
  /\ armed' = IF room[c] = 0 THEN Edge(c, {"WRITABLE"}) ELSE armed
  /\ UNCHANGED <<link, sent, backlog, accepting, loop, users, queue, mailbox>>

PeerCloses(c) ==
  /\ link[c] = "up"
  /\ link' = [link EXCEPT ![c] = "fin"]
  /\ armed' = Edge(c, {"READABLE", "HUP"})
  /\ UNCHANGED <<sent, room, backlog, accepting, loop, users, queue, mailbox>>

\* What was not read yet is lost.
PeerResets(c) ==
  /\ link[c] \in {"up", "fin"}
  /\ link' = [link EXCEPT ![c] = "reset"]
  /\ armed' = Edge(c, Event)
  /\ UNCHANGED <<sent, room, backlog, accepting, loop, users, queue, mailbox>>

-----------------------------------------------------------------------------
Setup   == (\E c \in Client : Connect(c)) \/ Listen \/ SetTimeout \/ Run
Handler == SendFrame \/ FinishRead \/ Writable
Loop    == Accept \/ (\E c \in Conn : IoEvent(c)) \/ Handler \/ Notify \/ Timeout
User    == \/ \E q \in Queue : Consume(q) \/ Reply(q) \/ Neglect(q) \/ Quit(q)
           \/ \E c \in Client : Request(c)
Peer    == /\ pc # "stopped"
           /\ \/ \E c \in Client : Established(c)
              \/ \E c \in Inbound : Arrive(c)
              \/ \E c \in Conn \ gone :
                   PeerSends(c) \/ PeerReads(c) \/ PeerCloses(c) \/ PeerResets(c)

Next == Setup \/ Loop \/ User \/ Peer

Spec == Init /\ [][Next]_vars

\* The loop thread starts and keeps running, and each of its turns serves every event and
\* the notify queue; a thread that waits for frames takes them and goes on, until it
\* stops waiting (Neglect, Quit).
FairSpec ==
  /\ Spec
  /\ WF_vars(Run) /\ WF_vars(Handler) /\ SF_vars(Accept) /\ SF_vars(Notify)
  /\ \A c \in Conn : SF_vars(IoEvent(c))
  /\ \A q \in Queue : WF_vars(Consume(q)) /\ WF_vars(Reply(q))

-----------------------------------------------------------------------------
(* Properties.                                                             *)

Slot    == DOMAIN slab
Message == [conn : Conn, tok : Slot]

\* Types, and the capacities: of the queues, of the free list and of the slab of
\* timers, whose slots are never given back.
TypeOK ==
  /\ pc \in {"setup", "poll", "sending", "writable", "stopped"}
  /\ job \in [conn : Conn \cup {None}, todo : 0..Window, hup : BOOLEAN, write : BOOLEAN]
  /\ slab \in [Slot -> Conn \cup {None}] /\ free \in Seq(Slot)
  /\ tok \in [Conn -> {0} \cup Slot] /\ gone \subseteq Conn
  /\ interest \in [Conn -> SUBSET Event] /\ reg \in [Conn -> SUBSET Event]
  /\ armed \subseteq Conn /\ accepting \in {"off", "idle", "armed"}
  /\ backlog \in Seq(Inbound)
  /\ link \in [Conn -> {"idle", "connecting", "up", "fin", "reset"}]
  /\ sent \in [Conn -> 0..Frames] /\ read \in [Conn -> 0..Frames]
  /\ room \in [Conn -> 0..Room]
  /\ out \in [Conn -> Seq(Message)] /\ wire \in [Conn -> Seq(Message)]
  /\ queue \in [Queue -> Seq(Message)] /\ \A q \in Queue : Len(queue[q]) <= QueueSize
  /\ rx \in [Queue -> BOOLEAN] /\ hold \in [Queue -> Message \cup {None}]
  /\ asked \in [Client -> 0..Requests] /\ idle \subseteq Queue
  /\ mailbox \in Seq(Message) /\ Len(mailbox) <= NotifyCap
  /\ timers.used \in 0..TimerSlots /\ timers.pending \in 0..timers.used

\* The slab and its free list: a slot is free, once, or holds the one connection
\* that has its token.  Removal inside a handler, refused connections and failed
\* connects never make two connections share a token or lose a slot.
SlabConsistent ==
  /\ \A t \in Slot :
       Cardinality({i \in 1..Len(free) : free[i] = t}) = IF slab[t] = None THEN 1 ELSE 0
  /\ \A t \in Slot : slab[t] # None => tok[slab[t]] = t /\ slab[t] \notin gone
  /\ \A c \in Conn : tok[c] # 0 /\ c \notin gone => slab[tok[c]] = c
  /\ \A c \in Conn : reg[c] # {} \/ c \in armed => tok[c] # 0 /\ c \notin gone

\* No event is missed: when no handler is busy with a connection, the poller has
\* an event for whatever it waits for and that is there.  (Space in a socket
\* counts only while there is output.)
EventPending ==
  \A c \in Conn : reg[c] # {} /\ job.conn # c =>
    /\ "READABLE" \in reg[c] /\ HasInput(c) => c \in armed
    /\ HungUp(c, reg[c]) => c \in armed
    /\ out[c] # <<>> => "WRITABLE" \in reg[c] /\ (HasRoom(c, room[c]) => c \in armed)

\* A buffer leaves through another connection than the one it was meant for only
\* after that one was removed.
StrayOnlyAfterRemoval ==
  \A c \in Conn : \A m \in ToSet(wire[c]) \cup ToSet(out[c]) : m.conn = c \/ m.conn \in gone

\* The loop is inside a send to a full queue whose Receiver is alive and unread.
Stuck ==
  /\ pc = "sending" /\ job.todo > 0
  /\ LET q == QueueOf(job.conn) IN rx[q] /\ q \in idle /\ Len(queue[q]) = QueueSize

\* conn_tx.send returns, whatever the order in which consumers take frames, answer,
\* are refused by a full notify queue or drop their Receiver: only a Receiver that
\* is kept and not read holds the loop up.
SendReturns == pc = "sending" ~> pc # "sending" \/ Stuck

\* A connection that is watched and whose peer has hung up is removed and its
\* slot given back, even if output or input is left, unless the loop gets stuck.
HangupReleases ==
  \A c \in Conn : reg[c] # {} /\ link[c] \in {"fin", "reset"} ~>
                    c \in gone \/ pc = "stopped" \/ Stuck

\* A client's consumer that goes on taking frames gets to the end of its stream
\* after the peer has hung up, through readable, the removal of the connection
\* and with it of the queue's last sender, or through the end of the engine.
HangupEndsStream ==
  \A c \in Client : reg[c] # {} /\ link[c] \in {"fin", "reset"} ~>
                      ~rx[c] \/ c \in idle \/ Stuck

Unread(c) == sent[c] > read[c] /\ link[c] = "up"

\* A buffer had to wait for its socket before the connection was read for the first
\* time: interest has WRITABLE and not READABLE.
WroteFirst(c) == "WRITABLE" \in interest[c] /\ "READABLE" \notin interest[c]

\* Every frame that arrives at a registered connection is read, or its peer goes
\* away, the engine ends or the loop gets stuck: no reregister, for output or for
\* input, loses it.  The exception is a connection that wrote before it read, for
\* which notify and writable reregister without READABLE (interest starts as HUP);
\* it is not read while its peer is up, although connect promises it.
ArrivedIsRead ==
  \A c \in Conn : Unread(c) /\ reg[c] # {} ~>
                    ~Unread(c) \/ pc = "stopped" \/ Stuck \/ WroteFirst(c)

\* StreamBuf: "when it is sent, Token is the socket out of which the buffer should
\* be sent"; the token of a frame is its connection's.
RepliesReachTheirPeer == \A c \in Conn : \A m \in ToSet(wire[c]) : m.conn = c

=============================================================================
