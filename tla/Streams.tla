------------------------------ MODULE Streams ------------------------------
(***************************************************************************)
(* Reactive streams as this library runs them.  Every thread owns one      *)
(* publisher and the chain of subscribers boxed below it, and drives the   *)
(* publisher in a loop.  A datum is pushed down the chain by nested        *)
(* on_next calls; the Boolean that comes back up tells the loop whether to *)
(* go on.  Threads meet only at queues: a Decoupler or a Tee sends into    *)
(* one, a Coupler or a NetStreamer receives from it.                       *)
(*                                                                         *)
(* The call tree of a thread is executed in small steps, because a send on *)
(* a full queue can block in the middle of it.  A call in tail position    *)
(* (all but those of Unzip) needs no stack frame.                          *)
(***************************************************************************)
EXTENDS Naturals, Sequences

CONSTANTS
  Thread,       \* the threads of the program
  Channel,      \* the queues between them
  Wiring,       \* the programs to run: which publisher, chain, loop, queues
  Apply(_, _),  \* Apply(f, x): what the user's closure f returns on x
  None          \* no item

ProcessorKind == {"DoDebug", "DebugWhile", "Do", "Map", "MapVal1", "Reduce",
                  "Enumerate", "Tee", "Unzip", "Take"}
SinkKind      == {"StdoutSubscriber", "Collect", "Decoupler", "NetStreamer"}
SenderKind    == {"Tee", "Decoupler", "NetStreamer"}
PublisherKind == {"IterPublisher", "RndGen", "Repeat", "Coupler", "NetStreamer"}

(***************************************************************************)
(* A wiring.  chain[t] lists the subscribers of t from the publisher down; *)
(* its last element has no subscriber: a sink, or a processor nobody       *)
(* subscribed to.  A stage's arg is what its constructor was given, its    *)
(* init the initial value of its own counter or state.                     *)
(***************************************************************************)
IsStage(s)     == /\ s.kind \in ProcessorKind \cup SinkKind
                  /\ s.kind \in {"Take", "Enumerate"} => s.init = 0
                  /\ s.kind = "Take" => s.arg \in Nat
                  /\ s.kind \in SenderKind => s.arg \in Channel
IsPublisher(p) == /\ p.kind \in PublisherKind
                  /\ p.kind \in {"Coupler", "NetStreamer"} => p.rx \in Channel
                  /\ p.kind = "Repeat" => Len(p.items) = 1
IsLoop(l)      == /\ l.loop \in {"run", "calls"}
                  /\ l.fn \in {"next", "try_next"}
                  /\ l.n \in Nat \ {0}

IsWiring(w) ==
  \A t \in Thread :
    /\ Len(w.chain[t]) \in Nat
    /\ \A i \in 1..Len(w.chain[t]) :
         /\ IsStage(w.chain[t][i])
         /\ i < Len(w.chain[t]) => w.chain[t][i].kind \in ProcessorKind
    /\ IsPublisher(w.pub[t])
    /\ IsLoop(w.loop[t])
    /\ \A c \in Channel : /\ w.chan[c].cap > 0
                          /\ w.chan[c].kind = "EventLoopSender" => w.pub[t].rx # c

ASSUME WiringAssumption == \A w \in Wiring : IsWiring(w)

\* A Receiver is moved into the publisher built from it; clones of a NetStream
\* share theirs behind an Arc, which cannot leave its thread because a Receiver
\* is not Sync.  An iterator gives a sequence of items.
IsSeq(s)       == s \in Seq({s[i] : i \in DOMAIN s})
OneReceiver(w) == \A t, u \in Thread : w.pub[t].rx = w.pub[u].rx /\ w.pub[t].rx \in Channel => t = u
Iterates(w)    == \A t \in Thread : w.pub[t].kind = "IterPublisher" => IsSeq(w.pub[t].items)

ASSUME OwnershipAssumption == \A w \in Wiring : OneReceiver(w) /\ Iterates(w)

VARIABLES
  wiring,   \* the program; chosen once
  pc,       \* what each thread is doing
  at,       \* the stage that runs, or the next one to be linked
  item,     \* the argument of the on_next call in progress
  ok,       \* the Boolean being returned
  stack,    \* the frames of the Unzips whose on_next is in progress
  mem,      \* per stage: count of Take and Enumerate, state of Reduce,
            \* second half of the pair an Unzip is working on
  source,   \* what the iterator of an IterPublisher has left
  left,     \* calls a counted loop still has to make
  chan,     \* contents of each queue
  pulled,   \* history: items the publisher of t has pushed
  seen,     \* history: items the sink of t has received
  signals,  \* history: the calls made to the sink of t
  sent      \* history: items each queue has accepted

vars == <<wiring, pc, at, item, ok, stack, mem, source, left, chan,
          pulled, seen, signals, sent>>

PC == {"wire", "idle", "on_next", "return", "done", "panicked"}

Signal == {"on_subscribe", "on_next", "on_complete"}

\* An Unzip in stage "at" has made "calls" of its two calls; acc is the
\* disjunction of what the finished ones returned.
Frame == [at : Nat, calls : 1..2, acc : BOOLEAN]

Chain(t)  == wiring.chain[t]
Depth(t)  == Len(Chain(t))
Stage(t)  == Chain(t)[at[t]]
Pub(t)    == wiring.pub[t]
Alive(t)  == pc[t] \notin {"done", "panicked"}
HasSink(t) == /\ Depth(t) > 0
              /\ Chain(t)[Depth(t)].kind \in SinkKind

-----------------------------------------------------------------------------
(* The queues: std::sync::mpsc and mio's notify queue, as Sendable sees    *)
(* them.  A Sender never blocks, a SyncSender blocks while the queue is    *)
(* full, and both fail once the receiver is gone.  An EventLoopSender      *)
(* fails when the queue is full, and its other end is the reactor.  A      *)
(* thread drops the ends it owns when it ends.                             *)

IsFull(c)       == Len(chan[c]) >= wiring.chan[c].cap
HasReceiver(c)  == \E t \in Thread : Alive(t) /\ Pub(t).rx = c
HasSender(c)    == \E t \in Thread :
                     /\ Alive(t)
                     /\ \E i \in 1..Depth(t) :
                          /\ Chain(t)[i].kind \in SenderKind
                          /\ Chain(t)[i].arg = c

SendFails(c)  == IF wiring.chan[c].kind = "EventLoopSender"
                   THEN IsFull(c)
                   ELSE ~HasReceiver(c)
SendBlocks(c) == /\ wiring.chan[c].kind = "SyncSender"
                 /\ HasReceiver(c)
                 /\ IsFull(c)

\* One Sendable::send of x that does not block; r is what it returns.
Send(c, x, r) ==
  /\ ~SendBlocks(c)
  /\ r = ~SendFails(c)
  /\ IF r
       THEN /\ chan' = [chan EXCEPT ![c] = Append(@, x)]
            /\ sent' = [sent EXCEPT ![c] = Append(@, x)]
       ELSE UNCHANGED <<chan, sent>>

\* The event loop at the other end of an EventLoopSender takes a message.
EventLoopTakes(c) ==
  /\ wiring.chan[c].kind = "EventLoopSender"
  /\ chan[c] # <<>>
  /\ chan' = [chan EXCEPT ![c] = Tail(@)]
  /\ UNCHANGED <<pc, at, item, ok, stack, mem, source, left, pulled, seen, signals, sent>>

-----------------------------------------------------------------------------
(* Calls and returns.                                                      *)

Call(t, i, x) ==
  /\ pc'   = [pc EXCEPT ![t] = "on_next"]
  /\ at'   = [at EXCEPT ![t] = i]
  /\ item' = [item EXCEPT ![t] = x]
  /\ UNCHANGED ok

Return(t, r) ==
  /\ pc'   = [pc EXCEPT ![t] = "return"]
  /\ ok'   = [ok EXCEPT ![t] = r]
  /\ item' = [item EXCEPT ![t] = None]
  /\ UNCHANGED at

Panic(t) ==
  /\ pc'   = [pc EXCEPT ![t] = "panicked"]
  /\ item' = [item EXCEPT ![t] = None]
  /\ UNCHANGED <<ok, at>>

Notify(t, signal) == signals' = [signals EXCEPT ![t] = Append(@, signal)]
Receive(t, x)     == /\ Notify(t, "on_next")
                     /\ seen' = [seen EXCEPT ![t] = Append(@, x)]

\* Mutant: off by one.
HasSubscriberOffByOne(t) == at[t] <= Depth(t)

\* self.subscriber is Some
HasSubscriber(t) == at[t] < Depth(t)

\* match self.subscriber { Some(s) => s.on_next(x), None => true }
Forward(t, x) ==
  IF HasSubscriber(t) THEN Call(t, at[t] + 1, x) ELSE Return(t, TRUE)

\* Mutants: the loop is not told to stop; the subscriber is not told.
CompleteAndGoOn(t) ==
  IF HasSink(t)
    THEN Notify(t, "on_complete") /\ Return(t, TRUE)
    ELSE Panic(t) /\ UNCHANGED signals
StopSilently(t) == Return(t, FALSE) /\ UNCHANGED signals

\* subscriber.on_complete(false), then false is returned.  Every processor
\* passes on_complete to its own subscriber and panics if it has none.
CompleteAndStop(t) ==
  IF HasSink(t)
    THEN Notify(t, "on_complete") /\ Return(t, FALSE)
    ELSE Panic(t) /\ UNCHANGED signals

-----------------------------------------------------------------------------
(* Assembly.  The chain is linked from the sink up to the publisher:       *)
(* upstream.subscribe(s) stores s and calls s.on_subscribe(0).             *)

subscribe(t) ==
  /\ pc[t] = "wire"
  /\ at' = [at EXCEPT ![t] = @ - 1]
  /\ pc' = IF at[t] = 1 THEN [pc EXCEPT ![t] = "idle"] ELSE pc
  /\ IF at[t] = Depth(t) /\ HasSink(t)
       THEN Notify(t, "on_subscribe")
       ELSE UNCHANGED signals
  /\ UNCHANGED <<item, ok, stack, mem, source, left, chan, pulled, seen, sent>>

-----------------------------------------------------------------------------
(* The publishers.                                                         *)

Idle(t, kinds) == pc[t] = "idle" /\ Pub(t).kind \in kinds /\ Depth(t) > 0
Implements(t)  == wiring.loop[t].fn = "next" \/ Pub(t).kind \in {"RndGen", "Coupler"}

Push(t, x) ==
  /\ Call(t, 1, x)
  /\ pulled' = [pulled EXCEPT ![t] = Append(@, x)]

\* Publisher::try_next is not implemented by IterPublisher, Repeat, NetStreamer.
TryNextUnimplemented(t) ==
  /\ pc[t] = "idle" /\ ~Implements(t)
  /\ Panic(t)
  /\ UNCHANGED <<stack, mem, source, left, chan, pulled, seen, signals, sent>>

\* "My subscriber went away".
NextWithoutSubscriber(t) ==
  /\ pc[t] = "idle" /\ Depth(t) = 0 /\ Implements(t)
  /\ Return(t, FALSE)
  /\ UNCHANGED <<stack, mem, source, left, chan, pulled, seen, signals, sent>>

IterNext(t) ==
  /\ Idle(t, {"IterPublisher"}) /\ Implements(t)
  /\ IF source[t] # <<>>
       THEN /\ Push(t, Head(source[t]))
            /\ source' = [source EXCEPT ![t] = Tail(@)]
            /\ UNCHANGED signals
       ELSE /\ CompleteAndStop(t)
            /\ UNCHANGED <<source, pulled>>
  /\ UNCHANGED <<stack, mem, left, chan, seen, sent>>

\* Repeat clones its value.
RepeatNext(t) ==
  /\ Idle(t, {"Repeat"}) /\ Implements(t)
  /\ Push(t, Pub(t).items[1])
  /\ UNCHANGED <<stack, mem, source, left, chan, seen, signals, sent>>

\* RndGen asks for any value of its type; its next() is its try_next().
RndGenNext(t) ==
  /\ Idle(t, {"RndGen"})
  /\ \E i \in 1..Len(Pub(t).items) : Push(t, Pub(t).items[i])
  /\ UNCHANGED <<stack, mem, source, left, chan, seen, signals, sent>>

\* recv() blocks while the queue is empty and a sender is left; try_recv()
\* reports Empty instead, and try_next answers true.  What was queued before
\* the last sender went away is still delivered.
\* Mutants: queued items are forgotten; try_recv takes Disconnected for Empty.
DisconnectedEarly(t)    == ~HasSender(Pub(t).rx)
DisconnectedBlocking(t) == /\ wiring.loop[t].fn = "next"
                           /\ chan[Pub(t).rx] = <<>> /\ ~HasSender(Pub(t).rx)

Disconnected(t) == chan[Pub(t).rx] = <<>> /\ ~HasSender(Pub(t).rx)

CouplerNext(t) ==
  LET c == Pub(t).rx IN
  /\ Idle(t, {"Coupler", "NetStreamer"}) /\ Implements(t)
  /\ \/ /\ chan[c] # <<>>
        /\ Push(t, Head(chan[c]))
        /\ chan' = [chan EXCEPT ![c] = Tail(@)]
        /\ UNCHANGED signals
     \/ /\ Disconnected(t)
        /\ CompleteAndStop(t)
        /\ UNCHANGED <<chan, pulled>>
     \/ /\ chan[c] = <<>> /\ ~Disconnected(t)
        /\ wiring.loop[t].fn = "try_next"
        /\ Return(t, TRUE)
        /\ UNCHANGED <<chan, pulled, signals>>
  /\ UNCHANGED <<stack, mem, source, left, seen, sent>>

-----------------------------------------------------------------------------
(* The processors' on_next.                                                *)

Running(t, kinds) == pc[t] = "on_next" /\ Stage(t).kind \in kinds
SetMem(t, v)      == mem' = [mem EXCEPT ![t] = [@ EXCEPT ![at[t]] = v]]
Mem(t)            == mem[t][at[t]]

\* DoDebug, DebugWhile and Do look at the item and pass it on.
DoOnNext(t) ==
  /\ Running(t, {"DoDebug", "DebugWhile", "Do"})
  /\ Forward(t, item[t])
  /\ UNCHANGED <<stack, mem, source, left, chan, pulled, seen, signals, sent>>

MapOnNext(t) ==
  /\ Running(t, {"Map"})
  /\ Forward(t, Apply(Stage(t).arg, item[t]))
  /\ UNCHANGED <<stack, mem, source, left, chan, pulled, seen, signals, sent>>

\* MapVal1's closure also gets the value it was built with.
MapVal1OnNext(t) ==
  /\ Running(t, {"MapVal1"})
  /\ Forward(t, Apply(Stage(t).arg, <<item[t], Stage(t).init>>))
  /\ UNCHANGED <<stack, mem, source, left, chan, pulled, seen, signals, sent>>

\* Reduce's closure maps (state, item) to (new state, output).
ReduceOnNext(t) ==
  LET r == Apply(Stage(t).arg, <<Mem(t), item[t]>>) IN
  /\ Running(t, {"Reduce"})
  /\ SetMem(t, r[1])
  /\ Forward(t, r[2])
  /\ UNCHANGED <<stack, source, left, chan, pulled, seen, signals, sent>>

EnumerateOnNext(t) ==
  /\ Running(t, {"Enumerate"})
  /\ IF HasSubscriber(t) THEN SetMem(t, Mem(t) + 1) ELSE UNCHANGED mem
  /\ Forward(t, <<item[t], Mem(t)>>)
  /\ UNCHANGED <<stack, source, left, chan, pulled, seen, signals, sent>>

\* Tee ignores what send returns.
TeeOnNext(t) ==
  /\ Running(t, {"Tee"})
  /\ IF HasSubscriber(t)
       THEN \E r \in BOOLEAN : Send(Stage(t).arg, item[t], r)
       ELSE UNCHANGED <<chan, sent>>
  /\ Forward(t, item[t])
  /\ UNCHANGED <<stack, mem, source, left, pulled, seen, signals>>

\* s.on_next(t.0) | s.on_next(t.1): two calls that are not tail calls.
UnzipOnNext(t) ==
  /\ Running(t, {"Unzip"})
  /\ IF HasSubscriber(t)
       THEN /\ stack' = [stack EXCEPT ![t] =
                           Append(@, [at |-> at[t], calls |-> 1, acc |-> FALSE])]
            /\ SetMem(t, item[t][2])
       ELSE UNCHANGED <<stack, mem>>
  /\ Forward(t, item[t][1])
  /\ UNCHANGED <<source, left, chan, pulled, seen, signals, sent>>

\* The same Unzip when one of its two calls has returned.
UnzipResume(t) ==
  LET n   == Len(stack[t])
      f   == stack[t][n]
      acc == f.acc \/ ok[t]
  IN
  /\ pc[t] = "return" /\ n > 0
  /\ IF f.calls = 1
       THEN /\ Call(t, f.at + 1, mem[t][f.at])
            /\ stack' = [stack EXCEPT ![t][n] = [at |-> f.at, calls |-> 2, acc |-> acc]]
       ELSE /\ stack' = [stack EXCEPT ![t] = SubSeq(@, 1, n - 1)]
            /\ Return(t, acc)
  /\ UNCHANGED <<mem, source, left, chan, pulled, seen, signals, sent>>

\* Take counts an item, then forwards it or completes its subscriber.
\* Mutants: one item too few; one too many.
PastMaxEarly(count, max) == count >= max
PastMaxLate(count, max)  == count > max + 1

PastMax(count, max) == count > max

TakeOnNext(t) ==
  /\ Running(t, {"Take"})
  /\ IF ~HasSubscriber(t)
       THEN Return(t, TRUE) /\ UNCHANGED <<mem, signals>>
       ELSE /\ SetMem(t, Mem(t) + 1)
            /\ IF PastMax(Mem(t) + 1, Stage(t).arg)
                 THEN CompleteAndStop(t)
                 ELSE Forward(t, item[t]) /\ UNCHANGED signals
  /\ UNCHANGED <<stack, source, left, chan, pulled, seen, sent>>

-----------------------------------------------------------------------------
(* The sinks' on_next.                                                     *)

SinkOnNext(t) ==
  /\ Running(t, {"StdoutSubscriber", "Collect"})
  /\ Receive(t, item[t])
  /\ Return(t, TRUE)
  /\ UNCHANGED <<stack, mem, source, left, chan, pulled, sent>>

\* A NetStreamer sends out of its own connection: it replaces the token of
\* the StreamBuf it is given.
Outgoing(t) ==
  IF Stage(t).kind = "NetStreamer" THEN <<item[t][1], Stage(t).init>> ELSE item[t]

\* Mutant: the failed send is not reported.
DecouplerIgnoresFailure(t) ==
  /\ Running(t, {"Decoupler", "NetStreamer"})
  /\ Receive(t, item[t])
  /\ \E r \in BOOLEAN : Send(Stage(t).arg, Outgoing(t), r) /\ Return(t, TRUE)
  /\ UNCHANGED <<stack, mem, source, left, pulled>>

\* An item whose send failed is dropped and the publisher is told to stop.
DecouplerOnNext(t) ==
  /\ Running(t, {"Decoupler", "NetStreamer"})
  /\ Receive(t, item[t])
  /\ \E r \in BOOLEAN : Send(Stage(t).arg, Outgoing(t), r) /\ Return(t, r)
  /\ UNCHANGED <<stack, mem, source, left, pulled>>

-----------------------------------------------------------------------------
(* The loop around next(): Publisher::run and fixed_loop end on the first  *)
(* false; a counted for loop ignores the result.  At its end the thread    *)
(* drops its publisher and with it the chain and the queue ends it owns.   *)

LoopEnds(t) == IF wiring.loop[t].loop = "run" THEN ~ok[t] ELSE left[t] = 1

Loop(t) ==
  /\ pc[t] = "return" /\ stack[t] = <<>>
  /\ pc' = [pc EXCEPT ![t] = IF LoopEnds(t) THEN "done" ELSE "idle"]
  /\ left' = IF wiring.loop[t].loop = "calls" THEN [left EXCEPT ![t] = @ - 1] ELSE left
  /\ UNCHANGED <<at, item, ok, stack, mem, source, chan, pulled, seen, signals, sent>>

-----------------------------------------------------------------------------

Init ==
  /\ wiring \in Wiring
  /\ pc     = [t \in Thread |-> IF Depth(t) = 0 THEN "idle" ELSE "wire"]
  /\ at     = [t \in Thread |-> Depth(t)]
  /\ item   = [t \in Thread |-> None]
  /\ ok     = [t \in Thread |-> TRUE]
  /\ stack  = [t \in Thread |-> <<>>]
  /\ mem    = [t \in Thread |-> [i \in 1..Depth(t) |-> Chain(t)[i].init]]
  /\ source = [t \in Thread |-> Pub(t).items]
  /\ left   = [t \in Thread |-> wiring.loop[t].n]
  /\ chan   = [c \in Channel |-> <<>>]
  /\ pulled = [t \in Thread |-> <<>>]
  /\ seen   = [t \in Thread |-> <<>>]
  /\ signals = [t \in Thread |-> <<>>]
  /\ sent   = [c \in Channel |-> <<>>]

PublisherStep(t) ==
  \/ TryNextUnimplemented(t) \/ NextWithoutSubscriber(t)
  \/ IterNext(t) \/ RepeatNext(t) \/ RndGenNext(t) \/ CouplerNext(t)

OnNextStep(t) ==
  \/ DoOnNext(t) \/ MapOnNext(t) \/ MapVal1OnNext(t) \/ ReduceOnNext(t)
  \/ EnumerateOnNext(t) \/ TeeOnNext(t) \/ UnzipOnNext(t) \/ UnzipResume(t)
  \/ TakeOnNext(t) \/ SinkOnNext(t) \/ DecouplerOnNext(t)

Step(t) == subscribe(t) \/ PublisherStep(t) \/ OnNextStep(t) \/ Loop(t)

\* All threads have ended.
Finished == (\A t \in Thread : ~Alive(t)) /\ UNCHANGED vars

Next ==
  \/ \E t \in Thread : Step(t) /\ UNCHANGED wiring
  \/ \E c \in Channel : EventLoopTakes(c) /\ UNCHANGED wiring
  \/ Finished

Spec == Init /\ [][Next]_vars

\* The operating system runs every thread that is not blocked.
FairSpec == Spec /\ \A t \in Thread : WF_vars(Step(t) /\ UNCHANGED wiring)

-----------------------------------------------------------------------------
(* Properties.                                                             *)

\* Types of the control state: a thread that links or runs a stage is at a
\* stage of its chain, and a counted loop that goes on has calls left.
TypeOK ==
  /\ wiring \in Wiring
  /\ pc \in [Thread -> PC]
  /\ at \in [Thread -> Nat]
  /\ ok \in [Thread -> BOOLEAN]
  /\ stack \in [Thread -> Seq(Frame)]
  /\ left \in [Thread -> Nat]
  /\ signals \in [Thread -> Seq(Signal)]
  /\ \A t \in Thread :
       /\ pc[t] \in {"wire", "on_next"} => at[t] \in 1..Depth(t)
       /\ Alive(t) => left[t] > 0

Runs(t)   == wiring.loop[t].loop = "run"
Kinds(t)  == {Chain(t)[i].kind : i \in 1..Depth(t)}

\* No Take is fed by an Unzip, which would call it again after its false.
UnzipSafe(t) == \A i, j \in 1..Depth(t) :
                  /\ i < j
                  /\ Chain(t)[i].kind = "Unzip"
                  => Chain(t)[j].kind # "Take"

\* The signals of a reactive stream: on_subscribe, any number of on_next, and
\* at most one on_complete, after which nothing comes.
IsProtocol(sigs) ==
  \A i \in 1..Len(sigs) :
    /\ (sigs[i] = "on_subscribe") <=> (i = 1)
    /\ sigs[i] = "on_complete" => i = Len(sigs)

\* The sink of a chain driven by run() sees a legal sequence of signals,
\* whichever of its publisher, a Take and a vanished queue ends the stream
\* (IterPublisher, Coupler, NetStreamer and Take each call on_complete).
SignalProtocol ==
  \A t \in Thread : Runs(t) /\ UnzipSafe(t) => IsProtocol(signals[t])

\* The same without the proviso on Unzip and Take.
CompletedOnce ==
  \A t \in Thread : Runs(t) => IsProtocol(signals[t])

LastSignal(t) == signals[t][Len(signals[t])]

\* run() never ends silently: when it has ended, the sink's last signal was
\* on_complete, or an item given to a sink that can refuse one (Decoupler,
\* NetStreamer), or there is no sink to tell.
EndIsSignalled ==
  \A t \in Thread :
    pc[t] = "done" /\ Runs(t) /\ HasSink(t) =>
      \/ LastSignal(t) = "on_complete"
      \/ Kinds(t) \cap {"Decoupler", "NetStreamer"} # {} /\ LastSignal(t) = "on_next"

\* A Take(max) below no Unzip, in a chain that run() drives, lets the
\* publisher produce max + 1 items and no more: one more than it forwards,
\* because it answers false only to the first item past max (Take::on_next).
TakeStopsPublisher ==
  \A t \in Thread : \A i \in 1..Depth(t) :
    /\ Runs(t)
    /\ Chain(t)[i].kind = "Take" /\ i < Depth(t)
    /\ \A j \in 1..(i - 1) : Chain(t)[j].kind # "Unzip"
    => Len(pulled[t]) <= Chain(t)[i].arg + 1
=============================================================================
