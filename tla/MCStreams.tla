----------------------------- MODULE MCStreams -----------------------------
(***************************************************************************)
(* Wirings for TLC.  A number is an item of type "n", a pair of numbers an *)
(* item of type "p"; Rust's type checker admits only chains whose stages   *)
(* fit together, and so does Fits.                                         *)
(***************************************************************************)
EXTENDS StreamsReference

CONSTANTS t1, t2, t3, c1, c2

MCApply(f, x) ==
  CASE f = "inc"  -> x + 1
    [] f = "dup"  -> <<x, x + 10>>
    [] f = "add"  -> x[1] + x[2]
    [] f = "sum"  -> <<x[1] + x[2], x[1] + x[2]>>

S(kind, arg, init) == [kind |-> kind, arg |-> arg, init |-> init]

Do        == S("Do", None, None)
Inc       == S("Map", "inc", None)
Dup       == S("Map", "dup", None)
AddFive   == S("MapVal1", "add", 5)
Sum       == S("Reduce", "sum", 0)
Enumerate == S("Enumerate", None, 0)
Unzip     == S("Unzip", None, None)
Take(n)   == S("Take", n, 0)
Tee(c)    == S("Tee", c, None)
Collect   == S("Collect", None, None)
Stdout    == S("StdoutSubscriber", None, None)
Decoupler(c) == S("Decoupler", c, None)
NetSink(c)   == S("NetStreamer", c, 7)

\* Stages over numbers, over pairs, and from one to the other.
NumToNum  == {Inc, AddFive, Sum}
NumToPair == {Dup, Enumerate}
PairToNum == {Unzip}
AnyToAny  == {Do, Take(0), Take(1), Take(2), Tee(c1)}

Accepts(s, type) == CASE s \in NumToNum \cup NumToPair -> type = "n"
                      [] s \in PairToNum               -> type = "p"
                      [] s.kind = "NetStreamer"        -> type = "p"
                      [] OTHER                         -> TRUE
Gives(s, type)   == CASE s \in NumToPair -> "p"
                      [] s \in PairToNum -> "n"
                      [] OTHER           -> type

TypeAfter(chain, type) == FoldLeft(LAMBDA ty, s : Gives(s, ty), type, chain)
Fits(chain, type) ==
  \A i \in 1..Len(chain) : Accepts(chain[i], TypeAfter(SubSeq(chain, 1, i - 1), type))

Processors == NumToNum \cup NumToPair \cup PairToNum \cup AnyToAny
Sinks      == {Collect, Decoupler(c1), Decoupler(c2), NetSink(c2)}

Publisher(kind, items, rx) == [kind |-> kind, items |-> items, rx |-> rx]
Iter(items) == Publisher("IterPublisher", items, None)
RunLoop     == [loop |-> "run", fn |-> "next", n |-> 1]
PollLoop    == [loop |-> "run", fn |-> "try_next", n |-> 1]
Calls(f, k) == [loop |-> "calls", fn |-> f, n |-> k]
Queue(kind, cap) == [kind |-> kind, cap |-> cap]

Inputs(type) == IF type = "n" THEN {<<>>, <<1, 2, 3>>} ELSE {<< <<1, 2>>, <<3, 4>> >>}

\* The other threads have nothing to do.
Single(pub, chain, loop) ==
  [pub |-> (t1 :> pub) @@ [t \in {t2, t3} |-> Iter(<<>>)],
   chain |-> (t1 :> chain) @@ [t \in {t2, t3} |-> <<>>],
   loop |-> (t1 :> loop) @@ [t \in {t2, t3} |-> RunLoop],
   chan |-> (c1 :> Queue("Sender", 1)) @@ (c2 :> Queue("EventLoopSender", 1))]

\* One thread, run() over an iterator: every well-typed chain of at most two
\* processors, and of three of those that keep state or fan out, above every
\* sink.  Queue c1 has no receiver, c2 is an event loop with room for one
\* message.
ProcessorChains == BoundedSeq(Processors, 2) \cup TupleOf({Sum, Enumerate, Unzip, Take(1), Tee(c1)}, 3)
IterWirings ==
  UNION {UNION {{Single(Iter(xs), chain, RunLoop) : xs \in Inputs(type)} :
                  chain \in {ch \in {Append(ps, k) : ps \in ProcessorChains, k \in Sinks} :
                               Fits(ch, type)}} :
           type \in {"n", "p"}}

\* The other publishers and loops, chains nobody subscribed to, no chain.
OtherWirings ==
  LET short == {<<Collect>>, <<Stdout>>, <<Decoupler(c2)>>, <<Take(1), Collect>>, <<Dup, Unzip, Collect>>,
                <<Sum, Collect>>, <<S("DoDebug", None, None), S("DebugWhile", None, None), Collect>>}
      dangling == {<<p>> : p \in {Do, Inc, AddFive, Sum, Enumerate, Tee(c1), Take(1)}}
                    \cup {<<Dup, Unzip>>, <<Take(1), Do>>, <<>>}
      gens  == {Publisher("Repeat", <<4>>, None), Publisher("RndGen", <<1, 2>>, None)}
      loops == {Calls("next", 3), Calls("try_next", 2)}
  IN {Single(Iter(<<1, 2>>), ch, l) : ch \in dangling, l \in loops \cup {RunLoop}}
     \cup {Single(p, ch, l) : p \in gens \cup {Iter(<<1, 2>>)}, ch \in short, l \in loops}
     \cup {Single(p, <<Take(2), Sum, Collect>>, RunLoop) : p \in gens}

SingleWirings == IterWirings \cup OtherWirings

-----------------------------------------------------------------------------
(* Two and three threads.  With two the third has nothing to do.           *)

Two(prod, plop, cons, clop, q) ==
  [pub   |-> (t1 :> Iter(<<1, 2, 3>>)) @@ (t2 :> Publisher("Coupler", <<>>, c1)) @@ (t3 :> Iter(<<>>)),
   chain |-> (t1 :> prod) @@ (t2 :> cons) @@ (t3 :> <<>>),
   loop  |-> (t1 :> plop) @@ (t2 :> clop) @@ (t3 :> RunLoop),
   chan  |-> (c1 :> q) @@ (c2 :> Queue("EventLoopSender", 1))]

Queues == {Queue("Sender", 1), Queue("SyncSender", 1)}

\* A producer whose Decoupler or Tee feeds a consumer; the consumer stops
\* after one item, or panics, or passes on to an event loop.
PairWirings ==
  LET producers == {<<Decoupler(c1)>>, <<Inc, Take(2), Decoupler(c1)>>, <<Tee(c1), Collect>>,
                    <<Dup, Unzip, Decoupler(c1)>>, <<Tee(c1), Take(1), Collect>>,
                    <<Tee(c1), Dup, NetSink(c2)>>, <<Tee(c1), Dup, Decoupler(c2)>>}
      consumers == {<<Collect>>, <<Take(1), Sum, Collect>>, <<Sum, Take(0), Do>>,
                    <<Enumerate, NetSink(c2)>>}
  IN {Two(p, RunLoop, c, l, q) : p \in producers, c \in consumers, l \in {RunLoop, PollLoop}, q \in Queues}
     \cup {Two(<<Decoupler(c1)>>, Calls("next", 5), <<Take(1), Collect>>, RunLoop, q) : q \in Queues}
     \cup {Two(<<Decoupler(c1)>>, RunLoop, <<Collect>>, Calls(f, 2), q) : q \in Queues, f \in {"next", "try_next"}}
     \cup {Two(<<Decoupler(c1)>>, RunLoop, <<>>, RunLoop, q) : q \in Queues}
\* Three threads: a relay t1 -> t2 -> t3, and a fan-out from t1's Tee to t2
\* and from its Decoupler to t3, over queues of which one may be bounded.
\* Consumers stop early or run to the end.
Three(prod, cons2, rx2, cons3, rx3, kind3, loop3, q1, q2) ==
  [pub   |-> (t1 :> Iter(<<1, 2, 3>>)) @@ (t2 :> Publisher("Coupler", <<>>, rx2))
               @@ (t3 :> Publisher(kind3, <<>>, rx3)),
   chain |-> (t1 :> prod) @@ (t2 :> cons2) @@ (t3 :> cons3),
   loop  |-> (t1 :> RunLoop) @@ (t2 :> RunLoop) @@ (t3 :> loop3),
   chan  |-> (c1 :> q1) @@ (c2 :> q2)]

TripleWirings ==
  LET early == <<Take(1), Collect>>
      Sync  == Queue("SyncSender", 1)
      Free  == Queue("Sender", 1)
  IN {Three(<<Inc, Decoupler(c1)>>, <<Sum, Decoupler(c2)>>, c1, last, c2, kind, RunLoop, Sync, q) :
        last \in {<<Collect>>, early}, kind \in {"Coupler", "NetStreamer"}, q \in {Sync, Free}}
     \cup {Three(<<Tee(c1), Decoupler(c2)>>, c, c1, <<Collect>>, c2, "Coupler", PollLoop, Sync, Sync) :
              c \in {<<Collect>>, early}}

\* A poll loop above a bounded queue.
PollWirings ==
  {[Two(<<Decoupler(c1)>>, Calls("try_next", 3), <<Collect>>, RunLoop, q)
      EXCEPT !.pub[t1] = Publisher("RndGen", <<1, 2>>, None)] : q \in Queues}

ThreadWirings == PairWirings \cup TripleWirings \cup PollWirings

AllWirings == SingleWirings \cup ThreadWirings

\* A Take fed by an Unzip.
UnzipTakeWirings == {Single(Iter(<<1, 2>>), <<Dup, Unzip, Take(n), Collect>>, RunLoop) : n \in 0..2}
=============================================================================
