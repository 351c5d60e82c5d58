------------------------- MODULE StreamsReference -------------------------
(***************************************************************************)
(* What a chain of subscribers should compute, said without streams: a     *)
(* function from the whole input sequence to the whole output sequence.    *)
(* The streaming implementation of Streams is compared with it.            *)
(***************************************************************************)
EXTENDS Streams, SequencesExt

EachMap(f, xs) == [i \in DOMAIN xs |-> Apply(f, xs[i])]
EachVal(f, v, xs) == [i \in DOMAIN xs |-> Apply(f, <<xs[i], v>>)]
Indexed(xs)    == [i \in DOMAIN xs |-> <<xs[i], i - 1>>]
FirstN(n, xs)  == SubSeq(xs, 1, IF n < Len(xs) THEN n ELSE Len(xs))

\* The halves of the pairs, one after the other.
Flat(pairs) ==
  [k \in 1..(2 * Len(pairs)) |-> pairs[(k + 1) \div 2][IF k % 2 = 1 THEN 1 ELSE 2]]

\* Folded(f, v, xs)[i] is the state of a fold after the first i items.
Folded(f, v, xs) ==
  LET state[i \in 0..Len(xs)] ==
        IF i = 0 THEN v ELSE Apply(f, <<state[i - 1], xs[i]>>)[1]
  IN state
Scan(f, v, xs) ==
  [i \in DOMAIN xs |-> Apply(f, <<Folded(f, v, xs)[i - 1], xs[i]>>)[2]]

Transform(s, xs) ==
  CASE s.kind = "Map"       -> EachMap(s.arg, xs)
    [] s.kind = "MapVal1"   -> EachVal(s.arg, s.init, xs)
    [] s.kind = "Reduce"    -> Scan(s.arg, s.init, xs)
    [] s.kind = "Enumerate" -> Indexed(xs)
    [] s.kind = "Unzip"     -> Flat(xs)
    [] s.kind = "Take"      -> FirstN(s.arg, xs)
    [] OTHER                -> xs

\* Given(chain, xs)[i] is what the first i stages make of xs, that is, the
\* items stage i + 1 is given when the first stage is given xs.
Given(chain, xs) ==
  LET given[i \in 0..Len(chain)] ==
        IF i = 0 THEN xs ELSE Transform(chain[i], given[i - 1])
  IN given
Ref(chain, xs) == Given(chain, xs)[Len(chain)]

-----------------------------------------------------------------------------

\* Streaming computes what the batch definition does: between two calls of
\* next() the sink has received exactly the chain's output on the items pulled
\* so far, no item late, lost, repeated or out of order, whatever the chain
\* (state kept in Reduce, Enumerate, Take; two items per pair in Unzip).
StreamingMatchesBatch ==
  \A t \in Thread :
    pc[t] \in {"idle", "done"} /\ HasSink(t) =>
      seen[t] = Ref(Chain(t), pulled[t])

-----------------------------------------------------------------------------
(* Streams that cross threads.                                             *)

\* What a sending stage s puts on its queue when it is given xs.
Outbound(s, xs) ==
  IF s.kind = "NetStreamer" THEN [k \in DOMAIN xs |-> <<xs[k][1], s.init>>] ELSE xs

\* What stage i of thread p has to send over a full run.
Input(p)      == IF Pub(p).kind = "IterPublisher" THEN Pub(p).items ELSE pulled[p]
Offered(p, i) == Outbound(Chain(p)[i], Given(Chain(p), Input(p))[i - 1])

Completed(t) == "on_complete" \in ToSet(signals[t])

\* Stage i of thread p is the only one that sends on queue c.
SoleSender(p, i, c) ==
  \A q \in Thread : \A j \in 1..Depth(q) :
    (Chain(q)[j].kind \in SenderKind /\ Chain(q)[j].arg = c) <=> (q = p /\ j = i)

\* Across an mpsc queue, from a Tee or a Decoupler to a Coupler or NetStreamer,
\* a consumer has always processed a prefix of what the producer's input asks
\* for.  If both sinks were told of completion it has processed all of it:
\* the end of the sending thread overtakes no queued item.  (A Take below a
\* Tee ends the stream early; it is left out of the second part.)
EndToEnd ==
  \A t, p \in Thread : \A i \in 1..Depth(p) :
    /\ HasSink(t) /\ HasSink(p) /\ Runs(t) /\ Runs(p)
    /\ Pub(t).kind \in {"Coupler", "NetStreamer"}
    /\ SoleSender(p, i, Pub(t).rx)
    => LET whole == Ref(Chain(t), Offered(p, i)) IN
       /\ pc[t] \in {"idle", "done"} => IsPrefix(seen[t], whole)
       /\ /\ pc[t] = "done" /\ Completed(t) /\ Completed(p)
          /\ \A j \in i..Depth(p) : Chain(p)[j].kind # "Take"
          => seen[t] = whole

\* A Decoupler or NetStreamer drops the item whose send fails
\* (Decoupler::on_next); run() then stops the publisher, so that at most one
\* item is lost and none is sent after a lost one.  An Unzip above would
\* swallow the refusal and is left out.
DecouplerLosesAtMostOne ==
  \A p \in Thread : \A c \in Channel :
    /\ HasSink(p) /\ Runs(p) /\ "Unzip" \notin Kinds(p)
    /\ SoleSender(p, Depth(p), c)
    => LET out == Outbound(Chain(p)[Depth(p)], seen[p]) IN
       \/ sent[c] = out
       \/ /\ sent[c] = Front(out)
          /\ pc[p] \in {"return", "done"} /\ ~ok[p]

\* Every thread ends: with finite inputs nobody waits for ever on a full or an
\* empty queue, also when the thread at the other end has stopped early.
Termination == <>(\A t \in Thread : ~Alive(t))
=============================================================================
