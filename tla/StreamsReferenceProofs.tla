----------------------- MODULE StreamsReferenceProofs -----------------------
(***************************************************************************)
(* Theorems about what streams compute, in one thread and across threads,  *)
(* for every set of threads, queues and wirings and every user closure.    *)
(*                                                                         *)
(* The first part shows what a Decoupler can lose.  The second gives every *)
(* stage a history, the items its on_next has executed, and shows that no  *)
(* item is lost, doubled or overtaken between two stages (TraceOK).  The   *)
(* third follows the items through the queues (Flow).                      *)
(***************************************************************************)
EXTENDS StreamsReference, StreamsProofs, WellFoundedInduction

\* The last stage of p is a sink, and p's only way to reach queue c, which no
\* other thread sends on.
Sole(p, c) ==
  /\ HasSink(p) /\ Runs(p) /\ "Unzip" \notin Kinds(p)
  /\ SoleSender(p, Depth(p), c)

Out(p) == Outbound(Chain(p)[Depth(p)], seen[p])

\* Nothing is lost, or the last item was and the loop is about to end.
LossOK(p, c) ==
  \/ sent[c] = Out(p)
  \/ sent[c] = Front(Out(p)) /\ pc[p] \in {"return", "done"} /\ ~ok[p]

\* The histories are sequences.
SeenOK ==
  /\ DOMAIN seen = Thread /\ \A t \in Thread : seen[t] \in Seq(Range(seen[t]))
  /\ DOMAIN sent = Channel

Loss == Full /\ SeenOK /\ \A p \in Thread, c \in Channel : Sole(p, c) => LossOK(p, c)

-----------------------------------------------------------------------------
(* Facts about sequences.                                                  *)

\* Two sequences of anything.
LEMMA SameSeq ==
  ASSUME NEW s, s \in Seq(Range(s)), NEW t, t \in Seq(Range(t)),
         Len(s) = Len(t), \A i \in 1..Len(s) : s[i] = t[i]
  PROVE  s = t
<1> DEFINE T == Range(s) \cup Range(t)
<1>1. s \in Seq(T) /\ t \in Seq(T)
  BY SeqMonotonic
<1> HIDE DEF T
<1> QED BY <1>1, SeqEqual

\* A function on 1..n is a sequence.
LEMMA FunctionSeq ==
  ASSUME NEW n \in Nat, NEW f, f = [i \in 1..n |-> f[i]]
  PROVE  f \in Seq(Range(f)) /\ Len(f) = n
<1> DEFINE T == {f[i] : i \in 1..n}
<1>1. f \in [1..n -> T]
  OBVIOUS
<1> HIDE DEF T
<1>2. f \in Seq(T) /\ Len(f) = n
  BY <1>1
<1> QED BY <1>2, SeqOfRange

\* What was appended is what Front takes off.
LEMMA FrontOfAppend ==
  ASSUME NEW s, s \in Seq(Range(s)), NEW x
  PROVE  Front(Append(s, x)) = s
<1> DEFINE r == Append(s, x)
           n == Len(s)
           f == Front(r)
<1>1. /\ r \in Seq(Range(r)) /\ n \in Nat /\ Len(r) = n + 1
      /\ \A i \in 1..n : r[i] = s[i]
  BY AppendAny
<1>2. f = SubSeq(r, 1, n)
  <2>1. (n + 1) - 1 = n
    BY <1>1
  <2> QED BY <1>1, <2>1 DEF Front
<1> HIDE DEF r, n, f
<1>3. \A i \in 1..n : i \in 1..Len(r)
  BY <1>1
<1>4. \A i \in 1..n : r[i] \in Range(r)
  BY <1>1, <1>3, ElementOfSeq
<1>5. /\ f \in Seq(Range(r))
      /\ Len(f) = IF 1 <= n THEN n - 1 + 1 ELSE 0
      /\ \A i \in 1..(n - 1 + 1) : f[i] = r[1 + i - 1]
  BY <1>1, <1>2, <1>4, SubSeqProperties
<1>6. Len(f) = n /\ \A i \in 1..n : f[i] = r[i]
  <2>1. n - 1 + 1 = n /\ \A i \in 1..n : 1 + i - 1 = i
    BY <1>1
  <2>2. Len(f) = n
    BY <1>1, <1>5
  <2> QED BY <1>5, <2>1, <2>2
<1>7. f \in Seq(Range(f))
  BY <1>5, SeqOfRange
<1>8. f = s
  BY <1>1, <1>6, <1>7, SameSeq DEF n
<1> QED BY <1>8 DEF f, r

\* A sender puts one message per item on its queue, in their order.
LEMMA OutboundAppend ==
  ASSUME NEW s, NEW xs, xs \in Seq(Range(xs)), NEW x
  PROVE  /\ Outbound(s, xs) \in Seq(Range(Outbound(s, xs)))
         /\ Outbound(s, Append(xs, x)) =
              Append(Outbound(s, xs), IF s.kind = "NetStreamer" THEN <<x[1], s.init>> ELSE x)
<1> DEFINE ys == Append(xs, x)
           n  == Len(xs)
           o  == Outbound(s, xs)
           m  == <<x[1], s.init>>
           q  == Outbound(s, ys)
<1>1. /\ ys \in Seq(Range(ys)) /\ n \in Nat /\ Len(ys) = n + 1
      /\ \A i \in 1..n : ys[i] = xs[i]
      /\ ys[n + 1] = x
  BY AppendAny
<1>2. CASE s.kind # "NetStreamer"
  BY <1>2 DEF Outbound
<1>3. CASE s.kind = "NetStreamer"
  <2>1. DOMAIN xs = 1..n /\ DOMAIN ys = 1..(n + 1)
    BY <1>1, LenProperties
  <2>2. /\ o = [k \in 1..n |-> <<xs[k][1], s.init>>]
        /\ q = [k \in 1..(n + 1) |-> <<ys[k][1], s.init>>]
    BY <1>3, <2>1 DEF Outbound
  <2> HIDE DEF o, q, ys, n
  <2>3. o \in Seq(Range(o)) /\ Len(o) = n
    BY <1>1, <2>2, FunctionSeq
  <2>4. q \in Seq(Range(q)) /\ Len(q) = n + 1
    <3>1. n + 1 \in Nat
      BY <1>1
    <3> QED BY <2>2, <3>1, FunctionSeq
  <2> DEFINE a == Append(o, m)
  <2>5. /\ a \in Seq(Range(a)) /\ Len(a) = n + 1
        /\ \A i \in 1..n : a[i] = o[i]
        /\ a[n + 1] = m
    BY <2>3, AppendAny
  <2> HIDE DEF a
  <2>6. ASSUME NEW i \in 1..(n + 1) PROVE q[i] = a[i]
    <3>1. q[i] = <<ys[i][1], s.init>>
      BY <2>2
    <3>2. CASE i = n + 1
      BY <3>1, <3>2, <1>1, <2>5
    <3>3. CASE i # n + 1
      <4>1. i \in 1..n
        BY <1>1, <3>3
      <4>2. o[i] = <<xs[i][1], s.init>>
        BY <4>1, <2>2
      <4> QED BY <3>1, <4>1, <4>2, <1>1, <2>5
    <3> QED BY <3>2, <3>3
  <2>7. q = a
    BY <2>4, <2>5, <2>6, SameSeq
  <2> QED BY <1>3, <2>3, <2>7 DEF a, o, q, ys
<1> QED BY <1>2, <1>3

-----------------------------------------------------------------------------
(* The steps.                                                              *)

USE DEF Chain, Depth, Stage, Pub, PC

\* The stage of an on_next in progress.
LEMMA StageOK ==
  ASSUME Inv, NEW t \in Thread, pc[t] = "on_next"
  PROVE  /\ Depth(t) \in Nat /\ at[t] \in 1..Depth(t)
         /\ Stage(t).kind \in SenderKind => Stage(t).arg \in Channel
         /\ at[t] # Depth(t) => Stage(t).kind \in ProcessorKind
<1>1. wiring \in Wiring /\ at[t] \in 1..Depth(t)
  BY DEF Inv, TypeOK
<1>2. IsWiring(wiring)
  BY <1>1, WiringAssumption
<1>3. /\ Depth(t) \in Nat
      /\ \A i \in 1..Depth(t) : /\ IsStage(Chain(t)[i])
                                /\ i < Depth(t) => Chain(t)[i].kind \in ProcessorKind
  BY <1>2 DEF IsWiring
<1>4. at[t] # Depth(t) => at[t] < Depth(t)
  BY <1>1, <1>3
<1>5. IsStage(Stage(t))
  BY <1>1, <1>3
<1> QED BY <1>1, <1>3, <1>4, <1>5 DEF IsStage

\* A thread puts something on queue c only in the on_next of a stage that was
\* given c.
LEMMA SentFrame ==
  ASSUME Inv, SeenOK, NEW t \in Thread, Step(t), NEW c \in Channel,
         ~(pc[t] = "on_next" /\ Stage(t).kind \in SenderKind /\ Stage(t).arg = c)
  PROVE  sent'[c] = sent[c]
<1>1. CASE sent' = sent
  BY <1>1
<1>2. ASSUME NEW x, NEW r, Send(Stage(t).arg, x, r), pc[t] = "on_next",
             Stage(t).kind \in SenderKind
      PROVE  sent'[c] = sent[c]
  <2>1. Stage(t).arg # c
    BY <1>2
  <2>2. sent' = sent \/ sent' = [sent EXCEPT ![Stage(t).arg] = Append(@, x)]
    BY <1>2 DEF Send
  <2> QED BY <2>1, <2>2 DEF SeenOK
<1>3. CASE TeeOnNext(t)
  <2>1. sent' = sent \/ \E r \in BOOLEAN : Send(Stage(t).arg, item[t], r)
    BY <1>3 DEF TeeOnNext
  <2>2. pc[t] = "on_next" /\ Stage(t).kind \in SenderKind
    BY <1>3 DEF TeeOnNext, Running, SenderKind
  <2> QED BY <1>2, <2>1, <2>2
<1>4. CASE DecouplerOnNext(t)
  <2>1. \E r \in BOOLEAN : Send(Stage(t).arg, Outgoing(t), r)
    BY <1>4 DEF DecouplerOnNext
  <2>2. pc[t] = "on_next" /\ Stage(t).kind \in SenderKind
    BY <1>4 DEF DecouplerOnNext, Running, SenderKind
  <2> QED BY <1>2, <2>1, <2>2
<1>5. CASE subscribe(t) \/ Loop(t)
  BY <1>5 DEF subscribe, Loop
<1>6. CASE PublisherStep(t)
  BY <1>6 DEF PublisherStep, TryNextUnimplemented, NextWithoutSubscriber, IterNext,
              RepeatNext, RndGenNext, CouplerNext
<1>7. CASE OnNextStep(t) /\ ~TeeOnNext(t) /\ ~DecouplerOnNext(t)
  BY <1>7 DEF OnNextStep, DoOnNext, MapOnNext, MapVal1OnNext, ReduceOnNext, EnumerateOnNext,
              UnzipOnNext, UnzipResume, TakeOnNext, SinkOnNext
<1> QED BY <1>3, <1>4, <1>5, <1>6, <1>7 DEF Step

\* The sink receives only in its own on_next.
LEMMA SeenFrame ==
  ASSUME Inv, SeenOK, NEW t \in Thread, Step(t)
  PROVE  /\ SeenOK'
         /\ \A u \in Thread : u # t => seen'[u] = seen[u]
         /\ ~(pc[t] = "on_next" /\ Stage(t).kind \in SinkKind) => seen' = seen
<1>1. CASE SinkOnNext(t) \/ DecouplerOnNext(t)
  <2>1. seen' = [seen EXCEPT ![t] = Append(seen[t], item[t])]
    BY <1>1 DEF SinkOnNext, DecouplerOnNext, Receive
  <2>2. DOMAIN seen = Thread /\ \A u \in Thread : seen[u] \in Seq(Range(seen[u]))
    BY DEF SeenOK
  <2>3. /\ DOMAIN seen' = Thread /\ seen'[t] = Append(seen[t], item[t])
        /\ \A u \in Thread : u # t => seen'[u] = seen[u]
    BY <2>1, <2>2
  <2>4. seen'[t] \in Seq(Range(seen'[t]))
    BY <2>2, <2>3, AppendAny
  <2>5. pc[t] = "on_next" /\ Stage(t).kind \in SinkKind
    BY <1>1 DEF SinkOnNext, DecouplerOnNext, Running, SinkKind
  <2>6. DOMAIN sent' = Channel
    <3>1. sent' = sent \/ \E d, x : sent' = [sent EXCEPT ![d] = Append(@, x)]
      BY <1>1 DEF SinkOnNext, DecouplerOnNext, Send
    <3> QED BY <3>1 DEF SeenOK
  <2> QED BY <2>2, <2>3, <2>4, <2>5, <2>6 DEF SeenOK
<1>2. ASSUME seen' = seen, sent' = sent \/ \E d, x : sent' = [sent EXCEPT ![d] = Append(@, x)]
      PROVE  /\ SeenOK'
             /\ \A u \in Thread : u # t => seen'[u] = seen[u]
             /\ ~(pc[t] = "on_next" /\ Stage(t).kind \in SinkKind) => seen' = seen
  BY <1>2 DEF SeenOK
<1>3. CASE TeeOnNext(t)
  BY <1>2, <1>3 DEF TeeOnNext, Send
<1>4. CASE subscribe(t) \/ Loop(t)
  BY <1>2, <1>4 DEF subscribe, Loop
<1>5. CASE PublisherStep(t)
  BY <1>2, <1>5 DEF PublisherStep, TryNextUnimplemented, NextWithoutSubscriber, IterNext,
              RepeatNext, RndGenNext, CouplerNext
<1>6. CASE OnNextStep(t) /\ ~TeeOnNext(t) /\ ~SinkOnNext(t) /\ ~DecouplerOnNext(t)
  BY <1>2, <1>6
     DEF OnNextStep, DoOnNext, MapOnNext, MapVal1OnNext, ReduceOnNext, EnumerateOnNext,
         UnzipOnNext, UnzipResume, TakeOnNext
<1> QED BY <1>1, <1>3, <1>4, <1>5, <1>6 DEF Step

\* What is read off the wiring does not change.
LEMMA SoleFrame ==
  ASSUME NEW p \in Thread, NEW c \in Channel, UNCHANGED wiring
  PROVE  Sole(p, c)' <=> Sole(p, c)
  BY DEF Sole, HasSink, Runs, Kinds, SoleSender

\* If neither end of the comparison changes, it holds until the thread goes on.
LEMMA LossFrame ==
  ASSUME NEW p \in Thread, NEW c \in Channel, UNCHANGED wiring, LossOK(p, c),
         sent'[c] = sent[c], seen'[p] = seen[p],
         sent[c] = Out(p) \/ (pc'[p] \in {"return", "done"} /\ ok'[p] = ok[p])
  PROVE  LossOK(p, c)'
<1>1. Out(p)' = Out(p)
  BY DEF Out, Outbound
<1> QED BY <1>1 DEF LossOK

\* Without an Unzip no frame is ever pushed.
LEMMA NoFrames ==
  ASSUME Inv, NEW p \in Thread, "Unzip" \notin Kinds(p)
  PROVE  stack[p] = <<>>
<1>1. stack[p] \in Seq(Frame) /\ Nested(stack[p], Chain(p)) /\ Depth(p) \in Nat
  BY WiringDepth DEF Inv, TypeOK, StackOK
<1>2. ASSUME NEW k \in 1..Len(stack[p]) PROVE FALSE
  <2>1. stack[p][k].at \in 1..(Depth(p) - 1) /\ Chain(p)[stack[p][k].at].kind = "Unzip"
    BY <1>1, <1>2 DEF Nested
  <2>2. stack[p][k].at \in 1..Depth(p)
    BY <1>1, <2>1
  <2> QED BY <2>1, <2>2 DEF Kinds
<1>3. Len(stack[p]) = 0
  <2>1. Len(stack[p]) \in Nat
    BY <1>1
  <2> QED BY <1>2, <2>1
<1> QED BY <1>1, <1>3, EmptySeq

\* The sink receives an item and sends it, or loses it and says so.
LEMMA SinkSends ==
  ASSUME Inv, SeenOK, NEW p \in Thread, NEW c \in Channel, Sole(p, c), UNCHANGED wiring,
         pc[p] = "on_next", at[p] = Depth(p), DecouplerOnNext(p), sent[c] = Out(p)
  PROVE  LossOK(p, c)'
<1> DEFINE s == Chain(p)[Depth(p)]
           m == Outgoing(p)
<1>0. pc \in [Thread -> PC] /\ ok \in [Thread -> BOOLEAN]
  BY DEF Inv, TypeOK
<1>1. Stage(p) = s /\ Stage(p).arg = c
  <2>1. Depth(p) \in 1..Depth(p)
    BY StageOK
  <2> QED BY <2>1 DEF Sole, SoleSender
<1>2. PICK r \in BOOLEAN : Send(c, m, r) /\ Return(p, r)
  BY <1>1 DEF DecouplerOnNext
<1>3. seen'[p] = Append(seen[p], item[p]) /\ seen[p] \in Seq(Range(seen[p]))
  BY DEF DecouplerOnNext, Receive, SeenOK
<1>4. m = IF s.kind = "NetStreamer" THEN <<item[p][1], s.init>> ELSE item[p]
  BY <1>1 DEF Outgoing
<1> HIDE DEF m
<1>5. Out(p)' = Append(Out(p), m) /\ Out(p) \in Seq(Range(Out(p)))
  <2>1. PICK z, xs, x : z = s /\ xs = seen[p] /\ x = item[p]
    OBVIOUS
  <2>2. /\ Outbound(z, xs) \in Seq(Range(Outbound(z, xs)))
        /\ Outbound(z, Append(xs, x)) =
             Append(Outbound(z, xs), IF z.kind = "NetStreamer" THEN <<x[1], z.init>> ELSE x)
    <3>1. xs \in Seq(Range(xs))
      BY <2>1, <1>3
    <3> QED BY ONLY <3>1, OutboundAppend
  <2>3. Out(p) = Outbound(z, xs)
    BY <2>1 DEF Out
  <2>4. Out(p)' = Outbound(z, Append(xs, x))
    BY <2>1, <1>3 DEF Out, Outbound
  <2> QED BY <2>1, <2>2, <2>3, <2>4, <1>4
<1>6. pc'[p] = "return" /\ ok'[p] = r
  BY <1>0, <1>2 DEF Return
<1>7. CASE r
  <2>1. sent'[c] = Append(sent[c], m)
    BY <1>2, <1>7 DEF Send, SeenOK
  <2> QED BY <2>1, <1>5 DEF LossOK
<1>8. CASE ~r
  <2>1. sent'[c] = sent[c]
    BY <1>2, <1>8 DEF Send
  <2>2. Front(Out(p)') = Out(p)
    <3>1. PICK o, y : o = Out(p) /\ y = m
      OBVIOUS
    <3>2. Front(Append(o, y)) = o
      BY <3>1, <1>5, FrontOfAppend
    <3> QED BY <3>1, <3>2, <1>5
  <2>3. Front(Out(p))' = Out(p)
    BY <2>2 DEF Front
  <2> QED BY <2>1, <2>3, <1>6, <1>8 DEF LossOK
<1> QED BY <1>7, <1>8

\* Steps of the sending thread itself.
LEMMA OwnStep ==
  ASSUME Full, SeenOK, NEW p \in Thread, NEW c \in Channel, Sole(p, c), LossOK(p, c),
         Step(p), UNCHANGED wiring
  PROVE  LossOK(p, c)'
<1>0. Inv /\ pc \in [Thread -> PC]
  BY DEF Full, Inv, TypeOK
<1>1. CASE pc[p] \in {"wire", "idle"}
  <2>1. sent[c] = Out(p)
    BY <1>1 DEF LossOK
  <2>2. sent'[c] = sent[c] /\ seen'[p] = seen[p]
    BY <1>0, <1>1, SentFrame, SeenFrame
  <2> QED BY <2>1, <2>2, LossFrame
<1>2. CASE pc[p] = "on_next" /\ at[p] # Depth(p)
  <2>1. sent[c] = Out(p)
    BY <1>2 DEF LossOK
  <2>2. at[p] \in 1..Depth(p) /\ Stage(p).kind \in ProcessorKind
    BY <1>0, <1>2, StageOK
  <2>3. ~(Stage(p).kind \in SenderKind /\ Stage(p).arg = c)
    BY <1>2, <2>2 DEF Sole, SoleSender
  <2>4. Stage(p).kind \notin SinkKind
    BY <2>2 DEF ProcessorKind, SinkKind
  <2>5. sent'[c] = sent[c] /\ seen'[p] = seen[p]
    BY <1>0, <2>3, <2>4, SentFrame, SeenFrame
  <2> QED BY <2>1, <2>5, LossFrame
<1>3. CASE pc[p] = "on_next" /\ at[p] = Depth(p)
  <2>1. sent[c] = Out(p)
    BY <1>3 DEF LossOK
  <2>2. Stage(p).kind \in SenderKind /\ Stage(p).kind \in SinkKind
    <3>1. Depth(p) \in 1..Depth(p)
      BY <1>0, <1>3, StageOK
    <3> QED BY <3>1, <1>3 DEF Sole, SoleSender, HasSink
  <2>3. OnNextStep(p) /\ ~UnzipResume(p)
    BY <1>3, StepKinds
  <2>4. DecouplerOnNext(p)
    BY <2>2, <2>3
       DEF OnNextStep, DoOnNext, MapOnNext, MapVal1OnNext, ReduceOnNext, EnumerateOnNext,
           TeeOnNext, UnzipOnNext, TakeOnNext, SinkOnNext, Running, SenderKind, SinkKind
  <2> QED BY <1>0, <1>3, <2>1, <2>4, SinkSends
<1>4. CASE pc[p] = "return"
  <2>1. stack[p] = <<>>
    BY <1>0, NoFrames DEF Sole
  <2>2. Loop(p)
    <3>1. Len(stack[p]) = 0
      BY <2>1
    <3>2. ~UnzipResume(p)
      BY <3>1 DEF UnzipResume
    <3> QED BY <1>4, <3>2, StepKinds
  <2>3. sent' = sent /\ seen' = seen /\ ok' = ok
    BY <2>2 DEF Loop
  <2>4. ~ok[p] => pc'[p] = "done"
    BY <1>0, <2>2 DEF Loop, LoopEnds, Sole, Runs
  <2> QED BY <2>3, <2>4, LossFrame DEF LossOK
<1> QED BY <1>1, <1>2, <1>3, <1>4, StepKinds

\* Before the first step nothing has been received or sent.
LEMMA InitLoss == Init => Loss
<1> SUFFICES ASSUME Init PROVE Loss
  OBVIOUS
<1>1. Full
  BY InitFull
<1>2. SeenOK
  <2>1. DOMAIN seen = Thread /\ \A t \in Thread : seen[t] = <<>>
    BY DEF Init
  <2>2. <<>> \in Seq(Range(<<>>))
    BY EmptySeq
  <2>3. DOMAIN sent = Channel
    BY DEF Init
  <2> QED BY <2>1, <2>2, <2>3 DEF SeenOK
<1>3. ASSUME NEW p \in Thread, NEW c \in Channel PROVE LossOK(p, c)
  <2>1. seen[p] = <<>> /\ sent[c] = <<>>
    BY DEF Init
  <2>2. DOMAIN <<>> = {} /\ [k \in {} |-> <<seen[p][k][1], Chain(p)[Depth(p)].init>>] = <<>>
    OBVIOUS
  <2>3. Out(p) = <<>>
    BY <2>1, <2>2 DEF Out, Outbound
  <2> QED BY <2>1, <2>3 DEF LossOK
<1> QED BY <1>1, <1>2, <1>3 DEF Loss

\* Every step keeps the comparison of what was received and what was sent.
LEMMA NextLoss == Loss /\ [Next]_vars => Loss'
<1> SUFFICES ASSUME Loss, [Next]_vars PROVE Loss'
  OBVIOUS
<1>0. Full'
  BY NextFull DEF Loss
<1>1. ASSUME NEW t \in Thread, Step(t), UNCHANGED wiring PROVE Loss'
  <2>0. Inv /\ HistoryOK /\ SeenOK
    BY DEF Loss, Full
  <2>1. SeenOK' /\ \A u \in Thread : u # t => seen'[u] = seen[u]
    BY <1>1, <2>0, SeenFrame
  <2>2. \A u \in Thread : u # t => Same(u)
    BY <1>1, <2>0, StepFrame
  <2>3. ASSUME NEW p \in Thread, NEW c \in Channel, Sole(p, c)' PROVE LossOK(p, c)'
    <3>1. Sole(p, c) /\ LossOK(p, c)
      BY <1>1, <2>3, SoleFrame DEF Loss
    <3>2. CASE p = t
      BY <1>1, <2>0, <3>1, <3>2, OwnStep DEF Loss
    <3>3. CASE p # t
      <4>1. ~(pc[t] = "on_next" /\ Stage(t).kind \in SenderKind /\ Stage(t).arg = c)
        <5>1. pc[t] = "on_next" => at[t] \in 1..Depth(t)
          BY <2>0, StageOK
        <5> QED BY <5>1, <3>1, <3>3 DEF Sole, SoleSender
      <4>2. sent'[c] = sent[c]
        BY <1>1, <2>0, <4>1, SentFrame
      <4>3. seen'[p] = seen[p] /\ pc'[p] = pc[p] /\ ok'[p] = ok[p]
        BY <2>1, <2>2, <3>3 DEF Same
      <4>4. sent[c] = Out(p) \/ (pc'[p] \in {"return", "done"} /\ ok'[p] = ok[p])
        BY <3>1, <4>3 DEF LossOK
      <4> QED BY <1>1, <3>1, <4>2, <4>3, <4>4, LossFrame
    <3> QED BY <3>2, <3>3
  <2> QED BY <1>0, <2>1, <2>3 DEF Loss
<1>2. ASSUME UNCHANGED <<wiring, pc, ok, seen, sent>> PROVE Loss'
  <2>1. SeenOK'
    BY <1>2 DEF Loss, SeenOK
  <2>2. ASSUME NEW p \in Thread, NEW c \in Channel, Sole(p, c)' PROVE LossOK(p, c)'
    <3>1. Sole(p, c) /\ LossOK(p, c)
      BY <1>2, <2>2, SoleFrame DEF Loss
    <3>2. sent[c] = Out(p) \/ (pc'[p] \in {"return", "done"} /\ ok'[p] = ok[p])
      BY <1>2, <3>1 DEF LossOK
    <3> QED BY <1>2, <3>1, <3>2, LossFrame
  <2> QED BY <1>0, <2>1, <2>2 DEF Loss
<1>3. CASE \E c \in Channel : EventLoopTakes(c) /\ UNCHANGED wiring
  BY <1>2, <1>3 DEF EventLoopTakes
<1>4. CASE UNCHANGED vars
  BY <1>2, <1>4 DEF vars
<1> QED BY <1>1, <1>3, <1>4 DEF Next, Finished

\* A Decoupler or NetStreamer at the end of a chain that run() drives, the only
\* sender on its queue, loses at most the one item whose send failed, and sends
\* none after it (Decoupler::on_next, Publisher::run), whatever the other
\* threads do to the queue meanwhile.
THEOREM DecouplerLosesAtMostOneHolds == Spec => []DecouplerLosesAtMostOne
<1>1. Loss => DecouplerLosesAtMostOne
  BY DEF Loss, Sole, LossOK, Out, DecouplerLosesAtMostOne
<1> QED BY <1>1, InitLoss, NextLoss, PTL DEF Spec

-----------------------------------------------------------------------------
(* Sequences of anything, and induction over their indices.                *)

\* Induction, with a set in place of a predicate: the least i outside of T would
\* have its predecessor in T.
LEMMA UpTo ==
  ASSUME NEW n \in Nat, NEW T, 0 \in T, \A i \in 1..n : i - 1 \in T => i \in T
  PROVE  \A i \in 0..n : i \in T
<1> SUFFICES ASSUME NEW k \in 0..n, k \notin T PROVE FALSE
  OBVIOUS
<1> DEFINE R == OpToRel(<, Nat)
           U == {i \in 0..n : i \notin T}
<1>1. IsWellFoundedOn(R, Nat)
  BY NatLessThanWellFounded
<1>2. \A x, y \in Nat : y < x => <<y, x>> \in R
  BY DEF OpToRel
<1>3. U # {} /\ U \subseteq Nat /\ \A i \in 0..n : i \notin U => i \in T
  OBVIOUS
<1>4. \A i \in U : i \in 0..n /\ i \notin T
  OBVIOUS
<1> HIDE DEF R, U
<1>5. PICK x \in U : \A y \in U : ~(<<y, x>> \in R)
  BY <1>1, <1>3, WFMin
<1>6. x \in 1..n /\ x - 1 \in 0..n /\ x - 1 \in Nat /\ x \in Nat /\ x - 1 < x
  <2>1. x \in 0..n /\ x # 0
    BY <1>4
  <2> QED BY <2>1
<1>7. x - 1 \notin U
  BY <1>2, <1>5, <1>6
<1>8. x - 1 \in T
  BY <1>3, <1>6, <1>7
<1> QED BY <1>4, <1>6, <1>8

\* Its domain.
LEMMA SeqLen ==
  ASSUME NEW s, IsSeq(s)
  PROVE  Len(s) \in Nat /\ DOMAIN s = 1..Len(s)
  BY LenProperties DEF IsSeq

\* The two ways to say that s is a sequence.
LEMMA SeqRange ==
  ASSUME NEW s PROVE IsSeq(s) <=> s \in Seq(Range(s))
  BY DEF IsSeq, Range

\* Sequences are the same if their elements are.
LEMMA SeqSame ==
  ASSUME NEW s, IsSeq(s), NEW r, IsSeq(r), Len(s) = Len(r), \A i \in 1..Len(s) : s[i] = r[i]
  PROVE  s = r
  BY SeqRange, SameSeq

\* A function on 1..n is a sequence.
LEMMA SeqFcn ==
  ASSUME NEW n \in Nat, NEW f, f = [i \in 1..n |-> f[i]]
  PROVE  IsSeq(f) /\ Len(f) = n
  BY SeqRange, FunctionSeq

\* One more element.
LEMMA SeqAppend ==
  ASSUME NEW s, IsSeq(s), NEW x
  PROVE  /\ IsSeq(Append(s, x)) /\ Len(Append(s, x)) = Len(s) + 1
         /\ \A i \in 1..Len(s) : Append(s, x)[i] = s[i]
         /\ Append(s, x)[Len(s) + 1] = x
<1>1. s \in Seq(Range(s))
  BY SeqRange
<1>2. Append(s, x) \in Seq(Range(Append(s, x)))
  BY <1>1, AppendAny
<1>3. IsSeq(Append(s, x))
  BY <1>2, SeqRange
<1> QED BY <1>1, <1>3, AppendAny

\* There is one sequence without elements.
LEMMA SeqEmpty ==
  /\ IsSeq(<<>>) /\ Len(<<>>) = 0
  /\ \A s : IsSeq(s) /\ Len(s) = 0 => s = <<>>
<1>1. IsSeq(<<>>) /\ Len(<<>>) = 0
  BY EmptySeq DEF IsSeq
<1>2. ASSUME NEW s, IsSeq(s), Len(s) = 0 PROVE s = <<>>
  BY <1>1, <1>2, SeqSame
<1> QED BY <1>1, <1>2

\* A sequence that has one element more is an Append.
LEMMA OneMore ==
  ASSUME NEW s, IsSeq(s), NEW r, IsSeq(r), Len(r) = Len(s) + 1,
         \A i \in 1..Len(s) : r[i] = s[i]
  PROVE  r = Append(s, r[Len(s) + 1])
<1> DEFINE x == r[Len(s) + 1]
           a == Append(s, x)
<1>1. /\ IsSeq(a) /\ Len(a) = Len(s) + 1
      /\ \A i \in 1..Len(s) : a[i] = s[i]
      /\ a[Len(s) + 1] = x
  BY SeqAppend
<1>2. Len(s) \in Nat
  BY SeqLen
<1> HIDE DEF a
<1>3. ASSUME NEW i \in 1..Len(r) PROVE r[i] = a[i]
  <2>1. i \in 1..Len(s) \/ i = Len(s) + 1
    BY <1>2
  <2> QED BY <1>1, <2>1
<1>4. r = a
  BY <1>1, <1>3, SeqSame
<1> QED BY <1>4 DEF a

\* IsPrefix, element by element.
Begins(s, r) == Len(s) <= Len(r) /\ \A i \in 1..Len(s) : s[i] = r[i]

\* The prefixes of the community modules.
LEMMA BeginsIsPrefix ==
  ASSUME NEW s, IsSeq(s), NEW r, IsSeq(r), Begins(s, r)
  PROVE  IsPrefix(s, r)
<1> DEFINE n == Len(s)
           a == SubSeq(s, 1, n)
           b == SubSeq(r, 1, n)
<1>1. n \in Nat /\ Len(r) \in Nat /\ n <= Len(r)
  BY SeqLen DEF Begins
<1>2. s \in Seq(Range(s)) /\ r \in Seq(Range(r))
  BY SeqRange
<1>3. /\ \A i \in 1..n : s[i] \in Range(s)
      /\ \A i \in 1..n : r[i] \in Range(r)
  <2>1. \A i \in 1..n : i \in 1..Len(r)
    BY <1>1
  <2> QED BY <1>2, <2>1, ElementOfSeq
<1> HIDE DEF n
<1>4. /\ a \in Seq(Range(s)) /\ Len(a) = IF 1 <= n THEN n - 1 + 1 ELSE 0
      /\ \A i \in 1..(n - 1 + 1) : a[i] = s[1 + i - 1]
  BY <1>1, <1>3, SubSeqProperties
<1>5. /\ b \in Seq(Range(r)) /\ Len(b) = IF 1 <= n THEN n - 1 + 1 ELSE 0
      /\ \A i \in 1..(n - 1 + 1) : b[i] = r[1 + i - 1]
  BY <1>1, <1>3, SubSeqProperties
<1> HIDE DEF a, b
<1>6. n - 1 + 1 = n /\ \A i \in 1..n : 1 + i - 1 = i
  BY <1>1
<1>7. (IF 1 <= n THEN n - 1 + 1 ELSE 0) = n
  BY <1>1
<1>8. a \in Seq(Range(a)) /\ b \in Seq(Range(b))
  BY <1>4, <1>5, SeqOfRange
<1>9. Len(a) = n /\ Len(b) = n /\ \A i \in 1..n : a[i] = b[i]
  <2>1. Len(a) = n /\ Len(b) = n
    BY <1>4, <1>5, <1>7
  <2>2. ASSUME NEW i \in 1..n PROVE a[i] = b[i]
    <3>1. a[i] = s[i] /\ b[i] = r[i]
      BY <1>4, <1>5, <1>6
    <3> QED BY <3>1 DEF Begins, n
  <2> QED BY <2>1, <2>2
<1>10. a = b
  BY <1>8, <1>9, SameSeq
<1> QED BY <1>1, <1>10 DEF IsPrefix, a, b, n

\* A beginning of a beginning.
LEMMA BeginsTrans ==
  ASSUME NEW s, IsSeq(s), NEW r, IsSeq(r), NEW q, IsSeq(q), Begins(s, r), Begins(r, q)
  PROVE  Begins(s, q)
<1>1. Len(s) \in Nat /\ Len(r) \in Nat /\ Len(q) \in Nat
  BY SeqLen
<1> QED BY <1>1 DEF Begins

\* Every sequence begins itself.
LEMMA BeginsSelf ==
  ASSUME NEW s, IsSeq(s) PROVE Begins(s, s)
<1>1. Len(s) \in Nat
  BY SeqLen
<1> QED BY <1>1 DEF Begins

\* A sequence begins what it grows into.
LEMMA BeginsAppend ==
  ASSUME NEW s, IsSeq(s), NEW x PROVE Begins(s, Append(s, x))
<1>1. Len(s) \in Nat
  BY SeqLen
<1> QED BY <1>1, SeqAppend DEF Begins

-----------------------------------------------------------------------------
(* What one stage makes of its items.                                      *)

\* The recursion of Folded has a solution.
LEMMA FoldedDef ==
  ASSUME NEW f, NEW v, NEW xs, IsSeq(xs)
  PROVE  /\ Folded(f, v, xs)[0] = v
         /\ \A i \in 1..Len(xs) :
              Folded(f, v, xs)[i] = Apply(f, <<Folded(f, v, xs)[i - 1], xs[i]>>)[1]
<1> DEFINE n == Len(xs)
           Is(g, m) == g = [i \in 0..m |-> IF i = 0 THEN v ELSE Apply(f, <<g[i - 1], xs[i]>>)[1]]
           T == {m \in 0..n : \E g : Is(g, m)}
<1>0. n \in Nat
  BY SeqLen
<1>1. 0 \in T
  <2> DEFINE g == [i \in 0..0 |-> v]
  <2>1. Is(g, 0)
    OBVIOUS
  <2> HIDE DEF g, Is
  <2> QED BY <1>0, <2>1
<1>2. ASSUME NEW i \in 1..n, i - 1 \in T PROVE i \in T
  <2>1. PICK g : Is(g, i - 1)
    BY <1>2
  <2> DEFINE y == Apply(f, <<g[i - 1], xs[i]>>)[1]
             h == [j \in 0..i |-> IF j = i THEN y ELSE g[j]]
  <2>2. ASSUME NEW j \in 0..i
        PROVE  h[j] = IF j = 0 THEN v ELSE Apply(f, <<h[j - 1], xs[j]>>)[1]
    <3>1. CASE j = i
      <4>1. i - 1 \in 0..i /\ i - 1 # i /\ i # 0
        BY <1>0
      <4>2. h[i - 1] = g[i - 1] /\ h[j] = y
        BY <3>1, <4>1
      <4> QED BY <3>1, <4>1, <4>2
    <3>2. CASE j # i
      <4>1. j \in 0..(i - 1)
        BY <1>0, <3>2
      <4>2. h[j] = g[j]
        BY <3>2
      <4>3. g[j] = IF j = 0 THEN v ELSE Apply(f, <<g[j - 1], xs[j]>>)[1]
        BY <2>1, <4>1
      <4>4. j # 0 => j - 1 \in 0..i /\ j - 1 # i
        BY <1>0, <4>1
      <4>5. j # 0 => h[j - 1] = g[j - 1]
        BY <4>4
      <4> HIDE DEF h
      <4> QED BY <4>2, <4>3, <4>5
    <3> QED BY <3>1, <3>2
  <2>3. Is(h, i)
    BY ONLY <2>2
  <2> HIDE DEF h, Is
  <2>4. i \in 0..n
    BY <1>0
  <2> QED BY <2>3, <2>4
<1>3. n \in T
  <2> HIDE DEF T
  <2>1. \A i \in 0..n : i \in T
    BY <1>0, <1>1, <1>2, UpTo
  <2> QED BY <1>0, <2>1
<1> DEFINE F == CHOOSE g : Is(g, n)
<1>4. Folded(f, v, xs) = F
  BY DEF Folded
<1>5. Is(F, n)
  <2>1. \E g : Is(g, n)
    BY <1>3
  <2> HIDE DEF Is
  <2> QED BY <2>1
<1> HIDE DEF F
<1>6. ASSUME NEW i \in 0..n
      PROVE F[i] = IF i = 0 THEN v ELSE Apply(f, <<F[i - 1], xs[i]>>)[1]
  BY ONLY <1>5, <1>6
<1>7. 0 \in 0..n /\ \A i \in 1..n : i \in 0..n /\ i # 0
  BY <1>0
<1> QED BY <1>4, <1>6, <1>7

\* The states of a fold depend on the items so far only.
LEMMA FoldedBegins ==
  ASSUME NEW f, NEW v, NEW xs, IsSeq(xs), NEW ys, IsSeq(ys), Begins(xs, ys)
  PROVE  \A i \in 0..Len(xs) : Folded(f, v, xs)[i] = Folded(f, v, ys)[i]
<1> DEFINE n == Len(xs)
           F == Folded(f, v, xs)
           G == Folded(f, v, ys)
           T == {i \in 0..n : F[i] = G[i]}
<1>0. n \in Nat /\ Len(ys) \in Nat /\ n <= Len(ys) /\ \A i \in 1..n : i \in 1..Len(ys) /\ xs[i] = ys[i]
  BY SeqLen DEF Begins
<1>1. F[0] = v /\ \A i \in 1..n : F[i] = Apply(f, <<F[i - 1], xs[i]>>)[1]
  BY FoldedDef
<1>2. G[0] = v /\ \A i \in 1..Len(ys) : G[i] = Apply(f, <<G[i - 1], ys[i]>>)[1]
  BY FoldedDef
<1> HIDE DEF F, G, n
<1>3. 0 \in T
  BY <1>0, <1>1, <1>2
<1>4. ASSUME NEW i \in 1..n, i - 1 \in T PROVE i \in T
  <2>1. F[i - 1] = G[i - 1] /\ xs[i] = ys[i] /\ i \in 1..Len(ys) /\ i \in 0..n
    BY <1>0, <1>4
  <2>2. F[i] = G[i]
    BY <1>1, <1>2, <2>1
  <2> QED BY <2>1, <2>2
<1>5. \A i \in 0..n : i \in T
  <2> HIDE DEF T
  <2> QED BY <1>0, <1>3, <1>4, UpTo
<1>6. \A i \in 0..n : F[i] = G[i]
  BY <1>5
<1> QED BY <1>6 DEF F, G, n

\* A stage whose bounds are numbers.
Bounded(s) == s.kind = "Take" => s.arg \in Nat

\* A stage that makes one item of each, and the item it makes of xs[i].
OneToOne(s) == s.kind \notin {"Unzip", "Take"}
Made(s, xs, i) ==
  CASE s.kind = "Map"       -> Apply(s.arg, xs[i])
    [] s.kind = "MapVal1"   -> Apply(s.arg, <<xs[i], s.init>>)
    [] s.kind = "Reduce"    -> Apply(s.arg, <<Folded(s.arg, s.init, xs)[i - 1], xs[i]>>)[2]
    [] s.kind = "Enumerate" -> <<xs[i], i - 1>>
    [] OTHER                -> xs[i]

\* One item out for each one in.
LEMMA OneToOneShape ==
  ASSUME NEW s, NEW xs, IsSeq(xs), OneToOne(s)
  PROVE  /\ IsSeq(Transform(s, xs)) /\ Len(Transform(s, xs)) = Len(xs)
         /\ \A i \in 1..Len(xs) : Transform(s, xs)[i] = Made(s, xs, i)
<1> DEFINE n == Len(xs)
           T == Transform(s, xs)
<1>0. n \in Nat /\ DOMAIN xs = 1..n
  BY SeqLen
<1>1. T = [i \in 1..n |-> Made(s, xs, i)] \/ (T = xs /\ \A i \in 1..n : Made(s, xs, i) = xs[i])
  <2>1. CASE s.kind = "Map"
    BY <1>0, <2>1 DEF Transform, Made, EachMap
  <2>2. CASE s.kind = "MapVal1"
    BY <1>0, <2>2 DEF Transform, Made, EachVal
  <2>3. CASE s.kind = "Reduce"
    BY <1>0, <2>3 DEF Transform, Made, Scan
  <2>4. CASE s.kind = "Enumerate"
    BY <1>0, <2>4 DEF Transform, Made, Indexed
  <2>5. CASE s.kind \notin {"Map", "MapVal1", "Reduce", "Enumerate"}
    BY <2>5 DEF Transform, Made, OneToOne
  <2> QED BY <2>1, <2>2, <2>3, <2>4, <2>5
<1> HIDE DEF T, n
<1>2. CASE T = [i \in 1..n |-> Made(s, xs, i)]
  <2>1. T = [i \in 1..n |-> T[i]] /\ \A i \in 1..n : T[i] = Made(s, xs, i)
    BY <1>2
  <2>2. IsSeq(T) /\ Len(T) = n
    BY <1>0, <2>1, SeqFcn
  <2> QED BY <2>1, <2>2 DEF T, n
<1>3. CASE T = xs /\ \A i \in 1..n : Made(s, xs, i) = xs[i]
  BY <1>3 DEF T, n
<1> QED BY <1>1, <1>2, <1>3

\* The first items, as many as a Take lets pass.
LEMMA TakeShape ==
  ASSUME NEW s, NEW xs, IsSeq(xs), s.kind = "Take", s.arg \in Nat
  PROVE  /\ IsSeq(Transform(s, xs))
         /\ Len(Transform(s, xs)) = IF s.arg < Len(xs) THEN s.arg ELSE Len(xs)
         /\ \A i \in 1..Len(Transform(s, xs)) : Transform(s, xs)[i] = xs[i]
<1> DEFINE m == IF s.arg < Len(xs) THEN s.arg ELSE Len(xs)
           T == SubSeq(xs, 1, m)
<1>0. Len(xs) \in Nat /\ m \in Nat /\ m <= Len(xs)
  BY SeqLen
<1>1. Transform(s, xs) = T
  BY DEF Transform, FirstN
<1>2. xs \in Seq(Range(xs))
  BY SeqRange
<1> HIDE DEF m
<1>3. \A i \in 1..m : xs[i] \in Range(xs)
  <2>1. \A i \in 1..m : i \in 1..Len(xs)
    BY <1>0
  <2> QED BY <1>2, <2>1, ElementOfSeq
<1>4. /\ T \in Seq(Range(xs)) /\ Len(T) = IF 1 <= m THEN m - 1 + 1 ELSE 0
      /\ \A i \in 1..(m - 1 + 1) : T[i] = xs[1 + i - 1]
  BY <1>0, <1>3, SubSeqProperties
<1> HIDE DEF T
<1>5. m - 1 + 1 = m /\ (\A i \in 1..m : 1 + i - 1 = i) /\ (IF 1 <= m THEN m - 1 + 1 ELSE 0) = m
  BY <1>0
<1>6. T \in Seq(Range(T))
  BY <1>4, SeqOfRange
<1>7. IsSeq(T) /\ Len(T) = m /\ \A i \in 1..m : T[i] = xs[i]
  <2>1. IsSeq(T) /\ Len(T) = m
    BY <1>4, <1>5, <1>6, SeqRange
  <2> QED BY <1>4, <1>5, <2>1
<1> QED BY <1>1, <1>7 DEF m

\* Two items out for each one in.
LEMMA UnzipShape ==
  ASSUME NEW s, NEW xs, IsSeq(xs), s.kind = "Unzip"
  PROVE  /\ IsSeq(Transform(s, xs)) /\ Len(Transform(s, xs)) = 2 * Len(xs)
         /\ \A k \in 1..(2 * Len(xs)) :
              /\ (k + 1) \div 2 \in 1..Len(xs)
              /\ Transform(s, xs)[k] = xs[(k + 1) \div 2][IF k % 2 = 1 THEN 1 ELSE 2]
<1> DEFINE n == Len(xs)
           T == Transform(s, xs)
<1>0. n \in Nat /\ 2 * n \in Nat
  BY SeqLen
<1>1. T = [k \in 1..(2 * n) |-> xs[(k + 1) \div 2][IF k % 2 = 1 THEN 1 ELSE 2]]
  BY DEF Transform, Flat
<1> HIDE DEF n, T
<1>2. T = [k \in 1..(2 * n) |-> T[k]]
  BY <1>1
<1>3. IsSeq(T) /\ Len(T) = 2 * n
  BY <1>0, <1>2, SeqFcn
<1>4. \A k \in 1..(2 * n) : (k + 1) \div 2 \in 1..n
  BY <1>0
<1>5. \A k \in 1..(2 * n) : T[k] = xs[(k + 1) \div 2][IF k % 2 = 1 THEN 1 ELSE 2]
  BY <1>1
<1> QED BY <1>3, <1>4, <1>5 DEF n, T

\* A stage makes a sequence of a sequence.
LEMMA TransformSeq ==
  ASSUME NEW s, NEW xs, IsSeq(xs), Bounded(s)
  PROVE  IsSeq(Transform(s, xs))
  BY OneToOneShape, TakeShape, UnzipShape DEF OneToOne, Bounded

\* More input, more output: what a stage has made it never takes back.
LEMMA TransformBegins ==
  ASSUME NEW s, NEW xs, IsSeq(xs), NEW ys, IsSeq(ys), Begins(xs, ys), Bounded(s)
  PROVE  Begins(Transform(s, xs), Transform(s, ys))
<1>0. /\ Len(xs) \in Nat /\ Len(ys) \in Nat /\ Len(xs) <= Len(ys)
      /\ \A i \in 1..Len(xs) : i \in 1..Len(ys) /\ xs[i] = ys[i]
  BY SeqLen DEF Begins
<1>1. CASE OneToOne(s)
  <2>1. ASSUME NEW i \in 1..Len(xs) PROVE Made(s, xs, i) = Made(s, ys, i)
    <3>1. xs[i] = ys[i] /\ i - 1 \in 0..Len(xs)
      BY <1>0
    <3>2. Folded(s.arg, s.init, xs)[i - 1] = Folded(s.arg, s.init, ys)[i - 1]
      <4>1. PICK f, v : f = s.arg /\ v = s.init
        OBVIOUS
      <4>2. \A j \in 0..Len(xs) : Folded(f, v, xs)[j] = Folded(f, v, ys)[j]
        BY FoldedBegins
      <4> QED BY <3>1, <4>1, <4>2
    <3> QED BY <3>1, <3>2 DEF Made
  <2>2. Len(Transform(s, xs)) <= Len(Transform(s, ys))
    BY <1>0, <1>1, OneToOneShape
  <2>3. ASSUME NEW i \in 1..Len(xs) PROVE Transform(s, xs)[i] = Transform(s, ys)[i]
    BY <1>0, <1>1, <2>1, OneToOneShape
  <2>4. Len(Transform(s, xs)) = Len(xs)
    BY <1>1, OneToOneShape
  <2> QED BY <2>2, <2>3, <2>4 DEF Begins
<1>2. CASE s.kind = "Take"
  <2>0. s.arg \in Nat
    BY <1>2 DEF Bounded
  <2> DEFINE m == Len(Transform(s, xs))
             n == Len(Transform(s, ys))
  <2>1. m = IF s.arg < Len(xs) THEN s.arg ELSE Len(xs)
    BY <1>2, <2>0, TakeShape
  <2>2. n = IF s.arg < Len(ys) THEN s.arg ELSE Len(ys)
    BY <1>2, <2>0, TakeShape
  <2>3. \A i \in 1..m : Transform(s, xs)[i] = xs[i]
    BY <1>2, <2>0, TakeShape
  <2>4. \A i \in 1..n : Transform(s, ys)[i] = ys[i]
    BY <1>2, <2>0, TakeShape
  <2>5. m <= n /\ \A i \in 1..m : i \in 1..n /\ i \in 1..Len(xs)
    <3> HIDE DEF m, n
    <3> QED BY <1>0, <2>0, <2>1, <2>2
  <2> QED BY <1>0, <2>3, <2>4, <2>5 DEF Begins
<1>3. CASE s.kind = "Unzip"
  <2>1. \A k \in 1..(2 * Len(xs)) :
          /\ (k + 1) \div 2 \in 1..Len(xs)
          /\ Transform(s, xs)[k] = xs[(k + 1) \div 2][IF k % 2 = 1 THEN 1 ELSE 2]
    BY <1>3, UnzipShape
  <2>2. \A k \in 1..(2 * Len(ys)) :
          Transform(s, ys)[k] = ys[(k + 1) \div 2][IF k % 2 = 1 THEN 1 ELSE 2]
    BY <1>3, UnzipShape
  <2>3. Len(Transform(s, xs)) = 2 * Len(xs) /\ Len(Transform(s, ys)) = 2 * Len(ys)
    BY <1>3, UnzipShape
  <2>4. 2 * Len(xs) <= 2 * Len(ys) /\ \A k \in 1..(2 * Len(xs)) : k \in 1..(2 * Len(ys))
    BY <1>0
  <2>5. ASSUME NEW k \in 1..(2 * Len(xs)) PROVE Transform(s, xs)[k] = Transform(s, ys)[k]
    <3>1. PICK j : j = (k + 1) \div 2
      OBVIOUS
    <3>2. j \in 1..Len(xs) /\ xs[j] = ys[j]
      BY <1>0, <2>1, <3>1
    <3> QED BY <2>1, <2>2, <2>4, <3>1, <3>2
  <2> QED BY <2>3, <2>4, <2>5 DEF Begins
<1> QED BY <1>1, <1>2, <1>3 DEF OneToOne

\* A Take that has counted more than its maximum ignores what comes.
LEMMA TakeIsFull ==
  ASSUME NEW s, NEW xs, IsSeq(xs), NEW ys, IsSeq(ys), Begins(xs, ys),
         s.kind = "Take", s.arg \in Nat, s.arg <= Len(xs)
  PROVE  Transform(s, xs) = Transform(s, ys)
<1>0. /\ Len(xs) \in Nat /\ Len(ys) \in Nat /\ Len(xs) <= Len(ys)
      /\ \A i \in 1..Len(xs) : xs[i] = ys[i]
  BY SeqLen DEF Begins
<1>1. /\ IsSeq(Transform(s, xs))
      /\ Len(Transform(s, xs)) = IF s.arg < Len(xs) THEN s.arg ELSE Len(xs)
      /\ \A i \in 1..Len(Transform(s, xs)) : Transform(s, xs)[i] = xs[i]
  BY TakeShape
<1>2. /\ IsSeq(Transform(s, ys))
      /\ Len(Transform(s, ys)) = IF s.arg < Len(ys) THEN s.arg ELSE Len(ys)
      /\ \A i \in 1..Len(Transform(s, ys)) : Transform(s, ys)[i] = ys[i]
  BY TakeShape
<1>3. Len(Transform(s, xs)) = s.arg /\ Len(Transform(s, ys)) = s.arg
  BY <1>0, <1>1, <1>2
<1>4. \A i \in 1..s.arg : i \in 1..Len(xs)
  BY <1>0
<1>5. \A i \in 1..s.arg : Transform(s, xs)[i] = Transform(s, ys)[i]
  BY <1>0, <1>1, <1>2, <1>3, <1>4
<1> QED BY <1>1, <1>2, <1>3, <1>5, SeqSame

\* One item more: what on_next passes on.
LEMMA OneToOneAppend ==
  ASSUME NEW s, NEW xs, IsSeq(xs), NEW x, OneToOne(s)
  PROVE  Transform(s, Append(xs, x)) = Append(Transform(s, xs), Made(s, Append(xs, x), Len(xs) + 1))
<1> DEFINE ys == Append(xs, x)
           n  == Len(xs)
<1>0. n \in Nat /\ IsSeq(ys) /\ Len(ys) = n + 1 /\ Begins(xs, ys)
  BY SeqLen, SeqAppend, BeginsAppend
<1> HIDE DEF ys
<1>1. IsSeq(Transform(s, xs)) /\ Len(Transform(s, xs)) = n
  BY OneToOneShape
<1>2. /\ IsSeq(Transform(s, ys)) /\ Len(Transform(s, ys)) = n + 1
      /\ \A i \in 1..(n + 1) : Transform(s, ys)[i] = Made(s, ys, i)
  BY <1>0, OneToOneShape
<1>3. Begins(Transform(s, xs), Transform(s, ys))
  BY <1>0, TransformBegins DEF Bounded, OneToOne
<1>4. \A i \in 1..n : Transform(s, ys)[i] = Transform(s, xs)[i]
  BY <1>1, <1>3 DEF Begins
<1>5. n + 1 \in 1..(n + 1)
  BY <1>0
<1>6. Transform(s, ys) = Append(Transform(s, xs), Transform(s, ys)[n + 1])
  <2>1. PICK a, b : a = Transform(s, xs) /\ b = Transform(s, ys)
    OBVIOUS
  <2>2. b = Append(a, b[Len(a) + 1])
    BY <1>1, <1>2, <1>4, <2>1, OneMore
  <2> QED BY <1>1, <2>1, <2>2
<1> QED BY <1>2, <1>5, <1>6 DEF ys

\* The state of Reduce after one more item, and what it made of it.
LEMMA FoldedAppend ==
  ASSUME NEW f, NEW v, NEW xs, IsSeq(xs), NEW x
  PROVE  LET ys == Append(xs, x)
             n  == Len(xs)
             r  == Apply(f, <<Folded(f, v, xs)[n], x>>)
         IN  Folded(f, v, ys)[n] = Folded(f, v, xs)[n] /\ Folded(f, v, ys)[n + 1] = r[1]
<1> DEFINE ys == Append(xs, x)
           n  == Len(xs)
<1>0. n \in Nat /\ IsSeq(ys) /\ Len(ys) = n + 1 /\ Begins(xs, ys) /\ ys[n + 1] = x
  BY SeqLen, SeqAppend, BeginsAppend
<1> HIDE DEF ys
<1>1. \A i \in 0..n : Folded(f, v, xs)[i] = Folded(f, v, ys)[i]
  BY <1>0, FoldedBegins
<1>2. n \in 0..n /\ n + 1 \in 1..(n + 1) /\ (n + 1) - 1 = n
  BY <1>0
<1>3. Folded(f, v, ys)[n + 1] = Apply(f, <<Folded(f, v, ys)[(n + 1) - 1], ys[n + 1]>>)[1]
  BY <1>0, <1>2, FoldedDef
<1> QED BY <1>0, <1>1, <1>2, <1>3 DEF ys

\* One more item for a Take.
LEMMA TakeAppend ==
  ASSUME NEW s, NEW xs, IsSeq(xs), NEW x, s.kind = "Take", s.arg \in Nat
  PROVE  Transform(s, Append(xs, x)) =
           IF Len(xs) + 1 > s.arg THEN Transform(s, xs) ELSE Append(Transform(s, xs), x)
<1> DEFINE ys == Append(xs, x)
           n  == Len(xs)
<1>0. /\ n \in Nat /\ IsSeq(ys) /\ Len(ys) = n + 1 /\ Begins(xs, ys)
      /\ \A i \in 1..n : ys[i] = xs[i]
      /\ ys[n + 1] = x
  BY SeqLen, SeqAppend, BeginsAppend
<1> HIDE DEF ys
<1>1. CASE n + 1 > s.arg
  <2>1. s.arg <= n
    BY <1>0, <1>1
  <2>2. Transform(s, xs) = Transform(s, ys)
    BY <1>0, <2>1, TakeIsFull
  <2> QED BY <1>1, <2>2 DEF ys
<1>2. CASE ~(n + 1 > s.arg)
  <2>1. /\ IsSeq(Transform(s, xs)) /\ Len(Transform(s, xs)) = n
        /\ \A i \in 1..n : Transform(s, xs)[i] = xs[i]
    <3>1. (IF s.arg < n THEN s.arg ELSE n) = n
      BY <1>0, <1>2
    <3> QED BY <3>1, TakeShape
  <2>2. /\ IsSeq(Transform(s, ys)) /\ Len(Transform(s, ys)) = n + 1
        /\ \A i \in 1..(n + 1) : Transform(s, ys)[i] = ys[i]
    <3>1. (IF s.arg < n + 1 THEN s.arg ELSE n + 1) = n + 1
      BY <1>0, <1>2
    <3> QED BY <1>0, <3>1, TakeShape
  <2>3. n + 1 \in 1..(n + 1) /\ \A i \in 1..n : i \in 1..(n + 1)
    BY <1>0
  <2>4. PICK a, b : a = Transform(s, xs) /\ b = Transform(s, ys)
    OBVIOUS
  <2>5. b = Append(a, b[Len(a) + 1])
    BY <1>0, <2>1, <2>2, <2>3, <2>4, OneMore
  <2> QED BY <1>0, <1>2, <2>1, <2>2, <2>3, <2>4, <2>5 DEF ys
<1> QED BY <1>1, <1>2

\* One more pair for an Unzip.
LEMMA UnzipAppend ==
  ASSUME NEW s, NEW xs, IsSeq(xs), NEW x, s.kind = "Unzip"
  PROVE  Transform(s, Append(xs, x)) = Append(Append(Transform(s, xs), x[1]), x[2])
<1> DEFINE ys == Append(xs, x)
           n  == Len(xs)
           a  == Transform(s, xs)
           b  == Transform(s, ys)
           c  == Append(a, x[1])
           d  == Append(c, x[2])
<1>0. /\ n \in Nat /\ IsSeq(ys) /\ Len(ys) = n + 1 /\ Begins(xs, ys)
      /\ ys[n + 1] = x
  BY SeqLen, SeqAppend, BeginsAppend
<1> HIDE DEF ys
<1>1. IsSeq(a) /\ Len(a) = 2 * n
  BY UnzipShape
<1>2. /\ IsSeq(b) /\ Len(b) = 2 * (n + 1)
      /\ \A k \in 1..(2 * (n + 1)) : b[k] = ys[(k + 1) \div 2][IF k % 2 = 1 THEN 1 ELSE 2]
  <2>1. PICK m : m = 2 * Len(ys)
    OBVIOUS
  <2>2. /\ IsSeq(b) /\ Len(b) = m
        /\ \A k \in 1..m : b[k] = ys[(k + 1) \div 2][IF k % 2 = 1 THEN 1 ELSE 2]
    <3>1. IsSeq(ys) /\ s.kind = "Unzip"
      BY <1>0
    <3>2. /\ IsSeq(b) /\ Len(b) = 2 * Len(ys)
          /\ \A k \in 1..(2 * Len(ys)) : b[k] = ys[(k + 1) \div 2][IF k % 2 = 1 THEN 1 ELSE 2]
      BY ONLY <3>1, UnzipShape
    <3> HIDE DEF b
    <3> QED BY <2>1, <3>2
  <2>3. m = 2 * (n + 1)
    BY <1>0, <2>1
  <2> QED BY <2>2, <2>3
<1>3. Begins(a, b)
  BY <1>0, TransformBegins DEF Bounded
<1> HIDE DEF a, b
<1>4. /\ IsSeq(c) /\ Len(c) = 2 * n + 1 /\ c[2 * n + 1] = x[1]
      /\ \A i \in 1..(2 * n) : c[i] = a[i]
  BY <1>1, SeqAppend
<1> HIDE DEF c
<1>5. /\ IsSeq(d) /\ Len(d) = 2 * n + 1 + 1 /\ d[2 * n + 1 + 1] = x[2]
      /\ \A i \in 1..(2 * n + 1) : d[i] = c[i]
  BY <1>4, SeqAppend
<1> HIDE DEF d
<1>6. b[2 * n + 1] = x[1] /\ b[2 * n + 2] = x[2]
  <2>1. 2 * n + 1 \in 1..(2 * (n + 1)) /\ 2 * n + 2 \in 1..(2 * (n + 1))
    BY <1>0
  <2>2. (2 * n + 1 + 1) \div 2 = n + 1 /\ (2 * n + 2 + 1) \div 2 = n + 1
    BY <1>0
  <2>3. (2 * n + 1) % 2 = 1 /\ (2 * n + 2) % 2 = 0
    BY <1>0
  <2>4. b[2 * n + 1] = ys[(2 * n + 1 + 1) \div 2][IF (2 * n + 1) % 2 = 1 THEN 1 ELSE 2]
    BY <1>2, <2>1
  <2>5. b[2 * n + 2] = ys[(2 * n + 2 + 1) \div 2][IF (2 * n + 2) % 2 = 1 THEN 1 ELSE 2]
    BY <1>2, <2>1
  <2> QED BY <1>0, <2>2, <2>3, <2>4, <2>5
<1>7. Len(b) = Len(d)
  BY <1>0, <1>2, <1>5
<1>8. ASSUME NEW i \in 1..Len(b) PROVE b[i] = d[i]
  <2>1. i \in 1..(2 * n) \/ i = 2 * n + 1 \/ i = 2 * n + 2
    <3>1. ASSUME NEW m \in Nat, NEW l \in 1..(2 * (m + 1))
          PROVE  l \in 1..(2 * m) \/ l = 2 * m + 1 \/ l = 2 * m + 2
      BY <3>1
    <3>2. i \in 1..(2 * (n + 1))
      BY <1>2
    <3> QED BY <1>0, <3>1, <3>2
  <2>2. CASE i \in 1..(2 * n)
    <3>1. b[i] = a[i]
      BY <1>1, <1>3, <2>2 DEF Begins
    <3>2. i \in 1..(2 * n + 1)
      BY <1>0, <2>2
    <3> QED BY <1>4, <1>5, <2>2, <3>1, <3>2
  <2>3. CASE i = 2 * n + 1
    <3>1. i \in 1..(2 * n + 1)
      BY <1>0, <2>3
    <3> QED BY <1>4, <1>5, <1>6, <2>3, <3>1
  <2>4. CASE i = 2 * n + 2
    <3>1. 2 * n + 1 + 1 = 2 * n + 2
      BY <1>0
    <3> QED BY <1>5, <1>6, <2>4, <3>1
  <2> QED BY <2>1, <2>2, <2>3, <2>4
<1>9. b = d
  BY <1>2, <1>5, <1>7, <1>8, SeqSame
<1> QED BY <1>9 DEF a, b, c, d, ys

-----------------------------------------------------------------------------
(* What a chain makes of its items.                                        *)

\* The stages' bounds are numbers.
IsChain(ch) == Len(ch) \in Nat /\ \A i \in 1..Len(ch) : Bounded(ch[i])

\* The recursion of Given has a solution.
LEMMA GivenDef ==
  ASSUME NEW ch, Len(ch) \in Nat, NEW xs
  PROVE  /\ Given(ch, xs)[0] = xs
         /\ \A i \in 1..Len(ch) : Given(ch, xs)[i] = Transform(ch[i], Given(ch, xs)[i - 1])
<1> DEFINE n == Len(ch)
           Is(g, m) == g = [i \in 0..m |-> IF i = 0 THEN xs ELSE Transform(ch[i], g[i - 1])]
           T == {m \in 0..n : \E g : Is(g, m)}
<1>0. n \in Nat
  OBVIOUS
<1>1. 0 \in T
  <2> DEFINE g == [i \in 0..0 |-> xs]
  <2>1. Is(g, 0)
    OBVIOUS
  <2> HIDE DEF g, Is
  <2> QED BY <1>0, <2>1
<1>2. ASSUME NEW i \in 1..n, i - 1 \in T PROVE i \in T
  <2>1. PICK g : Is(g, i - 1)
    BY <1>2
  <2> DEFINE y == Transform(ch[i], g[i - 1])
             h == [j \in 0..i |-> IF j = i THEN y ELSE g[j]]
  <2>2. ASSUME NEW j \in 0..i
        PROVE  h[j] = IF j = 0 THEN xs ELSE Transform(ch[j], h[j - 1])
    <3>1. CASE j = i
      <4>1. i - 1 \in 0..i /\ i - 1 # i /\ i # 0
        BY <1>0
      <4>2. h[i - 1] = g[i - 1] /\ h[j] = y
        BY <3>1, <4>1
      <4> HIDE DEF h
      <4> QED BY <3>1, <4>1, <4>2
    <3>2. CASE j # i
      <4>1. j \in 0..(i - 1)
        BY <1>0, <3>2
      <4>2. h[j] = g[j]
        BY <3>2
      <4>3. g[j] = IF j = 0 THEN xs ELSE Transform(ch[j], g[j - 1])
        BY <2>1, <4>1
      <4>4. j # 0 => j - 1 \in 0..i /\ j - 1 # i
        BY <1>0, <4>1
      <4>5. j # 0 => h[j - 1] = g[j - 1]
        BY <4>4
      <4> HIDE DEF h
      <4> QED BY <4>2, <4>3, <4>5
    <3> QED BY <3>1, <3>2
  <2>3. Is(h, i)
    BY ONLY <2>2
  <2> HIDE DEF h, Is
  <2>4. i \in 0..n
    BY <1>0
  <2> QED BY <2>3, <2>4
<1>3. n \in T
  <2> HIDE DEF T
  <2>1. \A i \in 0..n : i \in T
    BY <1>0, <1>1, <1>2, UpTo
  <2> QED BY <1>0, <2>1
<1> DEFINE F == CHOOSE g : Is(g, n)
<1>4. Given(ch, xs) = F
  BY DEF Given
<1>5. Is(F, n)
  <2>1. \E g : Is(g, n)
    BY <1>3
  <2> HIDE DEF Is
  <2> QED BY <2>1
<1> HIDE DEF F
<1>6. ASSUME NEW i \in 0..n
      PROVE F[i] = IF i = 0 THEN xs ELSE Transform(ch[i], F[i - 1])
  BY ONLY <1>5, <1>6
<1>7. 0 \in 0..n /\ \A i \in 1..n : i \in 0..n /\ i # 0
  BY <1>0
<1> QED BY <1>4, <1>6, <1>7

\* A chain keeps the prefix order: with more input every stage is given the
\* same items first.
LEMMA GivenBegins ==
  ASSUME NEW ch, IsChain(ch), NEW xs, IsSeq(xs), NEW ys, IsSeq(ys), Begins(xs, ys)
  PROVE  \A i \in 0..Len(ch) : /\ IsSeq(Given(ch, xs)[i]) /\ IsSeq(Given(ch, ys)[i])
                               /\ Begins(Given(ch, xs)[i], Given(ch, ys)[i])
<1> DEFINE n == Len(ch)
           F == Given(ch, xs)
           G == Given(ch, ys)
           T == {i \in 0..n : IsSeq(F[i]) /\ IsSeq(G[i]) /\ Begins(F[i], G[i])}
<1>0. n \in Nat /\ \A i \in 1..n : Bounded(ch[i])
  BY DEF IsChain
<1>1. F[0] = xs /\ \A i \in 1..n : F[i] = Transform(ch[i], F[i - 1])
  BY <1>0, GivenDef
<1>2. G[0] = ys /\ \A i \in 1..n : G[i] = Transform(ch[i], G[i - 1])
  BY <1>0, GivenDef
<1> HIDE DEF F, G, n
<1>3. 0 \in T
  BY <1>0, <1>1, <1>2
<1>4. ASSUME NEW i \in 1..n, i - 1 \in T PROVE i \in T
  <2>1. PICK a, b, s : a = F[i - 1] /\ b = G[i - 1] /\ s = ch[i]
    OBVIOUS
  <2>2. IsSeq(a) /\ IsSeq(b) /\ Begins(a, b) /\ Bounded(s)
    BY <1>0, <1>4, <2>1
  <2>3. /\ IsSeq(Transform(s, a)) /\ IsSeq(Transform(s, b))
        /\ Begins(Transform(s, a), Transform(s, b))
    BY <2>2, TransformSeq, TransformBegins
  <2>4. F[i] = Transform(s, a) /\ G[i] = Transform(s, b) /\ i \in 0..n
    BY <1>0, <1>1, <1>2, <2>1
  <2> QED BY <2>3, <2>4
<1>5. \A i \in 0..n : i \in T
  <2> HIDE DEF T
  <2> QED BY <1>0, <1>3, <1>4, UpTo
<1>6. \A i \in 0..n : IsSeq(F[i]) /\ IsSeq(G[i]) /\ Begins(F[i], G[i])
  BY <1>5
<1> QED BY <1>6 DEF F, G, n

\* Below a Take that was given as many items as it lets pass, more input
\* changes nothing.
LEMMA GivenCut ==
  ASSUME NEW ch, IsChain(ch), NEW xs, IsSeq(xs), NEW ys, IsSeq(ys), Begins(xs, ys),
         NEW j \in 1..Len(ch), ch[j].kind = "Take", ch[j].arg <= Len(Given(ch, xs)[j - 1])
  PROVE  \A i \in j..Len(ch) : Given(ch, xs)[i] = Given(ch, ys)[i]
<1> DEFINE n == Len(ch)
           F == Given(ch, xs)
           G == Given(ch, ys)
           T == {i \in 0..n : i >= j => F[i] = G[i]}
<1>0. n \in Nat /\ \A i \in 1..n : Bounded(ch[i])
  BY DEF IsChain
<1>1. \A i \in 1..n : F[i] = Transform(ch[i], F[i - 1])
  BY <1>0, GivenDef
<1>2. \A i \in 1..n : G[i] = Transform(ch[i], G[i - 1])
  BY <1>0, GivenDef
<1>3. \A i \in 0..n : IsSeq(F[i]) /\ IsSeq(G[i]) /\ Begins(F[i], G[i])
  BY GivenBegins
<1>4. ch[j].arg <= Len(F[j - 1])
  OBVIOUS
<1> HIDE DEF F, G, n
<1>5. 0 \in T
  BY <1>0 DEF n
<1>6. F[j] = G[j]
  <2>1. PICK a, b, s : a = F[j - 1] /\ b = G[j - 1] /\ s = ch[j]
    OBVIOUS
  <2>2. j \in 1..n /\ j - 1 \in 0..n
    BY <1>0 DEF n
  <2>3. IsSeq(a) /\ IsSeq(b) /\ Begins(a, b) /\ s.kind = "Take" /\ s.arg \in Nat /\ s.arg <= Len(a)
    BY <1>0, <1>3, <1>4, <2>1, <2>2 DEF Bounded
  <2>4. Transform(s, a) = Transform(s, b)
    BY <2>3, TakeIsFull
  <2> QED BY <1>1, <1>2, <2>1, <2>2, <2>4
<1>7. ASSUME NEW i \in 1..n, i - 1 \in T PROVE i \in T
  <2>1. i \in 0..n
    BY <1>0
  <2>2. CASE i <= j
    <3>1. i >= j => i = j
      BY <1>0, <2>2
    <3> QED BY <1>6, <2>1, <3>1
  <2>3. CASE ~(i <= j)
    <3>1. i - 1 >= j
      BY <1>0, <2>3
    <3>2. F[i - 1] = G[i - 1]
      BY <1>7, <3>1
    <3>3. F[i] = G[i]
      BY <1>1, <1>2, <3>2
    <3> QED BY <2>1, <3>3
  <2> QED BY <2>2, <2>3
<1>8. \A i \in 0..n : i \in T
  <2> HIDE DEF T
  <2> QED BY <1>0, <1>5, <1>7, UpTo
<1>9. \A i \in j..n : i \in 0..n /\ i >= j
  BY <1>0 DEF n
<1>10. \A i \in j..n : F[i] = G[i]
  BY <1>8, <1>9
<1> QED BY <1>10 DEF F, G, n

\* h[1] to h[m] are what the stages of ch have been given, and each has kept up.
KeepsUp(ch, xs, h, m) ==
  h[1] = xs /\ \A i \in 1..(m - 1) : h[i + 1] = Transform(ch[i], h[i])

\* Such histories are those of Given.
LEMMA GivenUnique ==
  ASSUME NEW ch, Len(ch) \in Nat, NEW xs, NEW h, NEW m \in 1..Len(ch), KeepsUp(ch, xs, h, m)
  PROVE  \A i \in 1..m : h[i] = Given(ch, xs)[i - 1]
<1> DEFINE n == Len(ch)
           F == Given(ch, xs)
           T == {i \in 0..(m - 1) : h[i + 1] = F[i]}
<1>0. n \in Nat /\ m \in 1..n /\ m - 1 \in Nat
  OBVIOUS
<1>1. F[0] = xs /\ \A i \in 1..n : F[i] = Transform(ch[i], F[i - 1])
  BY <1>0, GivenDef
<1> HIDE DEF F, n
<1>2. 0 \in T
  BY <1>0, <1>1 DEF KeepsUp
<1>3. ASSUME NEW i \in 1..(m - 1), i - 1 \in T PROVE i \in T
  <2>1. i \in 0..(m - 1) /\ i \in 1..n /\ (i - 1) + 1 = i
    BY <1>0
  <2>2. h[i] = F[i - 1]
    BY <1>3, <2>1
  <2>3. h[i + 1] = F[i]
    BY <1>1, <2>1, <2>2 DEF KeepsUp
  <2> QED BY <2>1, <2>3
<1>4. \A i \in 0..(m - 1) : i \in T
  <2> HIDE DEF T
  <2> QED BY <1>0, <1>2, <1>3, UpTo
<1>5. ASSUME NEW i \in 1..m PROVE h[i] = F[i - 1]
  <2>1. i - 1 \in 0..(m - 1) /\ (i - 1) + 1 = i
    BY <1>0
  <2>2. h[(i - 1) + 1] = F[i - 1]
    BY <1>4, <2>1
  <2> QED BY <2>1, <2>2
<1> QED BY <1>5 DEF F

-----------------------------------------------------------------------------
(* The histories of the stages.  h[i] is the sequence of items whose        *)
(* on_next stage i has executed.                                            *)

\* An item is on its way into stage i; the Unzip in stage i still has its second
\* call to make.
Entering(t, i) == pc[t] = "on_next" /\ at[t] = i
Half(t, i)     == \E k \in 1..Len(stack[t]) : stack[t][k].at = i /\ stack[t][k].calls = 1

\* What the stages above i have made so far, and what of it i has handled or is
\* about to be given.
Supplied(t, h, i) == IF i = 1 THEN pulled[t] ELSE Transform(Chain(t)[i - 1], h[i - 1])
Entered(t, h, i)  == IF Entering(t, i) THEN Append(h[i], item[t]) ELSE h[i]
Due(t, h, i)      == IF Half(t, i - 1) THEN Append(Entered(t, h, i), mem[t][i - 1])
                                       ELSE Entered(t, h, i)

\* The memory of a stage is a function of its history.
Kept(t, h, i) ==
  LET s == Chain(t)[i] IN
  /\ s.kind \in {"Take", "Enumerate"} => mem[t][i] = Len(h[i])
  /\ s.kind = "Reduce" => mem[t][i] = Folded(s.arg, s.init, h[i])[Len(h[i])]

\* No item is lost, doubled or overtaken between two stages.
TraceOK(t, h) ==
  /\ \A i \in 1..Depth(t) : IsSeq(h[i]) /\ Supplied(t, h, i) = Due(t, h, i) /\ Kept(t, h, i)
  /\ seen[t] = h[Depth(t)]

\* The history after stage k has executed on_next(x).
Grow(h, n, k, x) == [i \in 1..n |-> IF i = k THEN Append(h[k], x) ELSE h[i]]

\* The bounds of the chain's stages are numbers.
LEMMA ChainOK ==
  ASSUME TypeOK, NEW t \in Thread
  PROVE  IsChain(Chain(t))
<1>1. IsWiring(wiring)
  BY WiringAssumption DEF TypeOK
<1>2. /\ Depth(t) \in Nat
      /\ \A i \in 1..Depth(t) : IsStage(Chain(t)[i])
  BY <1>1 DEF IsWiring
<1> QED BY <1>2 DEF IsChain, Bounded, IsStage

\* Steps that hand no item to the on_next of a stage.
LEMMA TraceKeep ==
  ASSUME NEW t \in Thread, NEW h, TraceOK(t, h), UNCHANGED wiring,
         mem'[t] = mem[t], pulled'[t] = pulled[t], seen'[t] = seen[t],
         \A i \in 1..Depth(t) : Due(t, h, i)' = Due(t, h, i)
  PROVE  TraceOK(t, h)'
<1>1. \A i \in 1..Depth(t) : Supplied(t, h, i)' = Supplied(t, h, i)
  BY DEF Supplied
<1>2. \A i \in 1..Depth(t) : Kept(t, h, i)' <=> Kept(t, h, i)
  BY DEF Kept
<1> QED BY <1>1, <1>2 DEF TraceOK

\* If no on_next begins or ends and no Unzip goes on, the same is due.
LEMMA DueKeep ==
  ASSUME NEW t \in Thread, NEW h, NEW i, UNCHANGED wiring, mem'[t] = mem[t],
         stack'[t] = stack[t],
         \/ pc[t] # "on_next" /\ pc'[t] # "on_next"
         \/ pc'[t] = pc[t] /\ at'[t] = at[t] /\ item'[t] = item[t]
  PROVE  Due(t, h, i)' = Due(t, h, i)
<1>1. Half(t, i - 1)' <=> Half(t, i - 1)
  BY DEF Half
<1>2. Entered(t, h, i)' = Entered(t, h, i)
  BY DEF Entered, Entering
<1> QED BY <1>1, <1>2 DEF Due

\* next() gives the first stage an item.
LEMMA TracePush ==
  ASSUME Inv, HistoryOK, DOMAIN item = Thread, NEW t \in Thread, NEW h, TraceOK(t, h),
         HasSink(t), pc[t] = "idle", NEW x, Push(t, x),
         UNCHANGED <<wiring, stack, mem, seen>>
  PROVE  TraceOK(t, h)'
<1>0. /\ pc'[t] = "on_next" /\ at'[t] = 1 /\ item'[t] = x
      /\ pulled'[t] = Append(pulled[t], x)
  BY DEF Push, Call, Inv, TypeOK, HistoryOK
<1>1. stack[t] = <<>> /\ Depth(t) \in Nat
  BY WiringDepth DEF Inv, StackOK
<1>2. \A i : ~Half(t, i) /\ ~Half(t, i)'
  <2>1. Len(stack[t]) = 0 /\ Len(stack'[t]) = 0
    BY <1>1
  <2> QED BY <2>1 DEF Half
<1>3. ASSUME NEW i \in 1..Depth(t)
      PROVE  Supplied(t, h, i)' = Due(t, h, i)' /\ (Kept(t, h, i)' <=> Kept(t, h, i))
  <2>1. Supplied(t, h, i) = h[i]
    BY <1>2 DEF TraceOK, Due, Entered, Entering
  <2>2. Kept(t, h, i)' <=> Kept(t, h, i)
    BY DEF Kept
  <2>3. Due(t, h, i)' = IF i = 1 THEN Append(h[i], x) ELSE h[i]
    BY <1>0, <1>2 DEF Due, Entered, Entering
  <2>4. Supplied(t, h, i)' = IF i = 1 THEN Append(h[i], x) ELSE h[i]
    BY <1>0, <2>1 DEF Supplied
  <2> QED BY <2>2, <2>3, <2>4
<1> QED BY <1>3 DEF TraceOK

\* What the lemmas below are about: t executes the on_next of its stage, with the
\* histories h before it and g after it.
Executes(t, h, g) ==
  /\ Inv /\ HistoryOK /\ DOMAIN item = Thread
  /\ TraceOK(t, h) /\ HasSink(t)
  /\ pc[t] = "on_next" /\ OnNextStep(t) /\ ~UnzipResume(t) /\ UNCHANGED wiring
  /\ g = Grow(h, Depth(t), at[t], item[t])

\* The running stage's history grows by the item, the others stay.
LEMMA GrowFacts ==
  ASSUME NEW t \in Thread, NEW h, NEW g, Executes(t, h, g)
  PROVE  /\ Depth(t) \in Nat /\ at[t] \in 1..Depth(t)
         /\ IsSeq(h[at[t]]) /\ g[at[t]] = Append(h[at[t]], item[t])
         /\ Len(h[at[t]]) \in Nat /\ Len(g[at[t]]) = Len(h[at[t]]) + 1
         /\ \A i \in 1..Depth(t) : IsSeq(g[i]) /\ (i # at[t] => g[i] = h[i])
<1>1. Depth(t) \in Nat /\ at[t] \in 1..Depth(t)
  BY WiringDepth DEF Executes, Inv, TypeOK
<1>2. \A i \in 1..Depth(t) : IsSeq(h[i])
  BY DEF Executes, TraceOK
<1>3. \A i \in 1..Depth(t) : g[i] = IF i = at[t] THEN Append(h[at[t]], item[t]) ELSE h[i]
  BY DEF Executes, Grow
<1>4. IsSeq(Append(h[at[t]], item[t])) /\ Len(Append(h[at[t]], item[t])) = Len(h[at[t]]) + 1
  <2>1. PICK s, x : s = h[at[t]] /\ x = item[t]
    OBVIOUS
  <2>2. IsSeq(s)
    BY <1>1, <1>2, <2>1
  <2>3. IsSeq(Append(s, x)) /\ Len(Append(s, x)) = Len(s) + 1
    BY <2>2, SeqAppend
  <2> QED BY <2>1, <2>3
<1>5. Len(h[at[t]]) \in Nat
  BY <1>1, <1>2, SeqLen
<1> QED BY <1>1, <1>2, <1>3, <1>4, <1>5

\* No frame of an Unzip at or below the running stage.
LEMMA NoneBelow ==
  ASSUME Inv, NEW t \in Thread, NEW i, i \in Nat, i >= at[t]
  PROVE  ~Half(t, i)
<1>1. stack[t] \in Seq(Frame) /\ at[t] \in Nat /\ Above(stack[t], at[t])
  BY DEF Inv, TypeOK, StackOK
<1>2. ASSUME NEW k \in 1..Len(stack[t]) PROVE stack[t][k].at # i
  <2>1. stack[t][k].at \in Nat /\ stack[t][k].at < at[t]
    BY <1>1, FrameAt DEF Above
  <2> QED BY <1>1, <2>1
<1> QED BY <1>2 DEF Half

\* on_next leaves the frames of the other stages alone.
LEMMA HalfElsewhere ==
  ASSUME NEW t \in Thread, NEW h, NEW g, Executes(t, h, g), NEW i, i # at[t]
  PROVE  Half(t, i)' <=> Half(t, i)
<1> DEFINE f == [at |-> at[t], calls |-> 1, acc |-> FALSE]
<1>0. stack[t] \in Seq(Frame) /\ at[t] \in Nat /\ Len(stack[t]) \in Nat
  BY DEF Executes, Inv, TypeOK
<1>1. stack'[t] = stack[t] \/ stack'[t] = Append(stack[t], f)
  BY OnNextKeeps DEF Executes
<1>2. CASE stack'[t] = stack[t]
  BY <1>2 DEF Half
<1>3. CASE stack'[t] = Append(stack[t], f)
  <2>1. f \in Frame /\ f.at = at[t]
    BY <1>0 DEF Frame
  <2> HIDE DEF f
  <2>2. /\ Len(stack'[t]) = Len(stack[t]) + 1
        /\ \A k \in 1..Len(stack[t]) : stack'[t][k] = stack[t][k]
        /\ stack'[t][Len(stack[t]) + 1] = f
    BY <1>0, <1>3, <2>1, AppendProperties
  <2>3. \A k \in 1..Len(stack'[t]) : k \in 1..Len(stack[t]) \/ stack'[t][k] = f
    BY <1>0, <2>2
  <2>4. \A k \in 1..Len(stack[t]) : k \in 1..Len(stack'[t])
    BY <1>0, <2>2
  <2>5. Half(t, i)' => Half(t, i)
    BY <2>1, <2>2, <2>3 DEF Half
  <2>6. Half(t, i) => Half(t, i)'
    BY <2>2, <2>4 DEF Half
  <2> QED BY <2>5, <2>6
<1> QED BY <1>1, <1>2, <1>3

\* All but the stage below is as due.
LEMMA TraceElsewhere ==
  ASSUME NEW t \in Thread, NEW h, NEW g, Executes(t, h, g), NEW i \in 1..Depth(t)
  PROVE  /\ i # at[t] + 1 => Supplied(t, g, i)' = Due(t, g, i)'
         /\ i # at[t] => Kept(t, g, i)'
<1>0. /\ Depth(t) \in Nat /\ at[t] \in 1..Depth(t)
      /\ g[at[t]] = Append(h[at[t]], item[t])
      /\ \A j \in 1..Depth(t) : j # at[t] => g[j] = h[j]
  BY GrowFacts
<1>1. /\ pulled' = pulled
      /\ \A j \in 1..Depth(t) : j # at[t] => mem'[t][j] = mem[t][j]
      /\ pc'[t] = "on_next" => at'[t] = at[t] + 1
  BY OnNextKeeps DEF Executes
<1>2. wiring' = wiring /\ pc[t] = "on_next" /\ Supplied(t, h, i) = Due(t, h, i) /\ Kept(t, h, i)
  BY DEF Executes, TraceOK
<1>3. ASSUME i # at[t] + 1 PROVE Supplied(t, g, i)' = Due(t, g, i)'
  <2>1. i - 1 # at[t] /\ (i # 1 => i - 1 \in 1..Depth(t))
    BY <1>0, <1>3
  <2>2. Half(t, i - 1)' <=> Half(t, i - 1)
    BY <2>1, HalfElsewhere
  <2>3. Half(t, i - 1) => mem'[t][i - 1] = mem[t][i - 1]
    <3>1. CASE i = 1
      <4>1. stack[t] \in Seq(Frame) /\ Nested(stack[t], Chain(t))
        BY DEF Executes, Inv, TypeOK, StackOK
      <4>2. \A k \in 1..Len(stack[t]) : stack[t][k].at \in 1..(Depth(t) - 1)
        BY <4>1 DEF Nested
      <4> QED BY <1>0, <3>1, <4>2 DEF Half
    <3> QED BY <1>1, <2>1, <3>1
  <2>4. Entered(t, g, i)' = Entered(t, h, i)
    <3>1. ~Entering(t, i)'
      BY <1>1, <1>3 DEF Entering
    <3>2. Entered(t, g, i)' = g[i]
      BY <3>1 DEF Entered
    <3>3. Entered(t, h, i) = g[i]
      BY <1>0, <1>2 DEF Entered, Entering
    <3> QED BY <3>2, <3>3
  <2>5. Due(t, g, i)' = Due(t, h, i)
    BY <2>2, <2>3, <2>4 DEF Due
  <2>6. Supplied(t, g, i)' = Supplied(t, h, i)
    BY <1>0, <1>1, <1>2, <2>1 DEF Supplied
  <2> QED BY <1>2, <2>5, <2>6
<1>4. ASSUME i # at[t] PROVE Kept(t, g, i)'
  <2>1. mem'[t][i] = mem[t][i] /\ g[i] = h[i]
    BY <1>0, <1>1, <1>4
  <2> QED BY <1>2, <2>1 DEF Kept
<1> QED BY <1>3, <1>4

\* Before a stage's on_next the stage below has handled all it made.
LEMMA CaughtUp ==
  ASSUME NEW t \in Thread, NEW h, NEW g, Executes(t, h, g), NEW k, k = at[t] + 1, at[t] # Depth(t)
  PROVE  /\ k \in 1..Depth(t) /\ k - 1 = at[t]
         /\ Transform(Stage(t), h[at[t]]) = h[k]
         /\ g[k] = h[k]
         /\ Supplied(t, g, k)' = Transform(Stage(t), Append(h[at[t]], item[t]))
<1>0. /\ Depth(t) \in Nat /\ at[t] \in 1..Depth(t)
      /\ g[at[t]] = Append(h[at[t]], item[t])
      /\ \A j \in 1..Depth(t) : j # at[t] => g[j] = h[j]
  BY GrowFacts
<1>1. /\ k \in 1..Depth(t) /\ k # at[t] /\ k # 1
      /\ k - 1 = at[t]
  BY <1>0
<1>2. ~Half(t, at[t])
  BY <1>0, NoneBelow DEF Executes
<1>3. Due(t, h, k) = h[k]
  BY <1>1, <1>2 DEF Due, Entered, Entering
<1>4. Supplied(t, h, k) = Transform(Stage(t), h[at[t]])
  BY <1>1 DEF Supplied
<1>5. Supplied(t, h, k) = Due(t, h, k) /\ wiring' = wiring
  BY <1>1 DEF Executes, TraceOK
<1>6. Supplied(t, g, k)' = Transform(Stage(t), g[at[t]])
  BY <1>1, <1>5 DEF Supplied
<1> QED BY <1>0, <1>1, <1>3, <1>4, <1>5, <1>6

\* A call of the next stage's on_next.
LEMMA ForwardCalls ==
  ASSUME Inv, DOMAIN item = Thread, NEW t \in Thread, NEW x, Forward(t, x), HasSubscriber(t)
  PROVE  pc'[t] = "on_next" /\ at'[t] = at[t] + 1 /\ item'[t] = x
  BY DEF Forward, Call, Inv, TypeOK

\* DoDebug, DebugWhile, Do, Map, MapVal1, Reduce, Enumerate and Tee pass one item
\* on, the one the definition of Transform asks for.
LEMMA OneToOneStep ==
  ASSUME NEW t \in Thread, NEW h, NEW g, Executes(t, h, g), NEW j, j = at[t], j # Depth(t),
         OneToOne(Stage(t))
  PROVE  /\ pc'[t] = "on_next" /\ at'[t] = j + 1 /\ stack'[t] = stack[t]
         /\ item'[t] = Made(Stage(t), Append(h[j], item[t]), Len(h[j]) + 1)
         /\ Kept(t, g, j)'
<1> DEFINE n == Len(h[j])
           a == Append(h[j], item[t])
           s == Stage(t)
<1>0. Inv /\ HistoryOK /\ DOMAIN item = Thread /\ wiring' = wiring /\ pc[t] = "on_next"
      /\ OnNextStep(t) /\ ~UnzipResume(t)
  BY DEF Executes
<1>1. /\ Depth(t) \in Nat /\ j \in 1..Depth(t) /\ j \in Nat /\ HasSubscriber(t) /\ s.kind \in ProcessorKind
  <2>1. Depth(t) \in Nat /\ j \in 1..Depth(t) /\ s.kind \in ProcessorKind
    BY <1>0, StageOK
  <2> QED BY <2>1 DEF HasSubscriber
<1>2. IsSeq(h[j]) /\ n \in Nat /\ g[j] = a /\ Len(a) = n + 1
  BY GrowFacts
<1>3. a[n + 1] = item[t]
  <2>1. PICK q, x : q = h[j] /\ x = item[t]
    OBVIOUS
  <2>2. Append(q, x)[Len(q) + 1] = x
    BY <1>2, <2>1, SeqAppend
  <2> QED BY <2>1, <2>2
<1>4. Kept(t, h, j)
  BY <1>1 DEF Executes, TraceOK
<1>5. DOMAIN mem = Thread /\ DOMAIN mem[t] = 1..Depth(t)
  BY <1>0 DEF HistoryOK
<1>6. stack'[t] = stack[t]
  BY <1>0, OnNextKeeps DEF OneToOne
<1>7. ASSUME NEW x, Forward(t, x) PROVE pc'[t] = "on_next" /\ at'[t] = j + 1 /\ item'[t] = x
  BY <1>0, <1>1, <1>7, ForwardCalls
<1> HIDE DEF a, n
<1>8. CASE s.kind \in {"DoDebug", "DebugWhile", "Do", "Tee"}
  <2>1. Forward(t, item[t])
    BY <1>0, <1>8 DEF OnNextStep, DoOnNext, MapOnNext, MapVal1OnNext, ReduceOnNext, EnumerateOnNext,
       TeeOnNext, UnzipOnNext, TakeOnNext, SinkOnNext, DecouplerOnNext, Running
  <2>2. Made(s, a, n + 1) = item[t]
    BY <1>3, <1>8 DEF Made
  <2>3. Kept(t, g, j)'
    BY <1>0, <1>8 DEF Kept
  <2> QED BY <1>6, <1>7, <2>1, <2>2, <2>3 DEF a, n
<1>9. CASE s.kind = "Map"
  <2>1. Forward(t, Apply(s.arg, item[t]))
    BY <1>0, <1>9 DEF OnNextStep, DoOnNext, MapOnNext, MapVal1OnNext, ReduceOnNext, EnumerateOnNext,
       TeeOnNext, UnzipOnNext, TakeOnNext, SinkOnNext, DecouplerOnNext, Running
  <2>2. Made(s, a, n + 1) = Apply(s.arg, item[t])
    BY <1>3, <1>9 DEF Made
  <2>3. Kept(t, g, j)'
    BY <1>0, <1>9 DEF Kept
  <2> QED BY <1>6, <1>7, <2>1, <2>2, <2>3 DEF a, n
<1>10. CASE s.kind = "MapVal1"
  <2>1. Forward(t, Apply(s.arg, <<item[t], s.init>>))
    BY <1>0, <1>10 DEF OnNextStep, DoOnNext, MapOnNext, MapVal1OnNext, ReduceOnNext, EnumerateOnNext,
       TeeOnNext, UnzipOnNext, TakeOnNext, SinkOnNext, DecouplerOnNext, Running
  <2>2. Made(s, a, n + 1) = Apply(s.arg, <<item[t], s.init>>)
    BY <1>3, <1>10 DEF Made
  <2>3. Kept(t, g, j)'
    BY <1>0, <1>10 DEF Kept
  <2> QED BY <1>6, <1>7, <2>1, <2>2, <2>3 DEF a, n
<1>11. CASE s.kind = "Enumerate"
  <2>1. EnumerateOnNext(t)
    BY <1>0, <1>11 DEF OnNextStep, DoOnNext, MapOnNext, MapVal1OnNext, ReduceOnNext, EnumerateOnNext,
       TeeOnNext, UnzipOnNext, TakeOnNext, SinkOnNext, DecouplerOnNext, Running
  <2>2. mem[t][j] = n
    BY <1>4, <1>11 DEF Kept, n
  <2>3. Forward(t, <<item[t], n>>) /\ mem'[t][j] = n + 1
    BY <1>1, <1>5, <2>1, <2>2 DEF EnumerateOnNext, SetMem, Mem
  <2>4. Made(s, a, n + 1) = <<item[t], n>>
    <3>1. (n + 1) - 1 = n
      BY <1>2
    <3> QED BY <1>3, <1>11, <3>1 DEF Made
  <2>5. Kept(t, g, j)'
    BY <1>0, <1>2, <1>11, <2>3 DEF Kept
  <2> QED BY <1>6, <1>7, <2>3, <2>4, <2>5 DEF a, n
<1>12. CASE s.kind = "Reduce"
  <2>1. ReduceOnNext(t)
    BY <1>0, <1>12 DEF OnNextStep, DoOnNext, MapOnNext, MapVal1OnNext, ReduceOnNext, EnumerateOnNext,
       TeeOnNext, UnzipOnNext, TakeOnNext, SinkOnNext, DecouplerOnNext, Running
  <2>2. PICK r, f, v, y : f = s.arg /\ v = s.init /\ y = mem[t][j] /\ r = Apply(f, <<y, item[t]>>)
    OBVIOUS
  <2>3. y = Folded(f, v, h[j])[n]
    BY <1>4, <1>12, <2>2 DEF Kept, n
  <2>4. Forward(t, r[2]) /\ mem'[t][j] = r[1]
    BY <1>1, <1>5, <2>1, <2>2 DEF ReduceOnNext, SetMem, Mem
  <2>5. Folded(f, v, a)[n] = y /\ Folded(f, v, a)[n + 1] = r[1]
    <3>1. PICK q, x : q = h[j] /\ x = item[t]
      OBVIOUS
    <3>2. /\ Folded(f, v, Append(q, x))[Len(q)] = Folded(f, v, q)[Len(q)]
          /\ Folded(f, v, Append(q, x))[Len(q) + 1] = Apply(f, <<Folded(f, v, q)[Len(q)], x>>)[1]
      BY <1>2, <3>1, FoldedAppend
    <3> QED BY <2>2, <2>3, <3>1, <3>2 DEF a, n
  <2>6. Made(s, a, n + 1) = r[2]
    <3>1. (n + 1) - 1 = n
      BY <1>2
    <3>2. Made(s, a, n + 1) = Apply(f, <<Folded(f, v, a)[n], item[t]>>)[2]
      BY <1>3, <1>12, <2>2, <3>1 DEF Made
    <3> QED BY <2>2, <2>5, <3>2
  <2>7. Kept(t, g, j)'
    <3>1. mem'[t][j] = Folded(f, v, g[j])[Len(g[j])]
      BY <1>2, <2>4, <2>5
    <3>2. wiring'.chain[t][j].kind = "Reduce" /\ wiring'.chain[t][j].arg = f /\ wiring'.chain[t][j].init = v
      BY <1>0, <1>12, <2>2
    <3> QED BY <3>1, <3>2 DEF Kept
  <2> QED BY <1>6, <1>7, <2>4, <2>6, <2>7 DEF a, n
<1> QED BY <1>1, <1>8, <1>9, <1>10, <1>11, <1>12 DEF ProcessorKind, OneToOne

\* A stage that passes one item on: the stage below has it coming.
LEMMA OneToOneTrace ==
  ASSUME NEW t \in Thread, NEW h, NEW g, Executes(t, h, g), NEW j, j = at[t], j # Depth(t),
         OneToOne(Stage(t)), NEW k, k = j + 1
  PROVE  Supplied(t, g, k)' = Due(t, g, k)'
<1> DEFINE a == Append(h[j], item[t])
<1>0. Inv /\ at[t] \in Nat /\ IsSeq(h[j])
  BY GrowFacts DEF Executes, Inv, TypeOK
<1>1. /\ pc'[t] = "on_next" /\ at'[t] = k /\ stack'[t] = stack[t]
      /\ item'[t] = Made(Stage(t), a, Len(h[j]) + 1)
  BY OneToOneStep
<1>2. /\ k - 1 = j /\ Transform(Stage(t), h[j]) = h[k] /\ g[k] = h[k]
      /\ Supplied(t, g, k)' = Transform(Stage(t), a)
  BY CaughtUp
<1>3. ~Half(t, j)'
  <2>1. ~Half(t, j)
    BY <1>0, NoneBelow
  <2> QED BY <1>1, <2>1 DEF Half
<1>4. Due(t, g, k)' = Append(g[k], item'[t])
  BY <1>1, <1>2, <1>3 DEF Due, Entered, Entering
<1>5. Transform(Stage(t), a) = Append(Transform(Stage(t), h[j]), Made(Stage(t), a, Len(h[j]) + 1))
  <2>1. PICK s, q, x : s = Stage(t) /\ q = h[j] /\ x = item[t]
    OBVIOUS
  <2>2. Transform(s, Append(q, x)) = Append(Transform(s, q), Made(s, Append(q, x), Len(q) + 1))
    BY <1>0, <2>1, OneToOneAppend
  <2> QED BY <2>1, <2>2
<1> QED BY <1>1, <1>2, <1>4, <1>5

\* Take passes an item on or stops.
LEMMA TakeTrace ==
  ASSUME NEW t \in Thread, NEW h, NEW g, Executes(t, h, g), NEW j, j = at[t], j # Depth(t),
         Stage(t).kind = "Take", NEW k, k = j + 1
  PROVE  Supplied(t, g, k)' = Due(t, g, k)' /\ Kept(t, g, j)'
<1> DEFINE n == Len(h[j])
           m == Stage(t).arg
<1>0. Inv /\ HistoryOK /\ DOMAIN item = Thread /\ wiring' = wiring /\ pc[t] = "on_next"
      /\ OnNextStep(t) /\ ~UnzipResume(t) /\ HasSink(t)
  BY DEF Executes
<1>1. /\ Depth(t) \in Nat /\ j \in 1..Depth(t) /\ j \in Nat /\ HasSubscriber(t) /\ m \in Nat
  <2>1. Depth(t) \in Nat /\ j \in 1..Depth(t)
    BY <1>0, StageOK
  <2>2. IsChain(Chain(t))
    BY <1>0, ChainOK DEF Inv
  <2> QED BY <2>1, <2>2 DEF HasSubscriber, IsChain, Bounded
<1>2. IsSeq(h[j]) /\ n \in Nat /\ Len(g[j]) = n + 1
  BY GrowFacts
<1>3. /\ k - 1 = j /\ Transform(Stage(t), h[j]) = h[k] /\ g[k] = h[k]
      /\ Supplied(t, g, k)' = Transform(Stage(t), Append(h[j], item[t]))
  BY CaughtUp
<1>4. Transform(Stage(t), Append(h[j], item[t])) =
        IF n + 1 > m THEN h[k] ELSE Append(h[k], item[t])
  <2>1. PICK s, q, x : s = Stage(t) /\ q = h[j] /\ x = item[t]
    OBVIOUS
  <2>2. Transform(s, Append(q, x)) =
          IF Len(q) + 1 > s.arg THEN Transform(s, q) ELSE Append(Transform(s, q), x)
    <3>1. IsSeq(q) /\ s.kind = "Take" /\ s.arg \in Nat
      BY <1>1, <1>2, <2>1
    <3> QED BY ONLY <3>1, TakeAppend
  <2> QED BY <1>3, <2>1, <2>2
<1>5. mem[t][j] = n
  BY <1>1 DEF Executes, TraceOK, Kept
<1>6. DOMAIN mem = Thread /\ DOMAIN mem[t] = 1..Depth(t)
  BY <1>0 DEF HistoryOK
<1>7. TakeOnNext(t)
  BY <1>0 DEF OnNextStep, DoOnNext, MapOnNext, MapVal1OnNext, ReduceOnNext, EnumerateOnNext,
     TeeOnNext, UnzipOnNext, TakeOnNext, SinkOnNext, DecouplerOnNext, Running
<1>8. /\ mem'[t][j] = n + 1 /\ stack' = stack
      /\ IF n + 1 > m THEN CompleteAndStop(t) ELSE Forward(t, item[t])
  BY <1>1, <1>5, <1>6, <1>7 DEF TakeOnNext, SetMem, Mem, PastMax
<1>9. Kept(t, g, j)'
  BY <1>0, <1>2, <1>8 DEF Kept
<1>10. ~Half(t, j)'
  <2>1. ~Half(t, j)
    BY <1>0, <1>1, NoneBelow
  <2> QED BY <1>8, <2>1 DEF Half
<1> HIDE DEF n, m
<1>11. CASE n + 1 > m
  <2>1. pc'[t] = "return"
    BY <1>0, <1>8, <1>11 DEF CompleteAndStop, Return, Inv, TypeOK
  <2>2. Due(t, g, k)' = g[k]
    BY <1>3, <1>10, <2>1 DEF Due, Entered, Entering
  <2> QED BY <1>3, <1>4, <1>9, <1>11, <2>2
<1>12. CASE ~(n + 1 > m)
  <2>1. pc'[t] = "on_next" /\ at'[t] = k /\ item'[t] = item[t]
    BY <1>0, <1>1, <1>8, <1>12, ForwardCalls
  <2>2. Due(t, g, k)' = Append(g[k], item[t])
    BY <1>3, <1>10, <2>1 DEF Due, Entered, Entering
  <2> QED BY <1>3, <1>4, <1>9, <1>12, <2>2
<1> QED BY <1>11, <1>12

\* Unzip passes one half of the pair on and keeps the other.
LEMMA UnzipTrace ==
  ASSUME NEW t \in Thread, NEW h, NEW g, Executes(t, h, g), NEW j, j = at[t], j # Depth(t),
         Stage(t).kind = "Unzip", NEW k, k = j + 1
  PROVE  Supplied(t, g, k)' = Due(t, g, k)' /\ Kept(t, g, j)'
<1> DEFINE f == [at |-> at[t], calls |-> 1, acc |-> FALSE]
<1>0. Inv /\ HistoryOK /\ DOMAIN item = Thread /\ wiring' = wiring /\ pc[t] = "on_next"
      /\ OnNextStep(t) /\ ~UnzipResume(t)
  BY DEF Executes
<1>1. /\ Depth(t) \in Nat /\ j \in 1..Depth(t) /\ j \in Nat /\ HasSubscriber(t)
  <2>1. Depth(t) \in Nat /\ j \in 1..Depth(t)
    BY <1>0, StageOK
  <2> QED BY <2>1 DEF HasSubscriber
<1>2. IsSeq(h[j])
  BY GrowFacts
<1>3. /\ k - 1 = j /\ Transform(Stage(t), h[j]) = h[k] /\ g[k] = h[k]
      /\ Supplied(t, g, k)' = Transform(Stage(t), Append(h[j], item[t]))
  BY CaughtUp
<1>4. Transform(Stage(t), Append(h[j], item[t])) = Append(Append(h[k], item[t][1]), item[t][2])
  <2>1. PICK s, q, x : s = Stage(t) /\ q = h[j] /\ x = item[t]
    OBVIOUS
  <2>2. Transform(s, Append(q, x)) = Append(Append(Transform(s, q), x[1]), x[2])
    <3>1. IsSeq(q) /\ s.kind = "Unzip"
      BY <1>2, <2>1
    <3> QED BY ONLY <3>1, UnzipAppend
  <2> QED BY <1>3, <2>1, <2>2
<1>5. DOMAIN mem = Thread /\ DOMAIN mem[t] = 1..Depth(t)
  BY <1>0 DEF HistoryOK
<1>6. UnzipOnNext(t)
  BY <1>0 DEF OnNextStep, DoOnNext, MapOnNext, MapVal1OnNext, ReduceOnNext, EnumerateOnNext,
     TeeOnNext, UnzipOnNext, TakeOnNext, SinkOnNext, DecouplerOnNext, Running
<1>7. stack \in [Thread -> Seq(Frame)] /\ at[t] \in Nat
  BY <1>0 DEF Inv, TypeOK
<1>8. mem'[t][j] = item[t][2] /\ stack'[t] = Append(stack[t], f) /\ Forward(t, item[t][1])
  BY <1>1, <1>5, <1>6, <1>7 DEF UnzipOnNext, SetMem
<1>9. Kept(t, g, j)'
  BY <1>0 DEF Kept
<1>10. Half(t, j)'
  <2>1. f \in Frame /\ f.at = j /\ f.calls = 1
    BY <1>7 DEF Frame
  <2> HIDE DEF f
  <2>2. /\ Len(stack[t]) \in Nat /\ Len(stack'[t]) = Len(stack[t]) + 1
        /\ stack'[t][Len(stack[t]) + 1] = f
    BY <1>7, <1>8, <2>1, AppendProperties
  <2>3. Len(stack[t]) + 1 \in 1..Len(stack'[t])
    BY <2>2
  <2> QED BY <2>1, <2>2, <2>3 DEF Half
<1>11. pc'[t] = "on_next" /\ at'[t] = k /\ item'[t] = item[t][1]
  <2>1. PICK x : x = item[t][1]
    OBVIOUS
  <2> QED BY <1>0, <1>1, <1>8, <2>1, ForwardCalls
<1>12. Due(t, g, k)' = Append(Append(g[k], item[t][1]), item[t][2])
  BY <1>3, <1>8, <1>10, <1>11 DEF Due, Entered, Entering
<1> QED BY <1>3, <1>4, <1>9, <1>12

\* The sink executes on_next.
LEMMA SinkSees ==
  ASSUME SeenOK, NEW t \in Thread, NEW h, NEW g, Executes(t, h, g), NEW j, j = at[t], j = Depth(t)
  PROVE  /\ seen'[t] = Append(seen[t], item[t]) /\ Stage(t).kind \in SinkKind
         /\ pc'[t] = "return" /\ stack' = stack
         /\ Kept(t, g, j)'
<1>0. Inv /\ wiring' = wiring /\ pc[t] = "on_next" /\ OnNextStep(t) /\ ~UnzipResume(t)
  BY DEF Executes
<1>1. Stage(t).kind \in SinkKind
  BY DEF Executes, HasSink
<1>2. SinkOnNext(t) \/ DecouplerOnNext(t)
  BY <1>0, <1>1 DEF OnNextStep, DoOnNext, MapOnNext, MapVal1OnNext, ReduceOnNext, EnumerateOnNext,
     TeeOnNext, UnzipOnNext, TakeOnNext, SinkOnNext, DecouplerOnNext, Running, SinkKind
<1>3. seen' = [seen EXCEPT ![t] = Append(@, item[t])] /\ \E r : Return(t, r)
  BY <1>2 DEF SinkOnNext, DecouplerOnNext, Receive
<1>4. stack' = stack
  BY <1>2 DEF SinkOnNext, DecouplerOnNext
<1>5. pc \in [Thread -> PC] /\ DOMAIN seen = Thread
  BY <1>0 DEF Inv, TypeOK, SeenOK
<1>6. pc'[t] = "return" /\ seen'[t] = Append(seen[t], item[t])
  BY <1>3, <1>5 DEF Return
<1>7. Kept(t, g, j)'
  BY <1>0, <1>1 DEF Kept, SinkKind
<1> QED BY <1>1, <1>4, <1>6, <1>7

\* Every on_next keeps the books.
LEMMA OnNextTrace ==
  ASSUME SeenOK, NEW t \in Thread, NEW h, NEW g, Executes(t, h, g)
  PROVE  TraceOK(t, g)'
<1>0. /\ Inv /\ HistoryOK /\ wiring' = wiring /\ pc[t] = "on_next" /\ HasSink(t)
      /\ OnNextStep(t) /\ ~UnzipResume(t) /\ TraceOK(t, h)
  BY DEF Executes
<1>1. PICK j : j = at[t]
  OBVIOUS
<1>2. PICK k : k = j + 1
  OBVIOUS
<1>3. /\ Depth(t) \in Nat /\ j \in 1..Depth(t)
      /\ g[j] = Append(h[j], item[t])
      /\ \A i \in 1..Depth(t) : IsSeq(g[i]) /\ (i # j => g[i] = h[i])
  BY <1>1, GrowFacts
<1>4. ASSUME j # Depth(t) PROVE Supplied(t, g, k)' = Due(t, g, k)' /\ Kept(t, g, j)'
  <2>1. CASE OneToOne(Stage(t))
    BY <1>1, <1>2, <1>4, <2>1, OneToOneTrace, OneToOneStep
  <2>2. CASE Stage(t).kind = "Take"
    BY <1>1, <1>2, <1>4, <2>2, TakeTrace
  <2>3. CASE Stage(t).kind = "Unzip"
    BY <1>1, <1>2, <1>4, <2>3, UnzipTrace
  <2> QED BY <2>1, <2>2, <2>3 DEF OneToOne
<1>5. ASSUME NEW i \in 1..Depth(t) PROVE Supplied(t, g, i)' = Due(t, g, i)' /\ Kept(t, g, i)'
  <2>1. /\ i # k => Supplied(t, g, i)' = Due(t, g, i)'
        /\ i # j => Kept(t, g, i)'
    BY <1>1, <1>2, TraceElsewhere
  <2>2. i = k => j # Depth(t)
    BY <1>2, <1>3
  <2>3. Supplied(t, g, i)' = Due(t, g, i)'
    <3>1. CASE i = k
      BY <1>4, <2>2, <3>1
    <3> QED BY <2>1, <3>1
  <2>4. Kept(t, g, i)'
    <3>1. CASE i = j
      BY <1>1, <1>4, <3>1, SinkSees
    <3> QED BY <2>1, <3>1
  <2> QED BY <2>3, <2>4
<1>6. seen'[t] = g[Depth(t)]
  <2>1. seen[t] = h[Depth(t)]
    BY <1>0 DEF TraceOK
  <2>2. CASE j = Depth(t)
    BY <1>1, <1>3, <2>1, <2>2, SinkSees
  <2>3. CASE j # Depth(t)
    <3>1. Stage(t).kind \notin SinkKind
      BY <1>0, <1>1, <2>3, StageOK DEF ProcessorKind, SinkKind
    <3>2. seen' = seen
      BY <1>0, <3>1, SeenFrame DEF Step
    <3>3. Depth(t) \in 1..Depth(t)
      BY <1>3
    <3> QED BY <1>3, <2>1, <2>3, <3>2, <3>3
  <2> QED BY <2>2, <2>3
<1> QED BY <1>0, <1>3, <1>5, <1>6 DEF TraceOK

\* All frames but the last.
LEMMA FrontFrames ==
  ASSUME NEW s \in Seq(Frame), Len(s) > 0, NEW r, r = SubSeq(s, 1, Len(s) - 1)
  PROVE  Len(r) = Len(s) - 1 /\ \A k \in 1..(Len(s) - 1) : r[k] = s[k]
<1>1. PICK n : n = Len(s)
  OBVIOUS
<1>2. n \in Nat /\ n > 0 /\ n - 1 \in Int /\ \A k \in 1..(n - 1) : k \in 1..Len(s)
  BY <1>1
<1>3. \A k \in 1..(n - 1) : s[k] \in Frame
  BY <1>2, FrameAt
<1>4. /\ Len(r) = IF 1 <= n - 1 THEN (n - 1) - 1 + 1 ELSE 0
      /\ \A k \in 1..((n - 1) - 1 + 1) : r[k] = s[1 + k - 1]
  BY <1>1, <1>2, <1>3, SubSeqProperties
<1>5. Len(r) = n - 1
  BY <1>2, <1>4
<1>6. ASSUME NEW k \in 1..(n - 1) PROVE r[k] = s[k]
  <2>1. k \in 1..((n - 1) - 1 + 1) /\ 1 + k - 1 = k
    BY <1>2
  <2> QED BY <1>4, <2>1
<1> QED BY <1>1, <1>5, <1>6

\* An Unzip makes its second call, or returns.
LEMMA ResumeTrace ==
  ASSUME Inv, HistoryOK, DOMAIN item = Thread, NEW t \in Thread, NEW h, TraceOK(t, h),
         UnzipResume(t), UNCHANGED wiring
  PROVE  TraceOK(t, h)'
<1> DEFINE n == Len(stack[t])
           f == stack[t][n]
<1>0. /\ stack[t] \in Seq(Frame) /\ n \in Nat /\ n > 0 /\ n \in 1..n /\ pc[t] = "return"
      /\ stack \in [Thread -> Seq(Frame)] /\ pc \in [Thread -> PC] /\ at \in [Thread -> Nat]
  BY DEF UnzipResume, Inv, TypeOK
<1>1. /\ \A k \in 1..n : stack[t][k].at \in Nat
      /\ \A k \in 1..n : k # n => stack[t][k].at # f.at
  <2>1. \A k \in 1..n : stack[t][k].at \in Nat
    BY <1>0, FrameAt
  <2>2. \A k \in 1..n : k # n => stack[t][k].at < f.at
    BY <1>0 DEF Inv, StackOK, Nested
  <2> QED BY <1>0, <2>1, <2>2
<1>2. f.at \in Nat /\ f.calls \in 1..2
  <2>1. f \in Frame
    BY <1>0, FrameAt
  <2> QED BY <2>1 DEF Frame
<1>3. mem' = mem /\ pulled' = pulled /\ seen' = seen
  BY DEF UnzipResume
<1>4. CASE f.calls = 1
  <2>1. PICK a, r : /\ a = f.at
                    /\ r = [at |-> f.at, calls |-> 2, acc |-> f.acc \/ ok[t]]
    OBVIOUS
  <2>2. /\ pc'[t] = "on_next" /\ at'[t] = a + 1 /\ item'[t] = mem[t][a]
        /\ stack'[t] = [stack[t] EXCEPT ![n] = r]
    BY <1>0, <1>4, <2>1 DEF UnzipResume, Call
  <2>3. /\ Len(stack'[t]) = n /\ stack'[t][n] = r /\ r.calls = 2
        /\ \A k \in 1..n : k # n => stack'[t][k] = stack[t][k]
    <3>1. r \in Frame
      BY <1>2, <2>1, <1>0 DEF Frame, Inv, TypeOK
    <3> QED BY <1>0, <2>1, <2>2
  <2>4. Half(t, a) /\ ~Half(t, a)'
    <3>1. Half(t, a)
      BY <1>0, <1>4, <2>1 DEF Half
    <3>2. ~Half(t, a)'
      <4>1. ASSUME NEW k \in 1..n PROVE ~(stack'[t][k].at = a /\ stack'[t][k].calls = 1)
        <5>1. CASE k = n
          BY <2>3, <5>1
        <5>2. CASE k # n
          BY <1>1, <2>1, <2>3, <5>2
        <5> QED BY <5>1, <5>2
      <4> QED BY <2>3, <4>1 DEF Half
    <3> QED BY <3>1, <3>2
  <2>5. ASSUME NEW i, i # a PROVE Half(t, i)' <=> Half(t, i)
    <3>1. stack[t][n].at # i /\ stack'[t][n].at # i
      BY <2>1, <2>3, <2>5
    <3>2. \A k \in 1..n : /\ stack[t][k].at = i => k # n /\ stack'[t][k] = stack[t][k]
                          /\ stack'[t][k].at = i => k # n /\ stack'[t][k] = stack[t][k]
      BY <2>3, <3>1
    <3>3. Half(t, i) <=> \E k \in 1..n : stack[t][k].at = i /\ stack[t][k].calls = 1
      BY DEF Half
    <3>4. Half(t, i)' <=> \E k \in 1..n : stack'[t][k].at = i /\ stack'[t][k].calls = 1
      BY <2>3 DEF Half
    <3> QED BY <3>2, <3>3, <3>4
  <2>6. ASSUME NEW i \in 1..Depth(t) PROVE Due(t, h, i)' = Due(t, h, i)
    <3>0. a \in Nat /\ (i = a + 1 <=> i - 1 = a)
      BY <1>2, <2>1
    <3>1. Entered(t, h, i) = h[i]
      BY <1>0 DEF Entered, Entering
    <3>2. CASE i = a + 1
      <4>1. Due(t, h, i) = Append(h[i], mem[t][a])
        BY <2>4, <3>0, <3>1, <3>2 DEF Due
      <4>2. Due(t, h, i)' = Append(h[i], mem[t][a])
        BY <2>2, <2>4, <3>0, <3>2 DEF Due, Entered, Entering
      <4> QED BY <4>1, <4>2
    <3>3. CASE i # a + 1
      <4>1. Half(t, i - 1)' <=> Half(t, i - 1)
        BY <2>5, <3>0, <3>3
      <4>2. Entered(t, h, i)' = h[i]
        BY <2>2, <3>3 DEF Entered, Entering
      <4> QED BY <1>3, <3>1, <4>1, <4>2 DEF Due
    <3> QED BY <3>2, <3>3
  <2> QED BY <1>3, <2>6, TraceKeep
<1>5. CASE f.calls = 2
  <2>1. stack'[t] = SubSeq(stack[t], 1, n - 1) /\ pc'[t] = "return"
    BY <1>0, <1>5 DEF UnzipResume, Return
  <2>2. Len(stack'[t]) = n - 1 /\ \A k \in 1..(n - 1) : stack'[t][k] = stack[t][k]
    <3>1. PICK s, r : s = stack[t] /\ r = SubSeq(s, 1, Len(s) - 1)
      OBVIOUS
    <3>2. Len(r) = Len(s) - 1 /\ \A k \in 1..(Len(s) - 1) : r[k] = s[k]
      BY <1>0, <3>1, FrontFrames
    <3> QED BY <2>1, <3>1, <3>2
  <2>3. ASSUME NEW i PROVE Half(t, i)' <=> Half(t, i)
    <3>1. \A k \in 1..n : k = n \/ k \in 1..(n - 1)
      BY <1>0
    <3>2. \A k \in 1..(n - 1) : k \in 1..n
      BY <1>0
    <3>3. f.calls # 1
      BY <1>5
    <3>4. Half(t, i) => Half(t, i)'
      <4> SUFFICES ASSUME NEW k \in 1..n, stack[t][k].at = i, stack[t][k].calls = 1
                   PROVE  Half(t, i)'
        BY DEF Half
      <4>1. k \in 1..(n - 1)
        BY <3>1, <3>3
      <4>2. k \in 1..Len(stack'[t]) /\ stack'[t][k] = stack[t][k]
        BY <2>2, <4>1
      <4> QED BY <4>2 DEF Half
    <3>5. Half(t, i)' => Half(t, i)
      <4> SUFFICES ASSUME NEW k \in 1..Len(stack'[t]), stack'[t][k].at = i, stack'[t][k].calls = 1
                   PROVE  Half(t, i)
        BY DEF Half
      <4>1. k \in 1..n /\ stack'[t][k] = stack[t][k]
        BY <2>2, <3>2
      <4> QED BY <4>1 DEF Half
    <3> QED BY <3>4, <3>5
  <2>4. ASSUME NEW i \in 1..Depth(t) PROVE Due(t, h, i)' = Due(t, h, i)
    <3>1. Entered(t, h, i) = h[i] /\ Entered(t, h, i)' = h[i]
      BY <1>0, <2>1 DEF Entered, Entering
    <3>2. Half(t, i - 1)' <=> Half(t, i - 1)
      BY <2>3
    <3> QED BY <1>3, <3>1, <3>2 DEF Due
  <2> QED BY <1>3, <2>4, TraceKeep
<1> QED BY <1>2, <1>4, <1>5

\* The histories of the stages after a step of t.
After(t, h) == IF pc[t] = "on_next" THEN Grow(h, Depth(t), at[t], item[t]) ELSE h

\* A step gives an argument to a call of its own thread only.
LEMMA ItemFrame ==
  ASSUME DOMAIN item = Thread, NEW t \in Thread, Step(t)
  PROVE  DOMAIN item' = Thread /\ \A u \in Thread : u # t => item'[u] = item[u]
<1>1. ASSUME item' = item \/ \E x : item' = [item EXCEPT ![t] = x]
      PROVE  DOMAIN item' = Thread /\ \A u \in Thread : u # t => item'[u] = item[u]
  BY <1>1
<1>2. ASSUME NEW x, Forward(t, x) PROVE \E y : item' = [item EXCEPT ![t] = y]
  BY <1>2 DEF Forward, Call, Return
<1>3. ASSUME CompleteAndStop(t) PROVE \E y : item' = [item EXCEPT ![t] = y]
  BY <1>3 DEF CompleteAndStop, Panic, Return
<1>4. CASE subscribe(t) \/ Loop(t)
  BY <1>1, <1>4 DEF subscribe, Loop
<1>5. CASE PublisherStep(t)
  BY <1>1, <1>3, <1>5 DEF PublisherStep, TryNextUnimplemented, NextWithoutSubscriber, IterNext,
              RepeatNext, RndGenNext, CouplerNext, Push, Call, Return, Panic
<1>6. CASE OnNextStep(t)
  BY <1>1, <1>2, <1>3, <1>6
     DEF OnNextStep, DoOnNext, MapOnNext, MapVal1OnNext, ReduceOnNext, EnumerateOnNext, TeeOnNext,
         UnzipOnNext, UnzipResume, TakeOnNext, SinkOnNext, DecouplerOnNext, Call, Return
<1> QED BY <1>4, <1>5, <1>6 DEF Step

\* A publisher pushes an item, or no on_next begins.
LEMMA PushOrNot ==
  ASSUME Inv, NEW t \in Thread, PublisherStep(t)
  PROVE  \/ \E x : Push(t, x)
         \/ pulled' = pulled /\ pc'[t] \in {"return", "panicked"}
<1>0. pc \in [Thread -> PC]
  BY DEF Inv, TypeOK
<1>1. ASSUME CompleteAndStop(t) PROVE pc'[t] \in {"return", "panicked"}
  BY <1>0, <1>1 DEF CompleteAndStop, Panic, Return
<1>2. CASE TryNextUnimplemented(t) \/ NextWithoutSubscriber(t)
  BY <1>0, <1>2 DEF TryNextUnimplemented, NextWithoutSubscriber, Return, Panic
<1>3. CASE IterNext(t)
  BY <1>1, <1>3 DEF IterNext
<1>4. CASE RepeatNext(t) \/ RndGenNext(t)
  BY <1>4 DEF RepeatNext, RndGenNext
<1>5. CASE CouplerNext(t)
  BY <1>0, <1>1, <1>5 DEF CouplerNext, Return
<1> QED BY <1>2, <1>3, <1>4, <1>5 DEF PublisherStep

\* Every step of a thread keeps the books of its stages.
LEMMA TraceStep ==
  ASSUME Inv, HistoryOK, SeenOK, DOMAIN item = Thread, NEW t \in Thread, HasSink(t),
         Step(t), UNCHANGED wiring, NEW h, TraceOK(t, h), NEW g, g = After(t, h)
  PROVE  TraceOK(t, g)'
<1>0. pc \in [Thread -> PC]
  BY DEF Inv, TypeOK
<1>1. CASE pc[t] = "on_next"
  <2>1. OnNextStep(t) /\ ~UnzipResume(t)
    BY <1>1, StepKinds
  <2>2. Executes(t, h, g)
    BY <1>1, <2>1 DEF Executes, After
  <2> QED BY <2>2, OnNextTrace
<1>2. ASSUME pc[t] # "on_next", pc'[t] # "on_next", mem' = mem, stack' = stack, pulled' = pulled,
             seen' = seen
      PROVE  TraceOK(t, g)'
  <2>1. g = h
    BY <1>2 DEF After
  <2>2. \A i \in 1..Depth(t) : Due(t, h, i)' = Due(t, h, i)
    BY <1>2, DueKeep
  <2> QED BY <1>2, <2>1, <2>2, TraceKeep
<1>3. CASE pc[t] = "wire" /\ subscribe(t)
  <2>1. pc'[t] # "on_next"
    BY <1>0, <1>3 DEF subscribe
  <2> QED BY <1>2, <1>3, <2>1 DEF subscribe
<1>4. CASE pc[t] = "idle" /\ PublisherStep(t)
  <2>1. mem' = mem /\ stack' = stack
    BY <1>4, IdleStep
  <2>2. seen' = seen
    BY <1>4, SeenFrame
  <2>3. ASSUME NEW x, Push(t, x) PROVE TraceOK(t, h)'
    BY <1>4, <2>1, <2>2, <2>3, TracePush
  <2>4. g = h
    BY <1>4 DEF After
  <2> QED BY <1>2, <1>4, <2>1, <2>2, <2>3, <2>4, PushOrNot
<1>5. CASE pc[t] = "return" /\ UnzipResume(t)
  BY <1>5, ResumeTrace DEF After
<1>6. CASE pc[t] = "return" /\ Loop(t)
  <2>1. pc'[t] # "on_next"
    BY <1>0, <1>6 DEF Loop
  <2> QED BY <1>2, <1>6, <2>1 DEF Loop
<1> QED BY <1>1, <1>3, <1>4, <1>5, <1>6, StepKinds

\* Steps of others.
LEMMA TraceOther ==
  ASSUME NEW u \in Thread, UNCHANGED wiring, Same(u), mem'[u] = mem[u], pulled'[u] = pulled[u],
         seen'[u] = seen[u], item'[u] = item[u], NEW h, TraceOK(u, h)
  PROVE  TraceOK(u, h)'
<1>1. \A i \in 1..Depth(u) : Due(u, h, i)' = Due(u, h, i)
  BY DueKeep DEF Same
<1> QED BY <1>1, TraceKeep

\* No input, no output.
LEMMA TransformEmpty ==
  ASSUME NEW s, Bounded(s)
  PROVE  Transform(s, <<>>) = <<>>
<1>1. IsSeq(<<>>) /\ Len(<<>>) = 0
  BY SeqEmpty
<1>2. IsSeq(Transform(s, <<>>)) /\ Len(Transform(s, <<>>)) = 0
  <2>1. CASE OneToOne(s)
    BY <1>1, <2>1, OneToOneShape
  <2>2. CASE s.kind = "Take"
    BY <1>1, <2>2, TakeShape DEF Bounded
  <2>3. CASE s.kind = "Unzip"
    BY <1>1, <2>3, UnzipShape
  <2> QED BY <2>1, <2>2, <2>3 DEF OneToOne
<1> QED BY <1>2, SeqEmpty

\* Before the first item.
LEMMA TraceInit ==
  ASSUME Init, NEW t \in Thread, HasSink(t), NEW h, h = [i \in 1..Depth(t) |-> <<>>]
  PROVE  TraceOK(t, h)
<1>1. /\ pulled[t] = <<>> /\ seen[t] = <<>> /\ stack[t] = <<>> /\ pc[t] # "on_next"
      /\ mem[t] = [i \in 1..Depth(t) |-> Chain(t)[i].init]
  BY DEF Init
<1>2. IsChain(Chain(t)) /\ Depth(t) \in Nat /\ Inv /\ IsWiring(wiring)
  BY InitInv, ChainOK, WiringDepth, WiringAssumption DEF Inv, TypeOK
<1>3. IsSeq(<<>>) /\ Len(<<>>) = 0
  BY SeqEmpty
<1>4. Len(stack[t]) = 0 /\ \A i : ~Half(t, i)
  <2>1. Len(stack[t]) = 0
    BY <1>1, <1>3
  <2> QED BY <2>1 DEF Half
<1>5. ASSUME NEW i \in 1..Depth(t) PROVE Supplied(t, h, i) = Due(t, h, i) /\ Kept(t, h, i)
  <2>1. h[i] = <<>> /\ Due(t, h, i) = <<>>
    BY <1>1, <1>4 DEF Due, Entered, Entering
  <2>2. Supplied(t, h, i) = <<>>
    <3>1. CASE i = 1
      BY <1>1, <3>1 DEF Supplied
    <3>2. CASE i # 1
      <4>1. i - 1 \in 1..Depth(t)
        BY <1>2, <3>2
      <4>2. Supplied(t, h, i) = Transform(Chain(t)[i - 1], <<>>) /\ Bounded(Chain(t)[i - 1])
        BY <1>2, <3>2, <4>1 DEF Supplied, IsChain
      <4> QED BY <4>2, TransformEmpty
    <3> QED BY <3>1, <3>2
  <2>3. Kept(t, h, i)
    <3>1. mem[t][i] = Chain(t)[i].init /\ Len(h[i]) = 0
      BY <1>1, <1>3, <2>1
    <3>2. Chain(t)[i].kind \in {"Take", "Enumerate"} => Chain(t)[i].init = 0
      BY <1>2 DEF IsWiring, IsStage
    <3>3. Folded(Chain(t)[i].arg, Chain(t)[i].init, h[i])[0] = Chain(t)[i].init
      <4>1. PICK f, v, xs : f = Chain(t)[i].arg /\ v = Chain(t)[i].init /\ xs = h[i]
        OBVIOUS
      <4>2. Folded(f, v, xs)[0] = v
        BY <1>3, <2>1, <4>1, FoldedDef
      <4> QED BY <4>1, <4>2
    <3> QED BY <3>1, <3>2, <3>3 DEF Kept
  <2> QED BY <2>1, <2>2, <2>3
<1>6. Depth(t) \in 1..Depth(t)
  BY <1>2 DEF HasSink
<1> QED BY <1>1, <1>3, <1>5, <1>6 DEF TraceOK

\* No on_next and no Unzip is in progress.
Quiet(t) == stack[t] = <<>> /\ pc[t] # "on_next"

\* Then every stage has been given what the reference definition gives it.
LEMMA Settled ==
  ASSUME Inv, NEW t \in Thread, HasSink(t), NEW h, TraceOK(t, h), Quiet(t)
  PROVE  /\ \A i \in 1..Depth(t) : h[i] = Given(Chain(t), pulled[t])[i - 1]
         /\ seen[t] = Ref(Chain(t), pulled[t])
<1>0. Depth(t) \in Nat /\ Depth(t) > 0 /\ Depth(t) \in 1..Depth(t)
  BY WiringDepth DEF Inv, HasSink
<1>1. \A i : ~Half(t, i)
  <2>1. Len(stack[t]) = 0
    BY SeqEmpty DEF Quiet
  <2> QED BY <2>1 DEF Half
<1>2. ASSUME NEW i \in 1..Depth(t) PROVE Supplied(t, h, i) = h[i]
  BY <1>1 DEF TraceOK, Due, Entered, Entering, Quiet
<1>3. h[1] = pulled[t]
  <2>1. 1 \in 1..Depth(t)
    BY <1>0
  <2> QED BY <1>2, <2>1 DEF Supplied
<1>4. ASSUME NEW i \in 1..(Depth(t) - 1) PROVE h[i + 1] = Transform(Chain(t)[i], h[i])
  <2>1. i + 1 \in 1..Depth(t) /\ i + 1 # 1 /\ (i + 1) - 1 = i
    BY <1>0
  <2> QED BY <1>2, <2>1 DEF Supplied
<1>5. \A i \in 1..Depth(t) : h[i] = Given(Chain(t), pulled[t])[i - 1]
  <2>1. PICK ch, xs, m : ch = Chain(t) /\ xs = pulled[t] /\ m = Depth(t)
    OBVIOUS
  <2>2. Len(ch) \in Nat /\ m \in 1..Len(ch) /\ KeepsUp(ch, xs, h, m)
    BY <1>0, <1>3, <1>4, <2>1 DEF KeepsUp
  <2>3. \A i \in 1..m : h[i] = Given(ch, xs)[i - 1]
    BY ONLY <2>2, GivenUnique
  <2> QED BY <2>1, <2>3
<1>6. seen[t] = Ref(Chain(t), pulled[t])
  <2>1. PICK ch, xs, m : ch = Chain(t) /\ xs = pulled[t] /\ m = Depth(t)
    OBVIOUS
  <2>2. m \in 1..Len(ch) /\ Len(ch) \in Nat /\ m = Len(ch) /\ ch[m].kind \in SinkKind
    BY <1>0, <2>1 DEF HasSink
  <2>3. Given(ch, xs)[m] = Transform(ch[m], Given(ch, xs)[m - 1])
    BY ONLY <2>2, GivenDef
  <2>4. Transform(ch[m], Given(ch, xs)[m - 1]) = Given(ch, xs)[m - 1]
    BY <2>2 DEF Transform, SinkKind
  <2>5. h[m] = Given(ch, xs)[m - 1] /\ seen[t] = h[m]
    BY <1>0, <1>5, <2>1 DEF TraceOK
  <2> QED BY <2>1, <2>2, <2>3, <2>4, <2>5 DEF Ref
<1> QED BY <1>5, <1>6

\* At any moment a stage has handled a beginning of what it will be given.
LEMMA Behind ==
  ASSUME Inv, NEW t \in Thread, HasSink(t), NEW h, TraceOK(t, h), IsSeq(pulled[t])
  PROVE  \A i \in 1..Depth(t) : /\ IsSeq(Given(Chain(t), pulled[t])[i - 1])
                                /\ Begins(h[i], Given(Chain(t), pulled[t])[i - 1])
<1>1. PICK ch, xs, n : ch = Chain(t) /\ xs = pulled[t] /\ n = Depth(t)
  OBVIOUS
<1> DEFINE G == Given(ch, xs)
           T == {i \in 0..n : i > 0 => Begins(h[i], G[i - 1])}
<1>2. IsChain(ch) /\ n \in Nat /\ n = Len(ch) /\ IsSeq(xs)
  BY <1>1, ChainOK, WiringDepth DEF Inv
<1>3. /\ G[0] = xs
      /\ \A i \in 1..n : G[i] = Transform(ch[i], G[i - 1])
      /\ \A i \in 0..n : IsSeq(G[i])
  <2>1. Begins(xs, xs)
    BY <1>2, BeginsSelf
  <2> QED BY <1>2, <2>1, GivenDef, GivenBegins
<1> HIDE DEF G
<1>4. ASSUME NEW i \in 1..n
      PROVE  /\ IsSeq(h[i]) /\ IsSeq(Due(t, h, i)) /\ Begins(h[i], Due(t, h, i))
             /\ Supplied(t, h, i) = Due(t, h, i)
  <2>1. PICK q, x, y : q = h[i] /\ x = item[t] /\ y = mem[t][i - 1]
    OBVIOUS
  <2>2. PICK a, b : a = Append(q, x) /\ b = Append(q, y)
    OBVIOUS
  <2>3. PICK d : d = Append(a, y)
    OBVIOUS
  <2>4. IsSeq(q) /\ Supplied(t, h, i) = Due(t, h, i)
    BY <1>1, <2>1 DEF TraceOK
  <2>5. IsSeq(a) /\ IsSeq(b) /\ Begins(q, a) /\ Begins(q, b)
    BY <2>2, <2>4, SeqAppend, BeginsAppend
  <2>6. IsSeq(d) /\ Begins(a, d)
    BY <2>3, <2>5, SeqAppend, BeginsAppend
  <2>7. Begins(q, d) /\ Begins(q, q)
    BY <2>4, <2>5, <2>6, BeginsTrans, BeginsSelf
  <2>8. Due(t, h, i) \in {q, a, b, d}
    BY <2>1, <2>2, <2>3 DEF Due, Entered
  <2> QED BY <2>1, <2>4, <2>5, <2>6, <2>7, <2>8
<1>5. ASSUME NEW i \in 1..n, i - 1 \in T PROVE i \in T
  <2>0. i \in 0..n /\ i > 0
    BY <1>2
  <2>1. CASE i = 1
    <3>1. Supplied(t, h, i) = xs
      BY <1>1, <2>1 DEF Supplied
    <3> QED BY <1>3, <1>4, <2>0, <2>1, <3>1
  <2>2. CASE i # 1
    <3>1. i - 1 \in 1..n /\ i - 1 > 0 /\ (i - 1) - 1 \in 0..n /\ i - 1 \in 0..n
      BY <1>2, <2>2
    <3>2. PICK j : j = i - 1
      OBVIOUS
    <3>3. Begins(h[j], G[j - 1]) /\ IsSeq(G[j - 1]) /\ IsSeq(h[j]) /\ j \in 1..n
      BY <1>3, <1>4, <1>5, <3>1, <3>2
    <3>4. PICK s, p, q : s = ch[j] /\ p = h[j] /\ q = G[j - 1]
      OBVIOUS
    <3>5. Bounded(s)
      BY <1>2, <3>3, <3>4 DEF IsChain
    <3>6. /\ Begins(Transform(s, p), Transform(s, q))
          /\ IsSeq(Transform(s, p)) /\ IsSeq(Transform(s, q))
      BY <3>3, <3>4, <3>5, TransformBegins, TransformSeq
    <3>7. Due(t, h, i) = Transform(s, p)
      BY <1>1, <1>4, <2>2, <3>2, <3>4 DEF Supplied
    <3>8. G[j] = Transform(s, q)
      BY <1>3, <3>3, <3>4
    <3>9. Begins(h[i], G[j])
      BY <1>4, <3>6, <3>7, <3>8, BeginsTrans
    <3> QED BY <2>0, <3>2, <3>9
  <2> QED BY <2>1, <2>2
<1>6. 0 \in T
  BY <1>2
<1> HIDE DEF T
<1>7. \A i \in 0..n : i \in T
  BY <1>2, <1>5, <1>6, UpTo
<1>8. ASSUME NEW i \in 1..n PROVE IsSeq(G[i - 1]) /\ Begins(h[i], G[i - 1])
  <2>1. i \in 0..n /\ i > 0 /\ i - 1 \in 0..n
    BY <1>2
  <2> QED BY <1>3, <1>7, <2>1 DEF T
<1> QED BY <1>1, <1>8 DEF G

-----------------------------------------------------------------------------
(* A sequence that is cut in two.                                          *)

\* r is a followed by b.
Joins(a, b, r) ==
  /\ IsSeq(a) /\ IsSeq(b) /\ IsSeq(r) /\ Len(r) = Len(a) + Len(b)
  /\ \A i \in 1..Len(a) : a[i] = r[i]
  /\ \A i \in 1..Len(b) : b[i] = r[Len(a) + i]

\* The first element and the rest.
LEMMA SeqTail ==
  ASSUME NEW s, IsSeq(s), s # <<>>
  PROVE  /\ Len(s) > 0 /\ Head(s) = s[1]
         /\ IsSeq(Tail(s)) /\ Len(Tail(s)) = Len(s) - 1
         /\ \A i \in 1..Len(Tail(s)) : Tail(s)[i] = s[i + 1]
<1> DEFINE T == {s[i] : i \in DOMAIN s}
<1>1. s \in Seq(T) /\ Len(s) \in Nat
  BY SeqLen DEF IsSeq
<1> HIDE DEF T
<1>2. Head(s) = s[1] /\ Tail(s) \in Seq(T) /\ Len(Tail(s)) = Len(s) - 1 /\ Len(s) > 0
      /\ \A i \in 1..Len(Tail(s)) : Tail(s)[i] = s[i + 1]
  BY <1>1, HeadTailProperties, EmptySeq
<1>3. IsSeq(Tail(s))
  BY <1>2, SeqOfRange, SeqRange
<1> QED BY <1>2, <1>3

\* The first of the second part goes over to the first part.
LEMMA JoinsShift ==
  ASSUME NEW a, NEW b, NEW r, Joins(a, b, r), b # <<>>
  PROVE  Joins(Append(a, Head(b)), Tail(b), r)
<1>1. PICK x, q, s : x = Head(b) /\ q = Append(a, x) /\ s = Tail(b)
  OBVIOUS
<1>2. /\ IsSeq(a) /\ IsSeq(b) /\ IsSeq(r) /\ Len(r) = Len(a) + Len(b)
      /\ \A i \in 1..Len(a) : a[i] = r[i]
      /\ \A i \in 1..Len(b) : b[i] = r[Len(a) + i]
  BY DEF Joins
<1>3. Len(a) \in Nat /\ Len(b) \in Nat
  BY <1>2, SeqLen
<1>4. /\ Len(b) > 0 /\ x = b[1] /\ IsSeq(s) /\ Len(s) = Len(b) - 1
      /\ \A i \in 1..Len(s) : s[i] = b[i + 1]
  BY <1>1, <1>2, SeqTail
<1>5. /\ IsSeq(q) /\ Len(q) = Len(a) + 1 /\ q[Len(a) + 1] = x
      /\ \A i \in 1..Len(a) : q[i] = a[i]
  BY <1>1, <1>2, SeqAppend
<1>6. ASSUME NEW i \in 1..Len(q) PROVE q[i] = r[i]
  <2>1. i \in 1..Len(a) \/ i = Len(a) + 1
    BY <1>3, <1>5
  <2>2. 1 \in 1..Len(b)
    BY <1>3, <1>4
  <2> QED BY <1>2, <1>4, <1>5, <2>1, <2>2
<1>7. ASSUME NEW i \in 1..Len(s) PROVE s[i] = r[Len(q) + i]
  <2>1. i + 1 \in 1..Len(b) /\ Len(q) + i = Len(a) + (i + 1)
    BY <1>3, <1>4, <1>5
  <2> QED BY <1>2, <1>4, <2>1
<1>8. Len(r) = Len(q) + Len(s)
  BY <1>2, <1>3, <1>4, <1>5
<1>9. Joins(q, s, r)
  BY <1>2, <1>4, <1>5, <1>6, <1>7, <1>8 DEF Joins
<1> QED BY <1>1, <1>9

\* Something is added at the end.
LEMMA JoinsAppend ==
  ASSUME NEW a, NEW b, NEW r, Joins(a, b, r), NEW x
  PROVE  Joins(a, Append(b, x), Append(r, x))
<1>1. PICK q, s : q = Append(b, x) /\ s = Append(r, x)
  OBVIOUS
<1>2. /\ IsSeq(a) /\ IsSeq(b) /\ IsSeq(r) /\ Len(r) = Len(a) + Len(b)
      /\ \A i \in 1..Len(a) : a[i] = r[i]
      /\ \A i \in 1..Len(b) : b[i] = r[Len(a) + i]
  BY DEF Joins
<1>3. Len(a) \in Nat /\ Len(b) \in Nat
  BY <1>2, SeqLen
<1>4. /\ IsSeq(q) /\ Len(q) = Len(b) + 1 /\ q[Len(b) + 1] = x
      /\ \A i \in 1..Len(b) : q[i] = b[i]
  BY <1>1, <1>2, SeqAppend
<1>5. /\ IsSeq(s) /\ Len(s) = Len(r) + 1 /\ s[Len(r) + 1] = x
      /\ \A i \in 1..Len(r) : s[i] = r[i]
  <2>1. IsSeq(r)
    BY <1>2
  <2> QED BY ONLY <1>1, <2>1, SeqAppend
<1>6. ASSUME NEW i \in 1..Len(a) PROVE a[i] = s[i]
  <2>1. i \in 1..Len(r)
    BY <1>2, <1>3
  <2> QED BY <1>2, <1>5, <2>1
<1>7. ASSUME NEW i \in 1..Len(q) PROVE q[i] = s[Len(a) + i]
  <2>1. CASE i = Len(b) + 1
    <3>1. Len(a) + i = Len(r) + 1
      BY <1>2, <1>3, <2>1
    <3> QED BY <1>4, <1>5, <2>1, <3>1
  <2>2. CASE i # Len(b) + 1
    <3>1. i \in 1..Len(b) /\ Len(a) + i \in 1..Len(r)
      BY <1>2, <1>3, <1>4, <2>2
    <3> QED BY <1>2, <1>4, <1>5, <3>1
  <2> QED BY <2>1, <2>2
<1>8. Len(s) = Len(a) + Len(q)
  BY <1>2, <1>3, <1>4, <1>5
<1>9. Joins(a, q, s)
  BY <1>2, <1>4, <1>5, <1>6, <1>7, <1>8 DEF Joins
<1> QED BY <1>1, <1>9

\* The first part is a beginning, and the whole if nothing is left.
LEMMA JoinsParts ==
  ASSUME NEW a, NEW b, NEW r, Joins(a, b, r)
  PROVE  /\ IsSeq(a) /\ IsSeq(r) /\ Begins(a, r)
         /\ b = <<>> => a = r
<1>1. /\ IsSeq(a) /\ IsSeq(b) /\ IsSeq(r) /\ Len(r) = Len(a) + Len(b)
      /\ \A i \in 1..Len(a) : a[i] = r[i]
  BY DEF Joins
<1>2. Len(a) \in Nat /\ Len(b) \in Nat
  BY <1>1, SeqLen
<1>3. Begins(a, r)
  BY <1>1, <1>2 DEF Begins
<1>4. ASSUME b = <<>> PROVE a = r
  <2>1. Len(a) = Len(r)
    BY <1>1, <1>2, <1>4, SeqEmpty
  <2> QED BY <1>1, <2>1, SeqSame
<1> QED BY <1>1, <1>3, <1>4

\* Nothing has been taken of r.
LEMMA JoinsStart ==
  ASSUME NEW r, IsSeq(r) PROVE Joins(<<>>, r, r)
<1>1. Len(r) \in Nat /\ IsSeq(<<>>) /\ Len(<<>>) = 0
  BY SeqLen, SeqEmpty
<1>2. \A i \in 1..Len(r) : 0 + i = i
  BY <1>1
<1> QED BY <1>1, <1>2 DEF Joins

\* A sender keeps the order.
LEMMA OutboundBegins ==
  ASSUME NEW s, NEW xs, IsSeq(xs), NEW ys, IsSeq(ys), Begins(xs, ys)
  PROVE  /\ IsSeq(Outbound(s, xs)) /\ IsSeq(Outbound(s, ys))
         /\ Begins(Outbound(s, xs), Outbound(s, ys))
<1>0. /\ Len(xs) \in Nat /\ DOMAIN xs = 1..Len(xs) /\ Len(ys) \in Nat /\ DOMAIN ys = 1..Len(ys)
      /\ Len(xs) <= Len(ys) /\ \A i \in 1..Len(xs) : i \in 1..Len(ys) /\ xs[i] = ys[i]
  BY SeqLen DEF Begins
<1>1. CASE s.kind # "NetStreamer"
  BY <1>1 DEF Outbound
<1>2. CASE s.kind = "NetStreamer"
  <2>1. PICK a, b : a = Outbound(s, xs) /\ b = Outbound(s, ys)
    OBVIOUS
  <2>2. /\ a = [k \in 1..Len(xs) |-> <<xs[k][1], s.init>>]
        /\ b = [k \in 1..Len(ys) |-> <<ys[k][1], s.init>>]
    BY <1>0, <1>2, <2>1 DEF Outbound
  <2>3. IsSeq(a) /\ Len(a) = Len(xs) /\ IsSeq(b) /\ Len(b) = Len(ys)
    BY <1>0, <2>2, SeqFcn
  <2>4. \A i \in 1..Len(xs) : a[i] = b[i]
    BY <1>0, <2>2
  <2> QED BY <1>0, <2>1, <2>3, <2>4 DEF Begins
<1> QED BY <1>1, <1>2

-----------------------------------------------------------------------------
(* The queues between the threads.                                         *)

\* Thread t receives from c; thread t is about to send on c.
Reads(t, c)   == Pub(t).kind \in {"Coupler", "NetStreamer"} /\ Pub(t).rx = c
SendsOn(t, c) == pc[t] = "on_next" /\ Stage(t).kind \in SenderKind /\ Stage(t).arg = c

\* Queues hold sequences.
QueuesOK ==
  /\ DOMAIN item = Thread /\ DOMAIN source = Thread /\ DOMAIN chan = Channel
  /\ \A c \in Channel : IsSeq(chan[c]) /\ IsSeq(sent[c])

\* What a step of t does to queue c, its history and the items t has pulled.
Rests(t, c) == /\ chan'[c] = chan[c] /\ sent'[c] = sent[c]
               /\ Reads(t, c) => pulled' = pulled
Gets(t, c)  == /\ SendsOn(t, c) /\ pulled' = pulled
               /\ \E x : chan'[c] = Append(chan[c], x) /\ sent'[c] = Append(sent[c], x)
Gives(t, c) == /\ Reads(t, c) /\ chan[c] # <<>>
               /\ chan'[c] = Tail(chan[c]) /\ sent'[c] = sent[c]
               /\ pulled'[t] = Append(pulled[t], Head(chan[c]))

\* A send reaches its own queue only.
LEMMA SendStep ==
  ASSUME SeenOK, QueuesOK, NEW t \in Thread, NEW d \in Channel, NEW x, NEW r,
         SendsOn(t, d), Send(d, x, r), pulled' = pulled
  PROVE  DOMAIN chan' = Channel /\ \A c \in Channel : Rests(t, c) \/ Gets(t, c)
<1>0. DOMAIN chan = Channel /\ DOMAIN sent = Channel
  BY DEF SeenOK, QueuesOK
<1>1. CASE r
  <2>1. chan' = [chan EXCEPT ![d] = Append(@, x)] /\ sent' = [sent EXCEPT ![d] = Append(@, x)]
    BY <1>1 DEF Send
  <2>2. ASSUME NEW c \in Channel PROVE Rests(t, c) \/ Gets(t, c)
    <3>1. CASE c = d
      BY <1>0, <2>1, <3>1 DEF Gets
    <3>2. CASE c # d
      BY <1>0, <2>1, <3>2 DEF Rests
    <3> QED BY <3>1, <3>2
  <2> QED BY <1>0, <2>1, <2>2
<1>2. CASE ~r
  BY <1>0, <1>2 DEF Send, Rests
<1> QED BY <1>1, <1>2

\* A step of t leaves queue c alone, adds an item to it or takes its first one.
LEMMA QueueStep ==
  ASSUME Inv, HistoryOK, SeenOK, QueuesOK, NEW t \in Thread, Step(t)
  PROVE  /\ DOMAIN chan' = Channel
         /\ \A c \in Channel : Rests(t, c) \/ Gets(t, c) \/ Gives(t, c)
<1>0. DOMAIN chan = Channel /\ DOMAIN pulled = Thread
  BY DEF QueuesOK, HistoryOK
<1>1. ASSUME chan' = chan, sent' = sent, \A c \in Channel : Reads(t, c) => pulled' = pulled
      PROVE  /\ DOMAIN chan' = Channel
             /\ \A c \in Channel : Rests(t, c) \/ Gets(t, c) \/ Gives(t, c)
  BY <1>0, <1>1 DEF Rests
<1>2. CASE TeeOnNext(t) \/ DecouplerOnNext(t)
  <2>1. pc[t] = "on_next" /\ Stage(t).kind \in SenderKind /\ pulled' = pulled
    BY <1>2 DEF TeeOnNext, DecouplerOnNext, Running, SenderKind
  <2>2. Stage(t).arg \in Channel
    BY <2>1, StageOK
  <2>3. (chan' = chan /\ sent' = sent) \/ \E x, r : Send(Stage(t).arg, x, r)
    BY <1>2 DEF TeeOnNext, DecouplerOnNext
  <2>4. PICK d : d = Stage(t).arg
    OBVIOUS
  <2>5. SendsOn(t, d)
    BY <2>1, <2>4 DEF SendsOn
  <2> QED BY <1>1, <2>1, <2>2, <2>3, <2>4, <2>5, SendStep
<1>3. CASE OnNextStep(t) /\ ~TeeOnNext(t) /\ ~DecouplerOnNext(t)
  BY <1>1, <1>3 DEF OnNextStep, DoOnNext, MapOnNext, MapVal1OnNext, ReduceOnNext, EnumerateOnNext,
              UnzipOnNext, UnzipResume, TakeOnNext, SinkOnNext
<1>4. CASE subscribe(t) \/ Loop(t)
  BY <1>1, <1>4 DEF subscribe, Loop
<1>5. CASE TryNextUnimplemented(t) \/ NextWithoutSubscriber(t)
  BY <1>1, <1>5 DEF TryNextUnimplemented, NextWithoutSubscriber
<1>6. CASE IterNext(t) \/ RepeatNext(t) \/ RndGenNext(t)
  <2>1. \A c \in Channel : ~Reads(t, c)
    BY <1>6 DEF IterNext, RepeatNext, RndGenNext, Idle, Reads
  <2> QED BY <1>1, <1>6, <2>1 DEF IterNext, RepeatNext, RndGenNext
<1>7. CASE CouplerNext(t)
  <2>1. PICK d : d = Pub(t).rx
    OBVIOUS
  <2>2. sent' = sent /\ Pub(t).kind \in {"Coupler", "NetStreamer"}
    BY <1>7 DEF CouplerNext, Idle
  <2>3. \/ chan' = chan /\ pulled' = pulled
        \/ /\ chan[d] # <<>> /\ chan' = [chan EXCEPT ![d] = Tail(@)]
           /\ Push(t, Head(chan[d]))
    BY <1>7, <2>1 DEF CouplerNext
  <2>4. CASE /\ chan[d] # <<>> /\ chan' = [chan EXCEPT ![d] = Tail(@)]
             /\ Push(t, Head(chan[d]))
    <3>1. pulled'[t] = Append(pulled[t], Head(chan[d]))
      BY <1>0, <2>4 DEF Push
    <3>2. ASSUME NEW c \in Channel PROVE Rests(t, c) \/ Gives(t, c)
      <4>1. CASE c = d
        BY <1>0, <2>1, <2>2, <2>4, <3>1, <4>1 DEF Gives, Reads
      <4>2. CASE c # d
        BY <1>0, <2>1, <2>2, <2>4, <4>2 DEF Rests, Reads
      <4> QED BY <4>1, <4>2
    <3> QED BY <1>0, <2>4, <3>2
  <2> QED BY <1>1, <2>2, <2>3, <2>4
<1> QED BY <1>2, <1>3, <1>4, <1>5, <1>6, <1>7 DEF Step, PublisherStep

\* What a step of t does to its iterator.
Iterated(t) ==
  \/ source' = source /\ (Pub(t).kind = "IterPublisher" => pulled' = pulled)
  \/ /\ Pub(t).kind = "IterPublisher" /\ source[t] # <<>>
     /\ source' = [source EXCEPT ![t] = Tail(@)]
     /\ pulled'[t] = Append(pulled[t], Head(source[t]))

\* Only the next() of an IterPublisher moves an iterator, and it pushes what it takes.
LEMMA SourceStep ==
  ASSUME HistoryOK, NEW t \in Thread, Step(t)
  PROVE  Iterated(t)
<1>0. DOMAIN pulled = Thread
  BY DEF HistoryOK
<1>1. CASE subscribe(t) \/ Loop(t)
  BY <1>1 DEF subscribe, Loop, Iterated
<1>2. CASE OnNextStep(t)
  BY <1>2 DEF OnNextStep, DoOnNext, MapOnNext, MapVal1OnNext, ReduceOnNext, EnumerateOnNext, TeeOnNext,
              UnzipOnNext, UnzipResume, TakeOnNext, SinkOnNext, DecouplerOnNext, Iterated
<1>3. CASE TryNextUnimplemented(t) \/ NextWithoutSubscriber(t)
  BY <1>3 DEF TryNextUnimplemented, NextWithoutSubscriber, Iterated
<1>4. CASE RepeatNext(t) \/ RndGenNext(t) \/ CouplerNext(t)
  BY <1>4 DEF RepeatNext, RndGenNext, CouplerNext, Idle, Iterated
<1>5. CASE IterNext(t)
  BY <1>0, <1>5 DEF IterNext, Idle, Push, Iterated
<1> QED BY <1>1, <1>2, <1>3, <1>4, <1>5 DEF Step, PublisherStep

\* Only a thread that has not ended takes a step, and none comes back.
LEMMA AliveStep ==
  ASSUME Inv, HistoryOK, NEW t \in Thread, Step(t), UNCHANGED wiring
  PROVE  Alive(t) /\ \A u \in Thread : Alive(u)' => Alive(u)
<1>1. Alive(t)
  BY StepKinds DEF Alive
<1>2. \A u \in Thread : u # t => pc'[u] = pc[u]
  BY StepFrame DEF Same
<1> QED BY <1>1, <1>2 DEF Alive

\* A queue without sender never gets one again.
LEMMA SenderStep ==
  ASSUME UNCHANGED wiring, \A u \in Thread : Alive(u)' => Alive(u), NEW c, ~HasSender(c)
  PROVE  ~HasSender(c)'
  BY DEF HasSender

-----------------------------------------------------------------------------
(* How a stream ends.                                                      *)

\* A Take in the chain of t has had enough.
Cut(t) == \E j \in 1..(Depth(t) - 1) :
            Chain(t)[j].kind = "Take" /\ mem[t][j] > Chain(t)[j].arg

\* The publisher of t has no item and will not get one.
Exhausted(t) ==
  \/ Pub(t).kind = "IterPublisher" /\ source[t] = <<>>
  \/ Pub(t).kind \in {"Coupler", "NetStreamer"} /\ Disconnected(t)

\* Its Takes count in numbers.
Counts(t) == \A j \in 1..Depth(t) : Chain(t)[j].kind = "Take" => mem[t][j] \in Nat

\* on_complete has its reason.
CompleteOK(t) == Completed(t) => Cut(t) \/ Exhausted(t)

\* The count of a Take is the length of its history.
LEMMA CountsOK ==
  ASSUME NEW t \in Thread, NEW h, TraceOK(t, h)
  PROVE  Counts(t)
<1>1. \A j \in 1..Depth(t) : Len(h[j]) \in Nat
  BY SeqLen DEF TraceOK
<1> QED BY <1>1 DEF TraceOK, Kept, Counts

\* A Take has had enough for good.
LEMMA CutStep ==
  ASSUME Inv, HistoryOK, NEW t \in Thread, Step(t), UNCHANGED wiring, Counts(t), Cut(t)
  PROVE  Cut(t)'
<1>0. IsChain(Chain(t)) /\ Depth(t) \in Nat /\ DOMAIN mem = Thread /\ DOMAIN mem[t] = 1..Depth(t)
  BY ChainOK, WiringDepth DEF Inv, HistoryOK
<1>1. PICK j \in 1..(Depth(t) - 1) : Chain(t)[j].kind = "Take" /\ mem[t][j] > Chain(t)[j].arg
  BY DEF Cut
<1>2. j \in 1..Depth(t) /\ mem[t][j] \in Nat /\ Chain(t)[j].arg \in Nat
  BY <1>0, <1>1 DEF Counts, IsChain, Bounded
<1>3. mem'[t][j] = mem[t][j] \/ mem'[t][j] = mem[t][j] + 1
  <2>1. CASE mem' = mem
    BY <2>1
  <2>2. CASE pc[t] = "on_next" /\ OnNextStep(t) /\ ~UnzipResume(t)
    <3>1. CASE at[t] # j
      BY <1>2, <2>2, <3>1, OnNextKeeps
    <3>2. CASE at[t] = j
      <4>1. TakeOnNext(t)
        BY <1>1, <2>2, <3>2 DEF OnNextStep, DoOnNext, MapOnNext, MapVal1OnNext, ReduceOnNext, EnumerateOnNext,
              TeeOnNext, UnzipOnNext, TakeOnNext, SinkOnNext, DecouplerOnNext, Running
      <4> QED BY <1>0, <1>2, <3>2, <4>1 DEF TakeOnNext, SetMem, Mem
    <3> QED BY <3>1, <3>2
  <2>3. CASE subscribe(t) \/ UnzipResume(t) \/ Loop(t)
    BY <2>1, <2>3 DEF subscribe, UnzipResume, Loop
  <2>4. CASE PublisherStep(t)
    BY <2>1, <2>4, IdleStep
  <2> QED BY <2>2, <2>3, <2>4, StepKinds
<1>4. mem'[t][j] > Chain(t)[j].arg
  BY <1>1, <1>2, <1>3
<1> QED BY <1>1, <1>4 DEF Cut

\* The other signals complete nothing.
LEMMA CompletedStep ==
  ASSUME Inv, NEW t \in Thread, UNCHANGED wiring, Completed(t)',
         \/ signals'[t] = signals[t]
         \/ Notify(t, "on_subscribe") \/ Notify(t, "on_next")
  PROVE  Completed(t)
<1>1. CASE signals'[t] = signals[t]
  BY <1>1 DEF Completed, ToSet
<1>2. ASSUME NEW sig \in Signal, sig # "on_complete", Notify(t, sig) PROVE Completed(t)
  <2>0. signals[t] \in Seq(Signal)
    BY DEF Inv, TypeOK
  <2>1. /\ signals'[t] \in Seq(Signal) /\ Len(signals[t]) \in Nat
        /\ Len(signals'[t]) = Len(signals[t]) + 1
        /\ \A i \in 1..Len(signals[t]) : signals'[t][i] = signals[t][i]
        /\ signals'[t][Len(signals[t]) + 1] = sig
    BY <1>2, NotifySignals DEF Inv
  <2>2. DOMAIN signals[t] = 1..Len(signals[t]) /\ DOMAIN signals'[t] = 1..Len(signals'[t])
    BY <2>0, <2>1, LenProperties
  <2>3. PICK i \in 1..Len(signals'[t]) : signals'[t][i] = "on_complete"
    BY <2>2 DEF Completed, ToSet
  <2>4. i \in 1..Len(signals[t])
    BY <1>2, <2>1, <2>3
  <2> QED BY <2>1, <2>2, <2>3, <2>4 DEF Completed, ToSet
<1> QED BY <1>1, <1>2 DEF Signal

\* An iterator that is at its end and a queue without content or sender stay so.
LEMMA ExhaustedStep ==
  ASSUME Inv, HistoryOK, SeenOK, QueuesOK, NEW u \in Thread, Step(u), UNCHANGED wiring,
         NEW t \in Thread, Exhausted(t)
  PROVE  Exhausted(t)'
<1>1. CASE Pub(t).kind = "IterPublisher" /\ source[t] = <<>>
  <2>1. Iterated(u) /\ DOMAIN source = Thread
    BY SourceStep DEF QueuesOK
  <2>2. source'[t] = source[t]
    BY <1>1, <2>1 DEF Iterated
  <2> QED BY <1>1, <2>2 DEF Exhausted
<1>2. CASE Pub(t).kind \in {"Coupler", "NetStreamer"} /\ Disconnected(t)
  <2>1. PICK c : c = Pub(t).rx
    OBVIOUS
  <2>2. c \in Channel
    BY <1>2, <2>1, WiringAssumption DEF Inv, TypeOK, IsWiring, IsPublisher
  <2>3. chan[c] = <<>> /\ ~HasSender(c)
    BY <1>2, <2>1 DEF Disconnected
  <2>4. Alive(u) /\ \A v \in Thread : Alive(v)' => Alive(v)
    BY AliveStep
  <2>5. ~HasSender(c)'
    BY <2>3, <2>4, SenderStep
  <2>6. ~SendsOn(u, c)
    BY <2>3, <2>4, StageOK DEF SendsOn, HasSender
  <2>7. Rests(u, c)
    BY <2>2, <2>3, <2>6, QueueStep DEF Gets, Gives
  <2>8. Disconnected(t)'
    BY <2>1, <2>3, <2>5, <2>7 DEF Rests, Disconnected, HasSender
  <2> QED BY <1>2, <2>8 DEF Exhausted
<1> QED BY <1>1, <1>2 DEF Exhausted

\* on_complete comes from a Take that has had enough or from a publisher that is
\* exhausted.
LEMMA WhoCompletes ==
  ASSUME Inv, HistoryOK, SeenOK, QueuesOK, NEW t \in Thread, Step(t), UNCHANGED wiring,
         Counts(t), Completed(t)'
  PROVE  Completed(t) \/ Cut(t)' \/ Exhausted(t)'
<1>0. /\ IsChain(Chain(t)) /\ Depth(t) \in Nat /\ DOMAIN mem = Thread /\ DOMAIN mem[t] = 1..Depth(t)
      /\ signals \in [Thread -> Seq(Signal)] /\ pc \in [Thread -> PC] /\ at \in [Thread -> Nat]
  BY ChainOK, WiringDepth DEF Inv, HistoryOK, TypeOK
<1>1. ASSUME \/ signals' = signals
             \/ Notify(t, "on_subscribe") \/ Notify(t, "on_next")
      PROVE  Completed(t)
  <2>1. \/ signals'[t] = signals[t]
        \/ Notify(t, "on_subscribe") \/ Notify(t, "on_next")
    BY <1>1
  <2> QED BY <2>1, CompletedStep
<1>2. CASE subscribe(t) \/ Loop(t)
  BY <1>1, <1>2 DEF subscribe, Loop
<1>3. CASE OnNextStep(t) /\ ~TakeOnNext(t)
  BY <1>1, <1>3 DEF OnNextStep, DoOnNext, MapOnNext, MapVal1OnNext, ReduceOnNext, EnumerateOnNext, TeeOnNext,
              UnzipOnNext, UnzipResume, SinkOnNext, DecouplerOnNext, Receive
<1>4. CASE TakeOnNext(t)
  <2>1. CASE signals' = signals
    BY <1>1, <2>1
  <2>2. CASE signals' # signals
    <3>1. /\ pc[t] = "on_next" /\ Stage(t).kind = "Take" /\ HasSubscriber(t)
          /\ SetMem(t, Mem(t) + 1) /\ PastMax(Mem(t) + 1, Stage(t).arg)
      BY <1>4, <2>2 DEF TakeOnNext, Running
    <3>2. PICK j : j = at[t]
      OBVIOUS
    <3>3. j \in 1..(Depth(t) - 1) /\ j \in 1..Depth(t)
      BY <1>0, <3>1, <3>2, StageOK DEF HasSubscriber
    <3>4. mem'[t][j] = mem[t][j] + 1
      BY <1>0, <3>1, <3>2, <3>3 DEF SetMem, Mem
    <3>5. mem'[t][j] > Chain(t)[j].arg /\ Chain(t)[j].kind = "Take"
      BY <3>1, <3>2, <3>4 DEF Mem, PastMax
    <3> QED BY <3>3, <3>5 DEF Cut
  <2> QED BY <2>1, <2>2
<1>5. CASE TryNextUnimplemented(t) \/ NextWithoutSubscriber(t) \/ RepeatNext(t) \/ RndGenNext(t)
  BY <1>1, <1>5 DEF TryNextUnimplemented, NextWithoutSubscriber, RepeatNext, RndGenNext
<1>6. CASE IterNext(t)
  <2>1. CASE source[t] # <<>>
    BY <1>1, <1>6, <2>1 DEF IterNext
  <2>2. CASE source[t] = <<>>
    BY <1>6, <2>2, ExhaustedStep DEF IterNext, Idle, Exhausted
  <2> QED BY <2>1, <2>2
<1>7. CASE CouplerNext(t)
  <2>1. CASE Disconnected(t)
    BY <1>7, <2>1, ExhaustedStep DEF CouplerNext, Idle, Exhausted
  <2>2. CASE ~Disconnected(t)
    BY <1>1, <1>7, <2>2 DEF CouplerNext
  <2> QED BY <2>1, <2>2
<1> QED BY <1>2, <1>3, <1>4, <1>5, <1>6, <1>7 DEF Step, PublisherStep

\* Steps of t and of the other threads.
LEMMA CompleteStep ==
  ASSUME Inv, HistoryOK, SeenOK, QueuesOK, NEW u \in Thread, Step(u), UNCHANGED wiring,
         NEW t \in Thread, Counts(t), CompleteOK(t)
  PROVE  CompleteOK(t)'
<1>1. ASSUME Completed(t)' PROVE Cut(t)' \/ Exhausted(t)'
  <2>1. CASE t = u
    <3>1. Completed(t) \/ Cut(t)' \/ Exhausted(t)'
      BY <1>1, <2>1, WhoCompletes
    <3>2. Cut(t) => Cut(t)'
      BY <2>1, CutStep
    <3> QED BY <3>1, <3>2, ExhaustedStep DEF CompleteOK
  <2>2. CASE t # u
    <3>1. signals'[t] = signals[t] /\ mem'[t] = mem[t]
      BY <2>2, StepFrame DEF Same
    <3>2. Completed(t)
      BY <1>1, <3>1, CompletedStep
    <3>3. Cut(t) => Cut(t)'
      BY <3>1 DEF Cut
    <3> QED BY <3>2, <3>3, ExhaustedStep DEF CompleteOK
  <2> QED BY <2>1, <2>2
<1> QED BY <1>1 DEF CompleteOK

\* Steps that are no thread's.
LEMMA CompleteElse ==
  ASSUME Inv, NEW t \in Thread, CompleteOK(t), UNCHANGED <<wiring, pc, mem, source, signals>>,
         Pub(t).kind \in {"Coupler", "NetStreamer"} /\ chan[Pub(t).rx] = <<>> => chan'[Pub(t).rx] = <<>>
  PROVE  CompleteOK(t)'
<1>1. Completed(t)' <=> Completed(t)
  BY DEF Completed, ToSet
<1>2. Cut(t)' <=> Cut(t)
  BY DEF Cut
<1>3. Exhausted(t) => Exhausted(t)'
  <2>1. ~HasSender(Pub(t).rx) => ~HasSender(Pub(t).rx)'
    BY DEF HasSender, Alive
  <2> QED BY <2>1 DEF Exhausted, Disconnected
<1> QED BY <1>1, <1>2, <1>3 DEF CompleteOK

-----------------------------------------------------------------------------
(* What is on its way between two threads.                                 *)

\* An iterator, or a queue, holds what has not been pulled of it yet.
SourceOK(t) == Pub(t).kind = "IterPublisher" => Joins(pulled[t], source[t], Pub(t).items)
FifoOK(t)   == \A c \in Channel : Reads(t, c) => Joins(pulled[t], chan[c], sent[c])

\* A thread with a sink panics only in next(), before any on_next.
PanicOK(t) == HasSink(t) /\ pc[t] = "panicked" => stack[t] = <<>>

\* Stage i of p is the one that sends to t, over c.
Link(t, p, i, c) == HasSink(t) /\ Reads(t, c) /\ SoleSender(p, i, c)

\* t has ended, and not because there was nothing more to receive.
Gone(t) == ~Alive(t) /\ (Completed(t) => Cut(t))

\* Stage i has sent all it was given, until the receiver has gone.
LinkOK(t, p, h, i, c) ==
  LET o == Outbound(Chain(p)[i], h[i]) IN
  sent[c] = o \/ (Gone(t) /\ Begins(sent[c], o))

\* So do all the stages of p that send to a thread with a sink.
LinksOK(p, h) == \A t \in Thread, i \in 1..Depth(p), c \in Channel :
                   Link(t, p, i, c) => LinkOK(t, p, h, i, c)

\* No item of an iterator is skipped or given twice.
LEMMA SourceNext ==
  ASSUME HistoryOK, QueuesOK, NEW u \in Thread, Step(u), UNCHANGED wiring,
         NEW t \in Thread, u # t => pulled'[t] = pulled[t], SourceOK(t)
  PROVE  SourceOK(t)'
<1>1. ASSUME Pub(t).kind = "IterPublisher" PROVE Joins(pulled'[t], source'[t], Pub(t).items)
  <2>1. PICK a, b, r : a = pulled[t] /\ b = source[t] /\ r = Pub(t).items
    OBVIOUS
  <2>2. Joins(a, b, r)
    BY <1>1, <2>1 DEF SourceOK
  <2>3. Iterated(u) /\ DOMAIN source = Thread
    BY SourceStep DEF QueuesOK
  <2>4. CASE u # t
    <3>1. source'[t] = source[t]
      BY <2>3, <2>4 DEF Iterated
    <3> QED BY <2>1, <2>2, <2>4, <3>1
  <2>5. CASE u = t /\ source' = source
    BY <1>1, <2>1, <2>2, <2>3, <2>5 DEF Iterated
  <2>6. CASE u = t /\ source' # source
    <3>1. b # <<>> /\ source'[t] = Tail(b) /\ pulled'[t] = Append(a, Head(b))
      BY <2>1, <2>3, <2>6 DEF Iterated
    <3>2. Joins(Append(a, Head(b)), Tail(b), r)
      BY <2>2, <3>1, JoinsShift
    <3> QED BY <2>1, <3>1, <3>2
  <2> QED BY <2>4, <2>5, <2>6
<1> QED BY <1>1 DEF SourceOK, Joins

\* No item of a queue is skipped, given twice or overtaken.
LEMMA FifoNext ==
  ASSUME Inv, HistoryOK, SeenOK, QueuesOK, NEW u \in Thread, Step(u), UNCHANGED wiring,
         NEW t \in Thread, u # t => pulled'[t] = pulled[t], FifoOK(t)
  PROVE  FifoOK(t)'
<1>1. ASSUME NEW c \in Channel, Reads(t, c) PROVE Joins(pulled'[t], chan'[c], sent'[c])
  <2>1. PICK a, b, r : a = pulled[t] /\ b = chan[c] /\ r = sent[c]
    OBVIOUS
  <2>2. Joins(a, b, r)
    BY <1>1, <2>1 DEF FifoOK
  <2>3. Reads(u, c) => u = t
    BY <1>1, OwnershipAssumption DEF Inv, TypeOK, OneReceiver, Reads
  <2>4. CASE Rests(u, c)
    <3>1. pulled'[t] = a
      BY <1>1, <2>1, <2>4 DEF Rests
    <3> QED BY <2>1, <2>2, <2>4, <3>1 DEF Rests
  <2>5. CASE Gets(u, c)
    <3>1. PICK x : chan'[c] = Append(b, x) /\ sent'[c] = Append(r, x)
      BY <2>1, <2>5 DEF Gets
    <3>2. Joins(a, Append(b, x), Append(r, x))
      BY <2>2, JoinsAppend
    <3> QED BY <2>1, <2>5, <3>1, <3>2 DEF Gets
  <2>6. CASE Gives(u, c)
    <3>1. u = t /\ b # <<>> /\ chan'[c] = Tail(b) /\ sent'[c] = r /\ pulled'[t] = Append(a, Head(b))
      BY <2>1, <2>3, <2>6 DEF Gives
    <3>2. Joins(Append(a, Head(b)), Tail(b), r)
      BY <2>2, <3>1, JoinsShift
    <3> QED BY <3>1, <3>2
  <2> QED BY <2>4, <2>5, <2>6, QueueStep
<1>2. \A c \in Channel : Reads(t, c)' <=> Reads(t, c)
  BY DEF Reads
<1> QED BY <1>1, <1>2 DEF FifoOK, Joins

\* Queues and their histories stay sequences.
LEMMA QueuesNext ==
  ASSUME Inv, HistoryOK, SeenOK, QueuesOK, NEW u \in Thread, Step(u)
  PROVE  QueuesOK'
<1>1. DOMAIN item' = Thread
  BY ItemFrame DEF QueuesOK
<1>2. DOMAIN source' = Thread
  <2>1. Iterated(u) /\ DOMAIN source = Thread
    BY SourceStep DEF QueuesOK
  <2> QED BY <2>1 DEF Iterated
<1>3. ASSUME NEW c \in Channel PROVE IsSeq(chan'[c]) /\ IsSeq(sent'[c])
  <2>1. PICK b, r : b = chan[c] /\ r = sent[c]
    OBVIOUS
  <2>2. IsSeq(b) /\ IsSeq(r)
    BY <2>1 DEF QueuesOK
  <2>3. CASE Rests(u, c)
    BY <2>1, <2>2, <2>3 DEF Rests
  <2>4. CASE Gets(u, c)
    <3>1. PICK x : chan'[c] = Append(b, x) /\ sent'[c] = Append(r, x)
      BY <2>1, <2>4 DEF Gets
    <3>2. IsSeq(Append(b, x)) /\ IsSeq(Append(r, x))
      BY <2>2, SeqAppend
    <3> QED BY <3>1, <3>2
  <2>5. CASE Gives(u, c)
    <3>1. b # <<>> /\ chan'[c] = Tail(b) /\ sent'[c] = r
      BY <2>1, <2>5 DEF Gives
    <3>2. IsSeq(Tail(b))
      BY <2>2, <3>1, SeqTail
    <3> QED BY <2>2, <3>1, <3>2
  <2> QED BY <2>3, <2>4, <2>5, QueueStep
<1>4. DOMAIN chan' = Channel
  BY QueueStep
<1> QED BY <1>1, <1>2, <1>3, <1>4 DEF QueuesOK, IsSeq

\* A thread with a sink panics with no Unzip in progress.
LEMMA PanicNext ==
  ASSUME Inv, HistoryOK, NEW u \in Thread, Step(u), UNCHANGED wiring,
         NEW t \in Thread, PanicOK(t)
  PROVE  PanicOK(t)'
<1>0. (HasSink(t)' <=> HasSink(t)) /\ pc \in [Thread -> PC]
  BY SameWiring DEF Inv, TypeOK
<1>1. CASE u # t
  <2>1. pc'[t] = pc[t] /\ stack'[t] = stack[t]
    BY <1>1, StepFrame DEF Same
  <2> QED BY <1>0, <2>1 DEF PanicOK
<1>2. CASE u = t
  <2>1. ASSUME HasSink(t), pc'[t] = "panicked" PROVE pc[t] = "idle" /\ stack' = stack
    <3>1. ASSUME CompleteAndStop(t) PROVE FALSE
      BY <1>0, <2>1, <3>1 DEF CompleteAndStop, Return
    <3>2. ASSUME NEW x, Forward(t, x) PROVE FALSE
      BY <1>0, <2>1, <3>2 DEF Forward, Call, Return
    <3>3. CASE subscribe(t) \/ Loop(t)
      BY <1>0, <2>1, <3>3 DEF subscribe, Loop
    <3>4. CASE PublisherStep(t)
      BY <1>2, <3>4, IdleStep, StepKinds DEF subscribe, PublisherStep, TryNextUnimplemented,
         NextWithoutSubscriber, IterNext, RepeatNext, RndGenNext, CouplerNext, Idle
    <3>5. CASE OnNextStep(t)
      BY <1>0, <2>1, <3>1, <3>2, <3>5
         DEF OnNextStep, DoOnNext, MapOnNext, MapVal1OnNext, ReduceOnNext, EnumerateOnNext, TeeOnNext,
             UnzipOnNext, UnzipResume, TakeOnNext, SinkOnNext, DecouplerOnNext, Call, Return
    <3> QED BY <1>2, <3>3, <3>4, <3>5 DEF Step
  <2>2. pc[t] = "idle" => stack[t] = <<>>
    BY DEF Inv, StackOK
  <2> QED BY <1>0, <2>1, <2>2 DEF PanicOK
<1> QED BY <1>1, <1>2

\* A thread that has gone stays away.
LEMMA GoneNext ==
  ASSUME Inv, HistoryOK, NEW u \in Thread, Step(u), UNCHANGED wiring, NEW t \in Thread, Gone(t)
  PROVE  Gone(t)'
<1>1. t # u /\ ~Alive(t)'
  BY AliveStep DEF Gone
<1>2. signals'[t] = signals[t] /\ mem'[t] = mem[t]
  BY <1>1, StepFrame DEF Same
<1>3. Completed(t)' => Completed(t)
  BY <1>2, CompletedStep
<1>4. Cut(t) => Cut(t)'
  BY <1>2 DEF Cut
<1> QED BY <1>1, <1>3, <1>4 DEF Gone

\* If neither the stage nor its queue moves, nothing changes.
LEMMA LinkKeep ==
  ASSUME NEW t \in Thread, NEW p \in Thread, NEW h, NEW g, NEW i, NEW c, UNCHANGED wiring,
         LinkOK(t, p, h, i, c), sent'[c] = sent[c], g[i] = h[i], Gone(t) => Gone(t)'
  PROVE  LinkOK(t, p, g, i, c)'
  BY DEF LinkOK, Outbound, Begins

\* The sender of a link executes on_next.  A send fails only if the receiver has
\* ended, and then the receiver was not told that there is nothing more to come.
LEMMA LinkSends ==
  ASSUME Inv, HistoryOK, SeenOK, QueuesOK, NEW p \in Thread, NEW h, NEW g, Executes(p, h, g),
         NEW t \in Thread, NEW i, i = at[p], NEW c \in Channel, Link(t, p, i, c),
         LinkOK(t, p, h, i, c), CompleteOK(t)
  PROVE  LinkOK(t, p, g, i, c)'
<1>1. PICK s, x, xs, q : s = Chain(p)[i] /\ x = item[p] /\ xs = h[i] /\ q = sent[c]
  OBVIOUS
<1>2. PICK m, o : /\ m = (IF s.kind = "NetStreamer" THEN <<x[1], s.init>> ELSE x)
                  /\ o = Outbound(s, xs)
  OBVIOUS
<1>3. /\ Depth(p) \in Nat /\ i \in 1..Depth(p) /\ IsSeq(xs) /\ g[i] = Append(xs, x)
  BY <1>1, GrowFacts
<1>4. /\ pc[p] = "on_next" /\ OnNextStep(p) /\ ~UnzipResume(p) /\ wiring' = wiring /\ Step(p)
      /\ HasSink(p)
  BY DEF Executes, Step
<1>5. s.kind \in SenderKind /\ s.arg = c /\ Stage(p) = s
  BY <1>1, <1>3 DEF Link, SoleSender
<1>6. IsSeq(o) /\ Outbound(s, Append(xs, x)) = Append(o, m)
  <2>1. xs \in Seq(Range(xs))
    BY <1>3, SeqRange
  <2>2. Outbound(s, xs) \in Seq(Range(Outbound(s, xs)))
        /\ Outbound(s, Append(xs, x)) =
             Append(Outbound(s, xs), IF s.kind = "NetStreamer" THEN <<x[1], s.init>> ELSE x)
    BY ONLY <2>1, OutboundAppend
  <2> QED BY <1>2, <2>2, SeqRange
<1>7. \E r \in BOOLEAN : Send(c, m, r)
  <2>1. CASE s.kind = "Tee"
    <3>1. TeeOnNext(p)
      BY <1>4, <1>5, <2>1 DEF OnNextStep, DoOnNext, MapOnNext, MapVal1OnNext, ReduceOnNext, EnumerateOnNext,
         TeeOnNext, UnzipOnNext, TakeOnNext, SinkOnNext, DecouplerOnNext, Running
    <3>2. HasSubscriber(p)
      <4>1. i # Depth(p)
        BY <1>1, <1>4, <2>1 DEF HasSink, SinkKind
      <4> QED BY <1>3, <4>1 DEF HasSubscriber
    <3> QED BY <1>1, <1>2, <1>5, <2>1, <3>1, <3>2 DEF TeeOnNext
  <2>2. CASE s.kind \in {"Decoupler", "NetStreamer"}
    <3>1. DecouplerOnNext(p)
      BY <1>4, <1>5, <2>2 DEF OnNextStep, DoOnNext, MapOnNext, MapVal1OnNext, ReduceOnNext, EnumerateOnNext,
         TeeOnNext, UnzipOnNext, TakeOnNext, SinkOnNext, DecouplerOnNext, Running
    <3>2. Outgoing(p) = m
      BY <1>1, <1>2, <1>5 DEF Outgoing
    <3> QED BY <1>5, <3>1, <3>2 DEF DecouplerOnNext
  <2> QED BY <1>5, <2>1, <2>2 DEF SenderKind
<1>8. PICK r \in BOOLEAN : Send(c, m, r)
  BY <1>7
<1>9. Alive(p) /\ HasSender(c)
  <2>1. Alive(p)
    BY <1>4 DEF Alive
  <2> QED BY <1>1, <1>3, <1>5, <2>1 DEF HasSender
<1>10. r <=> Alive(t)
  <2>1. wiring.chan[c].kind # "EventLoopSender"
    <3>1. Pub(t).rx = c
      BY DEF Link, Reads
    <3> QED BY <3>1, WiringAssumption DEF Inv, TypeOK, IsWiring
  <2>2. r <=> HasReceiver(c)
    BY <1>8, <2>1 DEF Send, SendFails
  <2>3. HasReceiver(c) <=> Alive(t)
    <3>1. Pub(t).rx = c
      BY DEF Link, Reads
    <3>2. \A u \in Thread : Pub(u).rx = c => u = t
      BY <3>1, OwnershipAssumption DEF Inv, TypeOK, OneReceiver
    <3> QED BY <3>1, <3>2 DEF HasReceiver
  <2> QED BY <2>2, <2>3
<1>11. q = o \/ (Gone(t) /\ Begins(q, o))
  BY <1>1, <1>2 DEF LinkOK
<1>12. DOMAIN sent = Channel /\ IsSeq(q)
  BY <1>1 DEF SeenOK, QueuesOK
<1>13. CASE Alive(t)
  <2>1. q = o
    BY <1>11, <1>13 DEF Gone
  <2>2. sent'[c] = Append(q, m)
    BY <1>1, <1>8, <1>10, <1>12, <1>13 DEF Send
  <2>3. sent'[c] = Outbound(s, g[i])
    BY <1>3, <1>6, <2>1, <2>2
  <2> QED BY <1>1, <1>4, <2>3 DEF LinkOK, Outbound
<1>14. CASE ~Alive(t)
  <2>1. sent'[c] = q
    BY <1>1, <1>8, <1>10, <1>14 DEF Send
  <2>2. Gone(t)
    <3>1. ~Exhausted(t)
      BY <1>9 DEF Exhausted, Disconnected, Link, Reads
    <3> QED BY <1>14, <3>1 DEF Gone, CompleteOK
  <2>3. Gone(t)'
    BY <1>4, <2>2, GoneNext
  <2>4. Begins(q, Append(o, m))
    <3>1. Begins(q, o)
      BY <1>6, <1>11, BeginsSelf
    <3>2. IsSeq(Append(o, m)) /\ Begins(o, Append(o, m))
      BY <1>6, SeqAppend, BeginsAppend
    <3> QED BY <1>6, <1>12, <3>1, <3>2, BeginsTrans
  <2>5. Begins(sent'[c], Outbound(s, g[i]))
    BY <1>3, <1>6, <2>1, <2>4
  <2>6. Begins(sent[c], Outbound(s, g[i]))'
    BY <1>1, <1>4, <2>5 DEF Outbound, Begins
  <2> QED BY <1>1, <1>4, <2>3, <2>6 DEF LinkOK
<1> QED BY <1>13, <1>14

\* Steps of the sending thread.
LEMMA LinksOwn ==
  ASSUME Inv, HistoryOK, SeenOK, QueuesOK, NEW p \in Thread, HasSink(p), Step(p), UNCHANGED wiring,
         NEW h, TraceOK(p, h), LinksOK(p, h), NEW g, g = After(p, h),
         \A t \in Thread : HasSink(t) => CompleteOK(t)
  PROVE  LinksOK(p, g)'
<1>1. ASSUME NEW t \in Thread, NEW i \in 1..Depth(p), NEW c \in Channel, Link(t, p, i, c)
      PROVE  LinkOK(t, p, g, i, c)'
  <2>1. LinkOK(t, p, h, i, c) /\ CompleteOK(t)
    BY <1>1 DEF LinksOK, Link
  <2>2. CASE pc[p] = "on_next" /\ at[p] = i
    <3>1. OnNextStep(p) /\ ~UnzipResume(p)
      BY <2>2, StepKinds
    <3>2. Executes(p, h, g)
      BY <2>2, <3>1 DEF Executes, After, QueuesOK
    <3> QED BY <1>1, <2>1, <2>2, <3>2, LinkSends
  <2>3. CASE ~(pc[p] = "on_next" /\ at[p] = i)
    <3>1. pc[p] = "on_next" => at[p] \in 1..Depth(p)
      BY StageOK
    <3>2. sent'[c] = sent[c]
      BY <1>1, <2>3, <3>1, SentFrame DEF Link, SoleSender
    <3>3. g[i] = h[i]
      BY <2>3 DEF After, Grow
    <3> QED BY <2>1, <3>2, <3>3, GoneNext, LinkKeep
  <2> QED BY <2>2, <2>3
<1>2. \A t \in Thread, i \in 1..Depth(p), c \in Channel : Link(t, p, i, c)' => Link(t, p, i, c)
  BY DEF Link, HasSink, Reads, SoleSender
<1> QED BY <1>1, <1>2 DEF LinksOK

\* Steps of others.
LEMMA LinksOther ==
  ASSUME Inv, HistoryOK, SeenOK, QueuesOK, NEW u \in Thread, Step(u), UNCHANGED wiring,
         NEW p \in Thread, p # u, NEW h, LinksOK(p, h)
  PROVE  LinksOK(p, h)'
<1>1. ASSUME NEW t \in Thread, NEW i \in 1..Depth(p), NEW c \in Channel, Link(t, p, i, c)
      PROVE  LinkOK(t, p, h, i, c)'
  <2>1. LinkOK(t, p, h, i, c)
    BY <1>1 DEF LinksOK
  <2>2. pc[u] = "on_next" => at[u] \in 1..Depth(u)
    BY StageOK
  <2>3. sent'[c] = sent[c]
    BY <1>1, <2>2, SentFrame DEF Link, SoleSender
  <2> QED BY <2>1, <2>3, GoneNext, LinkKeep
<1>2. \A t \in Thread, i \in 1..Depth(p), c \in Channel : Link(t, p, i, c)' => Link(t, p, i, c)
  BY DEF Link, HasSink, Reads, SoleSender
<1> QED BY <1>1, <1>2 DEF LinksOK

\* The inductive invariant: iterators and queues hold what has not been pulled of
\* them, completion has its reason, and some histories of the stages of each chain
\* account for every item, inside the chain and on the queues it sends on.
Flow ==
  /\ Loss /\ QueuesOK
  /\ \A t \in Thread : SourceOK(t) /\ FifoOK(t) /\ PanicOK(t)
  /\ \A t \in Thread : HasSink(t) => CompleteOK(t) /\ \E h : TraceOK(t, h) /\ LinksOK(t, h)

\* Before the first step nothing is on its way.
LEMMA InitFlow == Init => Flow
<1> SUFFICES ASSUME Init PROVE Flow
  OBVIOUS
<1>0. Loss /\ wiring \in Wiring
  BY InitLoss DEF Init
<1>1. QueuesOK
  <2>1. \A c \in Channel : chan[c] = <<>> /\ sent[c] = <<>>
    BY DEF Init
  <2>2. DOMAIN item = Thread /\ DOMAIN source = Thread /\ DOMAIN chan = Channel
    BY DEF Init
  <2> QED BY <2>1, <2>2, SeqEmpty DEF QueuesOK
<1>2. ASSUME NEW t \in Thread PROVE SourceOK(t) /\ FifoOK(t) /\ PanicOK(t)
  <2>1. pulled[t] = <<>> /\ source[t] = Pub(t).items /\ pc[t] # "panicked"
    BY DEF Init
  <2>2. \A c \in Channel : chan[c] = <<>> /\ sent[c] = <<>>
    BY DEF Init
  <2>3. Pub(t).kind = "IterPublisher" => IsSeq(Pub(t).items)
    BY <1>0, OwnershipAssumption DEF Iterates
  <2>4. SourceOK(t)
    <3>1. PICK r : r = Pub(t).items
      OBVIOUS
    <3>2. IsSeq(r) => Joins(<<>>, r, r)
      BY JoinsStart
    <3> QED BY <2>1, <2>3, <3>1, <3>2 DEF SourceOK
  <2>5. FifoOK(t)
    <3>1. Joins(<<>>, <<>>, <<>>)
      BY SeqEmpty, JoinsStart
    <3> QED BY <2>1, <2>2, <3>1 DEF FifoOK
  <2> QED BY <2>1, <2>4, <2>5 DEF PanicOK
<1>3. ASSUME NEW p \in Thread, HasSink(p)
      PROVE  CompleteOK(p) /\ \E h : TraceOK(p, h) /\ LinksOK(p, h)
  <2>1. ~Completed(p)
    BY DEF Init, Completed, ToSet
  <2>2. PICK h : h = [i \in 1..Depth(p) |-> <<>>]
    OBVIOUS
  <2>3. TraceOK(p, h)
    BY <1>3, <2>2, TraceInit
  <2>4. ASSUME NEW t \in Thread, NEW i \in 1..Depth(p), NEW c \in Channel PROVE LinkOK(t, p, h, i, c)
    <3>1. sent[c] = <<>> /\ h[i] = <<>>
      BY <2>2 DEF Init
    <3>2. DOMAIN <<>> = {} /\ [k \in {} |-> <<h[i][k][1], Chain(p)[i].init>>] = <<>>
      OBVIOUS
    <3>3. Outbound(Chain(p)[i], h[i]) = <<>>
      BY <3>1, <3>2 DEF Outbound
    <3> QED BY <3>1, <3>3 DEF LinkOK
  <2> QED BY <2>1, <2>3, <2>4 DEF CompleteOK, LinksOK
<1> QED BY <1>0, <1>1, <1>2, <1>3 DEF Flow

\* Steps of a thread.
LEMMA FlowStep ==
  ASSUME Flow, Loss', NEW u \in Thread, Step(u), UNCHANGED wiring
  PROVE  Flow'
<1>0. Inv /\ HistoryOK /\ SeenOK /\ QueuesOK /\ DOMAIN item = Thread
  BY DEF Flow, Loss, Full, QueuesOK
<1>1. /\ \A t \in Thread : t # u => /\ Same(t) /\ mem'[t] = mem[t] /\ pulled'[t] = pulled[t]
                                    /\ seen'[t] = seen[t] /\ item'[t] = item[t]
  BY <1>0, StepFrame, SeenFrame, ItemFrame
<1>2. QueuesOK'
  BY <1>0, QueuesNext
<1>3. ASSUME NEW t \in Thread PROVE (SourceOK(t) /\ FifoOK(t) /\ PanicOK(t))'
  <2>1. SourceOK(t) /\ FifoOK(t) /\ PanicOK(t) /\ (u # t => pulled'[t] = pulled[t])
    BY <1>1 DEF Flow
  <2> QED BY <1>0, <2>1, SourceNext, FifoNext, PanicNext
<1>4. ASSUME NEW p \in Thread, HasSink(p)
      PROVE  CompleteOK(p)' /\ \E h : TraceOK(p, h)' /\ LinksOK(p, h)'
  <2>1. PICK h : TraceOK(p, h) /\ LinksOK(p, h)
    BY <1>4 DEF Flow
  <2>2. CompleteOK(p) /\ \A t \in Thread : HasSink(t) => CompleteOK(t)
    BY <1>4 DEF Flow
  <2>3. CompleteOK(p)'
    BY <1>0, <2>1, <2>2, CountsOK, CompleteStep
  <2>4. CASE p = u
    <3>1. PICK g : g = After(p, h)
      OBVIOUS
    <3>2. TraceOK(p, g)'
      BY <1>0, <1>4, <2>1, <2>4, <3>1, TraceStep
    <3>3. LinksOK(p, g)'
      BY <1>0, <1>4, <2>1, <2>2, <2>4, <3>1, LinksOwn
    <3> QED BY <2>3, <3>2, <3>3
  <2>5. CASE p # u
    <3>1. TraceOK(p, h)'
      BY <1>1, <2>1, <2>5, TraceOther
    <3>2. LinksOK(p, h)'
      BY <1>0, <2>1, <2>5, LinksOther
    <3> QED BY <2>3, <3>1, <3>2
  <2> QED BY <2>4, <2>5
<1>5. \A t \in Thread : HasSink(t)' <=> HasSink(t)
  BY SameWiring
<1> QED BY <1>2, <1>3, <1>4, <1>5 DEF Flow

\* The event loop takes a message, or nothing happens.
LEMMA FlowElse ==
  ASSUME Flow, Loss',
         UNCHANGED <<wiring, pc, at, item, ok, stack, mem, source, pulled, seen, signals, sent>>,
         chan' = chan \/ \E c \in Channel : EventLoopTakes(c)
  PROVE  Flow'
<1>0. Inv /\ QueuesOK /\ DOMAIN chan = Channel /\ wiring \in Wiring
  BY DEF Flow, Loss, Full, QueuesOK, Inv, TypeOK
<1>1. ASSUME NEW t \in Thread, NEW c \in Channel, Reads(t, c) PROVE chan'[c] = chan[c]
  <2>1. wiring.chan[c].kind # "EventLoopSender"
    BY <1>0, <1>1, WiringAssumption DEF IsWiring, Reads
  <2> QED BY <1>0, <2>1 DEF EventLoopTakes
<1>2. QueuesOK'
  <2>1. CASE chan' = chan
    BY <1>0, <2>1 DEF QueuesOK
  <2>2. CASE \E d \in Channel : EventLoopTakes(d)
    <3>1. PICK d \in Channel : chan[d] # <<>> /\ chan' = [chan EXCEPT ![d] = Tail(@)]
      BY <2>2 DEF EventLoopTakes
    <3>2. PICK b : b = chan[d]
      OBVIOUS
    <3>3. IsSeq(Tail(b))
      BY <1>0, <3>1, <3>2, SeqTail DEF QueuesOK
    <3>4. \A c \in Channel : chan'[c] = IF c = d THEN Tail(b) ELSE chan[c]
      BY <1>0, <3>1, <3>2
    <3>5. ASSUME NEW c \in Channel PROVE IsSeq(chan'[c])
      BY <1>0, <3>3, <3>4 DEF QueuesOK
    <3>6. DOMAIN chan' = Channel
      BY <1>0, <3>1
    <3> QED BY <1>0, <3>5, <3>6 DEF QueuesOK
  <2> QED BY <2>1, <2>2
<1>3. ASSUME NEW t \in Thread PROVE (SourceOK(t) /\ FifoOK(t) /\ PanicOK(t))'
  <2>1. SourceOK(t) /\ FifoOK(t) /\ PanicOK(t)
    BY DEF Flow
  <2>2. \A c \in Channel : Reads(t, c)' <=> Reads(t, c)
    BY DEF Reads
  <2>3. FifoOK(t)'
    <3>1. ASSUME NEW c \in Channel, Reads(t, c) PROVE Joins(pulled'[t], chan'[c], sent'[c])
      BY <1>1, <2>1, <3>1 DEF FifoOK
    <3> QED BY <2>2, <3>1 DEF FifoOK, Joins
  <2>4. SourceOK(t)'
    BY <2>1 DEF SourceOK, Joins
  <2>5. PanicOK(t)'
    BY <2>1, SameWiring DEF PanicOK
  <2> QED BY <2>3, <2>4, <2>5
<1>4. ASSUME NEW p \in Thread, HasSink(p)
      PROVE  CompleteOK(p)' /\ \E h : TraceOK(p, h)' /\ LinksOK(p, h)'
  <2>1. PICK h : TraceOK(p, h) /\ LinksOK(p, h)
    BY <1>4 DEF Flow
  <2>2. CompleteOK(p)'
    <3>1. CompleteOK(p)
      BY <1>4 DEF Flow
    <3>2. Pub(p).kind \in {"Coupler", "NetStreamer"} => chan'[Pub(p).rx] = chan[Pub(p).rx]
      <4>1. Pub(p).kind \in {"Coupler", "NetStreamer"} => Pub(p).rx \in Channel
        BY <1>0, WiringAssumption DEF IsWiring, IsPublisher
      <4> QED BY <1>1, <4>1 DEF Reads
    <3> QED BY <1>0, <3>1, <3>2, CompleteElse
  <2>3. TraceOK(p, h)'
    BY <2>1, TraceOther DEF Same
  <2>4. ASSUME NEW t \in Thread, NEW i \in 1..Depth(p), NEW c \in Channel, Link(t, p, i, c)
        PROVE  LinkOK(t, p, h, i, c)'
    <3>1. LinkOK(t, p, h, i, c)
      BY <2>1, <2>4 DEF LinksOK
    <3>2. Gone(t) => Gone(t)'
      BY DEF Gone, Alive, Completed, ToSet, Cut
    <3> QED BY <3>1, <3>2, LinkKeep
  <2>5. \A t \in Thread, i \in 1..Depth(p), c \in Channel : Link(t, p, i, c)' => Link(t, p, i, c)
    BY DEF Link, HasSink, Reads, SoleSender
  <2>6. LinksOK(p, h)'
    BY <2>4, <2>5 DEF LinksOK
  <2> QED BY <2>2, <2>3, <2>6
<1>5. \A t \in Thread : HasSink(t)' <=> HasSink(t)
  BY SameWiring
<1> QED BY <1>2, <1>3, <1>4, <1>5 DEF Flow

\* Every step of the program keeps the invariant.
LEMMA NextFlow == Flow /\ [Next]_vars => Flow'
<1> SUFFICES ASSUME Flow, [Next]_vars PROVE Flow'
  OBVIOUS
<1>0. Loss'
  BY NextLoss DEF Flow
<1>1. CASE \E t \in Thread : Step(t) /\ UNCHANGED wiring
  BY <1>0, <1>1, FlowStep
<1>2. CASE \E c \in Channel : EventLoopTakes(c) /\ UNCHANGED wiring
  BY <1>0, <1>2, FlowElse DEF EventLoopTakes
<1>3. CASE UNCHANGED vars
  BY <1>0, <1>3, FlowElse DEF vars
<1> QED BY <1>1, <1>2, <1>3 DEF Next, Finished

\* The invariant holds throughout.
LEMMA FlowHolds == Spec => []Flow
  BY InitFlow, NextFlow, PTL DEF Spec

\* Between two calls of next() the sink of a chain has received exactly what the
\* batch definition makes of the items pulled so far: no stage (state kept in
\* Reduce, Enumerate and Take, the two calls of Unzip) and no blocked send makes
\* an item late, lost, repeated or out of order.
THEOREM StreamingMatchesBatchHolds == Spec => []StreamingMatchesBatch
<1>1. Flow => StreamingMatchesBatch
  <2> SUFFICES ASSUME Flow, NEW t \in Thread, pc[t] \in {"idle", "done"}, HasSink(t)
               PROVE  seen[t] = Ref(Chain(t), pulled[t])
    BY DEF StreamingMatchesBatch
  <2>1. Inv
    BY DEF Flow, Loss, Full
  <2>2. PICK h : TraceOK(t, h)
    BY DEF Flow
  <2>3. Quiet(t)
    BY <2>1 DEF Inv, StackOK, Quiet
  <2> QED BY <2>1, <2>2, <2>3, Settled
<1> QED BY <1>1, FlowHolds, PTL

-----------------------------------------------------------------------------
(* From thread to thread.                                                  *)

\* What p has pulled is a beginning of its input.
LEMMA InputBegins ==
  ASSUME Flow, NEW p \in Thread
  PROVE  IsSeq(pulled[p]) /\ IsSeq(Input(p)) /\ Begins(pulled[p], Input(p))
<1>1. PICK a, b, r : a = pulled[p] /\ b = source[p] /\ r = Pub(p).items
  OBVIOUS
<1>2. IsSeq(a)
  BY <1>1, SeqRange DEF Flow, Loss, Full, HistoryOK
<1>3. CASE Pub(p).kind = "IterPublisher"
  <2>1. Joins(a, b, r)
    BY <1>1, <1>3 DEF Flow, SourceOK
  <2> QED BY <1>1, <1>3, <2>1, JoinsParts DEF Input
<1>4. CASE Pub(p).kind # "IterPublisher"
  <2>1. Begins(a, a)
    BY <1>2, BeginsSelf
  <2> QED BY <1>1, <1>2, <1>4, <2>1 DEF Input
<1> QED BY <1>3, <1>4

\* What a stage has sent is a beginning of what it has to send over a full run.
LEMMA OfferedBegins ==
  ASSUME Flow, NEW p \in Thread, HasSink(p), NEW i \in 1..Depth(p), NEW h, TraceOK(p, h)
  PROVE  /\ IsSeq(Outbound(Chain(p)[i], h[i])) /\ IsSeq(Offered(p, i))
         /\ Begins(Outbound(Chain(p)[i], h[i]), Offered(p, i))
<1>1. PICK ch, xs, ys, s : ch = Chain(p) /\ xs = pulled[p] /\ ys = Input(p) /\ s = Chain(p)[i]
  OBVIOUS
<1>2. PICK a, b, w : a = h[i] /\ b = Given(ch, xs)[i - 1] /\ w = Given(ch, ys)[i - 1]
  OBVIOUS
<1>3. Inv /\ IsSeq(xs) /\ IsSeq(ys) /\ Begins(xs, ys)
  BY <1>1, InputBegins DEF Flow, Loss, Full
<1>4. IsChain(ch) /\ i - 1 \in 0..Len(ch)
  BY <1>1, <1>3, ChainOK, WiringDepth DEF Inv
<1>5. IsSeq(a) /\ IsSeq(b) /\ Begins(a, b)
  <2>1. IsSeq(a)
    BY <1>2 DEF TraceOK
  <2>2. IsSeq(pulled[p])
    BY <1>1, <1>3
  <2> QED BY <1>1, <1>2, <1>3, <2>1, <2>2, Behind
<1>6. IsSeq(w) /\ Begins(b, w)
  <2>1. \A k \in 0..Len(ch) : IsSeq(Given(ch, ys)[k]) /\ Begins(Given(ch, xs)[k], Given(ch, ys)[k])
    BY <1>3, <1>4, GivenBegins
  <2> QED BY <1>2, <1>4, <2>1
<1>7. Begins(a, w)
  BY <1>5, <1>6, BeginsTrans
<1>8. /\ IsSeq(Outbound(s, a)) /\ IsSeq(Outbound(s, w))
      /\ Begins(Outbound(s, a), Outbound(s, w))
  BY <1>5, <1>6, <1>7, OutboundBegins
<1> QED BY <1>1, <1>2, <1>8 DEF Offered

\* More input makes no difference below a Take that has had enough.
LEMMA CutGiven ==
  ASSUME Inv, NEW t \in Thread, HasSink(t), NEW h, TraceOK(t, h), Quiet(t),
         NEW j \in 1..(Depth(t) - 1), Chain(t)[j].kind = "Take", mem[t][j] > Chain(t)[j].arg,
         IsSeq(pulled[t]), NEW ys, IsSeq(ys), Begins(pulled[t], ys)
  PROVE  \A i \in j..Depth(t) : Given(Chain(t), pulled[t])[i] = Given(Chain(t), ys)[i]
<1>1. PICK ch, xs : ch = Chain(t) /\ xs = pulled[t]
  OBVIOUS
<1>2. IsChain(ch) /\ Depth(t) \in Nat /\ Len(ch) = Depth(t) /\ j \in 1..Len(ch)
  BY <1>1, ChainOK, WiringDepth DEF Inv
<1>3. ch[j].arg \in Nat /\ ch[j].kind = "Take"
  BY <1>1, <1>2 DEF IsChain, Bounded
<1>4. mem[t][j] = Len(h[j]) /\ Len(h[j]) \in Nat
  BY <1>1, <1>2, SeqLen DEF TraceOK, Kept
<1>5. h[j] = Given(ch, xs)[j - 1]
  BY <1>1, <1>2, Settled
<1>6. ch[j].arg <= Len(Given(ch, xs)[j - 1])
  BY <1>1, <1>3, <1>4, <1>5
<1>7. IsSeq(xs) /\ Begins(xs, ys)
  BY <1>1
<1>8. \A i \in j..Len(ch) : Given(ch, xs)[i] = Given(ch, ys)[i]
  BY <1>2, <1>3, <1>6, <1>7, GivenCut
<1> QED BY <1>1, <1>2, <1>8

\* A thread that has completed has given the stages below every Take their all.
LEMMA CompleteGiven ==
  ASSUME Flow, NEW p \in Thread, HasSink(p), NEW h, TraceOK(p, h), Quiet(p), Completed(p),
         NEW i \in 1..Depth(p), \A j \in i..Depth(p) : Chain(p)[j].kind # "Take"
  PROVE  h[i] = Given(Chain(p), Input(p))[i - 1]
<1>0. Inv /\ IsSeq(pulled[p]) /\ IsSeq(Input(p)) /\ Begins(pulled[p], Input(p)) /\ Depth(p) \in Nat
  BY InputBegins, WiringDepth DEF Flow, Loss, Full, Inv
<1>1. h[i] = Given(Chain(p), pulled[p])[i - 1]
  BY <1>0, Settled
<1>2. CASE Pub(p).kind # "IterPublisher"
  BY <1>1, <1>2 DEF Input
<1>3. CASE Pub(p).kind = "IterPublisher" /\ source[p] = <<>>
  <2>1. PICK a, b, r : a = pulled[p] /\ b = source[p] /\ r = Pub(p).items
    OBVIOUS
  <2>2. Joins(a, b, r)
    BY <1>3, <2>1 DEF Flow, SourceOK
  <2>3. a = r
    BY <1>3, <2>1, <2>2, JoinsParts
  <2> QED BY <1>1, <1>3, <2>1, <2>3 DEF Input
<1>4. CASE Cut(p)
  <2>1. PICK j \in 1..(Depth(p) - 1) : Chain(p)[j].kind = "Take" /\ mem[p][j] > Chain(p)[j].arg
    BY <1>4 DEF Cut
  <2>2. i - 1 \in j..Depth(p)
    <3>1. j \notin i..Depth(p)
      BY <2>1
    <3> QED BY <1>0, <3>1
  <2>3. PICK ys : ys = Input(p)
    OBVIOUS
  <2>4. \A k \in j..Depth(p) : Given(Chain(p), pulled[p])[k] = Given(Chain(p), ys)[k]
    BY <1>0, <2>1, <2>3, CutGiven
  <2> QED BY <1>1, <2>2, <2>3, <2>4
<1>5. Cut(p) \/ Exhausted(p)
  BY DEF Flow, CompleteOK
<1> QED BY <1>2, <1>3, <1>4, <1>5 DEF Exhausted

\* Across an mpsc queue, whatever the interleaving of sender and receiver and
\* however the queue fills, the consumer has processed a prefix of what the
\* producer's input asks for, and all of it once both sinks were completed: the
\* end of the sending thread overtakes no queued item (Coupler, Decoupler, Tee,
\* NetStreamer, std::sync::mpsc).
THEOREM EndToEndHolds == Spec => []EndToEnd
<1>1. Flow => EndToEnd
  <2> SUFFICES ASSUME Flow, NEW t \in Thread, NEW p \in Thread, NEW i \in 1..Depth(p),
                      HasSink(t), HasSink(p), Pub(t).kind \in {"Coupler", "NetStreamer"},
                      SoleSender(p, i, Pub(t).rx)
               PROVE  LET whole == Ref(Chain(t), Offered(p, i)) IN
                      /\ pc[t] \in {"idle", "done"} => IsPrefix(seen[t], whole)
                      /\ /\ pc[t] = "done" /\ Completed(t) /\ Completed(p)
                         /\ \A j \in i..Depth(p) : Chain(p)[j].kind # "Take"
                         => seen[t] = whole
    BY DEF EndToEnd
  <2>0. Inv /\ QueuesOK /\ IsSeq(pulled[t]) /\ IsChain(Chain(t)) /\ Depth(t) \in Nat
    BY InputBegins, ChainOK, WiringDepth DEF Flow, Loss, Full, Inv
  <2>1. PICK c : c = Pub(t).rx
    OBVIOUS
  <2>2. c \in Channel /\ Reads(t, c) /\ Link(t, p, i, c)
    BY <2>0, <2>1, WiringAssumption DEF Inv, TypeOK, IsWiring, IsPublisher, Reads, Link
  <2>3. PICK h : TraceOK(p, h) /\ LinksOK(p, h)
    BY DEF Flow
  <2>4. PICK k : TraceOK(t, k)
    BY DEF Flow
  <2>5. PICK xs, ys, ch, o, q : /\ xs = pulled[t] /\ ys = Offered(p, i) /\ ch = Chain(t)
                                /\ o = Outbound(Chain(p)[i], h[i]) /\ q = sent[c]
    OBVIOUS
  <2>6. Joins(xs, chan[c], q)
    BY <2>2, <2>5 DEF Flow, FifoOK
  <2>7. IsSeq(xs) /\ IsSeq(q) /\ Begins(xs, q) /\ (chan[c] = <<>> => xs = q)
    BY <2>6, JoinsParts
  <2>8. q = o \/ (Gone(t) /\ Begins(q, o))
    BY <2>2, <2>3, <2>5 DEF LinksOK, LinkOK
  <2>9. IsSeq(o) /\ IsSeq(ys) /\ Begins(o, ys)
    BY <2>3, <2>5, OfferedBegins
  <2>10. Begins(xs, ys)
    <3>1. Begins(q, o)
      BY <2>8, <2>9, BeginsSelf
    <3>2. Begins(q, ys)
      BY <2>7, <2>9, <3>1, BeginsTrans
    <3> QED BY <2>7, <2>9, <3>2, BeginsTrans
  <2>11. ASSUME pc[t] \in {"idle", "done"} PROVE Quiet(t) /\ seen[t] = Ref(ch, xs)
    <3>1. Quiet(t)
      BY <2>0, <2>11 DEF Inv, StackOK, Quiet
    <3> QED BY <2>0, <2>4, <2>5, <3>1, Settled
  <2>12. ASSUME pc[t] \in {"idle", "done"} PROVE IsPrefix(seen[t], Ref(ch, ys))
    <3>1. Len(ch) \in 0..Len(ch) /\ IsChain(ch)
      BY <2>0, <2>5
    <3>2. \A n \in 0..Len(ch) : /\ IsSeq(Given(ch, xs)[n]) /\ IsSeq(Given(ch, ys)[n])
                                /\ Begins(Given(ch, xs)[n], Given(ch, ys)[n])
      BY <2>7, <2>9, <2>10, <3>1, GivenBegins
    <3>3. PICK a, b : a = Ref(ch, xs) /\ b = Ref(ch, ys)
      OBVIOUS
    <3>4. IsSeq(a) /\ IsSeq(b) /\ Begins(a, b)
      BY <3>1, <3>2, <3>3 DEF Ref
    <3>5. IsPrefix(a, b)
      BY <3>4, BeginsIsPrefix
    <3> QED BY <2>11, <2>12, <3>3, <3>5
  <2>13. ASSUME pc[t] = "done", Completed(t), Completed(p),
                \A j \in i..Depth(p) : Chain(p)[j].kind # "Take"
         PROVE  seen[t] = Ref(ch, ys)
    <3>1. Quiet(t) /\ seen[t] = Ref(ch, xs)
      BY <2>11, <2>13
    <3>2. CASE Cut(t)
      <4>1. PICK j \in 1..(Depth(t) - 1) : Chain(t)[j].kind = "Take" /\ mem[t][j] > Chain(t)[j].arg
        BY <3>2 DEF Cut
      <4>2. \A n \in j..Depth(t) : Given(Chain(t), pulled[t])[n] = Given(Chain(t), ys)[n]
        BY <2>0, <2>4, <2>5, <2>9, <2>10, <3>1, <4>1, CutGiven
      <4>3. Depth(t) \in j..Depth(t)
        BY <2>0
      <4> QED BY <2>5, <3>1, <4>2, <4>3 DEF Ref
    <3>3. CASE ~Cut(t)
      <4>1. chan[c] = <<>> /\ ~HasSender(c)
        BY <2>1, <2>13, <3>3 DEF Flow, CompleteOK, Exhausted, Disconnected
      <4>2. ~Alive(p)
        BY <2>1, <4>1 DEF HasSender, SoleSender
      <4>3. Quiet(p)
        BY <2>0, <4>2 DEF Alive, Quiet, Flow, PanicOK, Inv, StackOK
      <4>4. h[i] = Given(Chain(p), Input(p))[i - 1]
        BY <2>3, <2>13, <4>3, CompleteGiven
      <4>5. q = o
        BY <2>8, <2>13, <3>3 DEF Gone
      <4>6. xs = ys
        BY <2>5, <2>7, <4>1, <4>4, <4>5 DEF Offered
      <4> QED BY <3>1, <4>6
    <3> QED BY <3>2, <3>3
  <2> QED BY <2>5, <2>12, <2>13
<1> QED BY <1>1, FlowHolds, PTL
=============================================================================
