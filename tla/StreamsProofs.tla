--------------------------- MODULE StreamsProofs ---------------------------
(***************************************************************************)
(* Theorems about Streams, for every set of threads, queues and wirings.   *)
(***************************************************************************)
EXTENDS Streams, TLAPS, SequenceTheorems

\* The frames s are Unzips of the chain ch that feed a stage, outermost first.
Nested(s, ch) ==
  /\ \A k \in 1..Len(s) : /\ s[k].at \in 1..(Len(ch) - 1)
                          /\ ch[s[k].at].kind = "Unzip"
  /\ \A j, k \in 1..Len(s) : j < k => s[j].at < s[k].at

\* They all belong to stages above stage i.
Above(s, i) == \A k \in 1..Len(s) : s[k].at < i

StackOK(t) ==
  /\ pc[t] \in {"wire", "idle", "done"} => stack[t] = <<>>
  /\ Nested(stack[t], Chain(t))
  /\ Above(stack[t], at[t])

\* The sink has been subscribed once its link has been made, and on_complete,
\* once it has been called, is the last signal: nothing but the return of
\* false to the loop is left to do.
SignalOK(t) ==
  LET sigs == signals[t] IN
  /\ HasSink(t) => IF pc[t] = "wire" /\ at[t] = Depth(t)
                     THEN Len(sigs) = 0 ELSE Len(sigs) > 0
  /\ ~HasSink(t) => Len(sigs) = 0
  /\ \A i \in 1..Len(sigs) : (sigs[i] = "on_subscribe") <=> (i = 1)
  /\ Runs(t) /\ UnzipSafe(t) =>
       \A i \in 1..Len(sigs) : sigs[i] = "on_complete" =>
         /\ i = Len(sigs)
         /\ pc[t] = "done" \/ (pc[t] = "return" /\ ~ok[t] /\ stack[t] = <<>>)

Inv == TypeOK /\ \A t \in Thread : StackOK(t) /\ SignalOK(t)

USE DEF Chain, Depth, Stage, Pub, PC

\* What the invariants of a thread depend on.
Same(u) == /\ pc'[u] = pc[u] /\ at'[u] = at[u] /\ ok'[u] = ok[u]
           /\ stack'[u] = stack[u] /\ signals'[u] = signals[u]

-----------------------------------------------------------------------------
(* Facts about frames.                                                     *)

\* With no Unzip in progress there is nothing to check.
LEMMA NestedEmpty ==
  ASSUME NEW ch, NEW i PROVE Nested(<<>>, ch) /\ Above(<<>>, i)
  BY DEF Nested, Above

\* The elements of a stack are frames.
LEMMA FrameAt ==
  ASSUME NEW s \in Seq(Frame), NEW k \in 1..Len(s)
  PROVE  s[k] \in Frame /\ s[k].at \in Nat
<1>1. s[k] \in Frame
  BY ElementOfSeq
<1> QED BY <1>1 DEF Frame

\* Pushing the frame of an Unzip that is called below all the others.
LEMMA NestedAppend ==
  ASSUME NEW s \in Seq(Frame), NEW f \in Frame, NEW ch, Len(ch) \in Nat,
         Nested(s, ch), Above(s, f.at),
         f.at \in 1..(Len(ch) - 1), ch[f.at].kind = "Unzip"
  PROVE  Nested(Append(s, f), ch) /\ Above(Append(s, f), f.at + 1)
<1> DEFINE r == Append(s, f)
           n == Len(s)
<1>1. /\ n \in Nat /\ Len(r) = n + 1 /\ r[n + 1] = f
      /\ \A k \in 1..n : r[k] = s[k]
  OBVIOUS
<1>2. f.at \in Nat /\ \A k \in 1..n : s[k].at \in Nat
  BY FrameAt DEF Frame
<1> HIDE DEF r
<1> QED BY <1>1, <1>2 DEF Nested, Above

\* Popping a frame.
LEMMA NestedFront ==
  ASSUME NEW s \in Seq(Frame), NEW ch, NEW i, Nested(s, ch), Above(s, i), Len(s) > 0
  PROVE  LET r == SubSeq(s, 1, Len(s) - 1) IN
         r \in Seq(Frame) /\ Nested(r, ch) /\ Above(r, i)
<1> DEFINE n == Len(s)
           r == SubSeq(s, 1, n - 1)
<1>1. /\ n \in Nat /\ n > 0 /\ r \in Seq(Frame) /\ Len(r) = n - 1
      /\ \A k \in 1..(n - 1) : r[k] = s[k]
  <2>1. n \in Nat /\ \A k \in 1..(n - 1) : s[k] \in Frame
    BY FrameAt
  <2>2. 1 \in Int /\ n - 1 \in Int /\ \A k \in 1..(n - 1) : s[k] \in Frame
    BY <2>1
  <2>3. /\ r \in Seq(Frame)
        /\ Len(r) = IF 1 <= n - 1 THEN (n - 1) - 1 + 1 ELSE 0
        /\ \A k \in 1..((n - 1) - 1 + 1) : r[k] = s[1 + k - 1]
    BY <2>2, SubSeqProperties
  <2> HIDE DEF r
  <2>4. Len(r) = n - 1
    <3>1. n > 0
      OBVIOUS
    <3> HIDE DEF n
    <3>2. (IF 1 <= n - 1 THEN (n - 1) - 1 + 1 ELSE 0) = n - 1
      BY <2>1, <3>1
    <3> QED BY <2>3, <3>2
  <2>5. ASSUME NEW k \in 1..(n - 1) PROVE r[k] = s[k]
    <3>1. k \in 1..((n - 1) - 1 + 1) /\ 1 + k - 1 = k
      BY <2>1
    <3> QED BY <2>3, <3>1
  <2> QED BY <2>1, <2>3, <2>4, <2>5
<1> HIDE DEF r
<1>2. Nested(r, ch) /\ Above(r, i)
  BY <1>1 DEF Nested, Above
<1> QED BY <1>1, <1>2 DEF r

\* Updating the top frame between the two calls of its Unzip.
LEMMA NestedReplace ==
  ASSUME NEW s \in Seq(Frame), NEW g \in Frame, NEW ch, NEW i,
         Nested(s, ch), Len(s) > 0, g.at = s[Len(s)].at
  PROVE  LET r == [s EXCEPT ![Len(s)] = g] IN
         r \in Seq(Frame) /\ Nested(r, ch) /\ Above(r, g.at + 1)
<1> DEFINE n == Len(s)
           r == [s EXCEPT ![n] = g]
<1>1. /\ n \in Nat /\ n > 0 /\ r \in Seq(Frame) /\ Len(r) = n
      /\ \A k \in 1..n : r[k].at = s[k].at
  <2>1. n \in Nat /\ n \in 1..Len(s)
    OBVIOUS
  <2>2. /\ r \in Seq(Frame) /\ Len(r) = n
        /\ \A k \in 1..n : r[k] = IF k = n THEN g ELSE s[k]
    BY <2>1, ExceptSeq
  <2> QED BY <2>1, <2>2
<1>2. g.at \in Nat /\ \A k \in 1..n : s[k].at \in Nat
  BY FrameAt DEF Frame
<1> HIDE DEF r
<1>3. Nested(r, ch)
  BY <1>1, <1>2 DEF Nested
<1>4. ASSUME NEW k \in 1..n PROVE s[k].at <= s[n].at
  <2>1. CASE k = n
    BY <1>1, <1>2, <2>1
  <2>2. CASE k < n
    BY <1>1, <1>2, <2>2 DEF Nested
  <2> QED BY <1>1, <2>1, <2>2
<1>5. Above(r, g.at + 1)
  BY <1>1, <1>2, <1>4 DEF Above
<1> QED BY <1>1, <1>3, <1>5 DEF r

-----------------------------------------------------------------------------
(* What the building blocks of the actions do to the control state.        *)

\* A chain has a length.
LEMMA WiringDepth ==
  ASSUME TypeOK, NEW t \in Thread
  PROVE  /\ Depth(t) \in Nat
         /\ wiring.loop[t].n \in Nat \ {0}
  BY WiringAssumption DEF TypeOK, IsWiring, IsLoop

\* A program that has not linked its chains yet satisfies the invariant.
LEMMA InitInv == Init => Inv
<1> SUFFICES ASSUME Init PROVE Inv
  OBVIOUS
<1>1. wiring \in Wiring
  BY DEF Init
<1>2. \A t \in Thread : Depth(t) \in Nat /\ wiring.loop[t].n \in Nat \ {0}
  BY <1>1, WiringAssumption DEF IsWiring, IsLoop
<1>3. TypeOK
  BY <1>1, <1>2 DEF Init, TypeOK, Alive
<1>4. ASSUME NEW t \in Thread PROVE StackOK(t) /\ SignalOK(t)
  <2>1. stack[t] = <<>> /\ Len(stack[t]) = 0
    BY DEF Init
  <2>2. Len(signals[t]) = 0
    BY DEF Init
  <2>3. HasSink(t) => pc[t] = "wire" /\ at[t] = Depth(t)
    BY <1>2 DEF Init, HasSink
  <2>4. StackOK(t)
    BY <2>1, NestedEmpty DEF StackOK
  <2> QED BY <2>2, <2>3, <2>4 DEF SignalOK
<1> QED BY <1>3, <1>4 DEF Inv

\* A step of t that keeps the other threads' control state preserves their
\* part of the invariant.
LEMMA OtherThread ==
  ASSUME NEW u \in Thread, StackOK(u), SignalOK(u), Same(u), wiring' = wiring
  PROVE  StackOK(u)' /\ SignalOK(u)'
<1>1. StackOK(u)'
  BY DEF StackOK, Same
<1>2. SignalOK(u)'
  BY DEF SignalOK, Same, HasSink, Runs, UnzipSafe
<1> QED BY <1>1, <1>2

\* What is read off the wiring does not change.
LEMMA SameWiring ==
  ASSUME NEW t \in Thread, wiring' = wiring
  PROVE  /\ HasSink(t)' <=> HasSink(t)
         /\ Runs(t)' <=> Runs(t)
         /\ UnzipSafe(t)' <=> UnzipSafe(t)
         /\ Depth(t)' = Depth(t)
  BY DEF HasSink, Runs, UnzipSafe

\* Before on_complete, what a thread does without a signal keeps SignalOK.
LEMMA Silent ==
  ASSUME NEW t \in Thread, SignalOK(t), wiring' = wiring, signals'[t] = signals[t],
         pc[t] \in {"idle", "on_next"}, pc'[t] # "wire"
  PROVE  SignalOK(t)'
<1>1. /\ HasSink(t) => Len(signals[t]) > 0
      /\ ~HasSink(t) => Len(signals[t]) = 0
      /\ \A i \in 1..Len(signals[t]) : (signals[t][i] = "on_subscribe") <=> (i = 1)
      /\ Runs(t) /\ UnzipSafe(t) =>
           \A i \in 1..Len(signals[t]) : signals[t][i] # "on_complete"
  BY DEF SignalOK
<1> QED BY <1>1, SameWiring DEF SignalOK

\* A thread calls stage i, which exists, below the Unzips in progress.
LEMMA CallInv ==
  ASSUME Inv, NEW t \in Thread, NEW i, NEW x,
         pc[t] \in {"idle", "on_next"},
         i \in 1..Depth(t),
         Above(stack[t], i),
         Call(t, i, x),
         UNCHANGED <<wiring, stack, left, signals>>
  PROVE  Inv'
<1>1. TypeOK'
  BY WiringDepth DEF Inv, TypeOK, Call, Alive
<1>2. ASSUME NEW u \in Thread, u # t PROVE StackOK(u)' /\ SignalOK(u)'
  BY <1>2, OtherThread DEF Inv, TypeOK, Call, Same
<1>3. StackOK(t)'
  BY WiringDepth DEF Inv, TypeOK, Call, StackOK
<1>4. SignalOK(t)'
  BY Silent DEF Inv, TypeOK, Call
<1> QED BY <1>1, <1>2, <1>3, <1>4 DEF Inv

\* A call that has no effect on the sink returns.
LEMMA ReturnInv ==
  ASSUME Inv, NEW t \in Thread, NEW r \in BOOLEAN,
         pc[t] \in {"idle", "on_next"},
         Return(t, r),
         UNCHANGED <<wiring, stack, left, signals>>
  PROVE  Inv'
<1>1. TypeOK'
  BY WiringDepth DEF Inv, TypeOK, Return, Alive
<1>2. ASSUME NEW u \in Thread, u # t PROVE StackOK(u)' /\ SignalOK(u)'
  BY <1>2, OtherThread DEF Inv, TypeOK, Return, Same
<1>3. StackOK(t)'
  BY WiringDepth DEF Inv, TypeOK, Return, StackOK
<1>4. SignalOK(t)'
  BY Silent DEF Inv, TypeOK, Return
<1> QED BY <1>1, <1>2, <1>3, <1>4 DEF Inv

\* A panic (try_next not implemented, on_complete without subscriber) keeps
\* the invariant.
LEMMA PanicInv ==
  ASSUME Inv, NEW t \in Thread,
         pc[t] \in {"idle", "on_next"},
         Panic(t),
         UNCHANGED <<wiring, stack, left, signals>>
  PROVE  Inv'
<1>1. TypeOK'
  BY WiringDepth DEF Inv, TypeOK, Panic, Alive
<1>2. ASSUME NEW u \in Thread, u # t PROVE StackOK(u)' /\ SignalOK(u)'
  BY <1>2, OtherThread DEF Inv, TypeOK, Panic, Same
<1>3. StackOK(t)'
  BY WiringDepth DEF Inv, TypeOK, Panic, StackOK
<1>4. SignalOK(t)'
  BY Silent DEF Inv, TypeOK, Panic
<1> QED BY <1>1, <1>2, <1>3, <1>4 DEF Inv
\* What Append does to the signals of a thread.
LEMMA NotifySignals ==
  ASSUME TypeOK, NEW t \in Thread, NEW sig \in Signal, Notify(t, sig)
  PROVE  /\ signals' \in [Thread -> Seq(Signal)]
         /\ \A u \in Thread : u # t => signals'[u] = signals[u]
         /\ Len(signals[t]) \in Nat
         /\ Len(signals'[t]) = Len(signals[t]) + 1
         /\ \A i \in 1..Len(signals[t]) : signals'[t][i] = signals[t][i]
         /\ signals'[t][Len(signals[t]) + 1] = sig
<1>1. signals[t] \in Seq(Signal) /\ signals'[t] = Append(signals[t], sig)
  BY DEF TypeOK, Notify
<1> QED BY <1>1 DEF TypeOK, Notify

\* The sink takes an item and returns.
LEMMA ReceiveInv ==
  ASSUME Inv, NEW t \in Thread, NEW x, NEW r \in BOOLEAN,
         pc[t] = "on_next", HasSink(t),
         Receive(t, x), Return(t, r),
         UNCHANGED <<wiring, stack, left>>
  PROVE  Inv'
<1> DEFINE n == Len(signals[t])
<1>0. /\ signals' \in [Thread -> Seq(Signal)]
      /\ \A u \in Thread : u # t => signals'[u] = signals[u]
      /\ n \in Nat /\ Len(signals'[t]) = n + 1
      /\ \A i \in 1..n : signals'[t][i] = signals[t][i]
      /\ signals'[t][n + 1] = "on_next"
  BY NotifySignals DEF Inv, Receive, Signal
<1>1. TypeOK'
  BY WiringDepth, <1>0 DEF Inv, TypeOK, Return, Alive
<1>2. ASSUME NEW u \in Thread, u # t PROVE StackOK(u)' /\ SignalOK(u)'
  BY <1>0, <1>2, OtherThread DEF Inv, TypeOK, Return, Same
<1>3. StackOK(t)'
  BY WiringDepth DEF Inv, TypeOK, Return, StackOK
<1>4. SignalOK(t)'
  <2>1. /\ n > 0
        /\ \A i \in 1..n : (signals[t][i] = "on_subscribe") <=> (i = 1)
        /\ Runs(t) /\ UnzipSafe(t) => \A i \in 1..n : signals[t][i] # "on_complete"
    BY DEF Inv, SignalOK
  <2>2. pc'[t] = "return"
    BY DEF Return, Inv, TypeOK
  <2>3. \A i \in 1..(n + 1) : (signals'[t][i] = "on_subscribe") <=> (i = 1)
    BY <1>0, <2>1
  <2>4. Runs(t) /\ UnzipSafe(t) => \A i \in 1..(n + 1) : signals'[t][i] # "on_complete"
    BY <1>0, <2>1
  <2> HIDE DEF n
  <2> QED BY <1>0, <2>1, <2>2, <2>3, <2>4, SameWiring DEF SignalOK
<1> QED BY <1>1, <1>2, <1>3, <1>4 DEF Inv

\* A publisher at its end, or a Take past its maximum, completes the sink.
\* In an UnzipSafe chain no Unzip is in progress then.
LEMMA CompleteInv ==
  ASSUME Inv, NEW t \in Thread,
         \/ pc[t] = "idle"
         \/ pc[t] = "on_next" /\ Chain(t)[at[t]].kind = "Take",
         CompleteAndStop(t),
         UNCHANGED <<wiring, stack, left>>
  PROVE  Inv'
<1>1. CASE ~HasSink(t)
  BY <1>1, PanicInv DEF CompleteAndStop
<1>2. CASE HasSink(t)
  <2> DEFINE n == Len(signals[t])
  <2>0. /\ signals' \in [Thread -> Seq(Signal)]
        /\ \A u \in Thread : u # t => signals'[u] = signals[u]
        /\ n \in Nat /\ Len(signals'[t]) = n + 1
        /\ \A i \in 1..n : signals'[t][i] = signals[t][i]
        /\ signals'[t][n + 1] = "on_complete"
    BY <1>2, NotifySignals DEF Inv, CompleteAndStop, Signal
  <2>1. TypeOK'
    BY WiringDepth, <1>2, <2>0 DEF Inv, TypeOK, CompleteAndStop, Return, Alive
  <2>2. ASSUME NEW u \in Thread, u # t PROVE StackOK(u)' /\ SignalOK(u)'
    BY <1>2, <2>0, <2>2, OtherThread DEF Inv, TypeOK, CompleteAndStop, Return, Same
  <2>3. StackOK(t)'
    BY <1>2, WiringDepth DEF Inv, TypeOK, CompleteAndStop, Return, StackOK
  <2>4. UnzipSafe(t) => stack[t] = <<>>
    <3>1. CASE pc[t] = "idle"
      BY <3>1 DEF Inv, StackOK
    <3>2. CASE pc[t] = "on_next" /\ Chain(t)[at[t]].kind = "Take"
      <4> SUFFICES ASSUME UnzipSafe(t) PROVE stack[t] = <<>>
        OBVIOUS
      <4>1. stack[t] \in Seq(Frame) /\ Len(stack[t]) \in Nat
        BY DEF Inv, TypeOK
      <4>2. at[t] \in 1..Depth(t) /\ Depth(t) \in Nat
        BY <3>2, WiringDepth DEF Inv, TypeOK
      <4>3. ASSUME Len(stack[t]) > 0 PROVE FALSE
        <5>1. 1 \in 1..Len(stack[t])
          BY <4>1, <4>3
        <5>2. /\ stack[t][1].at \in 1..(Depth(t) - 1)
              /\ Chain(t)[stack[t][1].at].kind = "Unzip"
              /\ stack[t][1].at < at[t]
          BY <5>1 DEF Inv, StackOK, Nested, Above
        <5>3. stack[t][1].at \in 1..Depth(t)
          BY <4>2, <5>2
        <5> QED BY <3>2, <4>2, <5>2, <5>3 DEF UnzipSafe
      <4> QED BY <4>1, <4>3, EmptySeq
    <3> QED BY <3>1, <3>2
  <2>5. SignalOK(t)'
    <3>1. /\ n > 0
          /\ \A i \in 1..n : (signals[t][i] = "on_subscribe") <=> (i = 1)
          /\ Runs(t) /\ UnzipSafe(t) => \A i \in 1..n : signals[t][i] # "on_complete"
      BY <1>2 DEF Inv, SignalOK
    <3>2. pc'[t] = "return" /\ ~ok'[t] /\ stack'[t] = stack[t]
      BY <1>2 DEF CompleteAndStop, Return, Inv, TypeOK
    <3>3. \A i \in 1..(n + 1) : (signals'[t][i] = "on_subscribe") <=> (i = 1)
      BY <2>0, <3>1
    <3>4. Runs(t) /\ UnzipSafe(t) =>
            \A i \in 1..(n + 1) : signals'[t][i] = "on_complete" => i = n + 1
      BY <2>0, <3>1
    <3> HIDE DEF n
    <3> QED BY <1>2, <2>0, <2>4, <3>1, <3>2, <3>3, <3>4, SameWiring DEF SignalOK
  <2> QED BY <2>1, <2>2, <2>3, <2>5 DEF Inv
<1> QED BY <1>1, <1>2
-----------------------------------------------------------------------------
(* One lemma per kind of step.                                             *)

\* on_next or next hands an item down, or returns true at the chain's end.
LEMMA ForwardInv ==
  ASSUME Inv, NEW t \in Thread, NEW x, pc[t] = "on_next",
         Forward(t, x), UNCHANGED <<wiring, stack, left, signals>>
  PROVE  Inv'
<1>1. CASE HasSubscriber(t)
  <2>1. at[t] + 1 \in 1..Depth(t)
    BY <1>1, WiringDepth DEF Inv, TypeOK, HasSubscriber
  <2>2. Above(stack[t], at[t] + 1)
    <3>1. at[t] \in Nat /\ \A k \in 1..Len(stack[t]) : stack[t][k].at \in Nat
      BY FrameAt DEF Inv, TypeOK
    <3> QED BY <3>1 DEF Inv, StackOK, Above
  <2> QED BY <1>1, <2>1, <2>2, CallInv DEF Forward
<1>2. CASE ~HasSubscriber(t)
  BY <1>2, ReturnInv DEF Forward
<1> QED BY <1>1, <1>2

\* next() hands an item to the first subscriber.
LEMMA PushInv ==
  ASSUME Inv, NEW t \in Thread, NEW x, pc[t] = "idle", Depth(t) > 0,
         Push(t, x), UNCHANGED <<wiring, stack, left, signals>>
  PROVE  Inv'
<1>1. 1 \in 1..Depth(t)
  BY WiringDepth DEF Inv
<1>2. Above(stack[t], 1)
  BY NestedEmpty DEF Inv, StackOK
<1> QED BY <1>1, <1>2, CallInv DEF Push

\* upstream.subscribe(s) keeps the invariant; the first one is the sink's.
LEMMA SubscribeInv ==
  ASSUME Inv, NEW t \in Thread, subscribe(t), UNCHANGED wiring
  PROVE  Inv'
<1>0. /\ Depth(t) \in Nat /\ at[t] \in 1..Depth(t) /\ pc[t] = "wire"
      /\ at'[t] = at[t] - 1
      /\ at[t] = 1 => pc'[t] = "idle"
      /\ at[t] # 1 => pc'[t] = "wire"
      /\ stack' = stack /\ left' = left /\ ok' = ok
      /\ stack[t] = <<>>
  BY WiringDepth DEF Inv, TypeOK, StackOK, subscribe
<1>1. ASSUME NEW u \in Thread, u # t
      PROVE  pc'[u] = pc[u] /\ at'[u] = at[u] /\ signals'[u] = signals[u]
  BY <1>1 DEF Inv, TypeOK, subscribe, Notify
<1>2. signals' \in [Thread -> Seq(Signal)]
  BY NotifySignals DEF Inv, TypeOK, subscribe, Signal
<1>3. TypeOK'
  <2>1. pc' \in [Thread -> PC] /\ at' \in [Thread -> Nat]
    BY <1>0 DEF Inv, TypeOK, subscribe
  <2>2. ASSUME NEW u \in Thread
        PROVE  /\ pc'[u] \in {"wire", "on_next"} => at'[u] \in 1..Depth(u)
               /\ Alive(u)' => left'[u] > 0
    <3>1. CASE u = t
      <4>1. left'[t] > 0
        BY <1>0 DEF Inv, TypeOK, Alive
      <4>2. pc'[t] \in {"wire", "on_next"} => at'[t] \in 1..Depth(t)
        BY <1>0
      <4> QED BY <3>1, <4>1, <4>2
    <3>2. CASE u # t
      BY <1>0, <1>1, <3>2 DEF Inv, TypeOK, Alive
    <3> QED BY <3>1, <3>2
  <2> QED BY <1>0, <1>2, <2>1, <2>2 DEF Inv, TypeOK
<1>4. ASSUME NEW u \in Thread, u # t PROVE StackOK(u)' /\ SignalOK(u)'
  BY <1>0, <1>1, <1>4, OtherThread DEF Inv, Same
<1>5. StackOK(t)'
  BY <1>0, NestedEmpty DEF StackOK
<1>6. SignalOK(t)'
  <2>1. CASE at[t] = Depth(t) /\ HasSink(t)
    <3>1. /\ Len(signals'[t]) = 1
          /\ signals'[t][1] = "on_subscribe"
      <4>1. Len(signals[t]) = 0
        BY <1>0, <2>1 DEF Inv, SignalOK
      <4>2. Notify(t, "on_subscribe") /\ "on_subscribe" \in Signal
        BY <2>1 DEF subscribe, Signal
      <4>3. /\ Len(signals'[t]) = Len(signals[t]) + 1
            /\ signals'[t][Len(signals[t]) + 1] = "on_subscribe"
        BY <4>2, NotifySignals DEF Inv
      <4> QED BY <4>1, <4>3
    <3> QED BY <1>0, <2>1, <3>1, SameWiring DEF SignalOK
  <2>2. CASE ~(at[t] = Depth(t) /\ HasSink(t))
    <3>1. signals'[t] = signals[t]
      BY <2>2 DEF subscribe
    <3>2. ~(at'[t] = Depth(t))
      BY <1>0
    <3> QED BY <1>0, <2>2, <3>1, <3>2, SameWiring DEF Inv, SignalOK
  <2> QED BY <2>1, <2>2
<1> QED BY <1>3, <1>4, <1>5, <1>6 DEF Inv

\* run() goes round or ends: on_complete is followed only by its end.
LEMMA LoopInv ==
  ASSUME Inv, NEW t \in Thread, Loop(t), UNCHANGED wiring
  PROVE  Inv'
<1>0. /\ pc[t] = "return" /\ stack[t] = <<>>
      /\ pc'[t] = IF LoopEnds(t) THEN "done" ELSE "idle"
      /\ at' = at /\ ok' = ok /\ stack' = stack /\ signals' = signals
  BY DEF Inv, TypeOK, Loop
<1>1. TypeOK'
  BY <1>0, WiringDepth DEF Inv, TypeOK, Loop, LoopEnds, Alive
<1>2. ASSUME NEW u \in Thread, u # t PROVE StackOK(u)' /\ SignalOK(u)'
  BY <1>0, <1>2, OtherThread DEF Inv, TypeOK, Loop, Same
<1>3. StackOK(t)'
  BY <1>0, NestedEmpty DEF StackOK
<1>4. SignalOK(t)'
  <2>1. Runs(t) /\ ~ok[t] => pc'[t] = "done"
    BY <1>0 DEF LoopEnds, Runs
  <2> QED BY <1>0, <2>1, SameWiring DEF Inv, SignalOK
<1> QED BY <1>1, <1>2, <1>3, <1>4 DEF Inv
\* An Unzip makes its first call: its frame is pushed.
LEMMA UnzipOnNextInv ==
  ASSUME Inv, NEW t \in Thread, UnzipOnNext(t), UNCHANGED wiring
  PROVE  Inv'
<1>1. CASE ~HasSubscriber(t)
  BY <1>1, ForwardInv DEF UnzipOnNext, Running
<1>2. CASE HasSubscriber(t)
  <2> DEFINE f == [at |-> at[t], calls |-> 1, acc |-> FALSE]
  <2>0. /\ pc[t] = "on_next" /\ at[t] \in 1..(Depth(t) - 1) /\ Depth(t) \in Nat
        /\ Chain(t)[at[t]].kind = "Unzip"
        /\ stack[t] \in Seq(Frame) /\ f \in Frame /\ f.at = at[t]
    BY <1>2, WiringDepth DEF Inv, TypeOK, UnzipOnNext, Running, HasSubscriber, Frame
  <2>1. /\ pc' = [pc EXCEPT ![t] = "on_next"]
        /\ at' = [at EXCEPT ![t] = at[t] + 1]
        /\ ok' = ok /\ left' = left /\ signals' = signals
        /\ stack' = [stack EXCEPT ![t] = Append(stack[t], f)]
    BY <1>2 DEF UnzipOnNext, Forward, Call
  <2>2. stack'[t] \in Seq(Frame)
    BY <2>0, <2>1 DEF Inv, TypeOK
  <2>3. TypeOK'
    <3>1. stack' \in [Thread -> Seq(Frame)]
      BY <2>1, <2>2 DEF Inv, TypeOK
    <3>2. at[t] \in Nat /\ at[t] + 1 \in Nat /\ at[t] + 1 \in 1..Depth(t)
      BY <2>0
    <3>3. /\ wiring \in Wiring /\ pc \in [Thread -> PC] /\ at \in [Thread -> Nat]
          /\ ok \in [Thread -> BOOLEAN] /\ left \in [Thread -> Nat]
          /\ signals \in [Thread -> Seq(Signal)]
          /\ \A u \in Thread : /\ pc[u] \in {"wire", "on_next"} => at[u] \in 1..Depth(u)
                               /\ Alive(u) => left[u] > 0
      BY DEF Inv, TypeOK
    <3>4. pc' \in [Thread -> PC] /\ at' \in [Thread -> Nat]
      BY <2>1, <3>2, <3>3
    <3>5. ASSUME NEW u \in Thread
          PROVE  /\ pc'[u] \in {"wire", "on_next"} => at'[u] \in 1..Depth(u)
                 /\ Alive(u)' => left'[u] > 0
      <4>1. CASE u = t
        <5>1. at'[u] = at[t] + 1 /\ left'[u] = left[u] /\ Alive(t)
          BY <4>1, <2>0, <2>1, <3>3 DEF Alive
        <5> QED BY <5>1, <4>1, <3>2, <3>3
      <4>2. CASE u # t
        BY <4>2, <2>1, <3>3 DEF Alive
      <4> QED BY <4>1, <4>2
    <3> QED BY <2>1, <3>1, <3>3, <3>4, <3>5 DEF TypeOK
  <2>4. ASSUME NEW u \in Thread, u # t PROVE StackOK(u)' /\ SignalOK(u)'
    BY <2>1, <2>4, OtherThread DEF Inv, TypeOK, Same
  <2>5. StackOK(t)'
    <3>1. pc'[t] = "on_next" /\ at'[t] = at[t] + 1 /\ stack'[t] = Append(stack[t], f)
      BY <2>1 DEF Inv, TypeOK
    <3>2. Nested(stack[t], Chain(t)) /\ Above(stack[t], f.at)
      BY <2>0 DEF Inv, StackOK
    <3> HIDE DEF f
    <3>3. Nested(Append(stack[t], f), Chain(t)) /\ Above(Append(stack[t], f), f.at + 1)
      BY <2>0, <3>2, NestedAppend
    <3> QED BY <2>0, <3>1, <3>3 DEF StackOK
  <2>6. SignalOK(t)'
    BY <2>0, <2>1, Silent DEF Inv, TypeOK
  <2> QED BY <2>3, <2>4, <2>5, <2>6 DEF Inv
<1> QED BY <1>1, <1>2

\* An Unzip goes on after a call: it makes the second one, or is popped.
LEMMA UnzipResumeInv ==
  ASSUME Inv, NEW t \in Thread, UnzipResume(t), UNCHANGED wiring
  PROVE  Inv'
<1> DEFINE n   == Len(stack[t])
           f   == stack[t][n]
           acc == f.acc \/ ok[t]
           g   == [at |-> f.at, calls |-> 2, acc |-> acc]
<1>0. /\ pc[t] = "return" /\ stack[t] \in Seq(Frame) /\ n \in Nat /\ n > 0
      /\ Depth(t) \in Nat /\ at[t] \in Nat
      /\ Nested(stack[t], Chain(t)) /\ Above(stack[t], at[t])
  BY WiringDepth DEF Inv, TypeOK, UnzipResume, StackOK
<1>a. f \in Frame /\ f.at \in 1..(Depth(t) - 1)
  BY <1>0 DEF Nested
<1>1. /\ ok' \in [Thread -> BOOLEAN]
      /\ \A u \in Thread : u # t => ok'[u] = ok[u]
      /\ left' = left /\ signals' = signals
  BY DEF UnzipResume, Call, Return, Inv, TypeOK
<1>2. Runs(t) /\ UnzipSafe(t) => \A i \in 1..Len(signals[t]) : signals[t][i] # "on_complete"
  BY <1>0 DEF Inv, SignalOK
<1>3. pc'[t] \in {"on_next", "return"} => SignalOK(t)'
  BY <1>0, <1>1, <1>2, SameWiring DEF Inv, SignalOK
<1>4. CASE f.calls = 1
  <2>1. /\ pc' = [pc EXCEPT ![t] = "on_next"]
        /\ at' = [at EXCEPT ![t] = f.at + 1]
        /\ stack' = [stack EXCEPT ![t] = [stack[t] EXCEPT ![n] = g]]
    BY <1>4 DEF UnzipResume, Call
  <2>2. stack'[t] \in Seq(Frame) /\ Nested(stack'[t], Chain(t)) /\ Above(stack'[t], f.at + 1)
    <3>1. g \in Frame /\ g.at = f.at
      BY <1>a DEF Frame
    <3>2. stack'[t] = [stack[t] EXCEPT ![n] = g]
      BY <2>1 DEF Inv, TypeOK
    <3> HIDE DEF g
    <3> QED BY <1>0, <3>1, <3>2, NestedReplace
  <2>3. TypeOK'
    <3>1. stack' \in [Thread -> Seq(Frame)]
      BY <2>1, <2>2 DEF Inv, TypeOK
    <3>2. f.at + 1 \in 1..Depth(t) /\ f.at + 1 \in Nat
      BY <1>0, <1>a
    <3> HIDE DEF f, g
    <3> QED BY <1>0, <1>1, <2>1, <3>1, <3>2 DEF Inv, TypeOK, Alive
  <2>4. ASSUME NEW u \in Thread, u # t PROVE StackOK(u)' /\ SignalOK(u)'
    BY <1>1, <2>1, <2>4, OtherThread DEF Inv, TypeOK, Same
  <2>5. pc'[t] = "on_next" /\ at'[t] = f.at + 1
    BY <2>1 DEF Inv, TypeOK
  <2>6. StackOK(t)'
    BY <2>2, <2>5 DEF StackOK
  <2> QED BY <1>3, <2>3, <2>4, <2>5, <2>6 DEF Inv
<1>5. CASE f.calls # 1
  <2>1. /\ pc' = [pc EXCEPT ![t] = "return"]
        /\ at' = at
        /\ stack' = [stack EXCEPT ![t] = SubSeq(stack[t], 1, n - 1)]
    BY <1>5 DEF UnzipResume, Return
  <2>2. stack'[t] \in Seq(Frame) /\ Nested(stack'[t], Chain(t)) /\ Above(stack'[t], at[t])
    <3>1. stack'[t] = SubSeq(stack[t], 1, n - 1)
      BY <2>1 DEF Inv, TypeOK
    <3> QED BY <1>0, <3>1, NestedFront
  <2>3. TypeOK'
    <3>1. stack' \in [Thread -> Seq(Frame)]
      BY <2>1, <2>2 DEF Inv, TypeOK
    <3> QED BY <1>0, <1>1, <2>1, <3>1 DEF Inv, TypeOK, Alive
  <2>4. ASSUME NEW u \in Thread, u # t PROVE StackOK(u)' /\ SignalOK(u)'
    BY <1>1, <2>1, <2>4, OtherThread DEF Inv, TypeOK, Same
  <2>5. pc'[t] = "return" /\ at'[t] = at[t]
    BY <2>1 DEF Inv, TypeOK
  <2>6. StackOK(t)'
    BY <2>2, <2>5 DEF StackOK
  <2> QED BY <1>3, <2>3, <2>4, <2>5, <2>6 DEF Inv
<1> QED BY <1>4, <1>5
-----------------------------------------------------------------------------

\* Every step of a thread keeps the invariant: one case per action.
LEMMA StepInv ==
  ASSUME Inv, NEW t \in Thread, Step(t), UNCHANGED wiring
  PROVE  Inv'
<1>1. CASE subscribe(t)
  BY <1>1, SubscribeInv
<1>2. CASE TryNextUnimplemented(t)
  BY <1>2, PanicInv DEF TryNextUnimplemented
<1>3. CASE NextWithoutSubscriber(t)
  BY <1>3, ReturnInv DEF NextWithoutSubscriber
<1>4. CASE IterNext(t)
  <2>1. CASE source[t] # <<>>
    BY <1>4, <2>1, PushInv DEF IterNext, Idle
  <2>2. CASE source[t] = <<>>
    BY <1>4, <2>2, CompleteInv DEF IterNext, Idle
  <2> QED BY <2>1, <2>2
<1>5. CASE RepeatNext(t)
  BY <1>5, PushInv DEF RepeatNext, Idle
<1>18. CASE RndGenNext(t)
  BY <1>18, PushInv DEF RndGenNext, Idle
<1>6. CASE CouplerNext(t)
  <2>1. CASE Push(t, Head(chan[Pub(t).rx])) /\ UNCHANGED signals
    BY <1>6, <2>1, PushInv DEF CouplerNext, Idle
  <2>2. CASE CompleteAndStop(t)
    BY <1>6, <2>2, CompleteInv DEF CouplerNext, Idle
  <2>3. CASE Return(t, TRUE) /\ UNCHANGED signals
    BY <1>6, <2>3, ReturnInv DEF CouplerNext, Idle
  <2> QED BY <1>6, <2>1, <2>2, <2>3 DEF CouplerNext
<1>7. CASE DoOnNext(t)
  BY <1>7, ForwardInv DEF DoOnNext, Running
<1>8. CASE MapOnNext(t)
  BY <1>8, ForwardInv DEF MapOnNext, Running
<1>9. CASE MapVal1OnNext(t)
  BY <1>9, ForwardInv DEF MapVal1OnNext, Running
<1>10. CASE ReduceOnNext(t)
  BY <1>10, ForwardInv DEF ReduceOnNext, Running
<1>11. CASE EnumerateOnNext(t)
  BY <1>11, ForwardInv DEF EnumerateOnNext, Running
<1>12. CASE TeeOnNext(t)
  BY <1>12, ForwardInv DEF TeeOnNext, Running
<1>13. CASE UnzipOnNext(t)
  BY <1>13, UnzipOnNextInv
<1>14. CASE UnzipResume(t)
  BY <1>14, UnzipResumeInv
<1>15. CASE TakeOnNext(t)
  <2>1. CASE ~HasSubscriber(t)
    BY <1>15, <2>1, ReturnInv DEF TakeOnNext, Running
  <2>2. CASE HasSubscriber(t) /\ PastMax(Mem(t) + 1, Stage(t).arg)
    BY <1>15, <2>2, CompleteInv DEF TakeOnNext, Running
  <2>3. CASE HasSubscriber(t) /\ ~PastMax(Mem(t) + 1, Stage(t).arg)
    BY <1>15, <2>3, ForwardInv DEF TakeOnNext, Running
  <2> QED BY <2>1, <2>2, <2>3
<1>16. CASE SinkOnNext(t) \/ DecouplerOnNext(t)
  <2>1. pc[t] = "on_next" /\ Chain(t)[at[t]].kind \in SinkKind
    BY <1>16 DEF SinkOnNext, DecouplerOnNext, Running, SinkKind
  <2>2. HasSink(t)
    <3>1. at[t] \in 1..Depth(t) /\ Depth(t) \in Nat
      BY <2>1, WiringDepth DEF Inv, TypeOK
    <3>2. at[t] < Depth(t) => Chain(t)[at[t]].kind \in ProcessorKind
      BY <3>1, WiringAssumption DEF Inv, TypeOK, IsWiring
    <3>3. at[t] = Depth(t)
      BY <2>1, <3>1, <3>2 DEF ProcessorKind, SinkKind
    <3> QED BY <2>1, <3>1, <3>3 DEF HasSink
  <2>3. PICK r \in BOOLEAN : Receive(t, item[t]) /\ Return(t, r)
    BY <1>16 DEF SinkOnNext, DecouplerOnNext
  <2> QED BY <1>16, <2>1, <2>2, <2>3, ReceiveInv DEF SinkOnNext, DecouplerOnNext
<1>17. CASE Loop(t)
  BY <1>17, LoopInv
<1> QED BY <1>1, <1>2, <1>3, <1>4, <1>5, <1>6, <1>7, <1>8, <1>9, <1>10, <1>11, <1>12,
           <1>13, <1>14, <1>15, <1>16, <1>17, <1>18 DEF Step, PublisherStep, OnNextStep

\* Steps that touch no thread.
LEMMA StutterInv ==
  ASSUME Inv, UNCHANGED <<wiring, pc, at, ok, stack, left, signals>>
  PROVE  Inv'
<1>1. TypeOK'
  BY DEF Inv, TypeOK, Alive
<1>2. ASSUME NEW u \in Thread PROVE StackOK(u)' /\ SignalOK(u)'
  BY OtherThread DEF Inv, Same
<1> QED BY <1>1, <1>2 DEF Inv

\* Every step of the program keeps the invariant.
LEMMA NextInv == Inv /\ [Next]_vars => Inv'
<1> SUFFICES ASSUME Inv, [Next]_vars PROVE Inv'
  OBVIOUS
<1>1. CASE \E t \in Thread : Step(t) /\ UNCHANGED wiring
  BY <1>1, StepInv
<1>2. CASE \E c \in Channel : EventLoopTakes(c) /\ UNCHANGED wiring
  BY <1>2, StutterInv DEF EventLoopTakes
<1>3. CASE UNCHANGED vars
  BY <1>3, StutterInv DEF vars
<1> QED BY <1>1, <1>2, <1>3 DEF Next, Finished

\* The invariant holds in every reachable state.
LEMMA InvHolds == Spec => []Inv
  BY InitInv, NextInv, PTL DEF Spec

\* The control state of every thread stays well typed: nested on_next calls,
\* also those an Unzip makes when it goes on, only ever reach stages of the
\* thread's own chain.
THEOREM TypeCorrect == Spec => []TypeOK
<1>1. Inv => TypeOK
  BY DEF Inv
<1> QED BY InvHolds, <1>1, PTL

\* Whatever the publisher, the stages and the queues, the sink of a chain that
\* run() drives and in which no Take is fed by an Unzip sees on_subscribe,
\* then items, then at most one on_complete, and nothing after it.
THEOREM ProtocolHolds == Spec => []SignalProtocol
<1>1. Inv => SignalProtocol
  BY DEF Inv, SignalOK, SignalProtocol, IsProtocol
<1> QED BY InvHolds, <1>1, PTL

-----------------------------------------------------------------------------
(* How a stream ends, and how far a Take lets it run.                      *)

\* The sink knows that the stream has ended: it was told, or it refused an item.
Told(t) ==
  \/ LastSignal(t) = "on_complete"
  \/ Kinds(t) \cap {"Decoupler", "NetStreamer"} # {} /\ LastSignal(t) = "on_next"

\* false is never returned, through however many Unzips, before the sink knows.
EndOK(t) ==
  HasSink(t) => /\ pc[t] = "return" /\ ~ok[t] => Told(t)
                /\ pc[t] = "done" /\ Runs(t) => Told(t)

\* Stage i is a Take whose false ends the loop of t.
Limits(t, i) ==
  /\ i < Depth(t) /\ Runs(t) /\ Chain(t)[i].kind = "Take"
  /\ \A j \in 1..(i - 1) : Chain(t)[j].kind # "Unzip"

\* The Take has counted every item pulled, and lets more pass.
Counted(t, i) == Len(pulled[t]) <= mem[t][i] /\ mem[t][i] <= Chain(t)[i].arg

\* An item on its way down to the Take is not counted yet; once the Take has
\* answered false, it is on its way up to the loop, past no Unzip.
TakeOK(t, i) ==
  /\ mem[t][i] \in Nat
  /\ Len(pulled[t]) <= Chain(t)[i].arg + 1
  /\ \A k \in 1..Len(stack[t]) : stack[t][k].at > i
  /\ pc[t] \in {"wire", "idle"} => Counted(t, i)
  /\ pc[t] = "on_next" =>
       IF at[t] > i THEN Counted(t, i)
       ELSE /\ stack[t] = <<>> /\ Len(pulled[t]) <= mem[t][i] + 1
            /\ mem[t][i] <= Chain(t)[i].arg
  /\ pc[t] = "return" => Counted(t, i) \/ (~ok[t] /\ stack[t] = <<>>)

\* mem has an entry per stage, and pulled[t] is a sequence.
HistoryOK ==
  /\ DOMAIN mem = Thread /\ \A t \in Thread : DOMAIN mem[t] = 1..Depth(t)
  /\ DOMAIN pulled = Thread /\ \A t \in Thread : pulled[t] \in Seq(Range(pulled[t]))

Full ==
  /\ Inv /\ HistoryOK
  /\ \A t \in Thread : EndOK(t) /\ \A i \in 1..Depth(t) : Limits(t, i) => TakeOK(t, i)

\* Appending to a sequence of anything.
LEMMA AppendAny ==
  ASSUME NEW s, s \in Seq(Range(s)), NEW x
  PROVE  /\ Append(s, x) \in Seq(Range(Append(s, x)))
         /\ Len(s) \in Nat /\ Len(Append(s, x)) = Len(s) + 1
         /\ \A i \in 1..Len(s) : Append(s, x)[i] = s[i]
         /\ Append(s, x)[Len(s) + 1] = x
<1> DEFINE T == Range(s) \cup {x}
<1>1. s \in Seq(T) /\ x \in T
  BY SeqMonotonic
<1> HIDE DEF T
<1>2. /\ Append(s, x) \in Seq(T) /\ Len(Append(s, x)) = Len(s) + 1
      /\ \A i \in 1..Len(s) : Append(s, x)[i] = s[i]
      /\ Append(s, x)[Len(s) + 1] = x
  BY <1>1, AppendProperties
<1>3. Append(s, x) \in Seq(Range(Append(s, x)))
  BY <1>2, SeqOfRange
<1> QED BY <1>1, <1>2, <1>3, LenProperties

LEMMA InitFull == Init => Full
<1> SUFFICES ASSUME Init PROVE Full
  OBVIOUS
<1>1. Inv
  BY InitInv
<1>2. HistoryOK
  <2>1. DOMAIN mem = Thread /\ \A t \in Thread : DOMAIN mem[t] = 1..Depth(t)
    BY DEF Init
  <2>2. DOMAIN pulled = Thread /\ \A t \in Thread : pulled[t] = <<>>
    BY DEF Init
  <2>3. <<>> \in Seq(Range(<<>>))
    BY EmptySeq
  <2> QED BY <2>1, <2>2, <2>3 DEF HistoryOK
<1>3. ASSUME NEW t \in Thread PROVE EndOK(t)
  BY DEF Init, EndOK
<1>4. ASSUME NEW t \in Thread, NEW i \in 1..Depth(t), Limits(t, i) PROVE TakeOK(t, i)
  <2>1. Depth(t) \in Nat /\ Chain(t)[i].init = 0 /\ Chain(t)[i].arg \in Nat
    BY <1>1, <1>4, WiringAssumption DEF Inv, TypeOK, IsWiring, IsStage, Limits
  <2>2. mem[t][i] = 0 /\ Len(pulled[t]) = 0 /\ Len(stack[t]) = 0
    BY <2>1 DEF Init
  <2>3. pc[t] \in {"wire", "idle"}
    BY DEF Init
  <2> QED BY <2>1, <2>2, <2>3 DEF TakeOK, Counted
<1> QED BY <1>1, <1>2, <1>3, <1>4 DEF Full

-----------------------------------------------------------------------------
(* What the steps of a thread do to the counts.                            *)

\* Only subscribe, next, on_next, an Unzip going on and the loop take steps.
LEMMA StepKinds ==
  ASSUME NEW t \in Thread, Step(t)
  PROVE  \/ pc[t] = "wire" /\ subscribe(t)
         \/ pc[t] = "idle" /\ PublisherStep(t)
         \/ pc[t] = "on_next" /\ OnNextStep(t) /\ ~UnzipResume(t)
         \/ pc[t] = "return" /\ (UnzipResume(t) \/ Loop(t))
<1>1. subscribe(t) => pc[t] = "wire"
  BY DEF subscribe
<1>2. PublisherStep(t) => pc[t] = "idle"
  BY DEF PublisherStep, TryNextUnimplemented, NextWithoutSubscriber, IterNext, RepeatNext,
         RndGenNext, CouplerNext, Idle
<1>3. UnzipResume(t) \/ Loop(t) => pc[t] = "return"
  BY DEF UnzipResume, Loop
<1>4. OnNextStep(t) => UnzipResume(t) \/ pc[t] = "on_next"
  BY DEF OnNextStep, DoOnNext, MapOnNext, MapVal1OnNext, ReduceOnNext, EnumerateOnNext,
         TeeOnNext, UnzipOnNext, TakeOnNext, SinkOnNext, DecouplerOnNext, Running
<1> QED BY <1>1, <1>2, <1>3, <1>4 DEF Step

\* next() returns, panics, or pushes one item to the first stage.
LEMMA IdleStep ==
  ASSUME Inv, HistoryOK, NEW t \in Thread, PublisherStep(t), UNCHANGED wiring
  PROVE  /\ mem' = mem /\ stack' = stack
         /\ \/ pulled' = pulled /\ pc'[t] \in {"return", "panicked"}
            \/ /\ pc'[t] = "on_next" /\ at'[t] = 1 /\ Depth(t) > 0
               /\ \E x : pulled' = [pulled EXCEPT ![t] = Append(pulled[t], x)]
<1> DEFINE Goal == 
     /\ mem' = mem /\ stack' = stack
     /\ \/ pulled' = pulled /\ pc'[t] \in {"return", "panicked"}
        \/ /\ pc'[t] = "on_next" /\ at'[t] = 1 /\ Depth(t) > 0
           /\ \E x : pulled' = [pulled EXCEPT ![t] = Append(pulled[t], x)]
<1>0. pc \in [Thread -> PC] /\ at \in [Thread -> Nat]
  BY DEF Inv, TypeOK
<1>1. ASSUME NEW x, Push(t, x)
      PROVE  /\ pc'[t] = "on_next" /\ at'[t] = 1
             /\ pulled' = [pulled EXCEPT ![t] = Append(pulled[t], x)]
  BY <1>0, <1>1 DEF Push, Call
<1>2. CompleteAndStop(t) => pc'[t] \in {"return", "panicked"}
  BY <1>0 DEF CompleteAndStop, Return, Panic
<1>3. ASSUME NEW r, Return(t, r) PROVE pc'[t] = "return"
  BY <1>0, <1>3 DEF Return
<1>4. CASE TryNextUnimplemented(t) \/ NextWithoutSubscriber(t)
  BY <1>0, <1>4 DEF TryNextUnimplemented, NextWithoutSubscriber, Return, Panic
<1>5. CASE IterNext(t)
  BY <1>1, <1>2, <1>5 DEF IterNext, Idle
<1>6. CASE RepeatNext(t)
  BY <1>1, <1>6 DEF RepeatNext, Idle
<1>7. CASE RndGenNext(t)
  BY <1>1, <1>7 DEF RndGenNext, Idle
<1>8. CASE CouplerNext(t)
  BY <1>1, <1>2, <1>3, <1>8 DEF CouplerNext, Idle
<1> QED BY <1>4, <1>5, <1>6, <1>7, <1>8 DEF PublisherStep

\* on_next leaves the counts of the other stages alone, and calls only the next.
LEMMA OnNextKeeps ==
  ASSUME Inv, HistoryOK, NEW t \in Thread, pc[t] = "on_next",
         OnNextStep(t), ~UnzipResume(t), UNCHANGED wiring
  PROVE  /\ pulled' = pulled
         /\ \A u \in Thread : u # t => mem'[u] = mem[u]
         /\ \A k \in 1..Depth(t) : k # at[t] => mem'[t][k] = mem[t][k]
         /\ DOMAIN mem' = Thread /\ DOMAIN mem'[t] = 1..Depth(t)
         /\ pc'[t] = "on_next" => at'[t] = at[t] + 1
         /\ pc'[t] \in {"on_next", "return", "panicked"}
         /\ \/ stack'[t] = stack[t]
            \/ /\ Chain(t)[at[t]].kind = "Unzip"
               /\ stack'[t] = Append(stack[t], [at |-> at[t], calls |-> 1, acc |-> FALSE])
<1>0. pc \in [Thread -> PC] /\ at \in [Thread -> Nat] /\ stack \in [Thread -> Seq(Frame)]
  BY DEF Inv, TypeOK
<1> DEFINE MemGoal ==
     /\ \A u \in Thread : u # t => mem'[u] = mem[u]
     /\ \A k \in 1..Depth(t) : k # at[t] => mem'[t][k] = mem[t][k]
     /\ DOMAIN mem' = Thread /\ DOMAIN mem'[t] = 1..Depth(t)
   CtlGoal ==
     /\ pc'[t] = "on_next" => at'[t] = at[t] + 1
     /\ pc'[t] \in {"on_next", "return", "panicked"}
<1>1. ASSUME NEW v, SetMem(t, v) PROVE MemGoal
  <2>1. mem' = [mem EXCEPT ![t] = [mem[t] EXCEPT ![at[t]] = v]]
    BY <1>1 DEF SetMem
  <2> QED BY <2>1 DEF HistoryOK
<1>2. ASSUME mem' = mem PROVE MemGoal
  BY <1>2 DEF HistoryOK
<1>3. ASSUME NEW x, Forward(t, x) PROVE CtlGoal
  BY <1>0, <1>3 DEF Forward, Call, Return
<1>4. ASSUME NEW r, Return(t, r) PROVE CtlGoal
  BY <1>0, <1>4 DEF Return
<1>5. ASSUME CompleteAndStop(t) PROVE CtlGoal
  BY <1>0, <1>5 DEF CompleteAndStop, Return, Panic
<1> HIDE DEF MemGoal, CtlGoal
<1>6. pulled' = pulled /\ CtlGoal
  BY <1>3, <1>4, <1>5 DEF OnNextStep, DoOnNext, MapOnNext, MapVal1OnNext, ReduceOnNext,
     EnumerateOnNext, TeeOnNext, UnzipOnNext, TakeOnNext, SinkOnNext, DecouplerOnNext
<1>7. MemGoal
  BY <1>1, <1>2 DEF OnNextStep, DoOnNext, MapOnNext, MapVal1OnNext, ReduceOnNext,
     EnumerateOnNext, TeeOnNext, UnzipOnNext, TakeOnNext, SinkOnNext, DecouplerOnNext
<1>8. CASE UnzipOnNext(t)
  <2>1. \/ stack'[t] = stack[t]
        \/ /\ Chain(t)[at[t]].kind = "Unzip"
           /\ stack'[t] = Append(stack[t], [at |-> at[t], calls |-> 1, acc |-> FALSE])
    BY <1>0, <1>8 DEF UnzipOnNext, Running
  <2> QED BY <1>6, <1>7, <2>1 DEF MemGoal, CtlGoal
<1>9. CASE ~UnzipOnNext(t)
  <2>1. stack' = stack
    BY <1>9 DEF OnNextStep, DoOnNext, MapOnNext, MapVal1OnNext, ReduceOnNext,
       EnumerateOnNext, TeeOnNext, TakeOnNext, SinkOnNext, DecouplerOnNext
  <2> QED BY <1>6, <1>7, <2>1 DEF MemGoal, CtlGoal
<1> QED BY <1>8, <1>9

\* The types that the arithmetic of a Take needs.
LEMMA TakeTypes ==
  ASSUME Inv, HistoryOK, NEW t \in Thread, NEW i \in 1..Depth(t), Limits(t, i)
  PROVE  /\ Depth(t) \in Nat /\ i \in Nat /\ Chain(t)[i].arg \in Nat
         /\ Len(pulled[t]) \in Nat /\ at[t] \in Nat
         /\ stack[t] \in Seq(Frame) /\ Len(stack[t]) \in Nat
         /\ \A k \in 1..Len(stack[t]) : stack[t][k].at \in Nat
<1>1. Depth(t) \in Nat
  BY WiringDepth DEF Inv
<1>2. Chain(t)[i].arg \in Nat
  BY WiringAssumption DEF Inv, TypeOK, IsWiring, IsStage, Limits
<1>3. Len(pulled[t]) \in Nat
  BY LenProperties DEF HistoryOK
<1>4. at[t] \in Nat /\ stack[t] \in Seq(Frame) /\ Len(stack[t]) \in Nat
  BY DEF Inv, TypeOK
<1>5. \A k \in 1..Len(stack[t]) : stack[t][k].at \in Nat
  BY <1>4, FrameAt
<1> QED BY <1>1, <1>2, <1>3, <1>4, <1>5

\* Where everything pulled is counted, a step that pulls nothing keeps it so.
LEMMA KeepTake ==
  ASSUME Inv, HistoryOK, NEW t \in Thread, NEW i \in 1..Depth(t), Limits(t, i),
         Counted(t, i), mem[t][i] \in Nat, UNCHANGED wiring,
         mem'[t][i] = mem[t][i], pulled'[t] = pulled[t],
         \A k \in 1..Len(stack'[t]) : stack'[t][k].at > i,
         pc'[t] = "on_next" => at'[t] > i
  PROVE  TakeOK(t, i)'
<1>1. Chain(t)[i].arg \in Nat /\ Len(pulled[t]) \in Nat
  BY TakeTypes
<1>2. Counted(t, i)'
  BY DEF Counted
<1>3. Len(pulled'[t]) <= wiring'.chain[t][i].arg + 1
  BY <1>1 DEF Counted
<1> QED BY <1>2, <1>3 DEF TakeOK

\* A Take stops the publisher: on_next between the publisher and the Take.
LEMMA AboveTake ==
  ASSUME Inv, HistoryOK, NEW t \in Thread, pc[t] = "on_next",
         OnNextStep(t), ~UnzipResume(t), UNCHANGED wiring,
         NEW i \in 1..Depth(t), Limits(t, i), TakeOK(t, i), at[t] <= i
  PROVE  TakeOK(t, i)'
<1>0. /\ Depth(t) \in Nat /\ i \in Nat /\ Chain(t)[i].arg \in Nat
      /\ Len(pulled[t]) \in Nat /\ at[t] \in Nat
  BY TakeTypes
<1>1. /\ at[t] \in 1..Depth(t) /\ i < Depth(t) /\ HasSubscriber(t)
  BY <1>0 DEF Inv, TypeOK, Limits, HasSubscriber
<1>2. /\ mem[t][i] \in Nat /\ stack[t] = <<>> /\ Len(pulled[t]) <= mem[t][i] + 1
      /\ mem[t][i] <= Chain(t)[i].arg /\ Len(pulled[t]) <= Chain(t)[i].arg + 1
  BY <1>0 DEF TakeOK
<1>3. /\ pulled' = pulled
      /\ \A k \in 1..Depth(t) : k # at[t] => mem'[t][k] = mem[t][k]
      /\ pc'[t] = "on_next" => at'[t] = at[t] + 1
      /\ pc'[t] \in {"on_next", "return", "panicked"}
      /\ \/ stack'[t] = stack[t]
         \/ Chain(t)[at[t]].kind = "Unzip"
  BY OnNextKeeps
<1>4. Chain(t)[at[t]].kind # "Unzip" /\ stack'[t] = <<>>
  <2>1. CASE at[t] = i
    BY <1>2, <1>3, <2>1 DEF Limits
  <2>2. CASE at[t] < i
    BY <1>0, <1>1, <1>2, <1>3, <2>2 DEF Limits
  <2> QED BY <1>0, <2>1, <2>2
<1>5. Len(stack'[t]) = 0
  BY <1>4
<1>6. pc'[t] = "return" => ~ok'[t]
  <2>1. ~SinkOnNext(t) /\ ~DecouplerOnNext(t)
    <3>1. Chain(t)[at[t]].kind \in ProcessorKind
      BY <1>0, <1>1, WiringAssumption DEF Inv, TypeOK, IsWiring, HasSubscriber
    <3> QED BY <3>1 DEF SinkOnNext, DecouplerOnNext, Running, ProcessorKind
  <2>2. pc \in [Thread -> PC] /\ ok \in [Thread -> BOOLEAN]
    BY DEF Inv, TypeOK
  <2>3. ASSUME NEW x, Forward(t, x) PROVE pc'[t] = "on_next"
    BY <1>1, <2>2, <2>3 DEF Forward, Call
  <2>4. CompleteAndStop(t) /\ pc'[t] = "return" => ~ok'[t]
    BY <2>2 DEF CompleteAndStop, Return, Panic
  <2>5. CASE TakeOnNext(t)
    BY <1>1, <2>3, <2>4, <2>5 DEF TakeOnNext
  <2>6. CASE ~TakeOnNext(t)
    BY <2>1, <2>3, <2>6 DEF OnNextStep, DoOnNext, MapOnNext, MapVal1OnNext, ReduceOnNext,
       EnumerateOnNext, TeeOnNext, UnzipOnNext
  <2> QED BY <2>5, <2>6
<1>7. CASE at[t] < i
  <2>1. mem'[t][i] = mem[t][i]
    BY <1>0, <1>3, <1>7
  <2>2. pc'[t] = "on_next" => ~(at'[t] > i)
    BY <1>0, <1>3, <1>7
  <2> QED BY <1>2, <1>3, <1>4, <1>5, <1>6, <2>1, <2>2 DEF TakeOK
<1>8. CASE at[t] = i
  <2>1. Running(t, {"Take"}) /\ TakeOnNext(t)
    BY <1>8 DEF Limits, OnNextStep, DoOnNext, MapOnNext, MapVal1OnNext, ReduceOnNext,
       EnumerateOnNext, TeeOnNext, UnzipOnNext, TakeOnNext, SinkOnNext, DecouplerOnNext, Running
  <2>2. mem' = [mem EXCEPT ![t] = [mem[t] EXCEPT ![i] = mem[t][i] + 1]]
    BY <1>1, <1>8, <2>1 DEF TakeOnNext, SetMem, Mem
  <2>3. mem'[t][i] = mem[t][i] + 1
    BY <2>2 DEF HistoryOK
  <2>4. pc'[t] = "on_next" => mem[t][i] + 1 <= Chain(t)[i].arg
    <3>1. CompleteAndStop(t) => pc'[t] # "on_next"
      BY DEF CompleteAndStop, Return, Panic, Inv, TypeOK
    <3>2. PastMax(Mem(t) + 1, Stage(t).arg) => pc'[t] # "on_next"
      BY <1>1, <2>1, <3>1 DEF TakeOnNext
    <3> QED BY <1>0, <1>2, <1>8, <3>2 DEF PastMax, Mem
  <2>5. pc'[t] = "on_next" => Counted(t, i)'
    <3>1. Len(pulled'[t]) <= mem'[t][i]
      BY <1>2, <1>3, <2>3
    <3> QED BY <2>3, <2>4, <3>1 DEF Counted
  <2>6. pc'[t] = "on_next" => at'[t] > i
    BY <1>0, <1>3, <1>8
  <2> QED BY <1>2, <1>3, <1>4, <1>5, <1>6, <2>3, <2>5, <2>6 DEF TakeOK
<1> QED BY <1>0, <1>7, <1>8

LEMMA StepTake ==
  ASSUME Inv, HistoryOK, NEW t \in Thread, Step(t), UNCHANGED wiring,
         NEW i \in 1..Depth(t), Limits(t, i), TakeOK(t, i)
  PROVE  TakeOK(t, i)'
<1>0. /\ Depth(t) \in Nat /\ i \in Nat /\ Chain(t)[i].arg \in Nat
      /\ Len(pulled[t]) \in Nat /\ at[t] \in Nat
      /\ stack[t] \in Seq(Frame) /\ Len(stack[t]) \in Nat
      /\ \A k \in 1..Len(stack[t]) : stack[t][k].at \in Nat
  BY TakeTypes
<1>1. mem[t][i] \in Nat /\ \A k \in 1..Len(stack[t]) : stack[t][k].at > i
  BY DEF TakeOK
<1>2. CASE pc[t] = "wire" /\ subscribe(t)
  <2>1. Counted(t, i) /\ mem' = mem /\ pulled' = pulled /\ stack' = stack
    BY <1>2 DEF TakeOK, subscribe
  <2>2. pc'[t] # "on_next"
    BY <1>2 DEF subscribe, Inv, TypeOK
  <2> QED BY <1>1, <2>1, <2>2, KeepTake
<1>3. CASE pc[t] = "idle" /\ PublisherStep(t)
  <2>1. mem' = mem /\ stack' = stack /\ Counted(t, i)
    BY <1>3, IdleStep DEF TakeOK
  <2>2. CASE pulled' = pulled /\ pc'[t] \in {"return", "panicked"}
    BY <1>1, <2>1, <2>2, KeepTake
  <2>3. ASSUME NEW x, pulled' = [pulled EXCEPT ![t] = Append(pulled[t], x)],
               pc'[t] = "on_next", at'[t] = 1
        PROVE  TakeOK(t, i)'
    <3>1. pulled'[t] = Append(pulled[t], x)
      BY <2>3 DEF HistoryOK
    <3>2. Len(pulled'[t]) = Len(pulled[t]) + 1
      BY <3>1, AppendAny DEF HistoryOK
    <3>3. stack[t] = <<>> /\ Len(stack'[t]) = 0
      BY <1>3, <2>1 DEF Inv, StackOK
    <3>4. /\ Len(pulled'[t]) <= mem'[t][i] + 1 /\ mem'[t][i] <= Chain(t)[i].arg
          /\ Len(pulled'[t]) <= Chain(t)[i].arg + 1
      <4>1. mem'[t][i] = mem[t][i]
        BY <2>1
      <4>2. Len(pulled[t]) <= mem[t][i] /\ mem[t][i] <= Chain(t)[i].arg
        BY <2>1 DEF Counted
      <4>3. ASSUME NEW l \in Nat, NEW m \in Nat, NEW a \in Nat, l <= m, m <= a
            PROVE  l + 1 <= m + 1 /\ m <= a /\ l + 1 <= a + 1
        BY <4>3
      <4>4. PICK l, m, a : l = Len(pulled[t]) /\ m = mem[t][i] /\ a = Chain(t)[i].arg
        OBVIOUS
      <4>5. l \in Nat /\ m \in Nat /\ a \in Nat
        BY <1>0, <1>1, <4>4
      <4>6. l <= m /\ m <= a
        BY ONLY <4>2, <4>4
      <4>7. l + 1 <= m + 1 /\ m <= a /\ l + 1 <= a + 1
        BY ONLY <4>3, <4>5, <4>6
      <4> QED BY ONLY <3>2, <4>1, <4>4, <4>7
    <3>5. ~(at'[t] > i)
      BY <1>0, <2>3
    <3> QED BY <1>1, <2>1, <2>3, <3>3, <3>4, <3>5 DEF TakeOK
  <2> QED BY <1>3, <2>2, <2>3, IdleStep
<1>4. CASE pc[t] = "on_next" /\ OnNextStep(t) /\ ~UnzipResume(t)
  <2>1. CASE at[t] <= i
    BY <1>4, <2>1, AboveTake
  <2>2. CASE at[t] > i
    <3>1. Counted(t, i)
      BY <1>4, <2>2 DEF TakeOK
    <3>2. /\ pulled' = pulled /\ mem'[t][i] = mem[t][i]
          /\ pc'[t] = "on_next" => at'[t] = at[t] + 1
          /\ \/ stack'[t] = stack[t]
             \/ stack'[t] = Append(stack[t], [at |-> at[t], calls |-> 1, acc |-> FALSE])
      BY <1>0, <1>4, <2>2, OnNextKeeps
    <3>3. \A k \in 1..Len(stack'[t]) : stack'[t][k].at > i
      <4> DEFINE f == [at |-> at[t], calls |-> 1, acc |-> FALSE]
      <4>1. f \in Frame /\ f.at = at[t]
        BY <1>0 DEF Frame
      <4>2. /\ Len(Append(stack[t], f)) = Len(stack[t]) + 1
            /\ \A k \in 1..Len(stack[t]) : Append(stack[t], f)[k] = stack[t][k]
            /\ Append(stack[t], f)[Len(stack[t]) + 1] = f
        BY <1>0, <4>1, AppendProperties
      <4> HIDE DEF f
      <4>3. \A k \in 1..Len(Append(stack[t], f)) : Append(stack[t], f)[k].at > i
        BY <1>0, <1>1, <2>2, <4>1, <4>2
      <4> QED BY <1>1, <3>2, <4>3 DEF f
    <3>4. pc'[t] = "on_next" => at'[t] > i
      BY <1>0, <2>2, <3>2
    <3> QED BY <1>1, <3>1, <3>2, <3>3, <3>4, KeepTake
  <2> QED BY <1>0, <2>1, <2>2
<1>5. CASE UnzipResume(t)
  <2> DEFINE n == Len(stack[t])
             f == stack[t][n]
             g == [at |-> f.at, calls |-> 2, acc |-> f.acc \/ ok[t]]
  <2>0. pc[t] = "return" /\ n > 0 /\ mem' = mem /\ pulled' = pulled
    BY <1>5 DEF UnzipResume
  <2>1. Counted(t, i)
    <3>1. stack[t] # <<>>
      BY <2>0
    <3> QED BY <2>0, <3>1 DEF TakeOK
  <2>2. pc \in [Thread -> PC] /\ at \in [Thread -> Nat] /\ stack \in [Thread -> Seq(Frame)]
    BY DEF Inv, TypeOK
  <2>3. n \in 1..Len(stack[t]) /\ f.at > i /\ f.at \in Nat
    BY <1>0, <1>1, <2>0
  <2>4. CASE f.calls = 1
    <3>1. /\ pc' = [pc EXCEPT ![t] = "on_next"]
          /\ at' = [at EXCEPT ![t] = f.at + 1]
          /\ stack' = [stack EXCEPT ![t] = [stack[t] EXCEPT ![n] = g]]
      BY <1>5, <2>4 DEF UnzipResume, Call
    <3>2. stack'[t] = [stack[t] EXCEPT ![n] = g] /\ at'[t] > i
      BY <1>0, <2>2, <2>3, <3>1
    <3>3. g \in Frame /\ g.at = f.at
      <4>1. f \in Frame /\ ok[t] \in BOOLEAN
        BY <1>0, <2>3, FrameAt DEF Inv, TypeOK
      <4> QED BY <4>1 DEF Frame
    <3> HIDE DEF g
    <3>4. /\ Len(stack'[t]) = n
          /\ \A k \in 1..n : stack'[t][k] = IF k = n THEN g ELSE stack[t][k]
      BY <1>0, <2>3, <3>2, <3>3, ExceptSeq
    <3>5. \A k \in 1..Len(stack'[t]) : stack'[t][k].at > i
      BY <1>1, <2>3, <3>3, <3>4
    <3> QED BY <1>1, <2>0, <2>1, <3>2, <3>5, KeepTake
  <2>5. CASE f.calls # 1
    <3>1. /\ pc' = [pc EXCEPT ![t] = "return"]
          /\ stack' = [stack EXCEPT ![t] = SubSeq(stack[t], 1, n - 1)]
      BY <1>5, <2>5 DEF UnzipResume, Return
    <3>2. pc'[t] = "return" /\ stack'[t] = SubSeq(stack[t], 1, n - 1)
      BY <2>2, <3>1
    <3>3. n - 1 \in Nat /\ n - 1 <= n
      BY <1>0, <2>0
    <3>4. Len(stack'[t]) = n - 1 /\ \A k \in 1..(n - 1) : stack'[t][k] = stack[t][k]
      BY <1>0, <3>2, <3>3
    <3>5. \A k \in 1..Len(stack'[t]) : stack'[t][k].at > i
      <4> SUFFICES ASSUME NEW k \in 1..(n - 1) PROVE stack'[t][k].at > i
        BY <3>4
      <4>1. k \in 1..n
        BY <1>0
      <4> QED BY <1>1, <3>4, <4>1
    <3> QED BY <1>1, <2>0, <2>1, <3>2, <3>5, KeepTake
  <2> QED BY <2>4, <2>5
<1>6. CASE Loop(t)
  <2>1. /\ pc[t] = "return" /\ pulled' = pulled /\ mem' = mem /\ stack' = stack
        /\ pc'[t] = IF LoopEnds(t) THEN "done" ELSE "idle"
    BY <1>6 DEF Loop, Inv, TypeOK
  <2>2. CASE Counted(t, i)
    BY <1>1, <2>1, <2>2, KeepTake
  <2>3. CASE ~ok[t]
    <3>1. pc'[t] = "done"
      BY <2>1, <2>3 DEF Limits, Runs, LoopEnds
    <3> QED BY <2>1, <3>1 DEF TakeOK
  <2> QED BY <2>1, <2>2, <2>3 DEF TakeOK
<1> QED BY <1>2, <1>3, <1>4, <1>5, <1>6, StepKinds

-----------------------------------------------------------------------------
(* How a step ends.                                                        *)

\* What is appended is the last signal.
LEMMA LastOf ==
  ASSUME TypeOK, NEW t \in Thread, NEW sig \in Signal, Notify(t, sig)
  PROVE  LastSignal(t)' = sig
  BY NotifySignals DEF LastSignal

\* Which subscribers there are does not change.
LEMMA SameTold ==
  ASSUME NEW t \in Thread, UNCHANGED wiring, signals'[t] = signals[t]
  PROVE  Told(t)' <=> Told(t)
  BY DEF Told, LastSignal, Kinds

\* A thread that does not return false has nothing to show.
LEMMA GoesOn ==
  ASSUME NEW t \in Thread, pc'[t] # "done", pc'[t] = "return" => ok'[t]
  PROVE  EndOK(t)'
  BY DEF EndOK

LEMMA CompleteEnds ==
  ASSUME Inv, NEW t \in Thread, CompleteAndStop(t), UNCHANGED wiring
  PROVE  EndOK(t)'
<1>0. pc \in [Thread -> PC] /\ ok \in [Thread -> BOOLEAN]
  BY DEF Inv, TypeOK
<1>1. CASE HasSink(t)
  <2>1. LastSignal(t)' = "on_complete"
    BY <1>1, LastOf DEF CompleteAndStop, Signal, Inv
  <2> QED BY <2>1 DEF EndOK, Told
<1>2. CASE ~HasSink(t)
  BY <1>2, SameWiring DEF EndOK
<1> QED BY <1>1, <1>2

LEMMA StepEnd ==
  ASSUME Inv, NEW t \in Thread, Step(t), UNCHANGED wiring, EndOK(t)
  PROVE  EndOK(t)'
<1>0. pc \in [Thread -> PC] /\ ok \in [Thread -> BOOLEAN] /\ signals \in [Thread -> Seq(Signal)]
  BY DEF Inv, TypeOK
<1>a. ASSUME NEW i, NEW x, Call(t, i, x) PROVE EndOK(t)'
  BY <1>0, <1>a, GoesOn DEF Call
<1>b. ASSUME Return(t, TRUE) PROVE EndOK(t)'
  BY <1>0, <1>b, GoesOn DEF Return
<1>c. ASSUME Panic(t) PROVE EndOK(t)'
  BY <1>0, <1>c, GoesOn DEF Panic
<1>d. ASSUME NEW x, Forward(t, x) PROVE EndOK(t)'
  BY <1>a, <1>b, <1>d DEF Forward
<1>1. CASE subscribe(t)
  BY <1>0, <1>1, GoesOn DEF subscribe
<1>2. CASE PublisherStep(t)
  <2>1. CASE NextWithoutSubscriber(t)
    <3>1. ~HasSink(t)
      BY <2>1 DEF NextWithoutSubscriber, HasSink
    <3> QED BY <3>1, SameWiring DEF EndOK
  <2>2. CASE ~NextWithoutSubscriber(t)
    BY <1>2, <1>a, <1>b, <1>c, <2>2, CompleteEnds
       DEF PublisherStep, TryNextUnimplemented, IterNext, RepeatNext, RndGenNext, CouplerNext, Push
  <2> QED BY <2>1, <2>2
<1>3. CASE DecouplerOnNext(t)
  <2>1. at[t] \in 1..Depth(t) /\ Chain(t)[at[t]].kind \in {"Decoupler", "NetStreamer"}
    BY <1>3 DEF DecouplerOnNext, Running, Inv, TypeOK
  <2>2. Kinds(t) \cap {"Decoupler", "NetStreamer"} # {}
    BY <2>1 DEF Kinds
  <2>3. LastSignal(t)' = "on_next"
    BY <1>3, LastOf DEF DecouplerOnNext, Receive, Signal, Inv
  <2>4. Told(t)'
    BY <2>2, <2>3 DEF Told, Kinds
  <2> QED BY <2>4 DEF EndOK
<1>4. CASE UnzipResume(t)
  <2> DEFINE f   == stack[t][Len(stack[t])]
             acc == f.acc \/ ok[t]
  <2>1. signals' = signals /\ pc[t] = "return"
    BY <1>4 DEF UnzipResume
  <2>2. Call(t, f.at + 1, mem[t][f.at]) \/ Return(t, acc)
    BY <1>4 DEF UnzipResume
  <2>3. CASE Return(t, acc)
    <3>1. ~ok'[t] => ~ok[t]
      BY <1>0, <2>3 DEF Return
    <3>2. pc'[t] = "return"
      BY <1>0, <2>3 DEF Return
    <3> QED BY <2>1, <3>1, <3>2, SameTold, SameWiring DEF EndOK
  <2> QED BY <1>a, <2>2, <2>3
<1>5. CASE OnNextStep(t) /\ ~UnzipResume(t) /\ ~DecouplerOnNext(t)
  BY <1>5, <1>b, <1>d, CompleteEnds
     DEF OnNextStep, DoOnNext, MapOnNext, MapVal1OnNext, ReduceOnNext, EnumerateOnNext,
         TeeOnNext, UnzipOnNext, TakeOnNext, SinkOnNext
<1>6. CASE Loop(t)
  <2>1. /\ pc[t] = "return" /\ signals' = signals
        /\ pc'[t] = IF LoopEnds(t) THEN "done" ELSE "idle"
    BY <1>0, <1>6 DEF Loop
  <2>2. Runs(t) /\ pc'[t] = "done" => ~ok[t]
    BY <2>1 DEF LoopEnds, Runs
  <2> QED BY <2>1, <2>2, SameTold, SameWiring DEF EndOK
<1> QED BY <1>1, <1>2, <1>3, <1>4, <1>5, <1>6 DEF Step

-----------------------------------------------------------------------------

\* Everything that Full says of a thread depends on that thread's state only.
LEMMA OtherFull ==
  ASSUME NEW u \in Thread, UNCHANGED wiring, Same(u),
         mem'[u] = mem[u], pulled'[u] = pulled[u], EndOK(u),
         \A i \in 1..Depth(u) : Limits(u, i) => TakeOK(u, i)
  PROVE  /\ EndOK(u)'
         /\ \A i \in 1..Depth(u) : Limits(u, i)' => TakeOK(u, i)'
<1>1. EndOK(u)'
  BY SameTold, SameWiring DEF EndOK, Same
<1>2. ASSUME NEW i \in 1..Depth(u), Limits(u, i)' PROVE TakeOK(u, i)'
  <2>1. Limits(u, i)
    BY <1>2 DEF Limits, Runs
  <2> QED BY <2>1 DEF TakeOK, Counted, Same
<1> QED BY <1>1, <1>2

\* A step of t changes the state of no other thread, and keeps the histories.
LEMMA StepFrame ==
  ASSUME Inv, HistoryOK, NEW t \in Thread, Step(t), UNCHANGED wiring
  PROVE  /\ HistoryOK'
         /\ \A u \in Thread : u # t => Same(u) /\ mem'[u] = mem[u] /\ pulled'[u] = pulled[u]
<1>0. /\ pc \in [Thread -> PC] /\ at \in [Thread -> Nat] /\ ok \in [Thread -> BOOLEAN]
      /\ stack \in [Thread -> Seq(Frame)] /\ signals \in [Thread -> Seq(Signal)]
  BY DEF Inv, TypeOK
<1> DEFINE Ctl == \A u \in Thread : u # t => pc'[u] = pc[u] /\ at'[u] = at[u] /\ ok'[u] = ok[u]
           Sig == \A u \in Thread : u # t => signals'[u] = signals[u]
           Stk == \A u \in Thread : u # t => stack'[u] = stack[u]
<1>a. ASSUME NEW i, NEW x, Call(t, i, x) PROVE Ctl
  BY <1>0, <1>a DEF Call
<1>b. ASSUME NEW r, Return(t, r) PROVE Ctl
  BY <1>0, <1>b DEF Return
<1>c. ASSUME Panic(t) PROVE Ctl
  BY <1>0, <1>c DEF Panic
<1>d. ASSUME NEW x, Forward(t, x) PROVE Ctl
  BY <1>a, <1>b, <1>d DEF Forward
<1>e. ASSUME NEW s, Notify(t, s) PROVE Sig
  BY <1>0, <1>e DEF Notify
<1>f. ASSUME CompleteAndStop(t) PROVE Ctl /\ Sig
  BY <1>b, <1>c, <1>e, <1>f DEF CompleteAndStop
<1>g. signals' = signals => Sig
  OBVIOUS
<1>h. stack' = stack => Stk
  OBVIOUS
<1>i. Loop(t) \/ subscribe(t) => Ctl
  BY <1>0 DEF Loop, subscribe
<1>j. UnzipOnNext(t) \/ UnzipResume(t) => Stk
  BY <1>0 DEF UnzipOnNext, UnzipResume
<1> HIDE DEF Ctl, Sig, Stk
<1>1. Ctl /\ Sig /\ Stk
  <2>1. CASE subscribe(t)
    BY <1>e, <1>g, <1>h, <1>i, <2>1 DEF subscribe
  <2>2. CASE Loop(t)
    BY <1>g, <1>h, <1>i, <2>2 DEF Loop
  <2>3. CASE PublisherStep(t)
    BY <1>a, <1>b, <1>c, <1>f, <1>g, <1>h, <2>3
       DEF PublisherStep, TryNextUnimplemented, NextWithoutSubscriber, IterNext, RepeatNext,
           RndGenNext, CouplerNext, Push
  <2>4. CASE UnzipOnNext(t) \/ UnzipResume(t)
    BY <1>a, <1>b, <1>d, <1>g, <1>j, <2>4 DEF UnzipOnNext, UnzipResume
  <2>5. CASE OnNextStep(t) /\ ~UnzipOnNext(t) /\ ~UnzipResume(t)
    BY <1>b, <1>d, <1>e, <1>f, <1>g, <1>h, <2>5
       DEF OnNextStep, DoOnNext, MapOnNext, MapVal1OnNext, ReduceOnNext, EnumerateOnNext,
           TeeOnNext, TakeOnNext, SinkOnNext, DecouplerOnNext, Receive
  <2> QED BY <2>1, <2>2, <2>3, <2>4, <2>5 DEF Step
<1>2. \A u \in Thread : u # t => Same(u)
  BY <1>1 DEF Ctl, Sig, Stk, Same
<1>3. CASE PublisherStep(t)
  <2>1. mem' = mem
    BY <1>3, IdleStep
  <2>2. \/ pulled' = pulled
        \/ \E x : pulled' = [pulled EXCEPT ![t] = Append(pulled[t], x)]
    BY <1>3, IdleStep
  <2>3. ASSUME NEW x, pulled' = [pulled EXCEPT ![t] = Append(pulled[t], x)]
        PROVE  /\ DOMAIN pulled' = Thread
               /\ \A u \in Thread : u # t => pulled'[u] = pulled[u]
               /\ \A u \in Thread : pulled'[u] \in Seq(Range(pulled'[u]))
    <3>1. DOMAIN pulled = Thread /\ \A u \in Thread : pulled[u] \in Seq(Range(pulled[u]))
      BY DEF HistoryOK
    <3>2. /\ DOMAIN pulled' = Thread /\ pulled'[t] = Append(pulled[t], x)
          /\ \A u \in Thread : u # t => pulled'[u] = pulled[u]
      BY <2>3, <3>1
    <3>3. pulled'[t] \in Seq(Range(pulled'[t]))
      BY <3>1, <3>2, AppendAny
    <3> QED BY <3>1, <3>2, <3>3
  <2> QED BY <1>2, <2>1, <2>2, <2>3 DEF HistoryOK
<1>4. CASE subscribe(t) \/ Loop(t) \/ UnzipResume(t)
  <2>1. mem' = mem /\ pulled' = pulled
    BY <1>4 DEF subscribe, Loop, UnzipResume
  <2> QED BY <1>2, <2>1 DEF HistoryOK
<1>5. CASE pc[t] = "on_next" /\ OnNextStep(t) /\ ~UnzipResume(t)
  <2>1. /\ pulled' = pulled /\ DOMAIN mem' = Thread /\ DOMAIN mem'[t] = 1..Depth(t)
        /\ \A u \in Thread : u # t => mem'[u] = mem[u]
    BY <1>5, OnNextKeeps
  <2> QED BY <1>2, <2>1 DEF HistoryOK
<1> QED BY <1>3, <1>4, <1>5, StepKinds

LEMMA NextFull == Full /\ [Next]_vars => Full'
<1> SUFFICES ASSUME Full, [Next]_vars PROVE Full'
  OBVIOUS
<1>0. Inv'
  BY NextInv DEF Full
<1>1. ASSUME NEW t \in Thread, Step(t), UNCHANGED wiring PROVE Full'
  <2>1. /\ HistoryOK'
        /\ \A u \in Thread : u # t => Same(u) /\ mem'[u] = mem[u] /\ pulled'[u] = pulled[u]
    BY <1>1, StepFrame DEF Full
  <2>2. EndOK(t)'
    BY <1>1, StepEnd DEF Full
  <2>3. ASSUME NEW i \in 1..Depth(t), Limits(t, i)' PROVE TakeOK(t, i)'
    <3>1. Limits(t, i)
      BY <1>1, <2>3 DEF Limits, Runs
    <3> QED BY <1>1, <3>1, StepTake DEF Full
  <2>4. ASSUME NEW u \in Thread, u # t
        PROVE  EndOK(u)' /\ \A i \in 1..Depth(u) : Limits(u, i)' => TakeOK(u, i)'
    BY <1>1, <2>1, <2>4, OtherFull DEF Full
  <2> QED BY <1>0, <1>1, <2>1, <2>2, <2>3, <2>4 DEF Full
<1>2. ASSUME UNCHANGED <<wiring, pc, at, ok, stack, mem, pulled, signals>> PROVE Full'
  <2>1. HistoryOK'
    BY <1>2 DEF Full, HistoryOK
  <2>2. ASSUME NEW u \in Thread
        PROVE  EndOK(u)' /\ \A i \in 1..Depth(u) : Limits(u, i)' => TakeOK(u, i)'
    BY <1>2, OtherFull DEF Full, Same
  <2> QED BY <1>0, <1>2, <2>1, <2>2 DEF Full
<1>3. CASE \E c \in Channel : EventLoopTakes(c) /\ UNCHANGED wiring
  BY <1>2, <1>3 DEF EventLoopTakes
<1>4. CASE UNCHANGED vars
  BY <1>2, <1>4 DEF vars
<1> QED BY <1>1, <1>3, <1>4 DEF Next, Finished

LEMMA FullHolds == Spec => []Full
  BY InitFull, NextFull, PTL DEF Spec

\* run() never ends behind the back of its sink: its last signal was
\* on_complete, or an item that a sink of this kind may refuse (Publisher::run,
\* Take, Unzip, Decoupler).
THEOREM EndIsSignalledHolds == Spec => []EndIsSignalled
<1>1. Full => EndIsSignalled
  BY DEF Full, EndOK, Told, EndIsSignalled
<1> QED BY <1>1, FullHolds, PTL

\* A Take(max) that no Unzip shields from the loop makes run() pull at most
\* max + 1 items, whatever stands above and below it (Take::on_next).
THEOREM TakeStopsPublisherHolds == Spec => []TakeStopsPublisher
<1>1. Full => TakeStopsPublisher
  BY DEF Full, Limits, TakeOK, TakeStopsPublisher
<1> QED BY <1>1, FullHolds, PTL
=============================================================================
