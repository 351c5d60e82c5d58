-------------------------- MODULE SchedulerProofs --------------------------
(***************************************************************************)
(* fixed_loop keeps its loop time, neither faster nor later than it may    *)
(* be, for every resolution of the clock and every number of turns.        *)
(***************************************************************************)
EXTENDS Scheduler, SequenceTheorems, TLAPS

TypeOK ==
  /\ rate \in Rates /\ pc \in {"start", "call", "sleep", "done"}
  /\ now \in Int /\ start \in Int
  /\ starts \in Seq(Int) /\ ends \in Seq(Int)

Turn == Len(starts)

\* What the local variables of the loop say of the turn it is in.
TurnOK ==
  /\ pc = "call" => /\ Turn > 0 /\ Len(ends) = Turn - 1
                    /\ start = starts[Turn] /\ now = start
  /\ pc = "sleep" => /\ Turn > 0 /\ Len(ends) = Turn
                     /\ start = starts[Turn] /\ now = ends[Turn] /\ now >= start
  /\ pc \in {"start", "done"} => Len(ends) = Turn

\* The last moment at which turn i + 1 should start, but for the Slack.
Due(i) == IF ends[i] > starts[i] + LoopTime THEN ends[i] ELSE starts[i] + LoopTime

\* When the next turn is about to start, it is late enough for all the turns
\* before it, and not too late for the last.
NotEarly ==
  pc = "start" /\ rate > 1 =>
    \A i \in 1..Turn : cut \cap i..Turn = {} => now - starts[i] >= (Turn + 1 - i) * LoopTime
NotLate == pc = "start" /\ Turn > 0 => now <= Due(Turn) + Slack

Inv == TypeOK /\ TurnOK /\ NotEarly /\ NotLate /\ TurnsApart /\ StartsInTime

-----------------------------------------------------------------------------

LEMMA LoopTimeType == ASSUME TypeOK PROVE LoopTime \in Int
  BY TimeAssumption DEF TypeOK, LoopTime

\* Only a rate of 1 has a loop time that nanosleep refuses.
LEMMA LoopTimeShort == ASSUME TypeOK, rate > 1 PROVE LoopTime < Second
<1> DEFINE q == Second \div rate
<1>1. rate \in Nat /\ rate > 1 /\ Second \in Nat /\ Second > 0
  BY TimeAssumption DEF TypeOK
<1>2. q \in Nat /\ Second % rate \in Nat /\ Second = rate * q + (Second % rate)
  BY <1>1
<1> HIDE DEF q
<1>3. rate * q = q + (rate - 1) * q
  <2>1. ASSUME NEW a \in Nat, NEW b \in Nat PROVE (a + 1) * b = b + a * b
    OBVIOUS
  <2>2. rate - 1 \in Nat /\ q \in Nat /\ rate = (rate - 1) + 1
    BY <1>1, <1>2
  <2>3. ((rate - 1) + 1) * q = q + (rate - 1) * q
    BY ONLY <2>1, <2>2
  <2> QED BY ONLY <2>2, <2>3
<1>4. q # 0 => (rate - 1) * q \in Nat /\ (rate - 1) * q > 0
  <2>1. ASSUME NEW a \in Nat, NEW b \in Nat PROVE (a + 1) * (b + 1) = a * b + a + b + 1 /\ a * b \in Nat
    OBVIOUS
  <2>2. ASSUME q # 0 PROVE (rate - 1) * q \in Nat /\ (rate - 1) * q > 0
    <3> DEFINE a == rate - 2
               b == q - 1
    <3>1. a \in Nat /\ b \in Nat /\ rate - 1 = a + 1 /\ q = b + 1
      BY <1>1, <1>2, <2>2
    <3> HIDE DEF a, b
    <3>2. (a + 1) * (b + 1) = a * b + a + b + 1 /\ a * b \in Nat
      BY <2>1, <3>1
    <3>3. (rate - 1) * q = a * b + a + b + 1
      BY <3>1, <3>2
    <3> QED BY <3>1, <3>2, <3>3
  <2> QED BY <2>2
<1>5. q < Second
  <2>1. CASE q = 0
    BY <1>1, <2>1
  <2>2. CASE q # 0
    BY <1>1, <1>2, <1>3, <1>4, <2>2
  <2> QED BY <2>1, <2>2
<1> QED BY <1>5 DEF LoopTime, q

\* One loop time more.
LEMMA Products == ASSUME NEW k \in Int, NEW l \in Int
  PROVE 0 * l = 0 /\ (k + 1) * l = k * l + l /\ k * l \in Int
  OBVIOUS

LEMMA InitInv == Init => Inv
<1> SUFFICES ASSUME Init PROVE Inv
  OBVIOUS
<1>1. Len(starts) = 0 /\ Len(ends) = 0 /\ starts \in Seq(Int) /\ ends \in Seq(Int)
  BY EmptySeq DEF Init
<1>2. TypeOK /\ TurnOK
  BY <1>1 DEF Init, TypeOK, TurnOK, Turn
<1> QED BY <1>1, <1>2 DEF Inv, NotEarly, NotLate, TurnsApart, StartsInTime, Turn, Init

\* The next call of the callback: its time is appended.
LEMMA StartInv == ASSUME Inv, Start PROVE Inv'
<1> DEFINE n == Len(starts)
           l == LoopTime
<1>1. /\ pc = "start" /\ start' = now /\ starts' = Append(starts, now) /\ pc' = "call"
      /\ rate' = rate /\ now' = now /\ ends' = ends /\ cut' = cut
  BY DEF Start
<1>2. /\ starts \in Seq(Int) /\ ends \in Seq(Int) /\ now \in Int /\ n \in Nat /\ l \in Int
      /\ Len(ends) = n
  BY <1>1, LoopTimeType DEF Inv, TypeOK, TurnOK, Turn
<1>3. /\ starts' \in Seq(Int) /\ Len(starts') = n + 1
      /\ \A i \in 1..n : starts'[i] = starts[i]
      /\ starts'[n + 1] = now
  BY <1>1, <1>2, AppendProperties
<1>4. LoopTime' = l
  BY <1>1 DEF LoopTime
<1>5. TypeOK' /\ NotEarly' /\ NotLate'
  BY <1>1, <1>2, <1>3 DEF Inv, TypeOK, NotEarly, NotLate
<1> HIDE DEF n, l
<1>6. TurnOK'
  <2>1. Turn' = n + 1
    BY <1>3 DEF Turn
  <2> QED BY <1>1, <1>2, <1>3, <2>1 DEF TurnOK
<1>7. TurnsApart'
  <2> SUFFICES ASSUME rate > 1, NEW i \in 1..(n + 1), NEW j \in 1..(n + 1), i <= j,
                      cut \cap i..(j - 1) = {}
               PROVE  starts'[j] - starts'[i] >= (j - i) * l
    BY <1>1, <1>3, <1>4 DEF TurnsApart
  <2>1. CASE j <= n
    <3>1. i \in 1..n /\ j \in 1..n
      BY <1>2, <2>1
    <3>2. starts[j] - starts[i] >= (j - i) * l
      BY <3>1 DEF Inv, TurnsApart, n, l
    <3> QED BY <1>3, <3>1, <3>2
  <2>2. CASE j = n + 1 /\ i <= n
    <3>1. i \in 1..n /\ j - 1 = n /\ j - i = n + 1 - i
      BY <1>2, <2>2
    <3>2. now - starts[i] >= (n + 1 - i) * l
      BY <1>1, <3>1 DEF Inv, NotEarly, Turn, n, l
    <3> QED BY <1>3, <2>2, <3>1, <3>2
  <2>3. CASE i = n + 1 /\ j = n + 1
    <3>1. (j - i) * l = 0
      BY <1>2, <2>3, Products
    <3> QED BY <1>2, <1>3, <2>3, <3>1
  <2> QED BY <1>2, <2>1, <2>2, <2>3
<1>8. StartsInTime'
  <2> SUFFICES ASSUME NEW i \in 2..(n + 1)
               PROVE  starts'[i] <= (IF ends[i - 1] > starts'[i - 1] + l
                                     THEN ends[i - 1] ELSE starts'[i - 1] + l) + Slack
    BY <1>1, <1>3, <1>4 DEF StartsInTime
  <2>1. i - 1 \in 1..n /\ starts'[i - 1] = starts[i - 1]
    BY <1>2, <1>3
  <2>2. CASE i <= n
    <3>1. i \in 2..n /\ i \in 1..n
      BY <1>2, <2>2
    <3>2. starts[i] <= (IF ends[i - 1] > starts[i - 1] + l
                        THEN ends[i - 1] ELSE starts[i - 1] + l) + Slack
      BY <3>1 DEF Inv, StartsInTime, n, l
    <3> QED BY <1>3, <2>1, <3>1, <3>2
  <2>3. CASE i = n + 1
    <3>1. n > 0 /\ i - 1 = n
      BY <1>2, <2>3
    <3>2. now <= (IF ends[n] > starts[n] + l THEN ends[n] ELSE starts[n] + l) + Slack
      BY <1>1, <3>1 DEF Inv, NotLate, Due, Turn, n, l
    <3> QED BY <1>3, <2>1, <2>3, <3>1, <3>2
  <2> QED BY <1>2, <2>2, <2>3
<1> QED BY <1>5, <1>6, <1>7, <1>8 DEF Inv

\* The callback returns.
LEMMA CallFInv == ASSUME Inv, CallF PROVE Inv'
<1> DEFINE n == Len(starts)
<1>1. /\ pc = "call" /\ now' \in now..(now + MaxSpan) /\ ends' = Append(ends, now')
      /\ pc' \in {"sleep", "done"} /\ rate' = rate /\ start' = start
      /\ starts' = starts /\ cut' = cut
  BY DEF CallF
<1>2. /\ starts \in Seq(Int) /\ ends \in Seq(Int) /\ now \in Int /\ start \in Int
      /\ n \in Nat /\ n > 0 /\ Len(ends) = n - 1 /\ Len(ends) \in Nat
      /\ start = starts[n] /\ now = start
  BY <1>1 DEF Inv, TypeOK, TurnOK, Turn
<1>3. now' \in Int /\ now' >= now
  BY <1>1, <1>2, TimeAssumption
<1>4. /\ ends' \in Seq(Int) /\ Len(ends') = Len(ends) + 1
      /\ \A i \in 1..Len(ends) : ends'[i] = ends[i]
      /\ ends'[Len(ends) + 1] = now'
  BY <1>1, <1>2, <1>3, AppendProperties
<1> HIDE DEF n
<1>5. /\ Len(ends') = n /\ ends'[n] = now'
      /\ \A i \in 1..(n - 1) : ends'[i] = ends[i]
  BY <1>2, <1>4
<1>6. LoopTime' = LoopTime
  BY <1>1 DEF LoopTime
<1>7. TypeOK' /\ NotEarly' /\ NotLate'
  BY <1>1, <1>2, <1>3, <1>4 DEF Inv, TypeOK, NotEarly, NotLate
<1>8. TurnOK'
  BY <1>1, <1>2, <1>3, <1>5 DEF TurnOK, Turn, n
<1>9. TurnsApart'
  BY <1>1, <1>6 DEF Inv, TurnsApart
<1>10. StartsInTime'
  <2> SUFFICES ASSUME NEW i \in 2..n
               PROVE  starts[i] <= (IF ends'[i - 1] > starts[i - 1] + LoopTime
                                    THEN ends'[i - 1] ELSE starts[i - 1] + LoopTime) + Slack
    BY <1>1, <1>6 DEF StartsInTime, n
  <2>1. i - 1 \in 1..(n - 1)
    BY <1>2
  <2>2. starts[i] <= (IF ends[i - 1] > starts[i - 1] + LoopTime
                      THEN ends[i - 1] ELSE starts[i - 1] + LoopTime) + Slack
    BY DEF Inv, StartsInTime, n
  <2> QED BY <1>5, <2>1, <2>2
<1> QED BY <1>7, <1>8, <1>9, <1>10 DEF Inv

\* nanosleep returns: the loop time is over, or the sleep was cut short.
LEMMA SleepInv == ASSUME Inv, Sleep PROVE Inv'
<1> DEFINE n == Len(starts)
           l == LoopTime
           d == l - (now - start)
<1>1. /\ pc = "sleep" /\ pc' = "start" /\ rate' = rate /\ start' = start
      /\ starts' = starts /\ ends' = ends
  BY DEF Sleep
<1>2. /\ starts \in Seq(Int) /\ ends \in Seq(Int) /\ now \in Int /\ start \in Int
      /\ n \in Nat /\ n > 0 /\ Len(ends) = n /\ l \in Int
      /\ start = starts[n] /\ now = ends[n] /\ now >= start
  BY <1>1, LoopTimeType DEF Inv, TypeOK, TurnOK, Turn
<1>3. /\ d \in Int
      /\ \/ d \in 0..(Second - 1) /\ now' \in (now + d)..(now + d + Slack) /\ cut' = cut
         \/ d \in 1..(Second - 1) /\ now' \in now..(now + d - 1) /\ cut' = cut \cup {n}
         \/ d >= Second /\ now' = now /\ cut' = cut
         \/ d < 0 /\ now' = now /\ cut' = cut
  <2>1. d \in Int /\ d = Diff
    BY <1>2 DEF Diff
  <2>2. \/ d \in 0..(Second - 1) /\ now' \in (now + d)..(now + d + Slack) /\ cut' = cut
        \/ d \in 1..(Second - 1) /\ now' \in now..(now + d - 1) /\ cut' = cut \cup {n}
        \/ ~(d \in 0..(Second - 1)) /\ now' = now /\ cut' = cut
    BY <2>1, Zenon DEF Sleep
  <2> HIDE DEF d
  <2>3. ~(d \in 0..(Second - 1)) => d >= Second \/ d < 0
    BY <2>1, TimeAssumption
  <2> QED BY <2>1, <2>2, <2>3, Zenon
<1>4. LoopTime' = l
  BY <1>1 DEF LoopTime
<1> HIDE DEF n, l
<1>5. /\ now' \in Int
      /\ \/ n \in cut'
         \/ cut' = cut /\ (rate > 1 => now' >= start + l)
      /\ now' <= (IF now > start + l THEN now ELSE start + l) + Slack
      /\ cut \subseteq cut'
  <2> HIDE DEF d
  <2>1. now + d = start + l
    BY <1>2 DEF d
  <2>2. d < 0 => now > start + l
    BY <1>2 DEF d
  <2>3. d >= 0 => now <= start + l
    BY <1>2 DEF d
  <2>4. start + l \in Int
    BY <1>2
  <2>5. CASE d \in 0..(Second - 1) /\ now' \in (now + d)..(now + d + Slack) /\ cut' = cut
    BY <1>2, <1>3, <2>1, <2>3, <2>4, <2>5, TimeAssumption
  <2>6. CASE d \in 1..(Second - 1) /\ now' \in now..(now + d - 1) /\ cut' = cut \cup {n}
    <3>1. now' \in Int /\ now' <= start + l
      BY <1>2, <1>3, <2>1, <2>4, <2>6, TimeAssumption
    <3>2. now <= start + l
      BY <1>3, <2>3, <2>6, TimeAssumption
    <3>3. n \in cut' /\ cut \subseteq cut'
      BY <2>6
    <3>4. now' <= (start + l) + Slack
      BY <2>4, <3>1, TimeAssumption
    <3> QED BY <1>2, <2>4, <3>1, <3>2, <3>3, <3>4
  <2>7. CASE d >= Second /\ now' = now /\ cut' = cut
    <3>1. now <= start + l
      BY <1>3, <2>3, <2>7, TimeAssumption
    <3>2. ~(rate > 1)
      <4>1. rate > 1 => l < Second
        BY LoopTimeShort DEF Inv, l
      <4>2. l >= Second
        BY <1>2, <2>7, TimeAssumption DEF d
      <4> QED BY <1>2, <4>1, <4>2, TimeAssumption
    <3>3. now' \in Int /\ now' <= (start + l) + Slack
      BY <1>2, <2>4, <2>7, <3>1, TimeAssumption
    <3> QED BY <1>2, <2>4, <2>7, <3>1, <3>2, <3>3
  <2>8. CASE d < 0 /\ now' = now /\ cut' = cut
    BY <1>2, <2>2, <2>4, <2>8, TimeAssumption
  <2> QED BY <1>3, <2>5, <2>6, <2>7, <2>8
<1>6. TypeOK' /\ TurnOK'
  <2>1. TypeOK'
    BY <1>1, <1>5 DEF Inv, TypeOK
  <2>2. TurnOK'
    BY <1>1, <1>2 DEF TurnOK, Turn, n
  <2> QED BY <2>1, <2>2
<1>7. NotLate'
  BY <1>1, <1>2, <1>4, <1>5 DEF NotLate, Due, Turn, n
<1>8. NotEarly'
  <2> SUFFICES ASSUME rate > 1, NEW i \in 1..n, cut' \cap i..n = {}
               PROVE  now' - starts[i] >= (n + 1 - i) * l
    BY <1>1, <1>4 DEF NotEarly, Turn, n
  <2>1. n \in i..n
    BY <1>2
  <2>2. cut' = cut /\ now' >= start + l
    BY <1>5, <2>1
  <2>3. starts[n] - starts[i] >= (n - i) * l
    <3>1. cut \cap i..(n - 1) = {}
      BY <1>2, <2>2
    <3>2. n \in 1..n /\ i <= n
      BY <1>2
    <3> QED BY <3>1, <3>2 DEF Inv, TurnsApart, n, l
  <2>4. (n + 1 - i) * l = (n - i) * l + l /\ (n - i) * l \in Int
    <3>1. n - i \in Int /\ n + 1 - i = (n - i) + 1
      BY <1>2
    <3> QED BY <1>2, <3>1, Products
  <2>5. starts[i] \in Int
    BY <1>2, ElementOfSeq DEF n
  <2>6. PICK q \in Int : q = (n - i) * l
    BY <2>4
  <2> HIDE DEF d
  <2>7. starts[n] - starts[i] >= q /\ (n + 1 - i) * l = q + l
    BY <2>3, <2>4, <2>6
  <2>8. now' - starts[i] >= q + l
    <3>1. ASSUME NEW x \in Int, NEW s \in Int, NEW a \in Int, NEW b \in Int, NEW e \in Int,
                 x >= s + e, s - a >= b
          PROVE  x - a >= b + e
      BY <3>1
    <3>2. now' \in Int /\ start \in Int /\ starts[i] \in Int /\ q \in Int /\ l \in Int
      BY <1>2, <1>5, <2>5
    <3>3. now' >= start + l /\ start - starts[i] >= q
      BY <1>2, <2>2, <2>7
    <3> QED BY ONLY <3>1, <3>2, <3>3
  <2> QED BY <2>7, <2>8
<1>9. TurnsApart' /\ StartsInTime'
  <2>1. TurnsApart'
    BY <1>1, <1>4, <1>5 DEF Inv, TurnsApart, l
  <2>2. StartsInTime'
    BY <1>1, <1>4 DEF Inv, StartsInTime, l
  <2> QED BY <2>1, <2>2
<1> QED BY <1>6, <1>7, <1>8, <1>9 DEF Inv

LEMMA NextInv == Inv /\ [Next]_vars => Inv'
<1> SUFFICES ASSUME Inv, [Next]_vars PROVE Inv'
  OBVIOUS
<1>1. CASE UNCHANGED vars
  <2>1. /\ rate' = rate /\ pc' = pc /\ now' = now /\ start' = start
        /\ starts' = starts /\ ends' = ends /\ cut' = cut /\ LoopTime' = LoopTime
    BY <1>1 DEF vars, LoopTime
  <2> QED BY <2>1 DEF Inv, TypeOK, TurnOK, Turn, NotEarly, NotLate, Due, TurnsApart, StartsInTime
<1> QED BY <1>1, StartInv, CallFInv, SleepInv DEF Next, Finished

LEMMA Invariance == Spec => []Inv
  BY InitInv, NextInv, PTL DEF Spec

\* However long the callback takes, and for every rate above 1, turns of fixed_loop
\* are as many truncated loop times apart as their numbers, between any two without
\* an interrupted sleep.
THEOREM TurnsApartHolds == Spec => []TurnsApart
<1>1. Inv => TurnsApart
  BY DEF Inv
<1> QED BY <1>1, Invariance, PTL

\* fixed_loop calls the callback again as soon as the loop time is over, but for
\* what nanosleep oversleeps: a callback that takes too long is not slept after.
THEOREM StartsInTimeHolds == Spec => []StartsInTime
<1>1. Inv => StartsInTime
  BY DEF Inv
<1> QED BY <1>1, Invariance, PTL
=============================================================================
