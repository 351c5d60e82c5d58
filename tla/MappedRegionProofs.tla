------------------------- MODULE MappedRegionProofs -------------------------
(***************************************************************************)
(* Theorems about MappedRegion, for any number of threads and handles, any *)
(* requests, word size, header and file size.                              *)
(***************************************************************************)
EXTENDS MappedRegion, FiniteSetTheorems, TLAPS

\* Blocks are taken below current, one after the other.
Ordered ==
  /\ current % Align = 0
  /\ \A b \in claims : b.lo % Align = 0
  /\ ~wrapped =>
       /\ current >= HeaderSize
       /\ \A b \in claims : b.lo >= HeaderSize /\ b.lo + b.len <= current
       /\ \A b, c \in claims : b # c => Disjoint(b, c)

Inv == TypeOK /\ Ordered

-----------------------------------------------------------------------------
(* Word arithmetic.                                                        *)

\* Rounding a word gives an aligned word, and never less than the word unless
\* the aligned value is not a word.
LEMMA RoundUpProperties ==
  ASSUME NEW x \in 0..(WordMod - 1)
  PROVE  /\ RoundUp(x) \in 0..(WordMod - 1)
         /\ RoundUp(x) % Align = 0
         /\ x <= WordMod - Align => RoundUp(x) >= x
<1>1. CASE Align = 4
  BY <1>1, WordAssumption DEF RoundUp, Word
<1>2. CASE Align = 8
  BY <1>2, WordAssumption DEF RoundUp, Word
<1> QED BY <1>1, <1>2, WordAssumption

\* The newval of allocate is an aligned word, and not below the block's end
\* unless that end wraps.
LEMMA NewValProperties ==
  ASSUME NEW off \in 0..(WordMod - 1), NEW n \in 0..(WordMod - 1)
  PROVE  /\ NewVal(off, n) \in 0..(WordMod - 1)
         /\ NewVal(off, n) % Align = 0
         /\ ~Wraps(off, n) => NewVal(off, n) >= off + n
<1>1. Word(off + n) \in 0..(WordMod - 1)
  BY WordAssumption DEF Word
<1>2. ~Wraps(off, n) => Word(off + n) = off + n /\ off + n <= WordMod - Align
  BY WordAssumption DEF Word, Wraps
<1> QED BY <1>1, <1>2, RoundUpProperties DEF NewVal

-----------------------------------------------------------------------------

\* The header that MappedRegion::new writes satisfies the invariant.
LEMMA InitInv == Init => Inv
<1> SUFFICES ASSUME Init PROVE Inv
  OBVIOUS
<1>1. HeaderSize \in 0..(WordMod - 1) /\ HeaderSize <= WordMod - Align
  BY WordAssumption
<1>2. /\ current \in 0..(WordMod - 1) /\ current % Align = 0 /\ current >= HeaderSize
  BY <1>1, RoundUpProperties DEF Init
<1>3. 0 \in 0..(WordMod - 1)
  BY WordAssumption
<1> QED BY <1>2, <1>3 DEF Init, Inv, TypeOK, Ordered

\* A successful swap puts a block on top of the others.
LEMMA SwapInv ==
  ASSUME Inv, NEW t \in Thread, Swap(t)
  PROVE  Inv'
<1>1. CASE current # offset[t]
  BY <1>1 DEF Swap, Inv, TypeOK, Ordered, Disjoint
<1>2. CASE current = offset[t]
  <2> DEFINE b0 == Claim(t)
  <2>0. /\ current' = NewVal(current, size[t])
        /\ claims' = claims \cup {b0}
        /\ wrapped' = (wrapped \/ Wraps(current, size[t]))
        /\ pc' = [pc EXCEPT ![t] = "check"]
        /\ UNCHANGED <<size, offset, count, calls>>
    BY <1>2 DEF Swap
  <2>1. /\ b0 \in Block /\ b0.lo = current /\ b0.len = size[t]
        /\ current \in 0..(WordMod - 1) /\ size[t] \in 0..(WordMod - 1)
    BY <1>2 DEF Claim, Block, Inv, TypeOK
  <2>2. /\ current' \in 0..(WordMod - 1) /\ current' % Align = 0
        /\ ~wrapped' => current' >= current + size[t]
    BY <2>0, <2>1, NewValProperties
  <2>3. TypeOK'
    BY <2>0, <2>1, <2>2 DEF Inv, TypeOK
  <2>4. \A b \in claims : b \in Block /\ b.lo \in Nat /\ b.len \in Nat
    BY WordAssumption DEF Inv, TypeOK, Block
  <2> HIDE DEF b0
  <2>5. \A b \in claims' : b.lo % Align = 0
    BY <2>0, <2>1 DEF Inv, Ordered
  <2>6. ASSUME ~wrapped'
        PROVE  /\ current' >= HeaderSize
               /\ \A b \in claims' : b.lo >= HeaderSize /\ b.lo + b.len <= current'
               /\ \A b, c \in claims' : b # c => Disjoint(b, c)
    <3>1. /\ ~wrapped /\ current >= HeaderSize
          /\ \A b \in claims : b.lo >= HeaderSize /\ b.lo + b.len <= current
          /\ \A b, c \in claims : b # c => Disjoint(b, c)
      BY <2>0, <2>6 DEF Inv, Ordered
    <3>2. current' >= current + size[t] /\ current' >= current
      BY <2>1, <2>2, <2>6
    <3>3. \A b \in claims' : b.lo >= HeaderSize /\ b.lo + b.len <= current'
      BY <2>0, <2>1, <2>2, <2>4, <3>1, <3>2, WordAssumption
    <3>4. \A b \in claims : Disjoint(b, b0) /\ Disjoint(b0, b)
      BY <2>1, <3>1 DEF Disjoint
    <3> QED BY <2>0, <2>1, <2>2, <3>1, <3>2, <3>3, <3>4, WordAssumption
  <2> QED BY <2>2, <2>3, <2>5, <2>6 DEF Inv, Ordered
<1> QED BY <1>1, <1>2

\* Every step of allocate keeps the invariant.
LEMMA NextInv == Inv /\ [Next]_vars => Inv'
<1> SUFFICES ASSUME Inv, [Next]_vars PROVE Inv'
  OBVIOUS
<1>1. ASSUME NEW t \in Thread, Allocate(t) PROVE Inv'
  <2>1. PICK r \in Request :
          /\ pc'   = [pc EXCEPT ![t] = IF r.align = Align THEN "load" ELSE "panicked"]
          /\ size' = [size EXCEPT ![t] = r.size]
    BY <1>1 DEF Allocate
  <2>2. r.size \in 0..(WordMod - 1)
    BY CallerAssumption
  <2>3. TypeOK'
    BY <1>1, <2>1, <2>2 DEF Allocate, Inv, TypeOK
  <2>4. Ordered'
    BY <1>1 DEF Allocate, Inv, Ordered, Disjoint
  <2> QED BY <2>3, <2>4 DEF Inv
<1>2. ASSUME NEW t \in Thread, Load(t) PROVE Inv'
  BY <1>2 DEF Load, Inv, TypeOK, Ordered, Disjoint
<1>3. ASSUME NEW t \in Thread, Swap(t) PROVE Inv'
  BY <1>3, SwapInv
<1>4. ASSUME NEW t \in Thread, Finish(t) PROVE Inv'
  <2>1. 0 \in 0..(WordMod - 1) /\ HandleOf[t] \in Handle
    BY CallerAssumption, WordAssumption
  <2>2. count' \in [Handle -> Nat]
    BY <1>4, <2>1 DEF Finish, Inv, TypeOK
  <2>3. TypeOK'
    BY <1>4, <2>1, <2>2 DEF Finish, Inv, TypeOK
  <2>4. Ordered'
    BY <1>4 DEF Finish, Inv, Ordered, Disjoint
  <2> QED BY <2>3, <2>4 DEF Inv
<1>5. CASE UNCHANGED vars
  BY <1>5 DEF vars, Inv, TypeOK, Ordered, Disjoint
<1> QED BY <1>1, <1>2, <1>3, <1>4, <1>5 DEF Next, Step, Finished

\* The invariant holds in every reachable state.
LEMMA InvHolds == Spec => []Inv
  BY InitInv, NextInv, PTL DEF Spec

\* All offsets and sizes stay words, whatever is asked for.
THEOREM TypeCorrect == Spec => []TypeOK
<1>1. Inv => TypeOK
  BY DEF Inv
<1> QED BY InvHolds, <1>1, PTL

\* Every block is aligned, also after wrap-around.
THEOREM AlignedHolds == Spec => []Aligned
<1>1. Inv => Aligned
  BY DEF Inv, Ordered, Aligned
<1> QED BY InvHolds, <1>1, PTL

\* However threads interleave in the load and swap of allocate, until current
\* wraps their blocks are disjoint and lie outside the header.
THEOREM NoOverlapHolds == Spec => []NoOverlap
<1>1. Inv => NoOverlap
  BY DEF Inv, Ordered, NoOverlap
<1> QED BY InvHolds, <1>1, PTL

\* allocate implements the log of blocks of BlockAllocator, whose words run out
\* when current wraps: until then a successful swap is a Grant, and every other
\* step a stutter.
THEOREM PromiseKept == Spec => KeepsPromise
<1>1. Init => Promise!Init
  BY DEF Init, Promise!Init
<1>2. ASSUME Inv, [Next]_vars
      PROVE  [Promise!Grant \/ Promise!Unspecified]_<<claims, wrapped>>
  <2>1. ASSUME NEW t \in Thread, Swap(t), current = offset[t], ~wrapped PROVE Promise!Grant
    <3> DEFINE b0 == Claim(t)
    <3>1. claims' = claims \cup {b0} /\ b0.lo = current
      BY <2>1 DEF Swap, Claim
    <3>2. wrapped' \in BOOLEAN
      BY <2>1 DEF Swap
    <3> HIDE DEF b0
    <3>3. /\ b0 \in claims' /\ b0.lo >= HeaderSize /\ b0.lo % Align = 0
          /\ \A c \in claims : c.lo + c.len <= b0.lo
      BY <1>2, <2>1, <3>1 DEF Inv, Ordered
    <3> QED BY <2>1, <3>1, <3>2, <3>3 DEF Promise!Grant
  <2>2. ASSUME NEW t \in Thread, Swap(t), current = offset[t], wrapped PROVE Promise!Unspecified
    BY <2>2 DEF Swap, Promise!Unspecified
  <2>3. ASSUME NEW t \in Thread, Allocate(t) \/ Load(t) \/ Finish(t)
        PROVE  UNCHANGED <<claims, wrapped>>
    BY <2>3 DEF Allocate, Load, Finish
  <2>4. ASSUME NEW t \in Thread, Swap(t), current # offset[t] PROVE UNCHANGED <<claims, wrapped>>
    BY <2>4 DEF Swap
  <2>5. CASE UNCHANGED vars
    BY <2>5 DEF vars
  <2> QED BY <1>2, <2>1, <2>2, <2>3, <2>4, <2>5 DEF Next, Step, Finished
<1> QED BY InvHolds, <1>1, <1>2, PTL DEF Spec, KeepsPromise, Promise!Spec

-----------------------------------------------------------------------------
(* Counting.                                                               *)

\* Blocks of handle h that were not refused, and threads yet to count theirs.
Good(h)    == {b \in claims : HandleOf[b.by] = h /\ b.lo <= TotalSize}
Pending(h) == {t \in Thread : /\ HandleOf[t] = h /\ pc[t] = "check"
                              /\ offset[t] <= TotalSize}

\* A call of allocate takes at most one block, so that no two claims are the same.
CallsOK ==
  \A b \in claims : /\ b.call <= calls[b.by]
                    /\ pc[b.by] \in {"load", "swap"} => b.call < calls[b.by]

\* Only finitely many blocks have been taken, however many threads there are.
FiniteOK == \A h \in Handle : IsFiniteSet(Good(h)) /\ IsFiniteSet(Pending(h))

Counting == Inv /\ CallsOK /\ FiniteOK /\ CountAccounts

LEMMA CountAccountsDef ==
  CountAccounts <=> \A h \in Handle : count[h] + Cardinality(Pending(h)) = Cardinality(Good(h))
  BY DEF CountAccounts, Pending, Good

LEMMA InitCounting == Init => Counting
<1> SUFFICES ASSUME Init PROVE Counting
  OBVIOUS
<1>1. Inv
  BY InitInv
<1>2. ASSUME NEW h \in Handle PROVE Good(h) = {} /\ Pending(h) = {} /\ count[h] = 0
  BY DEF Init, Good, Pending
<1>3. CallsOK
  BY DEF Init, CallsOK
<1>4. FiniteOK /\ CountAccounts
  BY <1>2, FS_EmptySet, CountAccountsDef DEF FiniteOK
<1> QED BY <1>1, <1>3, <1>4 DEF Counting

\* A step that takes and counts no block.
LEMMA QuietCounting ==
  ASSUME Counting, UNCHANGED <<claims, count>>,
         \A h \in Handle : Pending(h)' = Pending(h)
  PROVE  FiniteOK' /\ CountAccounts'
<1>1. \A h \in Handle : Good(h)' = Good(h)
  BY DEF Good
<1>2. FiniteOK'
  BY <1>1 DEF Counting, FiniteOK
<1>3. \A h \in Handle : count'[h] + Cardinality(Pending(h)') = Cardinality(Good(h)')
  BY <1>1, CountAccountsDef DEF Counting
<1> QED BY <1>2, <1>3 DEF CountAccounts, Pending, Good

\* Types that the counts need.
LEMMA CountTypes ==
  ASSUME Counting
  PROVE  /\ pc \in [Thread -> {"idle", "load", "swap", "check", "panicked"}]
         /\ calls \in [Thread -> Nat] /\ offset \in [Thread -> 0..(WordMod - 1)]
         /\ \A b \in claims : b.by \in Thread /\ b.call \in Nat
         /\ \A h \in Handle :
              /\ count[h] \in Nat /\ IsFiniteSet(Good(h)) /\ IsFiniteSet(Pending(h))
              /\ Cardinality(Good(h)) \in Nat /\ Cardinality(Pending(h)) \in Nat
              /\ count[h] + Cardinality(Pending(h)) = Cardinality(Good(h))
<1>1. TypeOK /\ FiniteOK
  BY DEF Counting, Inv
<1>2. \A b \in claims : b.by \in Thread /\ b.call \in Nat
  BY <1>1 DEF TypeOK, Block
<1> QED BY <1>1, <1>2, FS_CardinalityType, CountAccountsDef DEF TypeOK, FiniteOK, Counting

\* The swap makes a block and leaves it to be counted.
LEMMA SwapCounting == ASSUME Counting, NEW t \in Thread, Swap(t)
  PROVE  CallsOK' /\ FiniteOK' /\ CountAccounts'
<1>1. /\ pc \in [Thread -> {"idle", "load", "swap", "check", "panicked"}]
      /\ calls \in [Thread -> Nat] /\ pc[t] = "swap"
      /\ \A b \in claims : b.by \in Thread /\ b.call \in Nat
  BY CountTypes DEF Swap
<1>2. UNCHANGED <<size, offset, count, calls>>
  BY DEF Swap
<1>3. CASE current # offset[t]
  <2>1. pc' = [pc EXCEPT ![t] = "load"] /\ claims' = claims
    BY <1>3 DEF Swap
  <2>2. CallsOK'
    BY <1>1, <1>2, <2>1 DEF Counting, CallsOK
  <2>3. \A h \in Handle : Pending(h)' = Pending(h)
    BY <1>1, <1>2, <2>1 DEF Pending
  <2> QED BY <1>2, <2>1, <2>2, <2>3, QuietCounting
<1>4. CASE current = offset[t]
  <2> DEFINE b0 == Claim(t)
  <2>1. pc' = [pc EXCEPT ![t] = "check"] /\ claims' = claims \cup {b0}
    BY <1>4 DEF Swap
  <2>2. b0.by = t /\ b0.call = calls[t] /\ b0.lo = offset[t]
    BY DEF Claim
  <2> HIDE DEF b0
  <2>3. CallsOK'
    <3>1. \A b \in claims : \/ b.call <= calls[b.by] /\ pc'[b.by] \notin {"load", "swap"}
                            \/ b.call < calls[b.by]
      BY <1>1, <2>1 DEF Counting, CallsOK
    <3> QED BY <1>1, <1>2, <2>1, <2>2, <3>1 DEF CallsOK
  <2>4. b0 \notin claims
    BY <1>1, <2>2 DEF Counting, CallsOK
  <2>5. ASSUME NEW h \in Handle
        PROVE  /\ IsFiniteSet(Good(h)') /\ IsFiniteSet(Pending(h)')
               /\ count'[h] + Cardinality(Pending(h)') = Cardinality(Good(h)')
    <3>0. /\ count[h] \in Nat /\ IsFiniteSet(Good(h)) /\ IsFiniteSet(Pending(h))
          /\ Cardinality(Good(h)) \in Nat /\ Cardinality(Pending(h)) \in Nat
          /\ count[h] + Cardinality(Pending(h)) = Cardinality(Good(h))
      BY CountTypes
    <3>1. CASE HandleOf[t] = h /\ offset[t] <= TotalSize
      <4>1. Good(h)' = Good(h) \cup {b0} /\ b0 \notin Good(h)
        BY <2>1, <2>2, <2>4, <3>1 DEF Good
      <4>2. Pending(h)' = Pending(h) \cup {t} /\ t \notin Pending(h)
        BY <1>1, <1>2, <2>1, <3>1 DEF Pending
      <4>3. IsFiniteSet(Good(h)') /\ Cardinality(Good(h)') = Cardinality(Good(h)) + 1
        BY <3>0, <4>1, FS_AddElement
      <4>4. IsFiniteSet(Pending(h)') /\ Cardinality(Pending(h)') = Cardinality(Pending(h)) + 1
        BY <3>0, <4>2, FS_AddElement
      <4> QED BY <1>2, <3>0, <4>3, <4>4
    <3>2. CASE ~(HandleOf[t] = h /\ offset[t] <= TotalSize)
      <4>1. Good(h)' = Good(h)
        BY <2>1, <2>2, <3>2 DEF Good
      <4>2. Pending(h)' = Pending(h)
        BY <1>1, <1>2, <2>1, <3>2 DEF Pending
      <4> QED BY <1>2, <3>0, <4>1, <4>2
    <3> QED BY <3>1, <3>2
  <2> QED BY <2>3, <2>5 DEF FiniteOK, CountAccounts, Good, Pending
<1> QED BY <1>3, <1>4

\* Finish counts the block of a thread that was not refused.
LEMMA FinishCounting == ASSUME Counting, NEW t \in Thread, Finish(t)
  PROVE  CallsOK' /\ FiniteOK' /\ CountAccounts'
<1>1. /\ pc \in [Thread -> {"idle", "load", "swap", "check", "panicked"}] /\ pc[t] = "check"
      /\ offset \in [Thread -> 0..(WordMod - 1)]
      /\ calls \in [Thread -> Nat] /\ \A b \in claims : b.by \in Thread /\ b.call \in Nat
      /\ count \in [Handle -> Nat]
  BY CountTypes DEF Finish, Counting, Inv, TypeOK
<1>2. /\ pc' = [pc EXCEPT ![t] = "idle"] /\ offset' = [offset EXCEPT ![t] = 0]
      /\ UNCHANGED <<calls, claims>>
      /\ count' = IF PastEnd(offset[t]) THEN count
                  ELSE [count EXCEPT ![HandleOf[t]] = count[HandleOf[t]] + 1]
  BY DEF Finish
<1>3. CallsOK'
  BY <1>1, <1>2 DEF Counting, CallsOK
<1>4. \A h \in Handle : Pending(h)' = Pending(h) \ {t}
  BY <1>1, <1>2 DEF Pending
<1>5. offset[t] \in Nat
  BY <1>1, WordAssumption
<1>6. ASSUME NEW h \in Handle
      PROVE  /\ IsFiniteSet(Good(h)') /\ IsFiniteSet(Pending(h)')
             /\ count'[h] + Cardinality(Pending(h)') = Cardinality(Good(h)')
  <2>0. /\ count[h] \in Nat /\ IsFiniteSet(Good(h)) /\ IsFiniteSet(Pending(h))
        /\ Cardinality(Good(h)) \in Nat /\ Cardinality(Pending(h)) \in Nat
        /\ count[h] + Cardinality(Pending(h)) = Cardinality(Good(h))
    BY CountTypes
  <2>1. Good(h)' = Good(h)
    BY <1>2 DEF Good
  <2>2. CASE HandleOf[t] = h /\ ~PastEnd(offset[t])
    <3>1. t \in Pending(h)
      BY <1>1, <1>5, <2>2, WordAssumption DEF Pending, PastEnd
    <3>2. IsFiniteSet(Pending(h)') /\ Cardinality(Pending(h)') = Cardinality(Pending(h)) - 1
      BY <1>4, <2>0, <3>1, FS_RemoveElement
    <3>3. count'[h] = count[h] + 1
      BY <1>1, <1>2, <2>2
    <3> QED BY <2>0, <2>1, <3>2, <3>3
  <2>3. CASE ~(HandleOf[t] = h /\ ~PastEnd(offset[t]))
    <3>1. Pending(h)' = Pending(h)
      BY <1>4, <1>5, <2>3, WordAssumption DEF Pending, PastEnd
    <3>2. count'[h] = count[h]
      BY <1>1, <1>2, <2>3
    <3> QED BY <2>0, <2>1, <3>1, <3>2
  <2> QED BY <2>2, <2>3
<1> QED BY <1>3, <1>6 DEF FiniteOK, CountAccounts, Good, Pending

LEMMA NextCounting == Counting /\ [Next]_vars => Counting'
<1> SUFFICES ASSUME Counting, [Next]_vars PROVE Counting'
  OBVIOUS
<1>0. Inv'
  BY NextInv DEF Counting
<1>t. /\ pc \in [Thread -> {"idle", "load", "swap", "check", "panicked"}]
      /\ calls \in [Thread -> Nat] /\ offset \in [Thread -> 0..(WordMod - 1)]
      /\ \A b \in claims : b.by \in Thread /\ b.call \in Nat
  BY CountTypes
<1>1. ASSUME NEW t \in Thread, Allocate(t) PROVE Counting'
  <2>1. PICK l \in {"load", "panicked"} : pc' = [pc EXCEPT ![t] = l]
    BY <1>1 DEF Allocate
  <2>2. /\ pc[t] = "idle" /\ calls' = [calls EXCEPT ![t] = calls[t] + 1]
        /\ UNCHANGED <<claims, count, offset>>
    BY <1>1 DEF Allocate
  <2>3. CallsOK'
    BY <1>t, <2>1, <2>2 DEF Counting, CallsOK
  <2>4. \A h \in Handle : Pending(h)' = Pending(h)
    BY <1>t, <2>1, <2>2 DEF Pending
  <2> QED BY <1>0, <2>2, <2>3, <2>4, QuietCounting DEF Counting
<1>2. ASSUME NEW t \in Thread, Load(t) PROVE Counting'
  <2>1. /\ pc[t] = "load" /\ pc' = [pc EXCEPT ![t] = "swap"]
        /\ offset' = [offset EXCEPT ![t] = current] /\ UNCHANGED <<claims, count, calls>>
    BY <1>2 DEF Load
  <2>2. CallsOK'
    BY <1>t, <2>1 DEF Counting, CallsOK
  <2>3. \A h \in Handle : Pending(h)' = Pending(h)
    BY <1>t, <2>1 DEF Pending
  <2> QED BY <1>0, <2>1, <2>2, <2>3, QuietCounting DEF Counting
<1>3. ASSUME NEW t \in Thread, Swap(t) PROVE Counting'
  BY <1>0, <1>3, SwapCounting DEF Counting
<1>4. ASSUME NEW t \in Thread, Finish(t) PROVE Counting'
  BY <1>0, <1>4, FinishCounting DEF Counting
<1>5. CASE UNCHANGED vars
  <2>1. UNCHANGED <<claims, count, calls, pc, offset>>
    BY <1>5 DEF vars
  <2>2. CallsOK' /\ \A h \in Handle : Pending(h)' = Pending(h)
    BY <2>1 DEF Counting, CallsOK, Pending
  <2> QED BY <1>0, <2>1, <2>2, QuietCounting DEF Counting
<1> QED BY <1>1, <1>2, <1>3, <1>4, <1>5 DEF Next, Step, Finished

\* However swaps and counts of several threads interleave, num_allocated never
\* counts a block twice, and misses only blocks about to be counted (allocate).
THEOREM CountAccountsHolds == Spec => []CountAccounts
<1>1. Counting => CountAccounts
  BY DEF Counting
<1> QED BY <1>1, InitCounting, NextCounting, PTL DEF Spec
=============================================================================
