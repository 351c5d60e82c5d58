---------------------------- MODULE MappedRegion ----------------------------
(***************************************************************************)
(* MappedRegion::allocate: threads take blocks from a mapped file by       *)
(* bumping the offset "current" in its header with load and compare-and-   *)
(* swap.  Several MappedRegion objects (handles) may map the same file;    *)
(* they share the header and each keeps its own count.                     *)
(*                                                                         *)
(* Addresses are offsets into the file.  Word arithmetic wraps.            *)
(***************************************************************************)
EXTENDS Naturals, FiniteSets

CONSTANTS
  Thread, Handle,
  HandleOf,    \* the MappedRegion each thread allocates from
  Request,     \* the sizes and alignments callers ask for
  Align,       \* ALIGN, the size of a usize
  WordMod,     \* number of values of a usize
  HeaderSize,  \* size_of::<MMapHeader>()
  TotalSize,   \* total_size of the region
  MaxCalls     \* bound: calls of allocate each thread makes

ASSUME WordAssumption ==
  /\ Align \in {4, 8}
  /\ WordMod \in Nat /\ WordMod % Align = 0 /\ WordMod > 2 * Align
  /\ HeaderSize \in Nat /\ HeaderSize > 0 /\ HeaderSize + Align < WordMod
  /\ TotalSize \in Nat
ASSUME CallerAssumption ==
  /\ HandleOf \in [Thread -> Handle]
  /\ Request \subseteq [size : 0..(WordMod - 1), align : Nat]
  /\ MaxCalls \in [Thread -> Nat]

VARIABLES
  current,  \* header.current, the offset of the next block
  pc,       \* where each thread is in allocate
  size,     \* argument of the call (0 outside one)
  offset,   \* local variable offset (0 outside a call)
  count,    \* self.count of each handle
  calls,    \* calls of allocate each thread has begun
  claims,   \* history: the blocks taken by a successful swap
  wrapped   \* history: a swap has moved current past the end of the word

vars == <<current, pc, size, offset, count, calls, claims, wrapped>>

Block == [by : Thread, call : Nat, lo : 0..(WordMod - 1), len : 0..(WordMod - 1)]

\* Mutant: arithmetic without wrap-around.
WordUnreduced(x) == x

\* The sum of two words, reduced to a word.
Word(x) == IF x >= WordMod THEN x - WordMod ELSE x

\* Mutant: no rounding.
RoundNot(x) == x

\* ((x - 1) | (ALIGN - 1)) + 1
RoundUp(x) == LET y == Word(x + WordMod - 1)
              IN  Word(y - (y % Align) + Align)

\* The next value of current after a block of n bytes at off.
NewVal(off, n) == RoundUp(Word(off + n))

\* The aligned end of that block is not a word.
Wraps(off, n) == off + n > WordMod - Align

-----------------------------------------------------------------------------

\* MappedRegion::new has written the header; nothing is allocated yet.
Init ==
  /\ current = RoundUp(HeaderSize)
  /\ pc      = [t \in Thread |-> "idle"]
  /\ size    = [t \in Thread |-> 0]
  /\ offset  = [t \in Thread |-> 0]
  /\ count   = [h \in Handle |-> 0]
  /\ calls   = [t \in Thread |-> 0]
  /\ claims  = {}
  /\ wrapped = FALSE

\* A caller asks for r.size bytes; any other alignment than ALIGN panics.
Allocate(t) ==
  /\ pc[t] = "idle" /\ calls[t] < MaxCalls[t]
  /\ \E r \in Request :
       /\ pc'   = [pc EXCEPT ![t] = IF r.align = Align THEN "load" ELSE "panicked"]
       /\ size' = [size EXCEPT ![t] = r.size]
  /\ calls' = [calls EXCEPT ![t] = @ + 1]
  /\ UNCHANGED <<current, offset, count, claims, wrapped>>

Load(t) ==
  /\ pc[t] = "load"
  /\ offset' = [offset EXCEPT ![t] = current]
  /\ pc' = [pc EXCEPT ![t] = "swap"]
  /\ UNCHANGED <<current, size, count, calls, claims, wrapped>>

Claim(t) == [by |-> t, call |-> calls[t], lo |-> offset[t], len |-> size[t]]

\* Mutants: the swap is a plain store; a lost swap is not tried again.
StoreNotSwap(t) ==
  /\ pc[t] = "swap"
  /\ current' = NewVal(offset[t], size[t])
  /\ claims'  = claims \cup {Claim(t)}
  /\ wrapped' = (wrapped \/ Wraps(offset[t], size[t]))
  /\ pc' = [pc EXCEPT ![t] = "check"]
  /\ UNCHANGED <<size, offset, count, calls>>
SwapWithoutReload(t) ==
  /\ pc[t] = "swap"
  /\ IF current = offset[t]
       THEN /\ current' = NewVal(offset[t], size[t])
            /\ claims'  = claims \cup {Claim(t)}
            /\ wrapped' = (wrapped \/ Wraps(offset[t], size[t]))
            /\ pc' = [pc EXCEPT ![t] = "check"]
       ELSE UNCHANGED <<current, claims, wrapped, pc>>
  /\ UNCHANGED <<size, offset, count, calls>>

\* compare_and_swap; on failure the loop goes round.
Swap(t) ==
  /\ pc[t] = "swap"
  /\ IF current = offset[t]
       THEN /\ current' = NewVal(offset[t], size[t])
            /\ claims'  = claims \cup {Claim(t)}
            /\ wrapped' = (wrapped \/ Wraps(offset[t], size[t]))
            /\ pc' = [pc EXCEPT ![t] = "check"]
       ELSE /\ pc' = [pc EXCEPT ![t] = "load"]
            /\ UNCHANGED <<current, claims, wrapped>>
  /\ UNCHANGED <<size, offset, count, calls>>

\* offset > total_size: the null pointer is returned.
PastEnd(off) == off > TotalSize

\* Mutant: refused calls are counted too.
FinishCountsAll(t) ==
  /\ pc[t] = "check"
  /\ pc' = [pc EXCEPT ![t] = "idle"]
  /\ count' = [count EXCEPT ![HandleOf[t]] = @ + 1]
  /\ UNCHANGED <<current, size, offset, calls, claims, wrapped>>

\* The end check, and the count of a block that passes it.  The locals go
\* out of scope.
Finish(t) ==
  /\ pc[t] = "check"
  /\ pc' = [pc EXCEPT ![t] = "idle"]
  /\ count' = IF PastEnd(offset[t]) THEN count
                ELSE [count EXCEPT ![HandleOf[t]] = @ + 1]
  /\ size'   = [size EXCEPT ![t] = 0]
  /\ offset' = [offset EXCEPT ![t] = 0]
  /\ UNCHANGED <<current, calls, claims, wrapped>>

\* Every thread has made its calls.
Finished ==
  /\ \A t \in Thread : pc[t] = "panicked" \/ (pc[t] = "idle" /\ calls[t] = MaxCalls[t])
  /\ UNCHANGED vars

Step(t) == Load(t) \/ Swap(t) \/ Finish(t)
Next == (\E t \in Thread : Allocate(t) \/ Step(t)) \/ Finished

Spec     == Init /\ [][Next]_vars
\* A thread that is inside allocate keeps running.
FairSpec == Spec /\ \A t \in Thread : WF_vars(Step(t))

-----------------------------------------------------------------------------
(* Properties.                                                             *)

\* Types of the state; current is a word.
TypeOK ==
  /\ current \in 0..(WordMod - 1)
  /\ pc \in [Thread -> {"idle", "load", "swap", "check", "panicked"}]
  /\ size \in [Thread -> 0..(WordMod - 1)]
  /\ offset \in [Thread -> 0..(WordMod - 1)]
  /\ count \in [Handle -> Nat]
  /\ calls \in [Thread -> Nat]
  /\ claims \subseteq Block
  /\ wrapped \in BOOLEAN

\* Every block starts at a multiple of ALIGN, whatever sizes were asked for
\* and also after current has wrapped ("current is guaranteed to start off as
\* aligned, so we'll ensure it stays that way").
Aligned == \A b \in claims : b.lo % Align = 0

Disjoint(b, c) == b.lo + b.len <= c.lo \/ c.lo + c.len <= b.lo

\* Threads that race on the swap never get overlapping blocks, and no block
\* overlaps the header that holds current, as long as current has not wrapped.
NoOverlap ==
  ~wrapped =>
    /\ \A b \in claims : b.lo >= HeaderSize
    /\ \A b, c \in claims : b # c => Disjoint(b, c)

\* num_allocated of a handle is the number of its blocks that were not
\* refused, less those whose thread has yet to count them.
CountAccounts ==
  \A h \in Handle :
    count[h] + Cardinality({t \in Thread : /\ HandleOf[t] = h /\ pc[t] = "check"
                                           /\ offset[t] <= TotalSize})
      = Cardinality({b \in claims : HandleOf[b.by] = h /\ b.lo <= TotalSize})

\* A block that was not refused lies in the file ("we have gone past our
\* allocated file space for the allocator").
WithinRegion == \A b \in claims : PastEnd(b.lo) \/ b.lo + b.len <= TotalSize

\* Every call of allocate returns: a swap is lost only to another thread's.
AllocateReturns == \A t \in Thread : (pc[t] = "load") ~> (pc[t] = "idle")

\* What the allocator promises until current wraps: see BlockAllocator.
Promise == INSTANCE BlockAllocator WITH blocks <- claims, exhausted <- wrapped, Base <- HeaderSize
KeepsPromise == Promise!Spec
=============================================================================
