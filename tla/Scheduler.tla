----------------------------- MODULE Scheduler -----------------------------
(***************************************************************************)
(* fixed_loop: a callback is run again and again, with a sleep for what is *)
(* left of each turn's share of a second.  Time is counted in units of     *)
(* which Second make a second; the arithmetic is that of signed numbers.   *)
(***************************************************************************)
EXTENDS Integers, Sequences

CONSTANTS
  Rates,     \* rates that fixed_loop is called with
  Second,    \* 1_000_000_000 in the code
  MaxSpan,   \* bound: time the callback takes
  Slack,     \* bound: time by which a sleep may be too long
  MaxTurns   \* bound: calls of the callback

ASSUME TimeAssumption ==
  /\ Rates \subseteq Nat \ {0} /\ Second \in Nat \ {0}
  /\ MaxSpan \in Nat /\ Slack \in Nat /\ MaxTurns \in Nat

VARIABLES
  rate,    \* argument of fixed_loop
  pc,      \* "start", "call", "sleep" or "done"
  now,     \* the clock
  start,   \* local variable
  starts,  \* history: when the callback was called
  ends,    \* history: when it returned
  cut      \* history: turns whose sleep was interrupted by a signal

vars == <<rate, pc, now, start, starts, ends, cut>>

Init ==
  /\ rate \in Rates
  /\ pc = "start" /\ now = 0 /\ start = 0
  /\ starts = <<>> /\ ends = <<>> /\ cut = {}

\* What a division of integers leaves: nothing if rate is above Second.
LoopTime == Second \div rate

Start ==
  /\ pc = "start" /\ Len(starts) < MaxTurns
  /\ start' = now /\ starts' = Append(starts, now)
  /\ pc' = "call"
  /\ UNCHANGED <<rate, now, ends, cut>>

\* f() takes its time and answers whether to go on.
CallF ==
  /\ pc = "call"
  /\ now' \in now..(now + MaxSpan)
  /\ ends' = Append(ends, now')
  /\ pc' \in {"sleep", "done"}
  /\ UNCHANGED <<rate, start, starts, cut>>

\* Mutants: operands swapped; the time of the callback is not counted.
DiffSwapped == now - start - LoopTime
DiffFull    == LoopTime

\* loop_time_ns.checked_sub(span): negative if the callback took too long.
Diff == LoopTime - (now - start)

\* nanosleep: a signal may interrupt it, and a negative time or one of a second or
\* more is refused.  Neither its result nor nein is looked at.
Sleep ==
  /\ pc = "sleep" /\ pc' = "start"
  /\ \/ /\ Diff \in 0..(Second - 1)
        /\ now' \in (now + Diff)..(now + Diff + Slack)
        /\ UNCHANGED cut
     \/ /\ Diff \in 1..(Second - 1)
        /\ now' \in now..(now + Diff - 1)
        /\ cut' = cut \cup {Len(starts)}
     \/ ~(Diff \in 0..(Second - 1)) /\ UNCHANGED <<now, cut>>
  /\ UNCHANGED <<rate, start, starts, ends>>

\* The callback has answered false, or the bound is reached.
Finished == (pc = "done" \/ (pc = "start" /\ Len(starts) = MaxTurns)) /\ UNCHANGED vars

Next == Start \/ CallF \/ Sleep \/ Finished

Spec == Init /\ [][Next]_vars

-----------------------------------------------------------------------------
(* Properties.                                                             *)

\* No burst: turns i and j are at least j - i loop times apart, however long the
\* callback takes in between.  That is less than the doc of fixed_loop says ("rate
\* is the max number of loops per second"): a loop time is the truncated quotient,
\* 0 for a rate above Second, so that the rate is kept only if it divides a second;
\* it is not kept at rate 1, where a sleep of a whole second is refused, nor over a
\* sleep that a signal ended and that is not resumed.
TurnsApart ==
  rate > 1 =>
    \A i, j \in 1..Len(starts) :
      i <= j /\ cut \cap i..(j - 1) = {} => starts[j] - starts[i] >= (j - i) * LoopTime

\* No lag: a turn starts when the loop time is over, or at once if the callback
\* took longer; a negative rest is never taken for a time to sleep.
StartsInTime ==
  \A i \in 2..Len(starts) :
    LET due == starts[i - 1] + LoopTime
    IN  starts[i] <= (IF ends[i - 1] > due THEN ends[i - 1] ELSE due) + Slack
=============================================================================
