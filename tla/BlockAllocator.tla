--------------------------- MODULE BlockAllocator ---------------------------
(***************************************************************************)
(* What the users of MappedRegion rely on: a log of blocks.  Every new     *)
(* block is aligned and lies above all earlier ones, so that blocks never  *)
(* overlap and file order is allocation order; a block is never taken back *)
(* (deallocate does nothing).  All this holds until the words run out;     *)
(* nothing is promised afterwards.                                         *)
(***************************************************************************)
EXTENDS Naturals

CONSTANTS Align, Base

VARIABLES
  blocks,
  exhausted  \* no word is left above the last block

Init == blocks = {} /\ exhausted = FALSE

Grant ==
  /\ ~exhausted /\ exhausted' \in BOOLEAN
  /\ \E b \in blocks' :
       /\ b.lo >= Base /\ b.lo % Align = 0
       /\ \A c \in blocks : c.lo + c.len <= b.lo
       /\ blocks' = blocks \cup {b}

Unspecified == exhausted /\ exhausted'

Spec == Init /\ [][Grant \/ Unspecified]_<<blocks, exhausted>>
=============================================================================
