--------------------------- MODULE MCMappedRegion ---------------------------
(***************************************************************************)
(* Instances of MappedRegion for TLC: the layout of a 64-bit build (words  *)
(* of 8 bytes, a header of 24), with a small word so that it can wrap.     *)
(***************************************************************************)
EXTENDS MappedRegion, TLC

CONSTANTS t1, t2, t3, h1, h2

\* Two threads share a handle, the third has mapped the file by itself.
MCHandleOf == (t1 :> h1) @@ (t2 :> h1) @@ (t3 :> h2)

ThreeCallers == (t1 :> 2) @@ (t2 :> 1) @@ (t3 :> 1)

Sizes(S) == {[size |-> n, align |-> Align] : n \in S}

\* Nothing, and no multiple of a word; the largest first block that does not wrap
\* current, and one that wraps it to 0; a wrong alignment.
MCRequests == Sizes({0, 17, WordMod - 32, WordMod - 24})
                \cup {[size |-> 8, align |-> 4]}
=============================================================================
