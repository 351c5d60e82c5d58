----------------------------- MODULE RegionFile -----------------------------
(***************************************************************************)
(* The file behind a MappedRegion: new, load and drop in the steps between *)
(* which a process or the machine may crash.  allocate, which MappedRegion *)
(* treats in detail, is one step here.                                     *)
(*                                                                         *)
(* Offsets count pages; page 0 holds the header and every block has a page *)
(* of its own.  The operating system is external: file is what processes   *)
(* see through their shared mappings, disk is what outlives a power        *)
(* failure.  The system may write a page back at any time, msync writes    *)
(* back its range and the size.  Touching memory that is not mapped, or    *)
(* has no file behind it, kills the process.                               *)
(***************************************************************************)
EXTENDS Naturals, FiniteSets

CONSTANTS
  Proc,       \* processes; each has at most one MappedRegion at a time
  Sizes,      \* sizes that new is called with, in pages
  MaxStores   \* bound: blocks written altogether

ASSUME FileAssumption ==
  /\ Sizes \subseteq Nat \ {0} /\ MaxStores \in Nat
  /\ \E n \in Sizes : \A m \in Sizes : m <= n  \* a size is a usize

VARIABLES
  file,       \* size, header and pages as processes see them
  disk,       \* the same as far as it is durable
  pc,         \* where each process is
  total,      \* argument of new, then total_size of the MappedRegion
  mapped,     \* length of the mapping
  left,       \* fields of the header that new has yet to store
  at,         \* offset that allocate returned, while it is not yet used
  own,        \* history: offsets that the live MappedRegion has written
  stores,     \* blocks written so far; the number of a block is its content
  kept,       \* history: offset and content of blocks written before a drop
  shrunk,     \* history: regions that were open when another's new called ftruncate
  rewound,    \* history: regions that were open when another's new stored current
  smashed     \* history: a block was handed out that lies on the header

vars == <<file, disk, pc, total, mapped, left, at, own, stores, kept, shrunk, rewound, smashed>>

MaxSize == CHOOSE n \in Sizes : \A m \in Sizes : m <= n
Page    == 1..(MaxSize - 1)
Header  == [magic : BOOLEAN, current : Nat, total : Nat]

\* A file that was just created: nothing in it, and zeros behind its end.
Zero  == [magic |-> FALSE, current |-> 0, total |-> 0]
Empty == [size |-> 0, header |-> Zero, page |-> [i \in Page |-> 0]]

Init ==
  /\ file = Empty /\ disk = Empty
  /\ pc = [p \in Proc |-> "idle"]
  /\ total = [p \in Proc |-> 0] /\ mapped = [p \in Proc |-> 0] /\ at = [p \in Proc |-> 0]
  /\ own = [p \in Proc |-> {}] /\ left = [p \in Proc |-> {}]
  /\ stores = 0 /\ kept = {} /\ shrunk = {} /\ rewound = {} /\ smashed = FALSE

Go(p, label) == pc' = [pc EXCEPT ![p] = label]

\* A MappedRegion comes to its end in any way.
Forget(P) ==
  /\ total' = [p \in Proc |-> IF p \in P THEN 0 ELSE total[p]]
  /\ mapped' = [p \in Proc |-> IF p \in P THEN 0 ELSE mapped[p]]
  /\ at' = [p \in Proc |-> IF p \in P THEN 0 ELSE at[p]]
  /\ own' = [p \in Proc |-> IF p \in P THEN {} ELSE own[p]]
  /\ left' = [p \in Proc |-> IF p \in P THEN {} ELSE left[p]]
  /\ shrunk' = shrunk \ P /\ rewound' = rewound \ P

\* The MappedRegions in use, apart from that of p.
Others(p) == {q \in Proc \ {p} : pc[q] \in {"ready", "store"}}

-----------------------------------------------------------------------------
(* MappedRegion::new                                                       *)

\* open with O_CREAT.
New(p, n) ==
  /\ pc[p] = "idle" /\ Go(p, "truncate")
  /\ total' = [total EXCEPT ![p] = n]
  /\ UNCHANGED <<file, disk, mapped, left, at, own, stores, kept, shrunk, rewound, smashed>>

\* f with n pages: what lies behind them is gone.
Resized(f, n) == [f EXCEPT !.size = n, !.page = [i \in Page |-> IF i < n THEN @[i] ELSE 0]]

\* ftruncate.
Truncate(p) ==
  /\ pc[p] = "truncate" /\ Go(p, "map")
  /\ file' = Resized(file, total[p])
  /\ kept' = {} /\ shrunk' = shrunk \cup Others(p)
  /\ UNCHANGED <<disk, total, mapped, left, at, own, stores, rewound, smashed>>

\* mmap and madvise.  After a failed madvise the region is unmapped, and new
\* goes on.
Map(p) ==
  /\ pc[p] = "map" /\ Go(p, "header")
  /\ mapped' \in {[mapped EXCEPT ![p] = total[p]], mapped}
  /\ left' = [left EXCEPT ![p] = {"magic", "current", "total"}]
  /\ UNCHANGED <<file, disk, total, at, own, stores, kept, shrunk, rewound, smashed>>

Stored(p, field) ==
  /\ left' = [left EXCEPT ![p] = @ \ {field}]
  /\ Go(p, IF left[p] = {field} THEN "ready" ELSE "header")

\* The header is assigned in place, by one store for each field and in any order.
\* After the store of current, blocks that were handed out before are so again.
WriteHeader(p) ==
  /\ pc[p] = "header" /\ mapped[p] > 0
  /\ \/ /\ "magic" \in left[p] /\ Stored(p, "magic")
        /\ file' = [file EXCEPT !.header.magic = TRUE] /\ UNCHANGED <<kept, rewound>>
     \/ /\ "current" \in left[p] /\ Stored(p, "current")
        /\ file' = [file EXCEPT !.header.current = 1]
        /\ kept' = {} /\ rewound' = rewound \cup Others(p)
     \/ /\ "total" \in left[p] /\ Stored(p, "total")
        /\ file' = [file EXCEPT !.header.total = total[p]] /\ UNCHANGED <<kept, rewound>>
  /\ UNCHANGED <<disk, total, mapped, at, own, stores, shrunk, smashed>>

\* A store to a region that is unmapped.
Fault(p) ==
  /\ pc[p] = "header" /\ mapped[p] = 0
  /\ Go(p, "idle") /\ Forget({p})
  /\ UNCHANGED <<file, disk, stores, kept, smashed>>

-----------------------------------------------------------------------------
(* MappedRegion::load                                                      *)

\* Mutant: an empty file is mapped too.
LoadEmpty(p) ==
  /\ pc[p] = "idle" /\ Go(p, "check")
  /\ mapped' = [mapped EXCEPT ![p] = file.size]
  /\ UNCHANGED <<file, disk, total, left, at, own, stores, kept, shrunk, rewound, smashed>>

\* open, fstat, mmap: a mapping of no bytes is refused and unwrap panics.
Load(p) ==
  /\ pc[p] = "idle" /\ file.size > 0
  /\ Go(p, "check")
  /\ mapped' = [mapped EXCEPT ![p] = file.size]
  /\ UNCHANGED <<file, disk, total, left, at, own, stores, kept, shrunk, rewound, smashed>>

\* Either of magic and size is enough.
Accepts(h, size) == h.magic \/ h.total = size

\* Mutant: a loaded file starts from its beginning.
CheckResets(p) ==
  /\ pc[p] = "check"
  /\ IF Accepts(file.header, mapped[p])
     THEN /\ Go(p, "ready") /\ total' = [total EXCEPT ![p] = file.header.total]
          /\ file' = [file EXCEPT !.header.current = 1]
          /\ UNCHANGED <<mapped, left, at, own, shrunk, rewound>>
     ELSE Go(p, "reject") /\ Forget({p}) /\ UNCHANGED file
  /\ UNCHANGED <<disk, stores, kept, smashed>>

\* The sanity check; a rejected file is unmapped and closed.
Check(p) ==
  /\ pc[p] = "check"
  /\ IF Accepts(file.header, mapped[p])
     THEN /\ Go(p, "ready") /\ total' = [total EXCEPT ![p] = file.header.total]
          /\ UNCHANGED <<mapped, left, at, own, shrunk, rewound>>
     ELSE Go(p, "reject") /\ Forget({p})
  /\ UNCHANGED <<file, disk, stores, kept, smashed>>

\* The message that load returns is made with the size from the header.
Report(p) ==
  /\ pc[p] = "reject" /\ Go(p, IF mapped[p] > 0 THEN "idle" ELSE "died")
  /\ UNCHANGED <<file, disk, total, mapped, left, at, own, stores, kept, shrunk, rewound, smashed>>

-----------------------------------------------------------------------------
(* Using a region, and dropping it.                                        *)

\* allocate; a block past total_size is refused.
Allocate(p) ==
  /\ pc[p] = "ready"
  /\ stores + Cardinality({q \in Proc : pc[q] = "store"}) < MaxStores
  /\ file.header.current <= MaxSize
  /\ file' = [file EXCEPT !.header.current = @ + 1]
  /\ IF file.header.current > total[p]
     THEN UNCHANGED <<pc, at, smashed>>
     ELSE /\ Go(p, "store") /\ at' = [at EXCEPT ![p] = file.header.current]
          /\ smashed' = (smashed \/ file.header.current = 0)
  /\ UNCHANGED <<disk, total, mapped, left, own, stores, kept, shrunk, rewound>>

\* What the header may read as once a block lies on it.
Garbage == [magic : BOOLEAN, current : {0, MaxSize + 1}, total : {0, MaxSize}]

\* The caller fills its block, or dies where there is no file behind it.  Blocks
\* that new took from a region are still written to by it.
Store(p) ==
  /\ pc[p] = "store"
  /\ IF at[p] < mapped[p] /\ at[p] < file.size
     THEN /\ IF at[p] = 0
             THEN \E h \in Garbage : file' = [file EXCEPT !.header = h] /\ UNCHANGED own
             ELSE /\ file' = [file EXCEPT !.page[at[p]] = stores + 1]
                  /\ own' = [own EXCEPT ![p] = @ \cup {at[p]}]
          /\ kept' = IF p \in rewound THEN {b \in kept : b.off # at[p]} ELSE kept
          /\ stores' = stores + 1
          /\ Go(p, "ready") /\ at' = [at EXCEPT ![p] = 0]
          /\ UNCHANGED <<total, mapped, left, shrunk, rewound>>
     ELSE Go(p, "idle") /\ Forget({p}) /\ UNCHANGED <<file, stores, kept>>
  /\ UNCHANGED <<disk, smashed>>

\* msync of the first n pages.
Synced(n) ==
  [size   |-> file.size,
   header |-> IF n > 0 THEN file.header ELSE disk.header,
   page   |-> [i \in Page |-> IF i >= file.size THEN 0
                              ELSE IF i < n THEN file.page[i] ELSE disk.page[i]]]

\* What the user may count on after a drop: the blocks inside total_size, unless
\* another's new has taken the file.  A block that starts at total_size is not
\* refused, and not synced.
Kept(p) ==
  IF p \in shrunk \cup rewound THEN {}
  ELSE {[off |-> i, val |-> file.page[i]] : i \in {j \in own[p] : j < total[p]}}

\* Mutant: nothing is written back.
DropUnsynced(p) ==
  /\ pc[p] = "ready" /\ Go(p, "idle") /\ Forget({p})
  /\ kept' = kept \cup Kept(p)
  /\ UNCHANGED <<file, disk, stores, smashed>>

\* drop: msync, whose failure goes unnoticed, munmap and close.
Drop(p) ==
  /\ pc[p] = "ready" /\ Go(p, "idle") /\ Forget({p})
  /\ \/ total[p] <= mapped[p] /\ disk' = Synced(total[p]) /\ kept' = kept \cup Kept(p)
     \/ UNCHANGED <<disk, kept>>
  /\ UNCHANGED <<file, stores, smashed>>

-----------------------------------------------------------------------------
(* The operating system and its failures.                                  *)

\* The system writes back a page, or the size, of its own accord.
WriteBack ==
  /\ \/ disk' = Resized(disk, file.size)
     \/ disk.size > 0 /\ disk' = [disk EXCEPT !.header = file.header]
     \/ \E i \in Page : i < disk.size /\ disk' = [disk EXCEPT !.page[i] = file.page[i]]
  /\ UNCHANGED <<file, pc, total, mapped, left, at, own, stores, kept, shrunk, rewound, smashed>>

\* A process dies, whatever it is doing; its mapping is shared, so nothing that
\* it has written is lost.
ProcessCrash(p) ==
  /\ pc[p] # "idle" /\ Go(p, "idle") /\ Forget({p})
  /\ UNCHANGED <<file, disk, stores, kept, smashed>>

PowerCrash ==
  /\ file' = disk
  /\ pc' = [p \in Proc |-> "idle"] /\ Forget(Proc)
  /\ UNCHANGED <<disk, stores, kept, smashed>>

Next ==
  \/ \E p \in Proc :
       \/ \E n \in Sizes : New(p, n)
       \/ Truncate(p) \/ Map(p) \/ WriteHeader(p) \/ Fault(p)
       \/ Load(p) \/ Check(p) \/ Report(p)
       \/ Allocate(p) \/ Store(p) \/ Drop(p)
       \/ ProcessCrash(p)
  \/ WriteBack \/ PowerCrash

Spec == Init /\ [][Next]_vars

-----------------------------------------------------------------------------
(* Properties.                                                             *)

\* Types; a region in use has its header in its mapping.
TypeOK ==
  /\ \A f \in {file, disk} :
       /\ f.size \in {0} \cup Sizes /\ f.header \in Header
       /\ f.page \in [Page -> 0..MaxStores]
       /\ \A i \in Page : i >= f.size => f.page[i] = 0
  /\ pc \in [Proc -> {"idle", "truncate", "map", "header", "check", "ready", "store",
                      "reject", "died"}]
  /\ total \in [Proc -> {0} \cup Sizes] /\ mapped \in [Proc -> {0} \cup Sizes]
  /\ \A p \in Proc : pc[p] \in {"ready", "store", "check"} => mapped[p] > 0
  /\ at \in [Proc -> 0..MaxSize] /\ own \in [Proc -> SUBSET Page]
  /\ left \in [Proc -> SUBSET {"magic", "current", "total"}]
  /\ stores \in 0..MaxStores
  /\ shrunk \in SUBSET Proc /\ rewound \in SUBSET Proc /\ smashed \in BOOLEAN

\* Blocks written before a drop whose msync succeeded are still there, and will
\* not be handed out again, after any sequence of crashes, loads and further
\* allocations: until another new truncates the file or stores current, until a
\* region that such a new has taken the file from writes over them, and unless a
\* block was handed out on a header that new did not complete (smashed).
DroppedSurvives ==
  ~smashed => \A b \in kept : file.page[b.off] = b.val /\ file.header.current > b.off

\* Two processes that have the file mapped at the same time never write to the
\* same block, whichever of them created the file and whoever crashed before or
\* loads an old header in the middle of a new.  The code does not give more: a
\* region that is open when another's new stores current, also one loaded after
\* that new had begun, shares its blocks from then on (rewound), and a load that
\* sees magic before current is stored hands out the header (smashed).
HandlesDisjoint ==
  ~smashed => \A p, q \in Proc \ rewound : p # q => own[p] \cap own[q] = {}

=============================================================================
