-------------------------- MODULE RegionFileProofs --------------------------
(***************************************************************************)
(* For any number of processes, any sizes and any sequence of crashes,     *)
(* inside the stores of a header too: no two regions are given the same    *)
(* page unless another's new has reset current below one of them, and what *)
(* was dropped survives.                                                   *)
(***************************************************************************)
EXTENDS RegionFile, FiniteSetTheorems, TLAPS

Size  == {0} \cup Sizes
File  == [size : Nat, header : Header, page : [Page -> Nat]]
Label == {"idle", "truncate", "map", "header", "check", "ready", "store", "reject", "died"}
Field == {"magic", "current", "total"}

\* A file is as large as some new has made it, and zero behind its end.
Bounded(f) ==
  /\ f \in File
  /\ f.size \in Size /\ f.header.total \in Size
  /\ f.page \in [Page -> 0..MaxStores]
  /\ \A i \in Page : i >= f.size => f.page[i] = 0

\* A process without a region has written nothing.
RegionsOK ==
  /\ pc \in [Proc -> Label]
  /\ total \in [Proc -> Size] /\ mapped \in [Proc -> Size]
  /\ left \in [Proc -> SUBSET Field]
  /\ \A p \in Proc : pc[p] \in {"ready", "store", "check"} => mapped[p] > 0
  /\ at \in [Proc -> 0..MaxSize] /\ own \in [Proc -> SUBSET Page]
  /\ \A p \in Proc : pc[p] \notin {"ready", "store"} => own[p] = {}
  /\ shrunk \in SUBSET Proc /\ rewound \in SUBSET Proc /\ smashed \in BOOLEAN

\* The bound on the number of blocks counts the ones about to be written.
Storing == {p \in Proc : pc[p] = "store"}
Budget ==
  /\ stores \in Nat /\ IsFiniteSet(Storing)
  /\ stores + Cardinality(Storing) <= MaxStores

\* Every block in use lies below current, and no two processes have the same one,
\* neither one that is written nor one about to be, unless current was reset below
\* them; it lies in the file, unless that was truncated below it.
Fresh ==
  ~smashed =>
    /\ \A p \in Storing : at[p] > 0
    /\ \A p \in Proc \ shrunk : \A i \in own[p] : i < file.size
    /\ \A p \in Proc \ rewound : \A i \in own[p] : i < file.header.current
    /\ \A p \in Storing \ rewound : at[p] < file.header.current
    /\ \A p, q \in Proc \ rewound : p # q =>
         /\ own[p] \cap own[q] = {}
         /\ p \in Storing => at[p] \notin own[q]
         /\ p \in Storing /\ q \in Storing => at[p] # at[q]

\* Dropped blocks are in the file and on the disk, so that a power failure does
\* not change them, and no process is about to write to one, unless current was
\* reset below it.
Saved(f) ==
  ~smashed => \A b \in kept :
    b.off \in Page /\ b.off < f.size /\ f.page[b.off] = b.val /\ f.header.current > b.off
SavedOK ==
  /\ Saved(file) /\ Saved(disk)
  /\ ~smashed => \A b \in kept : \A p \in Storing \ rewound : at[p] # b.off

Full == Bounded(file) /\ Bounded(disk) /\ RegionsOK /\ Budget /\ Fresh /\ SavedOK

\* Sizes have a maximum, and pages lie below it.
LEMMA MaxSizeFacts ==
  /\ MaxSize \in Nat /\ MaxSize \in Size /\ \A n \in Size : n \in Nat /\ n <= MaxSize
  /\ \A i \in Page : i \in Nat
<1>1. \E n \in Sizes : \A m \in Sizes : m <= n
  BY FileAssumption
<1>2. MaxSize \in Sizes /\ \A m \in Sizes : m <= MaxSize
  BY <1>1 DEF MaxSize
<1> QED BY <1>2, FileAssumption DEF Size, Page

\* What a change of the header leaves alone.
LEMMA NewHeader ==
  ASSUME NEW f, Bounded(f), NEW h \in Header, h.total \in Size
  PROVE  /\ Bounded([f EXCEPT !.header = h])
         /\ [f EXCEPT !.header = h].size = f.size
         /\ [f EXCEPT !.header = h].page = f.page
         /\ [f EXCEPT !.header = h].header = h
<1> DEFINE g == [f EXCEPT !.header = h]
<1>1. f \in File
  BY DEF Bounded
<1>2. g \in File /\ g.size = f.size /\ g.page = f.page /\ g.header = h
  BY <1>1 DEF File
<1>3. Bounded(g)
  BY <1>2 DEF Bounded
<1> QED BY <1>2, <1>3

LEMMA NewPage ==
  ASSUME NEW f, Bounded(f), NEW i \in Page, i < f.size, NEW v \in 0..MaxStores
  PROVE  /\ Bounded([f EXCEPT !.page[i] = v])
         /\ [f EXCEPT !.page[i] = v].size = f.size
         /\ [f EXCEPT !.page[i] = v].page = [f.page EXCEPT ![i] = v]
         /\ [f EXCEPT !.page[i] = v].header = f.header
<1> DEFINE g == [f EXCEPT !.page[i] = v]
           pg == [f.page EXCEPT ![i] = v]
<1>1. f \in File /\ f.page \in [Page -> 0..MaxStores] /\ f.size \in Nat
  BY DEF Bounded, File
<1>2. g = [f EXCEPT !.page = pg]
  BY <1>1 DEF File
<1>3. pg \in [Page -> 0..MaxStores] /\ pg \in [Page -> Nat]
  BY <1>1, FileAssumption
<1>4. g \in File /\ g.size = f.size /\ g.page = pg /\ g.header = f.header
  BY <1>1, <1>2, <1>3 DEF File
<1>5. \A j \in Page : j >= f.size => pg[j] = 0
  BY <1>1, MaxSizeFacts DEF Bounded
<1>6. Bounded(g)
  BY <1>3, <1>4, <1>5 DEF Bounded
<1> QED BY <1>4, <1>6

LEMMA NewSize ==
  ASSUME NEW f, Bounded(f), NEW n \in Size
  PROVE  /\ Bounded(Resized(f, n)) /\ Resized(f, n).size = n
         /\ Resized(f, n).page = [i \in Page |-> IF i < n THEN f.page[i] ELSE 0]
         /\ Resized(f, n).header = f.header
<1> DEFINE g == Resized(f, n)
           pg == [i \in Page |-> IF i < n THEN f.page[i] ELSE 0]
<1>1. f \in File /\ f.page \in [Page -> 0..MaxStores] /\ n \in Nat
  BY MaxSizeFacts DEF Bounded
<1>2. pg \in [Page -> 0..MaxStores] /\ pg \in [Page -> Nat]
  BY <1>1, FileAssumption
<1>3. g = [f EXCEPT !.size = n, !.page = pg]
  BY DEF Resized
<1>4. g \in File /\ g.size = n /\ g.page = pg /\ g.header = f.header
  BY <1>1, <1>2, <1>3 DEF File
<1>5. \A j \in Page : j >= n => pg[j] = 0
  BY <1>1, MaxSizeFacts
<1>6. Bounded(g)
  BY <1>2, <1>4, <1>5 DEF Bounded
<1> QED BY <1>4, <1>6

LEMMA InitFull == Init => Full
<1> SUFFICES ASSUME Init PROVE Full
  OBVIOUS
<1>1. Zero \in Header /\ Zero.total = 0 /\ 0 \in Size
  BY DEF Zero, Header, Size
<1>2. Empty \in File /\ Empty.size = 0 /\ Empty.header = Zero
      /\ Empty.page = [i \in Page |-> 0]
  BY <1>1 DEF File, Empty
<1>3. Bounded(Empty)
  BY <1>1, <1>2, FileAssumption DEF Bounded
<1>4. Storing = {}
  BY DEF Init, Storing
<1>5. Budget
  BY <1>4, FS_EmptySet, FileAssumption DEF Init, Budget
<1>6. RegionsOK
  <2>1. 0 \in 0..MaxSize /\ {} \in SUBSET Page /\ {} \in SUBSET Field
    BY MaxSizeFacts
  <2>2. /\ total \in [Proc -> Size] /\ mapped \in [Proc -> Size]
        /\ at \in [Proc -> 0..MaxSize] /\ own \in [Proc -> SUBSET Page]
        /\ left \in [Proc -> SUBSET Field]
    BY <1>1, <2>1 DEF Init
  <2>3. \A p \in Proc : pc[p] = "idle" /\ own[p] = {}
    BY DEF Init
  <2>4. pc \in [Proc -> Label]
    BY DEF Init, Label
  <2>5. shrunk \in SUBSET Proc /\ rewound \in SUBSET Proc /\ smashed \in BOOLEAN
    BY DEF Init
  <2> QED BY <2>2, <2>3, <2>4, <2>5 DEF RegionsOK
<1>7. \A p \in Proc : own[p] = {}
  BY DEF Init
<1>8. kept = {}
  BY DEF Init
<1>9. Fresh /\ SavedOK
  BY <1>4, <1>7, <1>8 DEF Fresh, SavedOK, Saved
<1> QED BY <1>3, <1>5, <1>6, <1>9 DEF Init, Full

\* A step that neither writes, hands out nor forgets a block.
LEMMA QuietFull ==
  ASSUME Full, Bounded(file'), file'.size = file.size, file'.page = file.page,
         file'.header.current = file.header.current,
         UNCHANGED <<disk, own, at, stores, kept, shrunk, rewound, smashed>>,
         Storing' = Storing
  PROVE  Bounded(file') /\ Bounded(disk') /\ Budget' /\ Fresh' /\ SavedOK'
<1>1. Bounded(disk')
  BY DEF Full
<1>2. Budget' /\ Fresh'
  BY DEF Full, Budget, Fresh
<1>3. SavedOK'
  BY DEF Full, SavedOK, Saved
<1> QED BY <1>1, <1>2, <1>3

\* Fewer processes store.
LEMMA BudgetShrinks ==
  ASSUME Budget, Storing' \subseteq Storing, stores' = stores PROVE Budget'
<1>1. IsFiniteSet(Storing') /\ Cardinality(Storing') <= Cardinality(Storing)
  BY FS_Subset DEF Budget
<1>2. Cardinality(Storing') \in Nat /\ Cardinality(Storing) \in Nat
  BY <1>1, FS_CardinalityType DEF Budget
<1> QED BY <1>1, <1>2, FileAssumption DEF Budget

\* Regions that come to their end give up their blocks, which nobody gets again.
LEMMA EndRegions ==
  ASSUME Full, NEW P \in SUBSET Proc, Forget(P), NEW l \in {"idle", "reject"},
         pc' = [p \in Proc |-> IF p \in P THEN l ELSE pc[p]],
         smashed' = smashed, stores' = stores
  PROVE  /\ RegionsOK' /\ Budget' /\ Storing' = Storing \ P
         /\ \A p \in Proc \ P : own'[p] = own[p] /\ at'[p] = at[p]
         /\ \A p \in P : own'[p] = {}
         /\ shrunk' = shrunk \ P /\ rewound' = rewound \ P
<1>1. Storing' = Storing \ P
  BY DEF Storing
<1>2. Budget'
  BY <1>1, BudgetShrinks DEF Full
<1>3. /\ total' \in [Proc -> Size] /\ mapped' \in [Proc -> Size]
      /\ at' \in [Proc -> 0..MaxSize] /\ own' \in [Proc -> SUBSET Page]
      /\ left' \in [Proc -> SUBSET Field]
  BY MaxSizeFacts DEF Full, RegionsOK, Forget, Size
<1>4. /\ \A p \in Proc \ P : /\ own'[p] = own[p] /\ at'[p] = at[p]
                             /\ mapped'[p] = mapped[p] /\ pc'[p] = pc[p]
      /\ \A p \in P : own'[p] = {} /\ pc'[p] = l
      /\ shrunk' = shrunk \ P /\ rewound' = rewound \ P
  BY DEF Forget
<1>5. pc' \in [Proc -> Label]
  BY DEF Full, RegionsOK, Label
<1>6. RegionsOK'
  BY <1>3, <1>4, <1>5 DEF Full, RegionsOK
<1> QED BY <1>1, <1>2, <1>4, <1>6

LEMMA EndFresh ==
  ASSUME Full, NEW P \in SUBSET Proc, Storing' = Storing \ P,
         \A p \in Proc \ P : own'[p] = own[p] /\ at'[p] = at[p],
         \A p \in P : own'[p] = {},
         shrunk' = shrunk \ P, rewound' = rewound \ P, file' = file, smashed' = smashed
  PROVE  Fresh'
<1>1. Storing \subseteq Proc
  BY DEF Storing
<1> SUFFICES ASSUME ~smashed PROVE Fresh'
  BY DEF Fresh
<1>2. /\ \A p \in Storing : at[p] > 0
      /\ \A p \in Proc \ shrunk : \A i \in own[p] : i < file.size
      /\ \A p \in Proc \ rewound : \A i \in own[p] : i < file.header.current
      /\ \A p \in Storing \ rewound : at[p] < file.header.current
      /\ \A p, q \in Proc \ rewound : p # q =>
           /\ own[p] \cap own[q] = {}
           /\ p \in Storing => at[p] \notin own[q]
           /\ p \in Storing /\ q \in Storing => at[p] # at[q]
  BY DEF Full, Fresh
<1>3. /\ \A p \in Storing' : at'[p] > 0
      /\ \A p \in Proc \ shrunk' : \A i \in own'[p] : i < file'.size
      /\ \A p \in Proc \ rewound' : \A i \in own'[p] : i < file'.header.current
      /\ \A p \in Storing' \ rewound' : at'[p] < file'.header.current
  BY <1>1, <1>2
<1>4. ASSUME NEW p \in Proc \ rewound', NEW q \in Proc \ rewound', p # q
      PROVE  /\ own'[p] \cap own'[q] = {}
             /\ p \in Storing' => at'[p] \notin own'[q]
             /\ p \in Storing' /\ q \in Storing' => at'[p] # at'[q]
  <2>1. CASE p \in P \/ q \in P
    BY <2>1
  <2>2. CASE p \notin P /\ q \notin P
    BY <1>2, <1>4, <2>2
  <2> QED BY <2>1, <2>2
<1> QED BY <1>3, <1>4 DEF Fresh

LEMMA EndFull ==
  ASSUME Full, NEW P \in SUBSET Proc, Forget(P), NEW l \in {"idle", "reject"},
         pc' = [p \in Proc |-> IF p \in P THEN l ELSE pc[p]],
         UNCHANGED <<file, disk, stores, kept, smashed>>
  PROVE  Bounded(file') /\ Bounded(disk') /\ RegionsOK' /\ Budget' /\ Fresh' /\ SavedOK'
<1>1. /\ RegionsOK' /\ Budget' /\ Storing' = Storing \ P
      /\ \A p \in Proc \ P : own'[p] = own[p] /\ at'[p] = at[p]
      /\ \A p \in P : own'[p] = {}
      /\ shrunk' = shrunk \ P /\ rewound' = rewound \ P
  BY EndRegions
<1>2. Storing \subseteq Proc
  BY DEF Storing
<1>3. Fresh'
  BY <1>1, EndFresh
<1>4. SavedOK'
  BY <1>1, <1>2 DEF Full, SavedOK, Saved
<1> QED BY <1>1, <1>3, <1>4 DEF Full

LEMMA TruncateFull == ASSUME Full, NEW p \in Proc, Truncate(p)
  PROVE  Bounded(file') /\ Bounded(disk') /\ RegionsOK' /\ Budget' /\ Fresh' /\ SavedOK'
<1>1. /\ pc[p] = "truncate" /\ pc' = [pc EXCEPT ![p] = "map"]
      /\ file' = Resized(file, total[p]) /\ kept' = {}
      /\ shrunk' = shrunk \cup Others(p)
      /\ UNCHANGED <<disk, total, mapped, left, at, own, stores, rewound, smashed>>
  BY DEF Truncate, Go
<1>2. RegionsOK /\ pc \in [Proc -> Label] /\ total[p] \in Size /\ Bounded(file)
  BY DEF Full, RegionsOK
<1>3. Bounded(file') /\ file'.header = file.header
  BY <1>1, <1>2, NewSize
<1>4. Others(p) \subseteq Proc
  BY DEF Others
<1>5. Storing' = Storing
  BY <1>1, <1>2 DEF Storing
<1>6. pc' \in [Proc -> Label] /\ \A q \in Proc : pc'[q] # pc[q] => pc'[q] = "map" /\ q = p
  BY <1>1, <1>2 DEF Label
<1>7. own[p] = {}
  BY <1>1, <1>2 DEF RegionsOK
<1>8. RegionsOK'
  BY <1>1, <1>2, <1>4, <1>6, <1>7 DEF RegionsOK
<1>9. \A q \in Proc \ shrunk' : own[q] = {}
  BY <1>1, <1>2, <1>7 DEF Others, RegionsOK
<1>10. Fresh'
  BY <1>1, <1>3, <1>5, <1>9 DEF Full, Fresh
<1>11. SavedOK' /\ Budget'
  BY <1>1, <1>5 DEF SavedOK, Saved, Full, Budget
<1> QED BY <1>1, <1>3, <1>8, <1>10, <1>11 DEF Full

LEMMA WriteHeaderFull == ASSUME Full, NEW p \in Proc, WriteHeader(p)
  PROVE  Bounded(file') /\ Bounded(disk') /\ RegionsOK' /\ Budget' /\ Fresh' /\ SavedOK'
<1>1. /\ pc[p] = "header" /\ mapped[p] > 0
      /\ UNCHANGED <<disk, total, mapped, at, own, stores, shrunk, smashed>>
  BY DEF WriteHeader
<1>2. RegionsOK /\ Bounded(file) /\ file \in File /\ file.header \in Header
      /\ file.header.total \in Size /\ total[p] \in Size /\ total[p] \in Nat
  BY MaxSizeFacts DEF Full, RegionsOK, Bounded, File
<1>3. own[p] = {}
  BY <1>1, <1>2 DEF RegionsOK
<1>4. ASSUME NEW f \in Field, Stored(p, f), rewound' \in SUBSET Proc
      PROVE  RegionsOK' /\ Storing' = Storing
  <2>1. left' \in [Proc -> SUBSET Field]
    BY <1>2, <1>4 DEF Stored, RegionsOK
  <2>2. PICK l \in {"ready", "header"} : pc' = [pc EXCEPT ![p] = l]
    BY <1>4 DEF Stored, Go
  <2>3. pc' \in [Proc -> Label] /\ pc'[p] = l /\ \A q \in Proc \ {p} : pc'[q] = pc[q]
    BY <1>2, <2>2 DEF RegionsOK, Label
  <2>4. Storing' = Storing
    BY <1>1, <2>3 DEF Storing
  <2>5. RegionsOK'
    BY <1>1, <1>2, <1>3, <1>4, <2>1, <2>3 DEF RegionsOK
  <2> QED BY <2>4, <2>5
<1>5. ASSUME NEW f \in Field, Stored(p, f), UNCHANGED <<kept, rewound>>,
             NEW h \in Header, h.total \in Size, h.current = file.header.current,
             file' = [file EXCEPT !.header = h]
      PROVE  Bounded(file') /\ Bounded(disk') /\ RegionsOK' /\ Budget' /\ Fresh' /\ SavedOK'
  <2>1. RegionsOK' /\ Storing' = Storing
    BY <1>2, <1>4, <1>5 DEF RegionsOK
  <2>2. /\ Bounded(file') /\ file'.size = file.size /\ file'.page = file.page
        /\ file'.header = h
    BY <1>2, <1>5, NewHeader
  <2> QED BY <1>1, <1>5, <2>1, <2>2, QuietFull
<1>6. CASE /\ Stored(p, "magic") /\ file' = [file EXCEPT !.header.magic = TRUE]
           /\ UNCHANGED <<kept, rewound>>
  <2> DEFINE h == [file.header EXCEPT !.magic = TRUE]
  <2>1. h \in Header /\ h.total \in Size /\ h.current = file.header.current
    BY <1>2 DEF Header
  <2>2. file' = [file EXCEPT !.header = h]
    BY <1>2, <1>6 DEF File
  <2>3. "magic" \in Field
    BY DEF Field
  <2> HIDE DEF h
  <2> QED BY <1>5, <1>6, <2>1, <2>2, <2>3
<1>7. CASE /\ Stored(p, "total") /\ file' = [file EXCEPT !.header.total = total[p]]
           /\ UNCHANGED <<kept, rewound>>
  <2> DEFINE h == [file.header EXCEPT !.total = total[p]]
  <2>1. h \in Header /\ h.total \in Size /\ h.current = file.header.current
    BY <1>2 DEF Header
  <2>2. file' = [file EXCEPT !.header = h]
    BY <1>2, <1>7 DEF File
  <2>3. "total" \in Field
    BY DEF Field
  <2> HIDE DEF h
  <2> QED BY <1>5, <1>7, <2>1, <2>2, <2>3
<1>8. CASE /\ Stored(p, "current") /\ file' = [file EXCEPT !.header.current = 1]
           /\ kept' = {} /\ rewound' = rewound \cup Others(p)
  <2> DEFINE h == [file.header EXCEPT !.current = 1]
  <2>1. h \in Header /\ h.total \in Size
    BY <1>2 DEF Header
  <2>2. file' = [file EXCEPT !.header = h]
    BY <1>2, <1>8 DEF File
  <2>3. "current" \in Field /\ rewound' \in SUBSET Proc
    BY <1>2, <1>8 DEF Field, Others, RegionsOK
  <2> HIDE DEF h
  <2>4. RegionsOK' /\ Storing' = Storing
    BY <1>4, <1>8, <2>3
  <2>5. Bounded(file') /\ file'.size = file.size
    BY <1>2, <2>1, <2>2, NewHeader
  <2>6. \A q \in Proc \ rewound' : own[q] = {} /\ q \notin Storing
    BY <1>1, <1>2, <1>3, <1>8 DEF Others, Storing, RegionsOK
  <2>7. Fresh'
    BY <1>1, <2>4, <2>5, <2>6 DEF Full, Fresh, Storing
  <2>8. SavedOK' /\ Budget'
    BY <1>1, <1>8, <2>4 DEF SavedOK, Saved, Full, Budget
  <2> QED BY <1>1, <2>4, <2>5, <2>7, <2>8 DEF Full
<1> QED BY <1>6, <1>7, <1>8 DEF WriteHeader

\* open, mmap and the end of load change neither the file nor any block.
LEMMA MoveFull ==
  ASSUME Full, NEW p \in Proc, NEW l \in Label \ {"store"}, pc[p] \notin {"ready", "store"},
         pc' = [pc EXCEPT ![p] = l], l \in {"ready", "check"} => mapped'[p] > 0,
         total' \in [Proc -> Size], mapped' \in [Proc -> Size],
         left' \in [Proc -> SUBSET Field],
         \A q \in Proc \ {p} : mapped'[q] = mapped[q],
         UNCHANGED <<file, disk, own, at, stores, kept, shrunk, rewound, smashed>>
  PROVE  Bounded(file') /\ Bounded(disk') /\ RegionsOK' /\ Budget' /\ Fresh' /\ SavedOK'
<1>1. pc \in [Proc -> Label] /\ RegionsOK /\ Bounded(file)
  BY DEF Full, RegionsOK
<1>2. Storing' = Storing
  BY <1>1 DEF Storing
<1>3. pc' \in [Proc -> Label]
  BY <1>1
<1>4. \A q \in Proc : pc'[q] \in {"ready", "store", "check"} => mapped'[q] > 0
  BY <1>1 DEF RegionsOK
<1>5. \A q \in Proc : pc'[q] \notin {"ready", "store"} => own'[q] = {}
  BY <1>1 DEF RegionsOK
<1>6. RegionsOK'
  BY <1>1, <1>3, <1>4, <1>5 DEF RegionsOK
<1>7. Bounded(file')
  BY <1>1
<1> QED BY <1>2, <1>6, <1>7, QuietFull

LEMMA AllocateFull == ASSUME Full, NEW p \in Proc, Allocate(p)
  PROVE  Bounded(file') /\ Bounded(disk') /\ RegionsOK' /\ Budget' /\ Fresh' /\ SavedOK'
<1> DEFINE c == file.header.current
<1>1. /\ pc[p] = "ready" /\ c <= MaxSize
      /\ file' = [file EXCEPT !.header.current = c + 1]
      /\ UNCHANGED <<disk, total, mapped, left, own, stores, kept, shrunk, rewound>>
  BY DEF Allocate
<1>2. /\ pc \in [Proc -> Label] /\ file \in File /\ c \in Nat /\ RegionsOK
      /\ Bounded(file) /\ file.header \in Header /\ file.header.total \in Size
  BY DEF Full, RegionsOK, Bounded, File, Header
<1> DEFINE h == [file.header EXCEPT !.current = c + 1]
<1>3. /\ Bounded(file') /\ file'.size = file.size /\ file'.page = file.page
      /\ file'.header.current = c + 1
  <2>1. h \in Header /\ h.total \in Size /\ h.current = c + 1
    BY <1>2 DEF Header
  <2>2. file' = [file EXCEPT !.header = h]
    BY <1>1, <1>2 DEF File
  <2> HIDE DEF h
  <2> QED BY <1>2, <2>1, <2>2, NewHeader
<1>4. Bounded(disk')
  BY <1>1 DEF Full
<1>5. \A b \in kept : ~smashed => b.off \in Nat /\ b.off < c
  BY <1>2, MaxSizeFacts DEF Full, SavedOK, Saved
<1>6. /\ own \in [Proc -> SUBSET Page] /\ at \in [Proc -> 0..MaxSize]
  BY <1>2 DEF RegionsOK
<1>7. (Saved(file)' /\ Saved(disk)') \/ smashed'
  <2> SUFFICES ASSUME ~smashed' PROVE Saved(file)' /\ Saved(disk)'
    OBVIOUS
  <2>1. ~smashed
    BY DEF Allocate
  <2>2. /\ \A b \in kept : /\ b.off \in Page /\ b.off < file.size
                           /\ file.page[b.off] = b.val /\ c > b.off
        /\ Saved(disk)
    BY <2>1 DEF Full, SavedOK, Saved
  <2>3. Saved(file)'
    BY <1>1, <1>2, <1>3, <1>5, <2>1, <2>2, MaxSizeFacts DEF Saved
  <2>4. Saved(disk)'
    BY <1>1, <2>1, <2>2 DEF Saved
  <2> QED BY <2>3, <2>4
<1>8. \A q \in Storing : q \in Proc /\ at[q] \in Nat
  BY <1>6, MaxSizeFacts DEF Storing
<1>9. \A q \in Proc : \A i \in own[q] : i \in Nat
  BY <1>6, MaxSizeFacts
<1>10. CASE c > total[p]
  <2>1. pc' = pc /\ at' = at /\ smashed' = smashed
    BY <1>10 DEF Allocate
  <2>2. Storing' = Storing
    BY <2>1 DEF Storing
  <2>3. RegionsOK' /\ Budget'
    BY <1>1, <2>1, <2>2 DEF Full, RegionsOK, Budget
  <2>4. Fresh'
    BY <1>1, <1>2, <1>3, <2>1, <2>2, <1>8, <1>9 DEF Full, Fresh
  <2>5. SavedOK'
    BY <1>1, <1>7, <2>1, <2>2 DEF Full, SavedOK, Saved
  <2> QED BY <1>3, <1>4, <2>3, <2>4, <2>5
<1>11. CASE ~(c > total[p])
  <2>1. /\ pc' = [pc EXCEPT ![p] = "store"] /\ at' = [at EXCEPT ![p] = c]
        /\ smashed' = (smashed \/ c = 0)
    BY <1>11 DEF Allocate, Go
  <2>2. Storing' = Storing \cup {p} /\ p \notin Storing
    BY <1>1, <1>2, <2>1 DEF Storing
  <2>3. Budget'
    <3>1. stores \in Nat /\ IsFiniteSet(Storing) /\ stores + Cardinality(Storing) < MaxStores
      BY DEF Full, Budget, Allocate, Storing
    <3>2. IsFiniteSet(Storing') /\ Cardinality(Storing') = Cardinality(Storing) + 1
      BY <2>2, <3>1, FS_AddElement
    <3>3. Cardinality(Storing) \in Nat
      BY <3>1, FS_CardinalityType
    <3> QED BY <1>1, <3>1, <3>2, <3>3, FileAssumption DEF Budget
  <2>4. RegionsOK'
    <3>1. at' \in [Proc -> 0..MaxSize]
      BY <1>1, <1>2, <1>6, <2>1, MaxSizeFacts
    <3>2. pc' \in [Proc -> Label] /\ pc'[p] = "store" /\ \A q \in Proc \ {p} : pc'[q] = pc[q]
      BY <1>2, <2>1 DEF Label
    <3>3. smashed' \in BOOLEAN
      BY <1>2, <2>1 DEF RegionsOK
    <3>4. \A q \in Proc : pc'[q] \in {"ready", "store", "check"} => mapped'[q] > 0
      BY <1>1, <1>2, <3>2 DEF RegionsOK
    <3>5. \A q \in Proc : pc'[q] \notin {"ready", "store"} => own'[q] = {}
      BY <1>1, <1>2, <3>2 DEF RegionsOK
    <3> QED BY <1>1, <1>2, <3>1, <3>2, <3>3, <3>4, <3>5 DEF RegionsOK
  <2>5. \A q \in Storing : q # p /\ at'[q] = at[q]
    BY <1>6, <1>8, <2>1, <2>2
  <2>6. at'[p] = c
    BY <1>6, <2>1
  <2>7. Fresh'
    <3> SUFFICES ASSUME ~smashed' PROVE Fresh'
      BY DEF Fresh
    <3>0. ~smashed /\ c # 0
      BY <2>1
    <3>1. ~smashed /\ c > 0
      BY <1>2, <3>0
    <3>2. /\ \A q \in Storing : at[q] > 0
          /\ \A q \in Proc \ shrunk : \A i \in own[q] : i < file.size
          /\ \A q \in Proc \ rewound : \A i \in own[q] : i < c
          /\ \A q \in Storing \ rewound : at[q] < c
          /\ \A q, r \in Proc \ rewound : q # r =>
               /\ own[q] \cap own[r] = {}
               /\ q \in Storing => at[q] \notin own[r]
               /\ q \in Storing /\ r \in Storing => at[q] # at[r]
      BY <3>1 DEF Full, Fresh
    <3>3. /\ \A q \in Storing' : at'[q] > 0
          /\ \A q \in Proc \ shrunk' : \A i \in own'[q] : i < file'.size
      BY <1>1, <1>3, <2>2, <2>5, <2>6, <3>1, <3>2
    <3>4. \A q \in Proc \ rewound' : \A i \in own'[q] : i < c + 1
      BY <1>1, <1>2, <1>9, <3>2
    <3>5. \A q \in Storing' \ rewound' : at'[q] < c + 1
      BY <1>1, <1>2, <1>8, <2>2, <2>5, <2>6, <3>2
    <3>6. ASSUME NEW q \in Proc \ rewound', NEW r \in Proc \ rewound', q # r
          PROVE  /\ own'[q] \cap own'[r] = {}
                 /\ q \in Storing' => at'[q] \notin own'[r]
                 /\ q \in Storing' /\ r \in Storing' => at'[q] # at'[r]
      <4>1. own'[q] \cap own'[r] = {}
        BY <1>1, <3>2, <3>6
      <4>2. q \in Storing' => at'[q] \notin own'[r]
        BY <1>1, <1>2, <1>9, <2>2, <2>5, <2>6, <3>2, <3>6
      <4>3. q \in Storing' /\ r \in Storing' => at'[q] # at'[r]
        BY <1>1, <1>2, <1>8, <2>2, <2>5, <2>6, <3>2, <3>6
      <4> QED BY <4>1, <4>2, <4>3
    <3> QED BY <1>3, <3>3, <3>4, <3>5, <3>6 DEF Fresh
  <2>8. SavedOK'
    <3> SUFFICES ASSUME ~smashed' PROVE SavedOK'
      BY DEF SavedOK, Saved
    <3>1. ~smashed
      BY <2>1
    <3>2. \A b \in kept : \A q \in Storing \ rewound : at[q] # b.off
      BY <3>1 DEF Full, SavedOK
    <3>3. \A b \in kept' : \A q \in Storing' \ rewound' : at'[q] # b.off
      BY <1>1, <1>2, <1>5, <2>2, <2>5, <2>6, <3>1, <3>2
    <3> QED BY <1>7, <3>3 DEF SavedOK
  <2> QED BY <1>3, <1>4, <2>3, <2>4, <2>7, <2>8
<1> QED BY <1>10, <1>11

LEMMA StoreFull == ASSUME Full, NEW p \in Proc, Store(p)
  PROVE  Bounded(file') /\ Bounded(disk') /\ RegionsOK' /\ Budget' /\ Fresh' /\ SavedOK'
<1>1. /\ pc \in [Proc -> Label] /\ pc[p] = "store" /\ p \in Storing /\ RegionsOK
      /\ own \in [Proc -> SUBSET Page] /\ at \in [Proc -> 0..MaxSize]
      /\ mapped \in [Proc -> Size] /\ Bounded(file) /\ Bounded(disk)
  BY DEF Full, RegionsOK, Store, Storing
<1>2. CASE ~(at[p] < mapped[p] /\ at[p] < file.size)
  <2>1. pc' = [q \in Proc |-> IF q \in {p} THEN "idle" ELSE pc[q]]
    BY <1>1, <1>2 DEF Store, Go
  <2>2. Forget({p}) /\ UNCHANGED <<file, disk, stores, kept, smashed>>
    BY <1>2 DEF Store
  <2> QED BY <2>1, <2>2, EndFull
<1>3. CASE at[p] < mapped[p] /\ at[p] < file.size
  <2>1. /\ stores' = stores + 1 /\ pc' = [pc EXCEPT ![p] = "ready"]
        /\ at' = [at EXCEPT ![p] = 0]
        /\ kept' = IF p \in rewound THEN {b \in kept : b.off # at[p]} ELSE kept
        /\ UNCHANGED <<total, mapped, left, disk, shrunk, rewound, smashed>>
    BY <1>3 DEF Store, Go
  <2>2. Storing' = Storing \ {p}
    BY <1>1, <2>1 DEF Storing
  <2>3. Budget' /\ stores \in Nat /\ stores + 1 \in 0..MaxStores
    <3>1. stores \in Nat /\ IsFiniteSet(Storing) /\ stores + Cardinality(Storing) <= MaxStores
      BY DEF Full, Budget
    <3>2. IsFiniteSet(Storing') /\ Cardinality(Storing') = Cardinality(Storing) - 1
      BY <1>1, <2>2, <3>1, FS_RemoveElement
    <3>3. Cardinality(Storing) \in Nat /\ Cardinality(Storing') \in Nat
      BY <3>1, <3>2, FS_CardinalityType
    <3> QED BY <2>1, <3>1, <3>2, <3>3, FileAssumption DEF Budget
  <2>4. ASSUME own' \in [Proc -> SUBSET Page], \A q \in Proc \ {p} : own'[q] = own[q]
        PROVE  RegionsOK'
    <3>1. at' \in [Proc -> 0..MaxSize]
      BY <1>1, <2>1, MaxSizeFacts
    <3>2. pc' \in [Proc -> Label] /\ pc'[p] = "ready" /\ \A q \in Proc \ {p} : pc'[q] = pc[q]
      BY <1>1, <2>1 DEF Label
    <3>3. \A q \in Proc : pc'[q] \in {"ready", "store", "check"} => mapped'[q] > 0
      BY <1>1, <2>1, <3>2 DEF RegionsOK
    <3>4. \A q \in Proc : pc'[q] \notin {"ready", "store"} => own'[q] = {}
      BY <1>1, <2>4, <3>2 DEF RegionsOK
    <3> QED BY <1>1, <2>1, <2>4, <3>1, <3>2, <3>3, <3>4 DEF RegionsOK
  <2>5. CASE at[p] = 0
    <3>1. PICK h \in Garbage : file' = [file EXCEPT !.header = h] /\ own' = own
      BY <1>3, <2>5 DEF Store
    <3>2. h \in Header /\ h.total \in Size
      BY <3>1, MaxSizeFacts DEF Garbage, Header, Size
    <3>3. Bounded(file')
      BY <1>1, <3>1, <3>2, NewHeader
    <3>4. smashed
      BY <1>1, <2>5 DEF Full, Fresh
    <3>5. Fresh' /\ SavedOK'
      BY <2>1, <3>4 DEF Fresh, SavedOK, Saved
    <3> QED BY <1>1, <2>1, <2>3, <2>4, <3>1, <3>3, <3>5
  <2>6. CASE at[p] # 0
    <3>1. /\ file' = [file EXCEPT !.page[at[p]] = stores + 1]
          /\ own' = [own EXCEPT ![p] = own[p] \cup {at[p]}]
      BY <1>3, <2>6 DEF Store
    <3>2. at[p] \in Page
      <4>0. at[p] \in 0..MaxSize /\ mapped[p] \in Size
        BY <1>1
      <4>1. mapped[p] \in Nat /\ mapped[p] <= MaxSize /\ MaxSize \in Nat
        BY <4>0, MaxSizeFacts
      <4>2. at[p] \in Nat
        BY <4>0, <4>1
      <4> QED BY <1>3, <2>6, <4>1, <4>2 DEF Page
    <3>3. /\ Bounded(file') /\ file'.size = file.size /\ file'.header = file.header
          /\ file'.page = [file.page EXCEPT ![at[p]] = stores + 1]
      BY <1>1, <1>3, <2>3, <3>1, <3>2, NewPage
    <3>4. /\ own'[p] = own[p] \cup {at[p]} /\ own' \in [Proc -> SUBSET Page]
          /\ \A q \in Proc \ {p} : own'[q] = own[q] /\ at'[q] = at[q]
      BY <1>1, <2>1, <3>1, <3>2
    <3>5. RegionsOK'
      BY <2>4, <3>4
    <3>6. \A q \in Storing' : q \in Storing /\ q \in Proc /\ q # p /\ at'[q] = at[q]
      BY <2>2, <3>4 DEF Storing
    <3>7. Fresh'
      <4> SUFFICES ASSUME ~smashed PROVE Fresh'
        BY <2>1 DEF Fresh
      <4>1. /\ \A q \in Storing : at[q] > 0
            /\ \A q \in Proc \ shrunk : \A i \in own[q] : i < file.size
            /\ \A q \in Proc \ rewound : \A i \in own[q] : i < file.header.current
            /\ \A q \in Storing \ rewound : at[q] < file.header.current
            /\ \A q, r \in Proc \ rewound : q # r =>
                 /\ own[q] \cap own[r] = {}
                 /\ q \in Storing => at[q] \notin own[r]
                 /\ q \in Storing /\ r \in Storing => at[q] # at[r]
        BY DEF Full, Fresh
      <4>2. \A q \in Storing' : at'[q] > 0
        BY <3>6, <4>1
      <4>3. /\ \A q \in Proc \ shrunk' : \A i \in own'[q] : i < file'.size
            /\ \A q \in Proc \ rewound' : \A i \in own'[q] : i < file'.header.current
        BY <1>1, <1>3, <2>1, <3>3, <3>4, <4>1
      <4>4. \A q \in Storing' \ rewound' : at'[q] < file'.header.current
        BY <2>1, <3>3, <3>6, <4>1
      <4>5. ASSUME NEW q \in Proc \ rewound', NEW r \in Proc \ rewound', q # r
            PROVE  /\ own'[q] \cap own'[r] = {}
                   /\ q \in Storing' => at'[q] \notin own'[r]
                   /\ q \in Storing' /\ r \in Storing' => at'[q] # at'[r]
        <5>1. own'[q] \cap own'[r] = {}
          BY <1>1, <2>1, <3>4, <4>1, <4>5
        <5>2. q \in Storing' => at'[q] \notin own'[r]
          BY <1>1, <2>1, <3>4, <3>6, <4>1, <4>5
        <5>3. q \in Storing' /\ r \in Storing' => at'[q] # at'[r]
          BY <2>1, <3>6, <4>1, <4>5
        <5> QED BY <5>1, <5>2, <5>3
      <4> QED BY <4>2, <4>3, <4>4, <4>5 DEF Fresh
    <3>8. SavedOK'
      <4> SUFFICES ASSUME ~smashed PROVE SavedOK'
        BY <2>1 DEF SavedOK, Saved
      <4>1. /\ Saved(file) /\ Saved(disk)
            /\ \A b \in kept : \A q \in Storing \ rewound : at[q] # b.off
        BY DEF Full, SavedOK
      <4>2. \A b \in kept' : b \in kept /\ b.off # at[p]
        BY <1>1, <2>1, <4>1
      <4>3. file.page \in [Page -> 0..MaxStores]
        BY <1>1 DEF Bounded
      <4>4. \A b \in kept' : b.off \in Page /\ file'.page[b.off] = file.page[b.off]
        BY <3>3, <4>1, <4>2, <4>3 DEF Saved
      <4>5. Saved(file)'
        BY <2>1, <3>3, <4>1, <4>2, <4>4 DEF Saved
      <4>6. Saved(disk)'
        BY <2>1, <4>1, <4>2 DEF Saved
      <4>7. \A b \in kept' : \A q \in Storing' \ rewound' : at'[q] # b.off
        BY <2>1, <3>6, <4>1, <4>2
      <4> QED BY <4>5, <4>6, <4>7 DEF SavedOK
    <3> QED BY <1>1, <2>1, <2>3, <3>3, <3>5, <3>7, <3>8
  <2> QED BY <2>5, <2>6
<1> QED BY <1>2, <1>3

\* msync makes the blocks durable whether or not it covers all of the file.
LEMMA DropFull == ASSUME Full, NEW p \in Proc, Drop(p)
  PROVE  Bounded(file') /\ Bounded(disk') /\ RegionsOK' /\ Budget' /\ Fresh' /\ SavedOK'
<1>1. /\ RegionsOK /\ pc \in [Proc -> Label] /\ pc[p] = "ready"
      /\ Bounded(file) /\ Bounded(disk) /\ file \in File /\ disk \in File
  BY DEF Full, RegionsOK, Bounded, Drop
<1>2. /\ pc' = [q \in Proc |-> IF q \in {p} THEN "idle" ELSE pc[q]]
      /\ Forget({p}) /\ UNCHANGED <<file, stores, smashed>>
  BY <1>1 DEF Drop, Go
<1>3. CASE UNCHANGED <<disk, kept>>
  BY <1>2, <1>3, EndFull
<1>4. CASE disk' = Synced(total[p]) /\ kept' = kept \cup Kept(p)
  <2>1. /\ RegionsOK' /\ Budget' /\ Storing' = Storing \ {p}
        /\ \A q \in Proc \ {p} : own'[q] = own[q] /\ at'[q] = at[q]
        /\ \A q \in {p} : own'[q] = {}
        /\ shrunk' = shrunk \ {p} /\ rewound' = rewound \ {p}
    BY <1>2, EndRegions
  <2>2. p \notin Storing /\ Storing \subseteq Proc
    BY <1>1 DEF Storing
  <2>3. Fresh'
    BY <1>2, <2>1, EndFresh
  <2> DEFINE n == total[p]
  <2>4. /\ disk'.size = file.size
        /\ disk'.header = IF n > 0 THEN file.header ELSE disk.header
        /\ disk'.page = [i \in Page |-> IF i >= file.size THEN 0
                              ELSE IF i < n THEN file.page[i] ELSE disk.page[i]]
    BY <1>4 DEF Synced
  <2>5. n \in Nat /\ file.size \in Nat
    BY <1>1, MaxSizeFacts DEF RegionsOK, File
  <2>6. Bounded(disk')
    <3>1. disk'.page \in [Page -> 0..MaxStores]
      BY <1>1, <2>4, FileAssumption DEF Bounded
    <3>2. \A i \in Page : i >= disk'.size => disk'.page[i] = 0
      BY <2>4, <2>5
    <3>3. disk'.size \in Size /\ disk'.header.total \in Size /\ disk'.header \in Header
      BY <1>1, <2>4 DEF Bounded, File
    <3>4. disk' \in File
      <4>1. disk'.page \in [Page -> Nat]
        BY <3>1, FileAssumption
      <4>2. disk' = [size |-> disk'.size, header |-> disk'.header, page |-> disk'.page]
        BY <1>4 DEF Synced
      <4> QED BY <2>4, <2>5, <3>3, <4>1, <4>2 DEF File
    <3> QED BY <3>1, <3>2, <3>3, <3>4 DEF Bounded
  <2>7. SavedOK'
    <3> SUFFICES ASSUME ~smashed PROVE SavedOK'
      BY <1>2 DEF SavedOK, Saved
    <3>1. ASSUME NEW b \in kept
          PROVE  /\ b.off \in Page /\ b.off < file.size
                 /\ file.page[b.off] = b.val /\ file.header.current > b.off
                 /\ disk.page[b.off] = b.val /\ disk.header.current > b.off
                 /\ \A q \in Storing \ rewound : at[q] # b.off
      BY DEF Full, SavedOK, Saved
    <3>2. ASSUME NEW b \in Kept(p)
          PROVE  /\ b.off \in Page /\ b.off < file.size /\ b.off < n
                 /\ file.page[b.off] = b.val /\ file.header.current > b.off
                 /\ \A q \in Storing \ rewound : at[q] # b.off
      <4>0. p \notin shrunk /\ p \notin rewound
        BY DEF Kept
      <4>1. PICK i \in own[p] : i < n /\ b = [off |-> i, val |-> file.page[i]]
        BY <4>0 DEF Kept
      <4>2. i \in Page /\ i < file.size /\ i < file.header.current
        BY <4>0 DEF Full, RegionsOK, Fresh
      <4>3. file.header.current \in Nat /\ i \in Nat
        BY <1>1, <4>2, MaxSizeFacts DEF File, Header
      <4>4. \A q \in Storing \ rewound : at[q] # i
        BY <2>2, <4>0 DEF Full, Fresh
      <4> QED BY <2>5, <4>1, <4>2, <4>3, <4>4
    <3>3. ASSUME NEW b \in kept'
          PROVE  /\ b.off \in Page /\ b.off < file.size
                 /\ file.page[b.off] = b.val /\ file.header.current > b.off
                 /\ disk'.page[b.off] = b.val /\ disk'.header.current > b.off
                 /\ \A q \in Storing \ rewound : at[q] # b.off
      <4>1. CASE b \in kept
        BY <2>4, <2>5, <3>1, <4>1, MaxSizeFacts
      <4>2. CASE b \in Kept(p)
        BY <2>4, <2>5, <3>2, <4>2, MaxSizeFacts
      <4> QED BY <1>4, <4>1, <4>2
    <3>4. Saved(file)' /\ Saved(disk)'
      BY <1>2, <2>4, <3>3 DEF Saved
    <3>5. \A b \in kept' : \A q \in Storing' \ rewound' : at'[q] # b.off
      BY <2>1, <2>2, <3>3
    <3> QED BY <3>4, <3>5 DEF SavedOK
  <2> QED BY <1>1, <1>2, <2>1, <2>3, <2>6, <2>7
<1> QED BY <1>3, <1>4 DEF Drop

LEMMA WriteBackFull == ASSUME Full, WriteBack
  PROVE  Bounded(file') /\ Bounded(disk') /\ RegionsOK' /\ Budget' /\ Fresh' /\ SavedOK'
<1>1. file \in File /\ disk \in File /\ Bounded(file) /\ Bounded(disk)
  BY DEF Full, Bounded
<1>2. UNCHANGED <<file, pc, total, mapped, left, at, own, stores, kept, shrunk, rewound, smashed>>
  BY DEF WriteBack
<1>3. RegionsOK' /\ Budget' /\ Fresh' /\ Storing' = Storing
  BY <1>2 DEF Full, RegionsOK, Budget, Fresh, Storing
<1>4. /\ file.size \in Size /\ file.size \in Nat /\ file.header \in Header
      /\ file.header.total \in Size
      /\ disk.page \in [Page -> 0..MaxStores] /\ file.page \in [Page -> 0..MaxStores]
  BY <1>1 DEF Bounded, File
<1>5. ASSUME disk'.header \in {file.header, disk.header},
             \A i \in Page : i < file.size /\ i < disk.size =>
               i < disk'.size /\ disk'.page[i] \in {file.page[i], disk.page[i]}
      PROVE  SavedOK'
  <2>1. Saved(file) /\ Saved(disk)
    BY DEF Full, SavedOK
  <2>2. Saved(file)' /\ Saved(disk)'
    BY <1>2, <1>5, <2>1 DEF Saved
  <2> QED BY <1>2, <1>3, <2>2 DEF Full, SavedOK
<1>6. ASSUME disk' = Resized(disk, file.size) PROVE Bounded(disk') /\ SavedOK'
  <2>1. /\ Bounded(disk') /\ disk'.size = file.size /\ disk'.header = disk.header
        /\ disk'.page = [i \in Page |-> IF i < file.size THEN disk.page[i] ELSE 0]
    BY <1>1, <1>4, <1>6, NewSize
  <2>2. \A i \in Page : i < file.size /\ i < disk.size =>
          i < disk'.size /\ disk'.page[i] \in {file.page[i], disk.page[i]}
    BY <2>1
  <2> QED BY <1>5, <2>1, <2>2
<1>7. ASSUME disk' = [disk EXCEPT !.header = file.header] PROVE Bounded(disk') /\ SavedOK'
  <2>1. /\ Bounded(disk') /\ disk'.size = disk.size /\ disk'.page = disk.page
        /\ disk'.header = file.header
    BY <1>1, <1>4, <1>7, NewHeader
  <2> QED BY <1>5, <2>1
<1>8. ASSUME NEW j \in Page, j < disk.size, disk' = [disk EXCEPT !.page[j] = file.page[j]]
      PROVE  Bounded(disk') /\ SavedOK'
  <2>1. file.page[j] \in 0..MaxStores
    BY <1>4
  <2>2. /\ Bounded(disk') /\ disk'.size = disk.size /\ disk'.header = disk.header
        /\ disk'.page = [disk.page EXCEPT ![j] = file.page[j]]
    BY <1>1, <1>8, <2>1, NewPage
  <2>3. \A i \in Page : i < file.size /\ i < disk.size =>
          i < disk'.size /\ disk'.page[i] \in {file.page[i], disk.page[i]}
    BY <1>4, <2>2
  <2> QED BY <1>5, <2>2, <2>3
<1>9. Bounded(disk') /\ SavedOK'
  BY <1>6, <1>7, <1>8 DEF WriteBack
<1> QED BY <1>1, <1>2, <1>3, <1>9

\* The disk becomes the file, and nobody has a region.
LEMMA PowerCrashFull == ASSUME Full, PowerCrash
  PROVE  Bounded(file') /\ Bounded(disk') /\ RegionsOK' /\ Budget' /\ Fresh' /\ SavedOK'
<1>1. /\ file' = disk /\ Forget(Proc) /\ UNCHANGED <<disk, stores, kept, smashed>>
      /\ pc' = [p \in Proc |-> IF p \in Proc THEN "idle" ELSE pc[p]]
  BY DEF PowerCrash
<1>2. /\ RegionsOK' /\ Budget' /\ Storing' = Storing \ Proc
      /\ \A p \in Proc : own'[p] = {}
  BY <1>1, EndRegions
<1>3. Storing' = {}
  BY <1>2 DEF Storing
<1>4. Fresh'
  BY <1>2, <1>3 DEF Fresh
<1>5. SavedOK'
  BY <1>1, <1>3 DEF Full, SavedOK, Saved
<1> QED BY <1>1, <1>2, <1>4, <1>5 DEF Full

LEMMA NextFull == Full /\ [Next]_vars => Full'
<1> SUFFICES ASSUME Full, [Next]_vars PROVE Full'
  OBVIOUS
<1> DEFINE Rest ==
     Bounded(file') /\ Bounded(disk') /\ RegionsOK' /\ Budget' /\ Fresh' /\ SavedOK'
<1>t. /\ pc \in [Proc -> Label] /\ total \in [Proc -> Size] /\ mapped \in [Proc -> Size]
      /\ left \in [Proc -> SUBSET Field]
      /\ file.size \in Size /\ file.header.total \in Size
  BY DEF Full, RegionsOK, Bounded
<1>1. ASSUME NEW p \in Proc, NEW n \in Sizes, New(p, n) PROVE Rest
  <2>1. /\ pc[p] = "idle" /\ pc' = [pc EXCEPT ![p] = "truncate"]
        /\ total' = [total EXCEPT ![p] = n]
        /\ UNCHANGED <<file, disk, mapped, left, at, own, stores, kept, shrunk, rewound, smashed>>
    BY <1>1 DEF New, Go
  <2>2. /\ total' \in [Proc -> Size] /\ mapped' \in [Proc -> Size]
        /\ left' \in [Proc -> SUBSET Field]
    BY <1>t, <2>1 DEF Size
  <2>3. "truncate" \in Label \ {"store"}
    BY DEF Label
  <2> QED BY <2>1, <2>2, <2>3, MoveFull
<1>2. ASSUME NEW p \in Proc, Map(p) PROVE Rest
  <2>1. /\ pc[p] = "map" /\ pc' = [pc EXCEPT ![p] = "header"]
        /\ mapped' \in {[mapped EXCEPT ![p] = total[p]], mapped}
        /\ left' = [left EXCEPT ![p] = {"magic", "current", "total"}]
        /\ UNCHANGED <<file, disk, total, at, own, stores, kept, shrunk, rewound, smashed>>
    BY <1>2 DEF Map, Go
  <2>2. /\ total' \in [Proc -> Size] /\ mapped' \in [Proc -> Size]
        /\ left' \in [Proc -> SUBSET Field]
        /\ \A q \in Proc \ {p} : mapped'[q] = mapped[q]
    BY <1>t, <2>1 DEF Field
  <2>3. "header" \in Label \ {"store"}
    BY DEF Label
  <2> QED BY <2>1, <2>2, <2>3, MoveFull
<1>3. ASSUME NEW p \in Proc, Fault(p) PROVE Rest
  <2>1. pc' = [q \in Proc |-> IF q \in {p} THEN "idle" ELSE pc[q]]
    BY <1>t, <1>3 DEF Fault, Go
  <2>2. Forget({p}) /\ UNCHANGED <<file, disk, stores, kept, smashed>>
    BY <1>3 DEF Fault
  <2> QED BY <2>1, <2>2, EndFull
<1>4. ASSUME NEW p \in Proc, Load(p) PROVE Rest
  <2>1. /\ pc[p] = "idle" /\ pc' = [pc EXCEPT ![p] = "check"] /\ file.size > 0
        /\ mapped' = [mapped EXCEPT ![p] = file.size]
        /\ UNCHANGED <<file, disk, total, left, at, own, stores, kept, shrunk, rewound, smashed>>
    BY <1>4 DEF Load, Go
  <2>2. /\ total' \in [Proc -> Size] /\ mapped' \in [Proc -> Size] /\ mapped'[p] > 0
        /\ left' \in [Proc -> SUBSET Field]
        /\ \A q \in Proc \ {p} : mapped'[q] = mapped[q]
    BY <1>t, <2>1
  <2>3. "check" \in Label \ {"store"}
    BY DEF Label
  <2> QED BY <2>1, <2>2, <2>3, MoveFull
<1>5. ASSUME NEW p \in Proc, Check(p) PROVE Rest
  <2>1. CASE Accepts(file.header, mapped[p])
    <3>1. /\ pc[p] = "check" /\ pc' = [pc EXCEPT ![p] = "ready"]
          /\ total' = [total EXCEPT ![p] = file.header.total]
          /\ UNCHANGED <<file, disk, mapped, left, at, own, stores, kept, shrunk, rewound, smashed>>
      BY <1>5, <2>1 DEF Check, Go
    <3>2. /\ total' \in [Proc -> Size] /\ mapped' \in [Proc -> Size] /\ mapped'[p] > 0
          /\ left' \in [Proc -> SUBSET Field]
      BY <1>t, <3>1 DEF Full, RegionsOK
    <3>3. "ready" \in Label \ {"store"}
      BY DEF Label
    <3> QED BY <3>1, <3>2, <3>3, MoveFull
  <2>2. CASE ~Accepts(file.header, mapped[p])
    <3>1. pc' = [q \in Proc |-> IF q \in {p} THEN "reject" ELSE pc[q]]
      BY <1>t, <1>5, <2>2 DEF Check, Go
    <3>2. Forget({p}) /\ UNCHANGED <<file, disk, stores, kept, smashed>>
      BY <1>5, <2>2 DEF Check
    <3> QED BY <3>1, <3>2, EndFull
  <2> QED BY <2>1, <2>2
<1>6. ASSUME NEW p \in Proc, Report(p) PROVE Rest
  <2>1. PICK l \in {"idle", "died"} : pc' = [pc EXCEPT ![p] = l]
    BY <1>6 DEF Report, Go
  <2>2. /\ pc[p] = "reject"
        /\ UNCHANGED <<file, disk, total, mapped, left, at, own, stores, kept, shrunk, rewound, smashed>>
    BY <1>6 DEF Report
  <2>3. /\ l \in Label \ {"store"} /\ l \notin {"ready", "check"}
        /\ total' \in [Proc -> Size] /\ mapped' \in [Proc -> Size]
        /\ left' \in [Proc -> SUBSET Field]
        /\ \A q \in Proc \ {p} : mapped'[q] = mapped[q]
    BY <1>t, <2>2 DEF Label
  <2> QED BY <2>1, <2>2, <2>3, MoveFull
<1>7. ASSUME NEW p \in Proc, ProcessCrash(p) PROVE Rest
  <2>1. pc' = [q \in Proc |-> IF q \in {p} THEN "idle" ELSE pc[q]]
    BY <1>t, <1>7 DEF ProcessCrash, Go
  <2>2. Forget({p}) /\ UNCHANGED <<file, disk, stores, kept, smashed>>
    BY <1>7 DEF ProcessCrash
  <2> QED BY <2>1, <2>2, EndFull
<1>8. ASSUME UNCHANGED vars PROVE Rest
  <2>1. /\ UNCHANGED <<file, disk, own, at, stores, kept, shrunk, rewound, smashed>>
        /\ pc' = pc /\ total' = total /\ mapped' = mapped /\ left' = left
    BY <1>8 DEF vars
  <2>2. Storing' = Storing /\ RegionsOK' /\ Bounded(file')
    BY <2>1 DEF Storing, Full, RegionsOK
  <2> QED BY <2>1, <2>2, QuietFull
<1>9. Rest
  BY <1>1, <1>2, <1>3, <1>4, <1>5, <1>6, <1>7, <1>8, TruncateFull, WriteHeaderFull,
     AllocateFull, StoreFull, DropFull, WriteBackFull, PowerCrashFull DEF Next
<1>10. Bounded(file)' /\ Bounded(disk)'
  BY <1>9 DEF Bounded
<1> QED BY <1>9, <1>10 DEF Full

LEMMA FullHolds == Spec => []Full
  BY InitFull, NextFull, PTL DEF Spec

\* Every file, mapping and block stays within the sizes that new was called with,
\* pages behind the end are zero, and a region in use has a mapping.
THEOREM TypeCorrect == Spec => []TypeOK
<1>1. ASSUME Full PROVE TypeOK
  <2>1. \A f \in {file, disk} :
          /\ f.size \in {0} \cup Sizes /\ f.header \in Header
          /\ f.page \in [Page -> 0..MaxStores]
          /\ \A i \in Page : i >= f.size => f.page[i] = 0
    BY <1>1 DEF Full, Bounded, Size, File
  <2>2. RegionsOK
    BY <1>1 DEF Full
  <2>3. stores \in 0..MaxStores
    <3>1. /\ stores \in Nat /\ IsFiniteSet(Storing)
          /\ stores + Cardinality(Storing) <= MaxStores
      BY <1>1 DEF Full, Budget
    <3>2. Cardinality(Storing) \in Nat
      BY <3>1, FS_CardinalityType
    <3> QED BY <3>1, <3>2, FileAssumption
  <2> QED BY <2>1, <2>2, <2>3 DEF TypeOK, RegionsOK, Label, Size, Field
<1> QED BY <1>1, FullHolds, PTL

\* Processes that have the file mapped at the same time write to different blocks,
\* whatever crashed before and wherever inside new or load: all but the regions that
\* were open when another's new stored current, and as long as no block was handed
\* out on a header that new did not complete (new, load, allocate).
THEOREM HandlesDisjointHolds == Spec => []HandlesDisjoint
<1>1. Full => HandlesDisjoint
  BY DEF Full, Fresh, HandlesDisjoint
<1> QED BY <1>1, FullHolds, PTL

\* What was written before a drop that synced it survives every crash of a process
\* or of the machine, and is not handed out again, under the provisos that
\* DroppedSurvives names (drop, load, allocate).
THEOREM DroppedSurvivesHolds == Spec => []DroppedSurvives
<1>1. Full => DroppedSurvives
  BY DEF Full, SavedOK, Saved, DroppedSurvives
<1> QED BY <1>1, FullHolds, PTL
=============================================================================
