----------------------------- MODULE PMMProofs -----------------------------
(* Proofs about PMM, for every size of memory and every memory map.        *)
EXTENDS PMM, FiniteSetTheorems, SequenceTheorems, TLAPS

(* Before the walk nothing is marked in the part the loop cleared; without *)
(* a bitmap nobody holds a page; and boot asks for none.                   *)
Untouched ==
  /\ phase = "off" => total_pages = 0
  /\ phase = "walk" => total_pages = TotalPages /\ used \cap ZeroedPages = {}
  /\ (phase # "ready" \/ total_pages = 0) => held = {} /\ ~early_alloc
  /\ phase # "ready" => ~refused

IInv == TypeOK /\ Untouched /\ PagesAccountedFor

-----------------------------------------------------------------------------
(* The sizes of memory, as numbers.                                         *)
LEMMA SizesAreNat ==
  /\ TotalPages \in Nat
  /\ KernelEndPage < TotalPages
  /\ ReservedPages \subseteq BitPages
  /\ NULL \in ReservedPages
<1>1. TotalPages \in Int
  BY SizesAssumption DEF TotalPages
<1> QED
  BY <1>1, SizesAssumption DEF ReservedPages, BitPages, NULL

(* Arithmetic of size_t stays in its range.                                *)
LEMMA SizeWraps == \A x \in Int : x % AddrSpace \in 0 .. AddrSpace - 1
  BY SizesAssumption

(* Every page the allocator may hand out has a bit.                         *)
LEMMA WindowIsCovered ==
  ASSUME TypeOK
  PROVE  Window \subseteq BitPages
<1>1. total_pages \in Nat /\ total_pages <= TotalPages
  BY SizesAreNat DEF TypeOK
<1>2. CASE early_alloc
  <2>1. Window = 0 .. EarlyEnd - 1
    BY <1>2 DEF Window
  <2> QED  BY <2>1, SizesAreNat, SizesAssumption DEF BitPages
<1>3. CASE ~early_alloc
  <2>1. Window = 0 .. total_pages - 1
    BY <1>3 DEF Window
  <2> QED  BY <2>1, <1>1, SizesAreNat DEF BitPages
<1> QED  BY <1>2, <1>3

(* What the walk counts for an entry is a number, whatever the map says.   *)
LEMMA EntryPagesCounted ==
  ASSUME TypeOK, pos < MapLength, NEW S, S \subseteq EntryPages(EntryAt(mmap, pos))
  PROVE  Cardinality(S) \in Nat
<1> DEFINE e == EntryAt(mmap, pos)
           base == Align((e.addr + PageSize - 1) % Wide)
           len == Align((e.len - (base - e.addr)) % Wide)
           first == base \div PageSize
           last == (base + len) \div PageSize - 1
<1>1. e.addr \in Int /\ e.len \in Int
  <2>1. pos + 1 \in 1 .. Len(mmap) /\ pos + 2 \in 1 .. Len(mmap)
    BY DEF TypeOK, MapLength
  <2>2. mmap[pos + 1] \in 0 .. Wide - 1 /\ mmap[pos + 2] \in 0 .. Wide - 1
    BY <2>1, ElementOfSeq DEF TypeOK
  <2> QED  BY <2>2, SizesAssumption DEF EntryAt
<1>2. \A x \in Int : x % Wide \in Int /\ Align(x) \in Int /\ x \div PageSize \in Int
  <2>1. Wide \in Nat \ {0}
    BY SizesAssumption
  <2> QED  BY <2>1, SizesAssumption DEF Align
<1>3. base \in Int
  <2>1. e.addr + PageSize - 1 \in Int
    BY <1>1, SizesAssumption
  <2> QED  BY <2>1, <1>2
<1>4. len \in Int
  <2>1. e.len - (base - e.addr) \in Int
    BY <1>1, <1>3
  <2> QED  BY <2>1, <1>2
<1>5. first \in Int /\ last \in Int
  BY <1>2, <1>3, <1>4
<1>6. IsFiniteSet(first .. last)
  BY <1>5, FS_Interval
<1>7. EntryPages(e) = first .. last
  BY DEF EntryPages
<1> QED
  BY <1>6, <1>7, FS_Subset, FS_CardinalityType

-----------------------------------------------------------------------------
(* At reset nobody holds a page.                                            *)
LEMMA InitIInv == Init => IInv
<1> SUFFICES ASSUME Init PROVE IInv
  OBVIOUS
<1>1. mmap \in Seq(0 .. Wide - 1) /\ Len(mmap) \in Nat
  BY InputsAssumption DEF Init
<1>2. used \subseteq BitPages
  BY InputsAssumption DEF Init
<1>3. pos \in 0 .. Len(mmap) + 1 /\ free_pages \in 0 .. AddrSpace - 1
  BY <1>1, SizesAssumption DEF Init
<1>4. TypeOK
  BY <1>1, <1>2, <1>3 DEF Init, TypeOK
<1> QED  BY <1>4 DEF Init, IInv, Untouched, PagesAccountedFor

(* The allocation a client sees, once the kernel runs.                     *)
LEMMA AllocTakesFreePage ==
  ASSUME IInv, AllocPage
  PROVE  \/ UNCHANGED <<used, held, free_pages>> /\ refused' = TRUE /\ Window \subseteq used
         \/ \E page \in Window \ used :
              /\ total_pages > 0 /\ page \in BitPages \ (ReservedPages \cup held)
              /\ used' = used \cup {page} /\ held' = held \cup {page}
              /\ free_pages' \in 0 .. AddrSpace - 1
              /\ free_pages' = (free_pages - 1) % AddrSpace
              /\ refused' = FALSE
<1>1. PICK page \in {NULL} \cup Window :
        pmm_alloc_page(page) /\ held' = held \cup ({page} \ {NULL})
  BY DEF AllocPage
<1>2. CASE Window \subseteq used /\ page = NULL /\ refused' = TRUE /\ UNCHANGED <<used, free_pages>>
  BY <1>1, <1>2
<1>3. CASE /\ page \in Window \ used /\ used' = used \cup {page}
           /\ free_pages' = (free_pages - 1) % AddrSpace /\ refused' = FALSE
  <2>1. total_pages > 0
    <3>1. total_pages = 0 => ~early_alloc
      BY DEF IInv, Untouched
    <3>2. total_pages = 0 => Window = {}
      BY <3>1 DEF Window
    <3> QED  BY <3>2, <1>3, SizesAreNat DEF IInv, TypeOK
  <2>2. page \notin ReservedPages \cup held /\ page # NULL
    BY <2>1, <1>3, SizesAreNat DEF IInv, PagesAccountedFor, AllocPage
  <2>3. page \in BitPages
    BY <1>3, WindowIsCovered DEF IInv
  <2>4. free_pages - 1 \in Int
    BY SizesAssumption DEF IInv, TypeOK
  <2> QED  BY <1>1, <1>3, <2>1, <2>2, <2>3, <2>4, SizeWraps
<1> QED  BY <1>1, <1>2, <1>3 DEF pmm_alloc_page

(* Every step keeps the invariant.                                          *)
LEMMA NextIInv == IInv /\ [Next]_vars => IInv'
<1> SUFFICES ASSUME IInv, [Next]_vars PROVE IInv'
  OBVIOUS
<1> USE DEF IInv
<1>1. CASE NoMemoryMap
  BY <1>1 DEF NoMemoryMap, TypeOK, Untouched, PagesAccountedFor
<1>2. CASE ClearBitmap
  <2>1. mmap' \in Seq(0 .. Wide - 1) /\ Len(mmap') = Len(mmap)
    <3>1. 0 \in 0 .. Wide - 1
      BY SizesAssumption
    <3>2. mmap' = mmap \/ mmap' = [i \in 1 .. Len(mmap) |-> 0]
      BY <1>2 DEF ClearBitmap, TypeOK
    <3>3. mmap \in Seq(0 .. Wide - 1) /\ Len(mmap) \in Nat
      BY DEF TypeOK
    <3> DEFINE zeroes == [i \in 1 .. Len(mmap) |-> 0]
    <3>4. zeroes \in [1 .. Len(mmap) -> 0 .. Wide - 1]
      BY <3>1
    <3>5. zeroes \in Seq(0 .. Wide - 1) /\ Len(zeroes) = Len(mmap)
      BY <3>3, <3>4, SeqDef
    <3> QED  BY <3>2, <3>3, <3>5
  <2>2. free_pages' \in 0 .. AddrSpace - 1
    BY <1>2, SizesAssumption DEF ClearBitmap
  <2>3. TypeOK'
    BY <1>2, <2>1, <2>2 DEF ClearBitmap, TypeOK
  <2>4. Untouched' /\ PagesAccountedFor'
    BY <1>2 DEF ClearBitmap, Untouched, PagesAccountedFor
  <2> QED  BY <2>3, <2>4
<1>3. CASE CountEntry
  <2>1. pos < MapLength
    BY <1>3 DEF CountEntry
  <2>2. free_pages' \in 0 .. AddrSpace - 1
    <3> DEFINE S == EntryPages(EntryAt(mmap, pos)) \ used
    <3>1. Cardinality(S) \in Nat
      BY <2>1, EntryPagesCounted
    <3>2. free_pages \in 0 .. AddrSpace - 1
      BY DEF TypeOK
    <3>3. (free_pages + Cardinality(S)) % AddrSpace \in 0 .. AddrSpace - 1
      BY <3>1, <3>2, SizeWraps, SizesAssumption, SMTT(20)
    <3> QED  BY <1>3, <3>2, <3>3 DEF CountEntry
  <2>3. pos' \in 0 .. Len(mmap) + 1
    BY <1>3, <2>1 DEF CountEntry, TypeOK, EntryStep, MapLength
  <2> QED  BY <1>3, <2>2, <2>3 DEF CountEntry, TypeOK, Untouched, PagesAccountedFor
<1>4. CASE ReserveKernel
  <2>1. used' = used \cup ReservedPages /\ held' = {} /\ total_pages' = TotalPages
    BY <1>4 DEF ReserveKernel, Untouched
  <2>2. free_pages' \in 0 .. AddrSpace - 1
    <3>1. IsFiniteSet(ReservedPages)
      BY FS_Interval, SizesAssumption DEF ReservedPages
    <3>2. Cardinality(ReservedPages \ used) \in Nat
      BY <3>1, FS_Subset, FS_CardinalityType
    <3>3. free_pages - Cardinality(ReservedPages \ used) \in Int
      BY <3>2, SizesAssumption DEF TypeOK
    <3> QED  BY <1>4, <3>3, SizeWraps DEF ReserveKernel
  <2>3. TypeOK'
    BY <1>4, <2>1, <2>2, SizesAreNat DEF ReserveKernel, TypeOK
  <2>4. Untouched' /\ PagesAccountedFor'
    BY <1>4, <2>1, SizesAreNat DEF ReserveKernel, Untouched, PagesAccountedFor
  <2> QED  BY <2>3, <2>4
<1>5. ASSUME NEW val \in BOOLEAN, SetEarlyAlloc(val) PROVE IInv'
  <2>1. /\ phase = "ready" /\ total_pages > 0 /\ early_alloc' = val /\ refused' = FALSE
        /\ UNCHANGED <<phase, mmap, pos, used, total_pages, free_pages, held>>
    BY <1>5 DEF SetEarlyAlloc
  <2>2. TypeOK'
    BY <2>1 DEF TypeOK
  <2>3. Untouched'
    BY <2>1 DEF Untouched
  <2>4. PagesAccountedFor'
    BY <2>1 DEF PagesAccountedFor
  <2> QED  BY <2>2, <2>3, <2>4
<1>6. CASE AllocPage
  <2>1. phase = "ready" /\ UNCHANGED <<phase, mmap, pos, total_pages, early_alloc>>
    BY <1>6 DEF AllocPage
  <2>2. CASE UNCHANGED <<used, held, free_pages>> /\ refused' = TRUE
    BY <2>1, <2>2 DEF TypeOK, Untouched, PagesAccountedFor
  <2>3. CASE \E page \in Window \ used :
               /\ total_pages > 0 /\ page \in BitPages \ (ReservedPages \cup held)
               /\ used' = used \cup {page} /\ held' = held \cup {page}
               /\ free_pages' \in 0 .. AddrSpace - 1
               /\ refused' = FALSE
    <3>1. TypeOK'
      BY <2>1, <2>3 DEF TypeOK
    <3>2. Untouched'
      BY <2>1, <2>3 DEF Untouched
    <3>3. PagesAccountedFor'
      BY <2>1, <2>3 DEF PagesAccountedFor
    <3> QED  BY <3>1, <3>2, <3>3
  <2> QED  BY <1>6, <2>2, <2>3, AllocTakesFreePage
<1>7. ASSUME NEW page \in held, FreePage(page) PROVE IInv'
  <2>1. phase = "ready" /\ UNCHANGED <<phase, mmap, pos, total_pages, early_alloc>>
    BY <1>7 DEF FreePage
  <2>2. total_pages > 0
    BY <2>1, SizesAreNat DEF Untouched, TypeOK
  <2>3. page \in used \ ReservedPages
    BY <2>1, <2>2 DEF PagesAccountedFor
  <2>4. used' = used \ {page} /\ held' = held \ {page} /\ refused' = FALSE
    BY <1>7, <2>3 DEF FreePage, pmm_free_page
  <2>5. free_pages' \in 0 .. AddrSpace - 1
    <3>1. free_pages + 1 \in Int
      BY SizesAssumption DEF TypeOK
    <3> QED  BY <1>7, <2>3, <3>1, SizeWraps DEF FreePage, pmm_free_page
  <2>6. PagesAccountedFor'
    BY <2>1, <2>2, <2>3, <2>4 DEF PagesAccountedFor
  <2> QED  BY <2>1, <2>2, <2>4, <2>5, <2>6 DEF TypeOK, Untouched
<1>8. CASE UNCHANGED vars
  BY <1>8 DEF vars, TypeOK, Untouched, PagesAccountedFor
<1> QED
  BY <1>1, <1>2, <1>3, <1>4, <1>5, <1>6, <1>7, <1>8 DEF Next

(* So it holds throughout.                                                  *)
LEMMA SpecIInv == Spec => []IInv
<1> QED  BY InitIInv, NextIInv, PTL DEF Spec

(* Every value the allocator's state can take, whatever the memory map.    *)
THEOREM PMMTypeCorrect == Spec => []TypeOK
<1>1. IInv => TypeOK
  BY DEF IInv
<1> QED  BY <1>1, SpecIInv, PTL

(* No page of the kernel's is ever handed out, no page is handed out while *)
(* it is held, and no page of the cleared bitmap is lost.                  *)
THEOREM PMMPagesAccountedFor == Spec => []PagesAccountedFor
<1>1. IInv => PagesAccountedFor
  BY DEF IInv
<1> QED  BY <1>1, SpecIInv, PTL

-----------------------------------------------------------------------------
(* What a client may rely on when it is given a page: nobody else has it,  *)
(* it lies in the window asked for, and no page is marked behind its back; *)
(* and when it is given none: every cleared page of the window is taken.   *)
THEOREM PMMAllocReturnsFreshPage == Spec => AllocReturnsFreshPage
<1> DEFINE Fresh ==
      \A p \in BitPages :
        /\ (p \in held' \ held) =>
              /\ p \notin held \cup used \cup ReservedPages
              /\ p < total_pages /\ (early_alloc => p < EarlyEnd)
              /\ \A q \in held' \ held : q = p
        /\ (p \in used' \ used /\ phase = "ready") => p \in held' \ held
    Null ==
      refused' => /\ UNCHANGED <<used, free_pages, held>>
                  /\ Window \subseteq used
                  /\ Window \cap ZeroedPages \subseteq ReservedPages \cup held
<1>1. ASSUME IInv, Next PROVE Fresh /\ Null
  <2>1. CASE NoMemoryMap \/ ClearBitmap \/ CountEntry \/ ReserveKernel
    <3>1. refused' = FALSE
      BY <1>1, <2>1
         DEF NoMemoryMap, ClearBitmap, CountEntry, ReserveKernel, IInv, Untouched, TypeOK
    <3> QED  BY <2>1, <3>1 DEF NoMemoryMap, ClearBitmap, CountEntry, ReserveKernel
  <2>2. CASE \E val \in BOOLEAN : SetEarlyAlloc(val)
    BY <2>2 DEF SetEarlyAlloc
  <2>3. CASE AllocPage
    <3>1. CASE UNCHANGED <<used, held, free_pages>> /\ refused' = TRUE /\ Window \subseteq used
      <4>1. CASE total_pages = 0
        <5>1. Window = {}
          BY <1>1, <4>1 DEF IInv, Untouched, Window
        <5> QED  BY <3>1, <5>1
      <4>2. CASE total_pages > 0
        <5>1. used \cap ZeroedPages = (ReservedPages \cup held) \cap ZeroedPages
          BY <1>1, <2>3, <4>2 DEF IInv, PagesAccountedFor, AllocPage
        <5> QED  BY <3>1, <5>1
      <4> QED  BY <1>1, <4>1, <4>2, SizesAreNat DEF IInv, TypeOK
    <3>2. CASE \E page \in Window \ used :
                 /\ total_pages > 0 /\ page \in BitPages \ (ReservedPages \cup held)
                 /\ used' = used \cup {page} /\ held' = held \cup {page}
                 /\ refused' = FALSE
      <4>1. PICK page \in Window \ used :
              /\ total_pages > 0 /\ page \in BitPages \ (ReservedPages \cup held)
              /\ used' = used \cup {page} /\ held' = held \cup {page}
        BY <3>2
      <4>2. total_pages = TotalPages
        BY <1>1, <4>1, SizesAreNat DEF IInv, TypeOK
      <4>3. page < total_pages /\ (early_alloc => page < EarlyEnd)
        BY <4>1, <4>2, SizesAreNat, SizesAssumption DEF Window
      <4> QED  BY <3>2, <4>1, <4>3
    <3> QED  BY <1>1, <2>3, <3>1, <3>2, AllocTakesFreePage
  <2>4. CASE \E page \in held : FreePage(page)
    BY <2>4 DEF FreePage, pmm_free_page
  <2> QED  BY <1>1, <2>1, <2>2, <2>3, <2>4 DEF Next
<1>2. IInv /\ [Next]_vars => [Fresh /\ Null]_vars
  BY <1>1
<1> QED  BY <1>2, SpecIInv, PTL DEF Spec, AllocReturnsFreshPage

(* Steps of one, taken modulo the size of size_t.                          *)
LEMMA CounterSteps ==
  ASSUME NEW f \in 0 .. AddrSpace - 1, NEW c \in Nat
  PROVE  /\ (((f - 1) % AddrSpace) - f + (c + 1) - c) % AddrSpace = 0
         /\ (((f + 1) % AddrSpace) - f + c - (c + 1)) % AddrSpace = 0
         /\ (f - f + c - c) % AddrSpace = 0
<1>0. AddrSpace \in Nat \ {0} /\ f \in Int
  BY SizesAssumption
<1>1. 0 % AddrSpace = 0 /\ AddrSpace % AddrSpace = 0 /\ (-AddrSpace) % AddrSpace = 0
  BY <1>0
<1>2. (f - 1) % AddrSpace = IF f = 0 THEN AddrSpace - 1 ELSE f - 1
  BY <1>0
<1>3. (f + 1) % AddrSpace = IF f = AddrSpace - 1 THEN 0 ELSE f + 1
  BY <1>0
<1>4. ((f - 1) % AddrSpace) - f + (c + 1) - c \in {0, AddrSpace}
  BY <1>0, <1>2
<1>5. ((f + 1) % AddrSpace) - f + c - (c + 1) \in {0, -AddrSpace}
  BY <1>0, <1>3
<1>6. f - f + c - c = 0
  BY <1>0
<1> QED  BY <1>1, <1>4, <1>5, <1>6

(* After boot the counter follows the bitmap, for every map and whatever   *)
(* the walk counted.                                                       *)
THEOREM PMMCountFollowsBitmap == Spec => CountFollowsBitmap
<1> DEFINE Follows ==
      phase = "ready" =>
        (free_pages' - free_pages + Cardinality(used') - Cardinality(used)) % AddrSpace = 0
<1>1. ASSUME IInv, [Next]_vars, phase = "ready" PROVE Follows
  <2>1. IsFiniteSet(used) /\ Cardinality(used) \in Nat
    <3>1. IsFiniteSet(BitPages)
      BY FS_Interval, SizesAreNat DEF BitPages
    <3>2. used \subseteq BitPages
      BY <1>1 DEF IInv, TypeOK
    <3> QED  BY <3>1, <3>2, FS_Subset, FS_CardinalityType
  <2>2. free_pages \in 0 .. AddrSpace - 1
    BY <1>1 DEF IInv, TypeOK
  <2>3. CASE UNCHANGED <<used, free_pages>>
    BY <2>1, <2>2, <2>3, CounterSteps
  <2>4. CASE \E page \in BitPages \ used :
               used' = used \cup {page} /\ free_pages' = (free_pages - 1) % AddrSpace
    <3>1. Cardinality(used') = Cardinality(used) + 1
      BY <2>1, <2>4, FS_AddElement
    <3> QED  BY <2>1, <2>2, <2>4, <3>1, CounterSteps
  <2>5. CASE \E page \in used :
               used' = used \ {page} /\ free_pages' = (free_pages + 1) % AddrSpace
    <3>1. IsFiniteSet(used') /\ Cardinality(used') \in Nat
      BY <2>1, <2>5, FS_Subset, FS_CardinalityType
    <3>2. Cardinality(used) = Cardinality(used') + 1
      BY <2>1, <2>5, FS_RemoveElement, <3>1
    <3>3. free_pages' - free_pages + Cardinality(used') - Cardinality(used)
            = ((free_pages + 1) % AddrSpace) - free_pages
              + Cardinality(used') - (Cardinality(used') + 1)
      BY <2>5, <3>2
    <3> QED  BY <2>2, <3>1, <3>3, CounterSteps
  <2>6. \/ UNCHANGED <<used, free_pages>>
        \/ \E page \in BitPages \ used :
             used' = used \cup {page} /\ free_pages' = (free_pages - 1) % AddrSpace
        \/ \E page \in used :
             used' = used \ {page} /\ free_pages' = (free_pages + 1) % AddrSpace
    <3>1. CASE AllocPage
      <4>1. CASE UNCHANGED <<used, held, free_pages>>
        BY <4>1
      <4>2. CASE \E page \in Window \ used :
                   /\ page \in BitPages \ (ReservedPages \cup held)
                   /\ used' = used \cup {page}
                   /\ free_pages' = (free_pages - 1) % AddrSpace
        BY <4>2
      <4> QED  BY <1>1, <3>1, <4>1, <4>2, AllocTakesFreePage
    <3>2. CASE \E page \in held : FreePage(page)
      BY <3>2 DEF FreePage, pmm_free_page
    <3>3. CASE (\E val \in BOOLEAN : SetEarlyAlloc(val)) \/ UNCHANGED vars
      BY <3>3 DEF SetEarlyAlloc, vars
    <3>4. ~(NoMemoryMap \/ ClearBitmap \/ CountEntry \/ ReserveKernel)
      BY <1>1 DEF NoMemoryMap, ClearBitmap, CountEntry, ReserveKernel
    <3> QED  BY <1>1, <3>1, <3>2, <3>3, <3>4 DEF Next
  <2> QED  BY <2>3, <2>4, <2>5, <2>6
<1>2. IInv /\ [Next]_vars => [Follows]_vars
  BY <1>1
<1> QED  BY <1>2, SpecIInv, PTL DEF Spec, CountFollowsBitmap

=============================================================================
