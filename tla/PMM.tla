-------------------------------- MODULE PMM --------------------------------
(***************************************************************************)
(* The physical page allocator (src/src/kernel/pmm.cpp): one bit per page, *)
(* a free-page counter that memstat prints, and the boot-time walk over    *)
(* the multiboot2 memory map that fills both in.                           *)
(*                                                                         *)
(* Addresses are scaled: AddrSpace stands for 2^32 (also the modulus of    *)
(* size_t) and Wide for 2^64.  Everything else keeps the code's            *)
(* arithmetic, so a 64-bit address is cut to 32 bits where the code cuts   *)
(* it.  The bitmap is the set of pages whose bit is 1.                     *)
(***************************************************************************)
EXTENDS Integers, Sequences, FiniteSets

CONSTANTS
  AddrSpace,      \* 2^32
  Wide,           \* 2^64
  PageSize,       \* PAGE_SIZE
  WordBits,       \* bits of one bitmap word (32)
  KernelEndPage,  \* kernel_end_phys / PAGE_SIZE: the page the bitmap ends in
  EarlyEnd,       \* 0x400000 / PAGE_SIZE
  Maps,           \* the memory maps the boot loader may pass
  Garbage,        \* what the bitmap's memory may hold before pmm_init
  MapUnderBitmap  \* where the loader may put the map: the bitmap covers it or not

TotalPages == (AddrSpace - 1) \div PageSize

(* Bits the code may read: the walk can run past total_pages, to twice the *)
(* address space at most.                                                  *)
BitPages == 0 .. 2 * TotalPages + 1

(* The loop clears whole words only: the last pages keep the garbage.      *)
ZeroedPages == 0 .. (TotalPages \div WordBits) * WordBits - 1

(* Page 0 is what a null pointer divides to.                               *)
NULL == 0

ReservedPages == 0 .. KernelEndPage

ASSUME SizesAssumption ==
  /\ AddrSpace \in Nat \ {0} /\ PageSize \in Nat \ {0} /\ WordBits \in Nat \ {0}
  /\ Wide \in Nat /\ AddrSpace <= Wide
  /\ AddrSpace % PageSize = 0 /\ Wide % AddrSpace = 0
  /\ KernelEndPage \in Nat /\ KernelEndPage < TotalPages
  /\ EarlyEnd \in Nat /\ EarlyEnd <= TotalPages

(* A map is its 64-bit words, three to an entry, followed by the two words *)
(* of the next boot tag that a walk off the entry grid can still read.     *)
ASSUME InputsAssumption ==
  /\ Garbage \subseteq SUBSET BitPages
  /\ MapUnderBitmap \subseteq BOOLEAN
  /\ \A m \in Maps : /\ m \in Seq(0 .. Wide - 1)
                     /\ Len(m) >= 5 /\ Len(m) % 3 = 2

VARIABLES
  phase,        \* where boot stands: "off", "walk" (inside pmm_init), "ready"
  mmap,         \* the memory map in memory
  pos,          \* entry, as a word offset into mmap
  used,         \* the bitmap
  total_pages,
  free_pages,
  early_alloc,
  held,         \* history: pages handed out and not given back
  refused       \* history: the last call was a pmm_alloc_page that returned null

vars == <<phase, mmap, pos, used, total_pages, free_pages, early_alloc, held, refused>>

-----------------------------------------------------------------------------
(* The memory map *)

MapLength == Len(mmap) - 2

(* The entry as the code reads it at offset p; type is a 32-bit field.     *)
EntryAt(m, p) == [addr |-> m[p + 1], len |-> m[p + 2], type |-> m[p + 3] % AddrSpace]

(* x & ~(PAGE_SIZE - 1): PAGE_SIZE is 32 bits wide, so the mask also       *)
(* clears the high half of a 64-bit x.                                     *)
Align(x) == (x % AddrSpace) - (x % PageSize)

(* The pages the code counts for an available entry, in 64-bit arithmetic  *)
(* that wraps.                                                             *)
EntryPages(e) ==
  LET base == Align((e.addr + PageSize - 1) % Wide)
      len  == Align((e.len - (base - e.addr)) % Wide)
  IN  (base \div PageSize) .. ((base + len) \div PageSize - 1)

Available(e) == e.type = 1

(* Mutant: the + 8 taken as words, as pointer arithmetic would. *)
EntryStep_words(e) == 3 + (IF Available(e) THEN 8 ELSE 0)

(* sizeof(multiboot2_mmap_entry) is three words; the code adds one more    *)
(* after an available entry.                                               *)
EntryStep(e) == 3 + (IF Available(e) THEN 1 ELSE 0)

-----------------------------------------------------------------------------
(* Operations: what the code returns and does to the bitmap and counter *)

(* Mutant: the scan with <= for <. *)
Window_inclusive == 0 .. (IF early_alloc THEN EarlyEnd ELSE total_pages)

(* First clear bit below the end of the window, or null.                   *)
Window == 0 .. (IF early_alloc THEN EarlyEnd ELSE total_pages) - 1

(* Mutant: without free_pages--. *)
pmm_alloc_page_uncounted(page) ==
  /\ UNCHANGED free_pages
  /\ refused' = (page = NULL)
  /\ \/ /\ page \in Window \ used
        /\ \A q \in Window : q < page => q \in used
        /\ used' = used \cup {page}
     \/ Window \subseteq used /\ page = NULL /\ used' = used

(* Mutant: the scan from the top. *)
pmm_alloc_page_highest(page) ==
  \/ /\ page \in Window \ used
     /\ \A q \in Window : q > page => q \in used
     /\ used' = used \cup {page}
     /\ free_pages' = (free_pages - 1) % AddrSpace
     /\ refused' = FALSE
  \/ Window \subseteq used /\ page = NULL /\ refused' = TRUE /\ UNCHANGED <<used, free_pages>>

(* Mutant: null at once when the counter says that nothing is free. *)
pmm_alloc_page_trusting(page) ==
  \/ /\ page \in Window \ used
     /\ free_pages # 0
     /\ \A q \in Window : q < page => q \in used
     /\ used' = used \cup {page}
     /\ free_pages' = (free_pages - 1) % AddrSpace
     /\ refused' = FALSE
  \/ /\ Window \subseteq used \/ free_pages = 0
     /\ page = NULL
     /\ refused' = TRUE
     /\ UNCHANGED <<used, free_pages>>

pmm_alloc_page(page) ==
  \/ /\ page \in Window \ used
     /\ \A q \in Window : q < page => q \in used
     /\ used' = used \cup {page}
     /\ free_pages' = (free_pages - 1) % AddrSpace
     /\ refused' = FALSE
  \/ /\ Window \subseteq used
     /\ page = NULL
     /\ refused' = TRUE
     /\ UNCHANGED <<used, free_pages>>

(* Mutant: the bit stays set. *)
pmm_free_page_keeps(page) ==
  /\ used' = used
  /\ free_pages' = (free_pages + 1) % AddrSpace
  /\ refused' = FALSE

pmm_free_page(page) ==
  /\ IF page \in used
     THEN /\ used' = used \ {page}
          /\ free_pages' = (free_pages + 1) % AddrSpace
     ELSE UNCHANGED <<used, free_pages>>
  /\ refused' = FALSE

-----------------------------------------------------------------------------
(* State machine *)

Init ==
  /\ phase = "off"
  /\ mmap \in Maps
  /\ pos = 0
  /\ used \in Garbage
  /\ total_pages = 0
  /\ free_pages = 0
  /\ early_alloc = FALSE
  /\ held = {}
  /\ refused = FALSE

(* kernel_main without a memory map tag never calls pmm_init.              *)
NoMemoryMap ==
  /\ phase = "off"
  /\ phase' = "ready"
  /\ UNCHANGED <<mmap, pos, used, total_pages, free_pages, early_alloc, held, refused>>

(* pmm_init up to the walk.  The bitmap starts at _kernel_end, where the   *)
(* loader may also have put the boot information: clearing it then clears  *)
(* the map.                                                                *)
ClearBitmap ==
  /\ phase = "off"
  /\ phase' = "walk"
  /\ total_pages' = TotalPages
  /\ used' = used \ ZeroedPages
  /\ free_pages' = 0
  /\ \E covered \in MapUnderBitmap :
       mmap' = IF covered THEN [i \in DOMAIN mmap |-> 0] ELSE mmap
  /\ UNCHANGED <<pos, early_alloc, held, refused>>

(* One turn of the while loop: bits that are 0 are counted and left 0.     *)
CountEntry ==
  LET e == EntryAt(mmap, pos) IN
  /\ phase = "walk" /\ pos < MapLength
  /\ free_pages' = IF Available(e)
                   THEN (free_pages + Cardinality(EntryPages(e) \ used)) % AddrSpace
                   ELSE free_pages
  /\ pos' = pos + EntryStep(e)
  /\ UNCHANGED <<phase, mmap, used, total_pages, early_alloc, held, refused>>

(* The closing loop: everything up to the end of the bitmap is taken.      *)
ReserveKernel ==
  /\ phase = "walk" /\ pos >= MapLength
  /\ phase' = "ready"
  /\ used' = used \cup ReservedPages
  /\ free_pages' = (free_pages - Cardinality(ReservedPages \ used)) % AddrSpace
  /\ UNCHANGED <<mmap, pos, total_pages, early_alloc, held, refused>>

SetEarlyAlloc(val) ==
  /\ phase = "ready" /\ total_pages > 0   \* with no bitmap the scan has nothing to read
  /\ early_alloc' = val
  /\ refused' = FALSE
  /\ UNCHANGED <<phase, mmap, pos, used, total_pages, free_pages, held>>

AllocPage ==
  /\ phase = "ready"
  /\ \E page \in {NULL} \cup Window :
       /\ pmm_alloc_page(page)
       /\ held' = held \cup ({page} \ {NULL})
  /\ UNCHANGED <<phase, mmap, pos, total_pages, early_alloc>>

(* A client gives back a page it was given.                                *)
FreePage(page) ==
  /\ phase = "ready" /\ page \in held
  /\ pmm_free_page(page)
  /\ held' = held \ {page}
  /\ UNCHANGED <<phase, mmap, pos, total_pages, early_alloc>>

Next ==
  \/ NoMemoryMap
  \/ ClearBitmap
  \/ CountEntry
  \/ ReserveKernel
  \/ \E val \in BOOLEAN : SetEarlyAlloc(val)
  \/ AllocPage
  \/ \E page \in held : FreePage(page)

Spec == Init /\ [][Next]_vars

-----------------------------------------------------------------------------
(* Properties *)

TypeOK ==
  /\ phase \in {"off", "walk", "ready"}
  /\ mmap \in Seq(0 .. Wide - 1)
  /\ pos \in 0 .. Len(mmap) + 1
  /\ used \subseteq BitPages
  /\ total_pages \in {0, TotalPages}
  /\ free_pages \in 0 .. AddrSpace - 1
  /\ early_alloc \in BOOLEAN
  /\ held \subseteq BitPages
  /\ refused \in BOOLEAN

(* Once the kernel runs with a bitmap, a page is marked exactly when it is *)
(* in somebody's hands: the pages up to the end of the bitmap belong to    *)
(* the kernel, the others were returned by pmm_alloc_page and not freed;   *)
(* no page is both.  Marked pages nobody holds would be lost for ever, and *)
(* a held page that is not marked would be handed out a second time.  The  *)
(* tail the clearing loop misses is left out: it starts as garbage.        *)
PagesAccountedFor ==
  (phase = "ready" /\ total_pages > 0) =>
    /\ used \cap ZeroedPages = (ReservedPages \cup held) \cap ZeroedPages
    /\ ReservedPages \cup held \subseteq used
    /\ ReservedPages \cap held = {}

(* A page just returned by pmm_alloc_page was in nobody's hands, lies      *)
(* inside the first 4 MB while early allocation is on, and is never one    *)
(* the bitmap does not cover.  A null return changes nothing and happens   *)
(* only when every page of the window is marked; apart from the tail the   *)
(* clearing loop misses, all of these are the kernel's or in somebody's    *)
(* hands, so pages are withheld for want of memory and for no other cause. *)
AllocReturnsFreshPage ==
  [][/\ \A p \in BitPages :
          /\ (p \in held' \ held) =>
                /\ p \notin held \cup used \cup ReservedPages
                /\ p < total_pages /\ (early_alloc => p < EarlyEnd)
                /\ \A q \in held' \ held : q = p
          /\ (p \in used' \ used /\ phase = "ready") => p \in held' \ held
     /\ refused' => /\ UNCHANGED <<used, free_pages, held>>
                    /\ Window \subseteq used
                    /\ Window \cap ZeroedPages \subseteq ReservedPages \cup held]_vars

(* After boot the counter that memstat prints moves only with the bitmap:  *)
(* a page taken lowers it by one, a page given back raises it by one, so   *)
(* whatever error the boot-time walk left in it stays constant.            *)
CountFollowsBitmap ==
  [][phase = "ready" =>
       (free_pages' - free_pages + Cardinality(used') - Cardinality(used))
         % AddrSpace = 0]_vars

(* What memstat tells the user ("Free physical memory"): the counter is    *)
(* the number of whole available pages of the memory map, as the loader    *)
(* wrote it, that are not taken.                                           *)
Entries == {i \in 0 .. MapLength \div 3 - 1 : Available(EntryAt(mmap, 3 * i))}

RamPages ==
  {p \in 0 .. Wide \div PageSize - 1 :
     \E i \in Entries :
       LET e == EntryAt(mmap, 3 * i)
       IN  e.addr <= p * PageSize /\ (p + 1) * PageSize <= e.addr + e.len}

FreeCountIsFreeMemory ==
  (phase = "ready" /\ total_pages > 0) => free_pages = Cardinality(RamPages \ used)

=============================================================================
