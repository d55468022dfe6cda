------------------------------- MODULE Paging -------------------------------
(***************************************************************************)
(* Paging (src/src/kernel/paging.cpp): the page directory and tables are   *)
(* built one page at a time, first for the lowest 4 MB, then for the RAM   *)
(* in the memory map, and after paging is on for the framebuffer.  Tables  *)
(* are taken from the addresses behind the directory, without a bound and  *)
(* without a word to the page allocator.                                   *)
(*                                                                         *)
(* A directory covers EarlyEnd tables of EarlyEnd entries (0x400000 is     *)
(* what one table maps).  A table's address is its page number, an entry   *)
(* the number of the page it names; the flags are the same on every        *)
(* present entry and left out, as are the two loops that set PAGE_USER     *)
(* where it is set already.                                                *)
(***************************************************************************)
EXTENDS PMM

VARIABLES
  paging,          \* "off"; "entries", "pages": in the walk; "on", "framebuffer", "mapped"
  page_directory,  \* table of each 4 MB, or Absent
  table,           \* the pages written as tables
  next_pt,         \* page the next table is put in
  entry,           \* offset into mmap, in words
  phys, end        \* the loop over the pages of one area

pvars == <<paging, page_directory, table, next_pt, entry, phys, end>>

Absent == -1

(* The directory is put at 2 MB, the first table behind it.                *)
Directory == EarlyEnd \div 2
FirstTable == Directory + 1

(* Mutant: tables go where the comment has them, after the first 4 MB. *)
FirstPool_after == EarlyEnd

FirstPool == Directory + 2

Slots == 0 .. EarlyEnd - 1
Pages == 0 .. EarlyEnd * EarlyEnd - 1

(* The directory covers all of memory, and the kernel and its bitmap end   *)
(* below the directory.                                                    *)
ASSUME PagingAssumption ==
  /\ AddrSpace = EarlyEnd * EarlyEnd * PageSize
  /\ EarlyEnd >= 6
  /\ KernelEndPage < Directory

(* What the processor finds for a page: a page, or Absent.                 *)
Translate(p) ==
  IF page_directory[p \div EarlyEnd] = Absent THEN Absent
  ELSE table[page_directory[p \div EarlyEnd]][p % EarlyEnd]

Mapped == {p \in Pages : Translate(p) # Absent}

Tables == {Directory} \cup ({page_directory[d] : d \in Slots} \ {Absent})

-----------------------------------------------------------------------------
(* Page arithmetic, in 64 bits *)

(* The constant 0xFFF is an int: its complement keeps the high half.       *)
Aligned(x) == (x % Wide) - (x % PageSize)

FourMB == EarlyEnd * PageSize

(* Mutant: the base moves up to 4 MB and the length stays. *)
AreaEnd_long(base, len) == ((IF base < FourMB THEN FourMB ELSE base) + len) % Wide

AreaEnd(base, len) == (base + len) % Wide

(* The pages of an available entry from 4 MB on; one that ends below is    *)
(* skipped.                                                                *)
RamRange(e) ==
  LET base == Aligned(e.addr + PageSize - 1)
      len  == Aligned(e.len - (base - e.addr))
  IN  [skip |-> base < FourMB /\ (base + len) % Wide <= FourMB,
       from |-> (IF base < FourMB THEN FourMB ELSE base) \div PageSize,
       to   |-> AreaEnd(base, len) \div PageSize]

(* Mutants: next_pt stays; it moves on with every page. *)
NextTable_same(new) == next_pt
NextTable_always(new) == next_pt + 1

NextTable(new) == IF new THEN next_pt + 1 ELSE next_pt

(* Map page p to itself: a 64-bit page number is cut to 32 bits in the     *)
(* indices and in the entry.                                               *)
map_page(p) ==
  LET d == (p \div EarlyEnd) % EarlyEnd
      new == page_directory[d] = Absent
      t == IF new THEN next_pt ELSE page_directory[d]
      entries == IF new THEN [i \in Slots |-> Absent] ELSE table[t]
  IN  /\ page_directory' = [page_directory EXCEPT ![d] = t]
      /\ table' = [x \in DOMAIN table \cup {t} |->
                     IF x = t THEN [entries EXCEPT ![p % EarlyEnd] = p % (EarlyEnd * EarlyEnd)]
                              ELSE table[x]]
      /\ next_pt' = NextTable(new)

-----------------------------------------------------------------------------
PagingInit ==
  /\ paging = "off"
  /\ page_directory = [d \in Slots |-> Absent]
  /\ table = [x \in {} |-> Absent]
  /\ next_pt = FirstPool
  /\ entry = 0 /\ phys = 0 /\ end = 0

(* paging_init_full up to the walk.                                        *)
StartPaging ==
  /\ paging = "off"
  /\ paging' = "entries"
  /\ page_directory' = [d \in Slots |-> IF d = 0 THEN FirstTable ELSE Absent]
  /\ table' = [x \in {FirstTable} |-> [i \in Slots |-> i]]
  /\ UNCHANGED <<next_pt, entry, phys, end>>

(* g_mmap_length, 0 when pmm_init was not called.                          *)
WalkLength == IF total_pages = 0 THEN 0 ELSE MapLength

(* Mutant: continue without moving on. *)
Skip_stays == UNCHANGED entry

Skip == entry' = entry + 3

WalkEntry ==
  LET e == EntryAt(mmap, entry) IN
  /\ paging = "entries" /\ entry < WalkLength
  /\ IF Available(e) /\ ~RamRange(e).skip
     THEN /\ paging' = "pages" /\ phys' = RamRange(e).from /\ end' = RamRange(e).to
          /\ UNCHANGED entry
     ELSE Skip /\ UNCHANGED <<paging, phys, end>>
  /\ UNCHANGED <<page_directory, table, next_pt>>

MapRamPage ==
  /\ paging = "pages" /\ phys < end
  /\ map_page(phys)
  /\ phys' = phys + 1
  /\ UNCHANGED <<paging, entry, end>>

NextEntry ==
  /\ paging = "pages" /\ phys >= end
  /\ paging' = "entries"
  /\ entry' = entry + 3
  /\ UNCHANGED <<page_directory, table, next_pt, phys, end>>

(* The loops that add PAGE_USER change only flags, which are left out.     *)
(* CR3 and CR0: from here on every access goes through the tables.         *)
EnablePaging ==
  /\ paging = "entries" /\ entry >= WalkLength
  /\ paging' = "on"
  /\ UNCHANGED <<page_directory, table, next_pt, entry, phys, end>>

paging_map_framebuffer(addr, size) ==
  /\ paging = "on"
  /\ paging' = "framebuffer"
  /\ phys' = Aligned(addr) \div PageSize
  /\ end' = Aligned(addr + size + PageSize - 1) \div PageSize
  /\ UNCHANGED <<page_directory, table, next_pt, entry>>

MapFramebufferPage ==
  /\ paging = "framebuffer" /\ phys < end
  /\ map_page(phys)
  /\ phys' = phys + 1
  /\ UNCHANGED <<paging, entry, end>>

FramebufferMapped ==
  /\ paging = "framebuffer" /\ phys >= end
  /\ paging' = "mapped"
  /\ UNCHANGED <<page_directory, table, next_pt, entry, phys, end>>

PagingStep ==
  \/ WalkEntry
  \/ MapRamPage
  \/ NextEntry
  \/ EnablePaging
  \/ MapFramebufferPage
  \/ FramebufferMapped

-----------------------------------------------------------------------------
(* Properties *)

PagingTypeOK ==
  /\ paging \in {"off", "entries", "pages", "on", "framebuffer", "mapped"}
  /\ page_directory \in [Slots -> {Absent} \cup FirstTable .. next_pt - 1]
  /\ DOMAIN table \subseteq FirstTable .. next_pt - 1
  /\ \A x \in DOMAIN table : table[x] \in [Slots -> {Absent} \cup Pages]
  /\ next_pt \in FirstPool .. FirstPool + EarlyEnd
  /\ entry \in Nat /\ phys \in Nat /\ end \in Nat

(* Whatever is mapped is mapped to itself, at every step of the build: no  *)
(* page of the map goes through another 4 MB's table, though addresses     *)
(* above 4 GB are cut to 32 bits and areas may share tables.               *)
IdentityMapped ==
  /\ \A d, c \in Slots :
       page_directory[d] # Absent /\ page_directory[d] = page_directory[c] => d = c
  /\ \A d \in Slots : page_directory[d] \in DOMAIN table \cup {Absent}
  /\ \A p \in Mapped : Translate(p) = p

=============================================================================
