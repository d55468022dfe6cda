-------------------------------- MODULE Boot --------------------------------
(***************************************************************************)
(* kernel_main from the boot tags to the first prompt                      *)
(* (src/src/kernel/kernel.cpp): the walk over the tags, then the page      *)
(* allocator, paging, the framebuffer mapping and the heap, in that order, *)
(* and afterwards callers of the heap.  Composes PMM, Paging and Kmalloc:  *)
(* the allocator and the page tables share physical memory, and neither    *)
(* knows what the other uses.                                              *)
(***************************************************************************)
EXTENDS Kmalloc, Paging

CONSTANTS
  TagLists,  \* what the loader may pass: sequences of tags, <<>> for no information at all
  MaxLive    \* bound on the allocations alive at once

(* A framebuffer tag carries an address and a size (pitch times height).   *)
(* No area, and no framebuffer, reaches up to the end of 64-bit addresses. *)
(* The caches fit below the directory, whose bit the clearing loop reaches.*)
ASSUME BootAssumption ==
  /\ MaxLive \in Nat
  /\ \A ts \in TagLists :
       /\ Len(ts) \in Nat
       /\ \A i \in 1 .. Len(ts) :
            /\ ts[i].type \in {"mmap", "framebuffer", "other"}
            /\ ts[i].type = "framebuffer" =>
                 ts[i].addr \in Nat /\ ts[i].size \in Nat
                 /\ ts[i].addr + ts[i].size <= Wide - PageSize
  /\ \A m \in Maps : \A i \in 0 .. (Len(m) - 2) \div 3 - 1 :
       Available(EntryAt(m, 3 * i)) => m[3 * i + 1] + m[3 * i + 2] <= Wide - PageSize
  /\ NUM_CACHES < Directory - KernelEndPage
  /\ Directory \in ZeroedPages

VARIABLES
  tags,       \* the boot tags in memory
  tag,        \* index of the next one
  mmap_addr,  \* a memory map tag was seen
  g_fb        \* the framebuffer tag seen last

bvars == <<tags, tag, mmap_addr, g_fb>>

allvars == <<vars, kvars, pvars, bvars>>

NoFramebuffer == [type |-> "none"]

g_fb_found == g_fb # NoFramebuffer

BInit ==
  /\ KInit
  /\ PagingInit
  /\ tags \in TagLists
  /\ tag = 1
  /\ mmap_addr = FALSE
  /\ g_fb = NoFramebuffer

-----------------------------------------------------------------------------
(* Later tags overwrite what earlier ones of their type said.              *)
ReadTag ==
  /\ phase = "off" /\ tag <= Len(tags)
  /\ tag' = tag + 1
  /\ mmap_addr' = (mmap_addr \/ tags[tag].type = "mmap")
  /\ g_fb' = IF tags[tag].type = "framebuffer" THEN tags[tag] ELSE g_fb
  /\ UNCHANGED <<tags, vars, kvars, pvars>>

InitPMM ==
  /\ tag > Len(tags)
  /\ \/ mmap_addr /\ ClearBitmap
     \/ ~mmap_addr /\ NoMemoryMap
     \/ CountEntry
     \/ ReserveKernel
  /\ UNCHANGED <<kvars, pvars, bvars>>

InitPaging ==
  /\ phase = "ready"
  /\ StartPaging \/ PagingStep
  /\ UNCHANGED <<vars, kvars, bvars>>

MapFramebuffer ==
  /\ g_fb_found
  /\ paging_map_framebuffer(g_fb.addr, g_fb.size)
  /\ UNCHANGED <<vars, kvars, bvars>>

PagingDone == paging = IF g_fb_found THEN "mapped" ELSE "on"

InitHeap ==
  /\ PagingDone
  /\ KmallocInit
  /\ UNCHANGED <<pvars, bvars>>

Initialize == ReadTag \/ InitPMM \/ InitPaging \/ MapFramebuffer \/ InitHeap

Ready == inited = NUM_CACHES

(* Callers of the heap.  Once a page of tables is in their hands they      *)
(* overwrite the tables: what happens then is not modelled.                *)
UseHeap ==
  /\ Ready /\ held \cap Tables = {}
  /\ \/ Cardinality(DOMAIN live) < MaxLive /\ \E size \in Requests : Kmalloc(size)
     \/ \E ptr \in DOMAIN live : Kfree(ptr)
  /\ UNCHANGED <<pvars, bvars>>

BNext == Initialize \/ UseHeap

(* Straight-line code: interrupts come in between, and return.             *)
BSpec == BInit /\ [][BNext]_allvars /\ WF_allvars(Initialize)

-----------------------------------------------------------------------------
(* Properties *)

Low(p) == p % (EarlyEnd * EarlyEnd)

FramebufferPages ==
  {p \in 0 .. Wide \div PageSize - 1 :
     (p + 1) * PageSize > g_fb.addr /\ p * PageSize < g_fb.addr + g_fb.size}

(* What is mapped when paging is on is the lowest 4 MB and the whole pages *)
(* of RAM of the memory map, and then the framebuffer down to its last     *)
(* byte: no area is lost in the alignment of its ends, in the cut at 4 MB  *)
(* or for being short.                                                     *)
RamAndFramebufferMapped ==
  paging \in {"on", "mapped"} =>
    Mapped = Slots \cup {Low(p) : p \in IF mmap_addr THEN RamPages ELSE {}}
                   \cup {Low(p) : p \in IF paging = "mapped" THEN FramebufferPages ELSE {}}

(* Every page the heap was given is mapped, so that the words it writes    *)
(* through its free lists go where they should; and until all pages below  *)
(* the directory are taken, none of its pages holds a page table.          *)
HeapPagesUsable ==
  IF held \cap Tables = {}
  THEN \A p \in held : Ready => Translate(p) = p
  ELSE KernelEndPage + 1 .. Directory - 1 \subseteq held

(* With paging on, a table can be written only where memory is mapped:     *)
(* map_framebuffer reaches every table it fills, and the new ones it takes *)
(* from behind the last, wherever the pool has grown to.                   *)
TableWritesReachable ==
  [][\A x \in Tables' : paging \in {"on", "framebuffer"} => Translate(x) = x]_allvars

(* Boot gets to the prompt whatever the loader passed: every walk ends.    *)
BootCompletes == <>Ready

=============================================================================
