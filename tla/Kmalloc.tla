------------------------------ MODULE Kmalloc ------------------------------
(***************************************************************************)
(* The kernel heap (src/src/kernel/kmalloc.cpp): one cache of equal blocks *)
(* per size, each with a free list threaded through the blocks, grown one  *)
(* page at a time from the page allocator; a request too large for every   *)
(* cache gets a page of its own.  The word in front of the memory a caller *)
(* sees is the link of the free list while the block is free, and names    *)
(* the cache (null for a page) while it is in use.                         *)
(***************************************************************************)
EXTENDS PMM

CONSTANTS
  BLOCK_SIZES,  \* usable bytes of the blocks of each cache, ascending
  HeaderSize,   \* sizeof(AllocHeader)
  Requests      \* sizes callers ask for

NUM_CACHES == Len(BLOCK_SIZES)

Caches == 1 .. NUM_CACHES

ASSUME HeapAssumption ==
  /\ BLOCK_SIZES \in Seq(Nat \ {0}) /\ BLOCK_SIZES # <<>>
  /\ HeaderSize \in Nat \ {0}
  /\ \A i, j \in Caches : i < j => BLOCK_SIZES[i] < BLOCK_SIZES[j]
  /\ \A i \in Caches : BLOCK_SIZES[i] + HeaderSize <= PageSize
  /\ Requests \subseteq Nat

VARIABLES
  inited,       \* caches kmalloc_init has set up
  free_list,    \* head of each cache's free list
  cache_pages,  \* total_pages of each cache
  word,         \* the words kmalloc has written: link or header, by address
  live          \* history: pointers in use and the size asked for

kvars == <<inited, free_list, cache_pages, word, live>>

-----------------------------------------------------------------------------
(* Mutant: the header forgotten. *)
real_block_size_bare(i) == BLOCK_SIZES[i]

real_block_size(i) == BLOCK_SIZES[i] + HeaderSize

(* &caches[i]: an address inside the kernel, so never null.                *)
CacheId(i) == i

(* Mutant: i <= num_blocks. *)
BlocksOf_inclusive(i, page) ==
  {page * PageSize + k * real_block_size(i) : k \in 0 .. PageSize \div real_block_size(i)}

(* The blocks a page of cache i is cut into.                               *)
BlocksOf(i, page) ==
  {page * PageSize + k * real_block_size(i) : k \in 0 .. PageSize \div real_block_size(i) - 1}

(* Mutant: the head is moved before the link is written. *)
Threaded_swapped(i, page) ==
  [b \in DOMAIN word \cup BlocksOf(i, page) |-> IF b \in BlocksOf(i, page) THEN b ELSE word[b]]

(* cache_grow pushes the blocks from the lowest address up: each links to  *)
(* the one below, the lowest to the old head.                              *)
Threaded(i, page) ==
  [b \in DOMAIN word \cup BlocksOf(i, page) |->
     IF b \notin BlocksOf(i, page) THEN word[b]
     ELSE IF b = page * PageSize THEN free_list[i]
     ELSE b - real_block_size(i)]

NewHead(i, page) ==
  page * PageSize + (PageSize \div real_block_size(i) - 1) * real_block_size(i)

(* "One page is all" (kmalloc.cpp:61): what a caller has of the memory it  *)
(* asked for ends with the page.                                           *)
Usable(size) == IF size > PageSize - HeaderSize THEN PageSize - HeaderSize ELSE size

(* The smallest cache whose blocks are large enough; none for large sizes. *)
Fits(i, size) == /\ BLOCK_SIZES[i] >= size
                 /\ \A j \in Caches : j < i => BLOCK_SIZES[j] < size

-----------------------------------------------------------------------------
KInit ==
  /\ Init
  /\ inited = 0
  /\ free_list = [i \in Caches |-> NULL]
  /\ cache_pages = [i \in Caches |-> 0]
  /\ word = <<>>
  /\ live = <<>>

(* A page for the caller, remembered as held; null when there is none.     *)
TakePage(page) ==
  /\ pmm_alloc_page(page)
  /\ held' = held \cup ({page} \ {NULL})

NoPage == UNCHANGED <<used, free_pages, held, refused>>

(* One turn of kmalloc_init's loop, cache_grow included.                   *)
InitCache(page) ==
  LET i == inited + 1 IN
  /\ phase = "ready" /\ inited < NUM_CACHES
  /\ TakePage(page)
  /\ inited' = i
  /\ IF page = NULL
     THEN UNCHANGED <<free_list, cache_pages, word>>
     ELSE /\ free_list' = [free_list EXCEPT ![i] = NewHead(i, page)]
          /\ cache_pages' = [cache_pages EXCEPT ![i] = 1]
          /\ word' = Threaded(i, page)
  /\ UNCHANGED live

Given(ptr, size) == [q \in DOMAIN live \cup {ptr} |-> IF q = ptr THEN size ELSE live[q]]

(* kmalloc from cache i: grow when its list is empty, then pop the head.   *)
kmalloc_block(i, size, page) ==
  /\ IF free_list[i] = NULL THEN TakePage(page) ELSE page = NULL /\ NoPage
  /\ LET words == IF page = NULL THEN word ELSE Threaded(i, page)
         block == IF page = NULL THEN free_list[i] ELSE NewHead(i, page)
     IN  IF block = NULL
         THEN UNCHANGED <<free_list, cache_pages, word, live>>
         ELSE /\ free_list' = [free_list EXCEPT ![i] = words[block]]
              /\ cache_pages' = [cache_pages EXCEPT ![i] = IF page = NULL THEN @ ELSE @ + 1]
              /\ word' = [words EXCEPT ![block] = CacheId(i)]
              /\ live' = Given(block + HeaderSize, size)

(* kmalloc of a size beyond every cache: one whole page.                   *)
kmalloc_page(size, page) ==
  /\ TakePage(page)
  /\ IF page = NULL
     THEN UNCHANGED <<word, live>>
     ELSE /\ word' = [b \in DOMAIN word \cup {page * PageSize} |->
                       IF b = page * PageSize THEN NULL ELSE word[b]]
          /\ live' = Given(page * PageSize + HeaderSize, size)
  /\ UNCHANGED <<free_list, cache_pages>>

kmalloc(size, page) ==
  \/ size = 0 /\ page = NULL /\ NoPage /\ UNCHANGED <<free_list, cache_pages, word, live>>
  \/ size > BLOCK_SIZES[NUM_CACHES] /\ kmalloc_page(size, page)
  \/ size > 0 /\ \E i \in Caches : Fits(i, size) /\ kmalloc_block(i, size, page)

(* Mutant: the block goes to its list, but the old list is lost. *)
kfree_drops(ptr) ==
  LET block == ptr - HeaderSize IN
  /\ word[block] # NULL
  /\ word' = [word EXCEPT ![block] = NULL]
  /\ free_list' = [free_list EXCEPT ![word[block]] = block]
  /\ UNCHANGED <<used, free_pages, held, refused, cache_pages>>

(* Mutant: the page is given back whatever the header says. *)
kfree_pages_only(ptr) ==
  /\ pmm_free_page((ptr - HeaderSize) \div PageSize)
  /\ held' = held \ {(ptr - HeaderSize) \div PageSize}
  /\ UNCHANGED <<free_list, word, cache_pages>>

kfree(ptr) ==
  LET block == ptr - HeaderSize IN
  /\ IF word[block] = NULL
     THEN /\ pmm_free_page(block \div PageSize)
          /\ held' = held \ {block \div PageSize}
          /\ UNCHANGED <<free_list, word>>
     ELSE /\ word' = [word EXCEPT ![block] = free_list[word[block]]]
          /\ free_list' = [free_list EXCEPT ![word[block]] = block]
          /\ NoPage
  /\ UNCHANGED cache_pages

-----------------------------------------------------------------------------
(* pmm_init runs first; kmalloc_init once; then callers come.              *)
Booting == NoMemoryMap \/ ClearBitmap \/ CountEntry \/ ReserveKernel

Boot == /\ Booting
        /\ UNCHANGED kvars

KmallocInit == /\ \E page \in {NULL} \cup Window : InitCache(page)
               /\ UNCHANGED <<phase, mmap, pos, total_pages, early_alloc>>

Kmalloc(size) == /\ inited = NUM_CACHES
                 /\ \E page \in {NULL} \cup Window : kmalloc(size, page)
                 /\ UNCHANGED <<phase, mmap, pos, total_pages, early_alloc, inited>>

(* A caller frees what it was given, once.                                 *)
Kfree(ptr) == /\ kfree(ptr)
              /\ live' = [q \in DOMAIN live \ {ptr} |-> live[q]]
              /\ UNCHANGED <<phase, mmap, pos, total_pages, early_alloc, inited>>

KNext ==
  \/ Boot
  \/ KmallocInit
  \/ \E size \in Requests : Kmalloc(size)
  \/ \E ptr \in DOMAIN live : Kfree(ptr)

KSpec == KInit /\ [][KNext]_<<vars, kvars>>

-----------------------------------------------------------------------------
(* Properties *)

Addresses == 0 .. TotalPages * PageSize - 1

KTypeOK ==
  /\ inited \in 0 .. NUM_CACHES
  /\ free_list \in [Caches -> Addresses]
  /\ cache_pages \in [Caches -> 0 .. TotalPages]
  /\ DOMAIN word \subseteq Addresses
  /\ \A b \in DOMAIN word : word[b] \in Addresses
  /\ DOMAIN live \subseteq Addresses
  /\ \A p \in DOMAIN live : live[p] \in Requests

(* kmalloc keeps the promise of Heap, for requests a page can hold: memory *)
(* it returns lies outside the kernel's pages and overlaps no allocation   *)
(* still in use, and kfree ends one allocation.  A larger request gets no  *)
(* less than what a page can hold, and is told nothing.                    *)
HeapMemory == {a \in Addresses : a \div PageSize \notin ReservedPages}

H == INSTANCE Heap WITH
       Memory   <- HeapMemory,
       Requests <- {Usable(size) : size \in Requests},
       live     <- [p \in DOMAIN live |-> Usable(live[p])]

ImplementsHeap == H!Spec

(* The first k links of a free list, from its head.                        *)
Chain(i) ==
  LET link[k \in 0 .. Cardinality(DOMAIN word)] ==
        IF k = 0 THEN free_list[i]
        ELSE IF link[k - 1] = NULL THEN NULL ELSE word[link[k - 1]]
  IN link

FreeBlocks(i) == {Chain(i)[k] : k \in DOMAIN Chain(i)} \ {NULL}

Blocks == {p - HeaderSize : p \in DOMAIN live}

LiveBlocks(i) == {b \in Blocks : word[b] = CacheId(i)}

LargeBlocks == {b \in Blocks : word[b] = NULL}

(* The free lists end, although links and headers share their words and    *)
(* the same blocks are pushed and popped again and again.                  *)
FreeListsEnd == \A i \in Caches : Chain(i)[Cardinality(DOMAIN word)] = NULL

(* No block is lost, or reachable twice: the free and the live blocks of a *)
(* cache are together all the blocks cut from the pages it grew by, no     *)
(* page has two owners, and every page kmalloc took is a cache's or a      *)
(* large allocation's own.                                                 *)
PagesOf(i) == {b \div PageSize : b \in FreeBlocks(i) \cup LiveBlocks(i)}

LargePages == {b \div PageSize : b \in LargeBlocks}

NoBlockLost ==
  /\ \A i \in Caches :
       /\ FreeBlocks(i) \cap Blocks = {}
       /\ FreeBlocks(i) \cup LiveBlocks(i) = UNION {BlocksOf(i, page) : page \in PagesOf(i)}
       /\ Cardinality(PagesOf(i)) = cache_pages[i]
       /\ \A j \in Caches \ {i} : PagesOf(i) \cap PagesOf(j) = {}
       /\ PagesOf(i) \cap LargePages = {}
  /\ \A b, c \in LargeBlocks : b \div PageSize = c \div PageSize => b = c
  /\ held = (UNION {PagesOf(i) : i \in Caches}) \cup LargePages

(* A live block is as large as what was asked for, up to a page, and it is *)
(* the smallest size that is: header and memory stay inside one page.      *)
BlockHoldsRequest ==
  \A p \in DOMAIN live :
    LET b == p - HeaderSize IN
    /\ b \div PageSize = (p + Usable(live[p]) - 1) \div PageSize
    /\ \A i \in Caches : word[b] = CacheId(i) => Fits(i, live[p])
    /\ word[b] = NULL => live[p] > BLOCK_SIZES[NUM_CACHES] /\ b % PageSize = 0

=============================================================================
