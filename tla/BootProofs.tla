----------------------------- MODULE BootProofs -----------------------------
(***************************************************************************)
(* The page tables map memory to itself, for every size of memory, every   *)
(* memory map and every list of boot tags.  IdentityMapped is not          *)
(* inductive: that two directories never share a table rests on next_pt    *)
(* lying behind every table in use, and that an entry names its own page   *)
(* on the arithmetic of the indices, which is proved first.                *)
(***************************************************************************)
EXTENDS Boot, KmallocProofs

-----------------------------------------------------------------------------
(* Division with a positive divisor *)

(* A product over the two parts of a number.                                *)
LEMMA Distribute ==
  ASSUME NEW n \in Int, NEW s \in Int, NEW b \in Int
  PROVE  n * (n * s + b) = (n * n) * s + b * n
BY SMT

(* A page number cut to the size of the directory is put together again    *)
(* from the two indices.                                                   *)
LEMMA Indices ==
  ASSUME NEW p \in Int, NEW n \in Nat \ {0}
  PROVE  p % (n * n) = ((p \div n) % n) * n + (p % n)
<1> DEFINE q == p \div n
           s == q \div n
           m == (q % n) * n + (p % n)
<1>1. q \in Int /\ s \in Int /\ q % n \in 0 .. n - 1 /\ p % n \in 0 .. n - 1
  BY DivMod, SMT
<1>2. p = n * q + (p % n) /\ q = n * s + (q % n)
  BY DivMod, <1>1, SMT
<1> HIDE DEF q, s
<1>3. m \in 0 .. n * n - 1
  BY <1>1, SMT
<1>4. p = (n * n) * s + m
  <2>1. n * q = (n * n) * s + (q % n) * n
    BY <1>1, <1>2, Distribute
  <2> QED BY <1>1, <1>2, <2>1, SMT
<1>5. n * n \in Nat \ {0}
  BY SMT
<1> HIDE DEF m
<1>6. ((n * n) * s + m) % (n * n) = m
  BY <1>1, <1>3, <1>5, Remainder
<1> QED BY <1>4, <1>6 DEF m, q

-----------------------------------------------------------------------------
(* The invariant *)

(* Every table in use lies below next_pt and is one directory entry's own; *)
(* each of its entries is absent or names the page it stands for.          *)
TablesOK ==
  /\ next_pt \in Nat /\ FirstPool <= next_pt
  /\ page_directory \in [Slots -> Int]
  /\ \A d \in Slots : page_directory[d] # Absent =>
       page_directory[d] < next_pt /\ page_directory[d] \in DOMAIN table
  /\ \A d, c \in Slots :
       page_directory[d] # Absent /\ page_directory[d] = page_directory[c] => d = c
  /\ \A d \in Slots : page_directory[d] # Absent =>
       /\ table[page_directory[d]] \in [Slots -> Int]
       /\ \A i \in Slots : table[page_directory[d]][i] \in {Absent, d * EarlyEnd + i}

FramebufferOK(fb) == fb.addr \in Nat /\ fb.size \in Nat /\ fb.addr + fb.size <= Wide - PageSize

(* The numbers the walk and the framebuffer mapping compute with.          *)
InputsOK ==
  /\ mmap \in Seq(0 .. Wide - 1)
  /\ entry \in Nat /\ phys \in Nat /\ end \in Nat
  /\ tags \in TagLists /\ tag \in Nat \ {0}
  /\ g_fb_found => FramebufferOK(g_fb)

BootInv == TablesOK /\ InputsOK

(* The bounds of the constants that the page arithmetic below needs.        *)
LEMMA Sizes ==
  /\ EarlyEnd \in Nat /\ EarlyEnd >= 6
  /\ PageSize \in Nat \ {0} /\ Wide \in Nat \ {0}
  /\ Directory \in Nat /\ Directory >= 3 /\ FirstPool \in Nat /\ FirstTable < FirstPool
  /\ 0 \in Slots /\ Slots = 0 .. EarlyEnd - 1
BY SizesAssumption, PagingAssumption, SMT DEF Directory, FirstTable, FirstPool, Slots

(* Products may be regrouped.                                               *)
LEMMA Regroup ==
  ASSUME NEW p \in Int, NEW a \in Int, NEW w \in Int, NEW q \in Int, NEW c \in Int
  PROVE  (p * a) * w = p * (a * w) /\ p * a + p * c = p * (a + c)
BY SMT

(* The 64-bit addresses are a whole number of pages.                        *)
LEMMA PageDividesWide == \E k \in Nat : Wide = PageSize * k
<1> DEFINE a == AddrSpace \div PageSize
           w == Wide \div AddrSpace
<1>1. AddrSpace \in Nat \ {0} /\ PageSize \in Nat \ {0} /\ Wide \in Nat
  BY SizesAssumption
<1>2. a \in Nat /\ w \in Nat
  BY <1>1, Division
<1>3. AddrSpace = PageSize * a /\ Wide = AddrSpace * w
  <2>1. AddrSpace = PageSize * a + (AddrSpace % PageSize) /\ Wide = AddrSpace * w + (Wide % AddrSpace)
    BY <1>1, DivMod
  <2> HIDE DEF a, w
  <2>2. AddrSpace % PageSize = 0 /\ Wide % AddrSpace = 0
    BY SizesAssumption
  <2> QED BY <1>1, <1>2, <2>1, <2>2
<1> HIDE DEF a, w
<1>4. Wide = PageSize * (a * w) /\ a * w \in Nat
  BY <1>1, <1>2, <1>3, Regroup
<1> QED BY <1>4

(* The mask with its high half clears the offset and nothing else.         *)
LEMMA AlignedDown ==
  ASSUME NEW x \in Int
  PROVE  /\ (x % Wide) \div PageSize \in Nat
         /\ Aligned(x) = PageSize * ((x % Wide) \div PageSize)
         /\ Aligned(x) \in Nat /\ Aligned(x) \div PageSize = (x % Wide) \div PageSize
<1> DEFINE r == x % Wide
           q == x \div Wide
           c == r \div PageSize
           m == r % PageSize
<1>1. PageSize \in Nat \ {0} /\ Wide \in Nat \ {0}
  BY Sizes
<1>2. r \in 0 .. Wide - 1 /\ q \in Int /\ x = Wide * q + r
  BY <1>1, DivMod
<1>3. r \in Nat /\ c \in Nat
  <2>1. r \in Nat
    BY <1>1, <1>2
  <2> HIDE DEF r
  <2> QED BY <2>1, <1>1, Division
<1>4. m \in 0 .. PageSize - 1 /\ r = PageSize * c + m
  <2> HIDE DEF r
  <2> QED BY <1>1, <1>3, DivMod
<1> HIDE DEF r, q, c, m
<1>5. PICK k \in Nat : Wide = PageSize * k
  BY PageDividesWide
<1>6. x = PageSize * (k * q + c) + m
  <2>1. (PageSize * k) * q = PageSize * (k * q) /\ PageSize * (k * q) + PageSize * c = PageSize * (k * q + c)
    BY <1>1, <1>2, <1>3, Regroup
  <2>2. x = (PageSize * k) * q + (PageSize * c + m)
    BY <1>2, <1>4, <1>5
  <2>3. PageSize * (k * q) \in Int /\ PageSize * c \in Int /\ m \in Int
    BY <1>1, <1>2, <1>3, <1>4
  <2> QED BY <2>1, <2>2, <2>3
<1>7. x % PageSize = m
  <2>1. k * q + c \in Int
    BY <1>2, <1>3
  <2> QED BY <1>1, <1>4, <1>6, <2>1, Remainder
<1>8. Aligned(x) = PageSize * c
  <2>1. Aligned(x) = r - m
    BY <1>7 DEF Aligned, r
  <2>2. PageSize * c \in Int /\ m \in Int
    BY <1>1, <1>3, <1>4
  <2> QED BY <1>4, <2>1, <2>2
<1>9. PageSize * c \in Nat /\ (PageSize * c) \div PageSize = c
  <2>1. PageSize * c \in Nat /\ c * PageSize = PageSize * c
    BY <1>1, <1>3
  <2> QED BY <1>1, <1>3, <2>1, Division
<1> QED BY <1>3, <1>8, <1>9 DEF c, r

(* Before the loader's tags are read nothing is wrong.                      *)
LEMMA InitOK == BInit => BootInv
<1> SUFFICES ASSUME BInit PROVE BootInv
  OBVIOUS
<1>1. TablesOK
  BY Sizes, SMT DEF BInit, PagingInit, TablesOK, Absent
<1>2. InputsOK
  BY InputsAssumption DEF BInit, KInit, Init, PagingInit, InputsOK, g_fb_found, NoFramebuffer
<1> QED BY <1>1, <1>2 DEF BootInv

(* paging_init_full begins with one table, of the first 4 MB.               *)
LEMMA StartPagingOK ==
  ASSUME TablesOK, StartPaging
  PROVE  TablesOK'
<1> USE Sizes
<1>1. next_pt' = next_pt
  BY DEF StartPaging
<1>2. page_directory' = [d \in Slots |-> IF d = 0 THEN FirstTable ELSE Absent]
  BY DEF StartPaging
<1>3. table' = [x \in {FirstTable} |-> [i \in Slots |-> i]]
  BY DEF StartPaging
<1>4. FirstTable \in Nat /\ Absent \in Int /\ FirstTable # Absent
  BY SMT DEF FirstTable, Absent
<1>5. \A d \in Slots : page_directory'[d] # Absent => d = 0 /\ page_directory'[d] = FirstTable
  BY <1>2
<1>6. table'[FirstTable] = [i \in Slots |-> i]
  BY <1>3
<1>7. \A i \in Slots : table'[FirstTable][i] = 0 * EarlyEnd + i /\ i \in Int
  BY <1>6, SMT
<1> QED BY <1>1, <1>2, <1>3, <1>4, <1>5, <1>6, <1>7, SMT DEF TablesOK

(* A new table is behind all others; an old one changes in one entry.      *)
LEMMA MapPageOK ==
  ASSUME TablesOK, NEW p \in Int, map_page(p)
  PROVE  TablesOK'
<1> USE Sizes
<1> DEFINE d == (p \div EarlyEnd) % EarlyEnd
           s == p % EarlyEnd
           new == page_directory[d] = Absent
           t == IF new THEN next_pt ELSE page_directory[d]
           entries == IF new THEN [i \in Slots |-> Absent] ELSE table[t]
           low == p % (EarlyEnd * EarlyEnd)
<1>1. d \in Slots /\ s \in Slots /\ low = d * EarlyEnd + s /\ low \in Int
  <2>1. EarlyEnd \in Nat \ {0} /\ Slots = 0 .. EarlyEnd - 1
    BY SMT
  <2>2. p \div EarlyEnd \in Int
    BY <2>1, DivMod
  <2>3. d \in 0 .. EarlyEnd - 1 /\ s \in 0 .. EarlyEnd - 1
    BY <2>1, <2>2, DivMod
  <2>4. low = d * EarlyEnd + s
    BY <2>1, Indices
  <2> HIDE DEF d, s, low
  <2> QED BY <2>1, <2>3, <2>4, SMT
<1>2. /\ page_directory' = [page_directory EXCEPT ![d] = t]
      /\ table' = [x \in DOMAIN table \cup {t} |-> IF x = t THEN [entries EXCEPT ![s] = low] ELSE table[x]]
      /\ next_pt' = IF new THEN next_pt + 1 ELSE next_pt
  BY DEF map_page, NextTable
<1>3. t \in Int /\ t < next_pt' /\ t # Absent /\ next_pt' \in Nat /\ next_pt <= next_pt'
  BY <1>1, <1>2, SMT DEF TablesOK, Absent
<1>4. entries \in [Slots -> Int] /\ \A i \in Slots : entries[i] \in {Absent, d * EarlyEnd + i}
  <2>1. CASE new
    <3>1. entries = [i \in Slots |-> Absent] /\ Absent \in Int
      BY <2>1 DEF Absent
    <3> QED BY <3>1
  <2>2. CASE ~new
    <3>1. entries = table[page_directory[d]] /\ page_directory[d] # Absent
      BY <2>2
    <3> QED BY <1>1, <3>1 DEF TablesOK
  <2> QED BY <2>1, <2>2
<1>5. \A c \in Slots : c # d /\ page_directory[c] # Absent => page_directory[c] # t
  <2> SUFFICES ASSUME NEW c \in Slots, c # d, page_directory[c] # Absent
               PROVE  page_directory[c] # t
    OBVIOUS
  <2>1. CASE new
    <3>1. page_directory[c] < next_pt /\ page_directory[c] \in Int /\ next_pt \in Nat /\ t = next_pt
      BY <2>1 DEF TablesOK
    <3> HIDE DEF t
    <3> QED BY <3>1, SMT
  <2>2. CASE ~new
    <3>1. t = page_directory[d] /\ page_directory[d] # Absent /\ d \in Slots
      BY <1>1, <2>2
    <3> HIDE DEF d, t, new
    <3> QED BY <3>1, Zenon DEF TablesOK
  <2> QED BY <2>1, <2>2
<1> HIDE DEF d, s, t, entries, low, new
<1>6. page_directory' \in [Slots -> Int] /\ page_directory'[d] = t
      /\ \A c \in Slots \ {d} : page_directory'[c] = page_directory[c]
  BY <1>1, <1>2, <1>3 DEF TablesOK
<1>7. DOMAIN table' = DOMAIN table \cup {t} /\ table'[t] = [entries EXCEPT ![s] = low]
      /\ \A x \in DOMAIN table \ {t} : table'[x] = table[x]
  BY <1>2
<1>8. table'[t] \in [Slots -> Int] /\ \A i \in Slots : table'[t][i] \in {Absent, d * EarlyEnd + i}
  BY <1>1, <1>4, <1>7
<1>9. \A c \in Slots : page_directory'[c] # Absent =>
        /\ page_directory'[c] < next_pt' /\ page_directory'[c] \in DOMAIN table'
        /\ table'[page_directory'[c]] \in [Slots -> Int]
        /\ \A i \in Slots : table'[page_directory'[c]][i] \in {Absent, c * EarlyEnd + i}
  <2> SUFFICES ASSUME NEW c \in Slots, page_directory'[c] # Absent
               PROVE  /\ page_directory'[c] < next_pt' /\ page_directory'[c] \in DOMAIN table'
                      /\ table'[page_directory'[c]] \in [Slots -> Int]
                      /\ \A i \in Slots : table'[page_directory'[c]][i] \in {Absent, c * EarlyEnd + i}
    OBVIOUS
  <2>1. CASE c = d
    BY <2>1, <1>3, <1>6, <1>7, <1>8
  <2>2. CASE c # d
    <3>1. page_directory'[c] = page_directory[c] /\ page_directory[c] # t
      BY <2>2, <1>5, <1>6
    <3>2. page_directory[c] < next_pt' /\ page_directory[c] \in DOMAIN table \ {t}
      BY <3>1, <1>3, SMT DEF TablesOK
    <3>3. table'[page_directory'[c]] = table[page_directory[c]]
      BY <3>1, <3>2, <1>7
    <3> QED BY <3>1, <3>2, <3>3, <1>7 DEF TablesOK
  <2> QED BY <2>1, <2>2
<1>10. \A b, c \in Slots :
         page_directory'[b] # Absent /\ page_directory'[b] = page_directory'[c] => b = c
  <2> SUFFICES ASSUME NEW b \in Slots, NEW c \in Slots, page_directory'[b] # Absent,
                      page_directory'[b] = page_directory'[c]
               PROVE  b = c
    OBVIOUS
  <2>1. CASE b # d /\ c # d
    <3>1. page_directory'[b] = page_directory[b] /\ page_directory'[c] = page_directory[c]
      BY <2>1, <1>6
    <3> QED BY <3>1 DEF TablesOK
  <2>2. CASE b = d /\ c # d
    BY <2>2, <1>3, <1>5, <1>6
  <2>3. CASE b # d /\ c = d
    BY <2>3, <1>3, <1>5, <1>6
  <2> QED BY <2>1, <2>2, <2>3
<1>11. FirstPool <= next_pt'
  BY <1>3, SMT DEF TablesOK
<1> QED BY <1>3, <1>6, <1>9, <1>10, <1>11 DEF TablesOK

-----------------------------------------------------------------------------
(* The steps *)

(* The entry the walk reads is made of three words of the map.             *)
LEMMA EntryTyped ==
  ASSUME mmap \in Seq(0 .. Wide - 1), NEW i \in Nat, i < MapLength
  PROVE  EntryAt(mmap, i).addr \in 0 .. Wide - 1 /\ EntryAt(mmap, i).len \in 0 .. Wide - 1
<1>1. i + 1 \in 1 .. Len(mmap) /\ i + 2 \in 1 .. Len(mmap)
  BY SMT DEF MapLength
<1>2. mmap[i + 1] \in 0 .. Wide - 1 /\ mmap[i + 2] \in 0 .. Wide - 1
  BY <1>1, ElementOfSeq
<1> QED BY <1>2 DEF EntryAt

(* Whatever an entry says, its pages have numbers.                         *)
LEMMA RamRangeTyped ==
  ASSUME NEW e, e.addr \in Int, e.len \in Int
  PROVE  RamRange(e).from \in Nat /\ RamRange(e).to \in Nat
<1> DEFINE base == Aligned(e.addr + PageSize - 1)
           len  == Aligned(e.len - (base - e.addr))
<1>1. PageSize \in Nat \ {0} /\ Wide \in Nat \ {0} /\ FourMB \in Nat
  BY Sizes, SMT DEF FourMB
<1>2. base \in Nat
  <2>1. e.addr + PageSize - 1 \in Int
    BY <1>1
  <2> QED BY <2>1, AlignedDown
<1> HIDE DEF base
<1>3. len \in Nat
  <2>1. e.len - (base - e.addr) \in Int
    BY <1>2
  <2> QED BY <2>1, AlignedDown
<1> HIDE DEF len
<1>4. (IF base < FourMB THEN FourMB ELSE base) \div PageSize \in Nat
  BY <1>1, <1>2, Division
<1>5. AreaEnd(base, len) \in Nat
  <2>1. base + len \in Int
    BY <1>2, <1>3
  <2>2. (base + len) % Wide \in 0 .. Wide - 1
    BY <1>1, <2>1, DivMod
  <2> QED BY <1>1, <2>2 DEF AreaEnd
<1>6. AreaEnd(base, len) \div PageSize \in Nat
  BY <1>1, <1>5, Division
<1> QED BY <1>4, <1>6 DEF RamRange, base, len

(* Paging does not touch the memory map or the framebuffer's tag.           *)
LEMMA PagingKeepsInputs ==
  ASSUME InputsOK, StartPaging \/ PagingStep, UNCHANGED <<vars, bvars>>
  PROVE  InputsOK'
<1>1. mmap' = mmap /\ tags' = tags /\ tag' = tag /\ g_fb' = g_fb
  BY DEF vars, bvars
<1>2. entry' \in Nat /\ phys' \in Nat /\ end' \in Nat
  <2>1. CASE WalkEntry
    <3> DEFINE e == EntryAt(mmap, entry)
    <3>1. CASE Available(e) /\ ~RamRange(e).skip
      <4>1. /\ entry < WalkLength /\ entry' = entry
            /\ phys' = RamRange(e).from /\ end' = RamRange(e).to
        BY <2>1, <3>1 DEF WalkEntry
      <4>2. entry < MapLength
        BY <4>1, SMT DEF InputsOK, WalkLength
      <4>3. e.addr \in Int /\ e.len \in Int
        BY <4>2, EntryTyped, Sizes DEF InputsOK
      <4>4. RamRange(e).from \in Nat /\ RamRange(e).to \in Nat
        BY <4>3, RamRangeTyped
      <4> QED BY <4>1, <4>4 DEF InputsOK
    <3>2. CASE ~(Available(e) /\ ~RamRange(e).skip)
      BY <2>1, <3>2, SMT DEF WalkEntry, Skip, InputsOK
    <3> QED BY <3>1, <3>2
  <2>2. CASE StartPaging \/ EnablePaging \/ FramebufferMapped
    BY <2>2 DEF StartPaging, EnablePaging, FramebufferMapped, InputsOK
  <2>3. CASE MapRamPage \/ MapFramebufferPage
    BY <2>3, SMT DEF MapRamPage, MapFramebufferPage, InputsOK
  <2>4. CASE NextEntry
    BY <2>4, SMT DEF NextEntry, InputsOK
  <2> QED BY <2>1, <2>2, <2>3, <2>4 DEF PagingStep
<1> QED BY <1>1, <1>2 DEF InputsOK, g_fb_found

(* Every step of paging leaves tables that translate to themselves.         *)
LEMMA PagingKeepsTables ==
  ASSUME TablesOK, InputsOK, StartPaging \/ PagingStep
  PROVE  TablesOK'
<1>1. CASE StartPaging
  BY <1>1, StartPagingOK
<1>2. CASE MapRamPage \/ MapFramebufferPage
  BY <1>2, MapPageOK DEF MapRamPage, MapFramebufferPage, InputsOK
<1>3. CASE WalkEntry \/ NextEntry \/ EnablePaging \/ FramebufferMapped
  <2>1. UNCHANGED <<page_directory, table, next_pt>>
    BY <1>3 DEF WalkEntry, NextEntry, EnablePaging, FramebufferMapped
  <2> QED BY <2>1 DEF TablesOK
<1> QED BY <1>1, <1>2, <1>3 DEF PagingStep

(* Every step of the machine keeps the invariant.                           *)
LEMMA StepOK == BootInv /\ [BNext]_allvars => BootInv'
<1> SUFFICES ASSUME BootInv, [BNext]_allvars PROVE BootInv'
  OBVIOUS
<1>1. CASE ReadTag
  <2>1. TablesOK'
    BY <1>1 DEF ReadTag, pvars, BootInv, TablesOK
  <2>2. /\ mmap' = mmap /\ entry' = entry /\ phys' = phys /\ end' = end
        /\ tags' = tags /\ tag' = tag + 1
    BY <1>1 DEF ReadTag, vars, pvars
  <2>3. tag' \in Nat \ {0}
    BY <2>2, SMT DEF BootInv, InputsOK
  <2>4. g_fb_found' => FramebufferOK(g_fb')
    <3>1. CASE tags[tag].type = "framebuffer"
      <4>1. tag \in 1 .. Len(tags) /\ tags \in TagLists
        BY <1>1, BootAssumption, SMT DEF ReadTag, BootInv, InputsOK
      <4>2. FramebufferOK(tags[tag])
        BY <3>1, <4>1, BootAssumption DEF FramebufferOK
      <4>3. g_fb' = tags[tag]
        BY <1>1, <3>1 DEF ReadTag
      <4> QED BY <4>2, <4>3
    <3>2. CASE tags[tag].type # "framebuffer"
      BY <1>1, <3>2 DEF ReadTag, BootInv, InputsOK, g_fb_found
    <3> QED BY <3>1, <3>2
  <2> QED BY <2>1, <2>2, <2>3, <2>4 DEF BootInv, InputsOK
<1>2. CASE InitPMM
  <2>1. TablesOK'
    BY <1>2 DEF InitPMM, pvars, BootInv, TablesOK
  <2>2. mmap' \in Seq(0 .. Wide - 1)
    <3>1. CASE ClearBitmap
      <4>1. mmap' = mmap \/ mmap' = [i \in DOMAIN mmap |-> 0]
        BY <3>1 DEF ClearBitmap
      <4>2. [i \in DOMAIN mmap |-> 0] \in Seq(0 .. Wide - 1)
        BY Sizes, SMT DEF BootInv, InputsOK
      <4> QED BY <4>1, <4>2 DEF BootInv, InputsOK
    <3>2. CASE ~ClearBitmap
      BY <1>2, <3>2 DEF InitPMM, NoMemoryMap, CountEntry, ReserveKernel, BootInv, InputsOK
    <3> QED BY <3>1, <3>2
  <2>3. UNCHANGED <<entry, phys, end, tags, tag, g_fb>>
    BY <1>2 DEF InitPMM, pvars, bvars
  <2> QED BY <2>1, <2>2, <2>3 DEF BootInv, InputsOK, g_fb_found
<1>3. CASE InitPaging
  BY <1>3, PagingKeepsInputs, PagingKeepsTables DEF InitPaging, BootInv
<1>4. CASE MapFramebuffer
  <2>1. UNCHANGED <<page_directory, table, next_pt, entry, mmap, tags, tag, g_fb>>
    BY <1>4 DEF MapFramebuffer, paging_map_framebuffer, vars, bvars
  <2>2. /\ g_fb.addr \in Int /\ phys' = Aligned(g_fb.addr) \div PageSize
        /\ g_fb.addr + g_fb.size + PageSize - 1 \in Int
        /\ end' = Aligned(g_fb.addr + g_fb.size + PageSize - 1) \div PageSize
    BY <1>4, Sizes DEF MapFramebuffer, paging_map_framebuffer, BootInv, InputsOK, FramebufferOK
  <2>3. phys' \in Nat /\ end' \in Nat
    BY <2>2, AlignedDown
  <2> QED BY <2>1, <2>3 DEF BootInv, TablesOK, InputsOK, g_fb_found
<1>5. CASE InitHeap \/ UseHeap \/ UNCHANGED allvars
  <2>1. UNCHANGED <<pvars, bvars, mmap>>
    BY <1>5 DEF InitHeap, KmallocInit, UseHeap, Kmalloc, Kfree, allvars, vars
  <2> QED BY <2>1 DEF pvars, bvars, BootInv, TablesOK, InputsOK, g_fb_found
<1> QED BY <1>1, <1>2, <1>3, <1>4, <1>5 DEF BNext, Initialize

(* What the invariant says of tables, said of translations.                 *)
LEMMA TablesImplyIdentity == TablesOK => IdentityMapped
<1> SUFFICES ASSUME TablesOK PROVE IdentityMapped
  OBVIOUS
<1>1. \A p \in Mapped : Translate(p) = p
  <2> SUFFICES ASSUME NEW p \in Mapped PROVE Translate(p) = p
    OBVIOUS
  <2> DEFINE d == p \div EarlyEnd
             i == p % EarlyEnd
  <2>1. p \in 0 .. EarlyEnd * EarlyEnd - 1 /\ Translate(p) # Absent
    BY DEF Mapped, Pages
  <2>2. p \in Int /\ EarlyEnd \in Nat \ {0}
    BY <2>1, Sizes, SMT
  <2>3. d \in Int /\ i \in Slots /\ p = EarlyEnd * d + i
    BY <2>2, DivMod, Sizes
  <2> HIDE DEF d, i
  <2>4. d \in Slots
    <3>1. d < 0 => EarlyEnd * d <= -EarlyEnd
      BY <2>3, Sizes, SMT
    <3>2. d >= EarlyEnd => EarlyEnd * d >= EarlyEnd * EarlyEnd
      BY <2>3, Sizes, SMT
    <3> QED BY <2>1, <2>3, <3>1, <3>2, Sizes, SMT
  <2>5. Translate(p) = IF page_directory[d] = Absent THEN Absent ELSE table[page_directory[d]][i]
    BY DEF Translate, d, i
  <2>6. Translate(p) = d * EarlyEnd + i
    BY <2>1, <2>3, <2>4, <2>5 DEF TablesOK
  <2> QED BY <2>3, <2>4, <2>6, Sizes, SMT
<1>2. \A d \in Slots : page_directory[d] \in DOMAIN table \cup {Absent}
  BY DEF TablesOK
<1> QED BY <1>1, <1>2 DEF IdentityMapped, TablesOK

(* Whatever memory map and boot tags the loader passes, and at every step  *)
(* of the build, what is mapped is mapped to itself and no two parts of    *)
(* memory share a table (paging_init_full, paging_map_framebuffer).        *)
THEOREM BootIdentityMapped == BSpec => []IdentityMapped
<1>1. BInit => BootInv
  BY InitOK
<1>2. BootInv /\ [BNext]_allvars => BootInv'
  BY StepOK
<1>3. BootInv => IdentityMapped
  BY TablesImplyIdentity DEF BootInv
<1> QED BY <1>1, <1>2, <1>3, PTL DEF BSpec

-----------------------------------------------------------------------------
(* The heap in the boot *)

(* Every step of the boot is one of the heap's, or leaves it alone.        *)
LEMMA BootStepsHeap == [BNext]_allvars => [KNext]_<<vars, kvars>>
<1> SUFFICES ASSUME [BNext]_allvars PROVE [KNext]_<<vars, kvars>>
  OBVIOUS
<1>1. CASE ReadTag \/ InitPaging \/ MapFramebuffer \/ UNCHANGED allvars
  BY <1>1 DEF ReadTag, InitPaging, MapFramebuffer, allvars
<1>2. CASE InitPMM
  BY <1>2 DEF InitPMM, KNext, Boot, Booting
<1>3. CASE InitHeap
  BY <1>3 DEF InitHeap, KNext
<1>4. CASE UseHeap
  BY <1>4 DEF UseHeap, KNext
<1> QED BY <1>1, <1>2, <1>3, <1>4 DEF BNext, Initialize

(* kernel_main is one of the callers the heap's specification allows: what *)
(* is proved of the heap holds through the boot and after it.              *)
THEOREM BootUsesHeap == BSpec => KSpec
<1>1. BInit => KInit
  BY DEF BInit
<1> QED BY <1>1, BootStepsHeap, PTL DEF BSpec, KSpec

(* The heap's invariant holds in the whole system.                          *)
LEMMA BootKInv == BSpec => []KInv
BY BootUsesHeap, KSpecInv, PTL

(* The heap is the last to be set up: it holds nothing while the tables    *)
(* still change, and early allocation is never on.                         *)
HeapLast == ~early_alloc /\ (held # {} \/ inited # 0 => PagingDone)

(* There is no heap before boot.                                            *)
LEMMA HeapLastInit == BInit => HeapLast
BY DEF BInit, KInit, Init, HeapLast

(* kmalloc_init is the last thing boot does.                                *)
LEMMA HeapLastStep ==
  ASSUME KInv, HeapLast, [BNext]_allvars PROVE HeapLast'
<1>1. CASE ReadTag
  <2>1. held = {} /\ held' = held /\ inited = 0 /\ inited' = inited /\ early_alloc' = early_alloc
    BY <1>1, SMT DEF ReadTag, KInv, IInv, Untouched, vars, kvars
  <2> QED BY <2>1 DEF HeapLast
<1>2. CASE InitPMM
  <2>1. held = {} /\ held' = held /\ inited = 0 /\ inited' = inited /\ early_alloc' = early_alloc
    BY <1>2, SMT DEF InitPMM, ClearBitmap, NoMemoryMap, CountEntry, ReserveKernel, KInv, IInv,
                     Untouched, kvars
  <2> QED BY <2>1 DEF HeapLast
<1>3. CASE InitPaging \/ MapFramebuffer
  <2>1. UNCHANGED <<held, inited, early_alloc>>
    BY <1>3 DEF InitPaging, MapFramebuffer, vars, kvars
  <2>2. ~PagingDone
    BY <1>3 DEF InitPaging, MapFramebuffer, PagingDone, StartPaging, PagingStep, WalkEntry,
                MapRamPage, NextEntry, EnablePaging, MapFramebufferPage, FramebufferMapped,
                paging_map_framebuffer
  <2> QED BY <2>1, <2>2 DEF HeapLast
<1>4. CASE InitHeap
  <2>1. PagingDone'
    BY <1>4 DEF InitHeap, PagingDone, g_fb_found, pvars, bvars
  <2>2. early_alloc' = early_alloc
    BY <1>4 DEF InitHeap, KmallocInit
  <2> QED BY <2>1, <2>2 DEF HeapLast
<1>5. CASE UseHeap
  <2>1. PagingDone' = PagingDone
    BY <1>5 DEF UseHeap, PagingDone, g_fb_found, pvars, bvars
  <2>2. early_alloc' = early_alloc
    BY <1>5 DEF UseHeap, Kmalloc, Kfree
  <2>3. inited # 0
    BY <1>5, HeapFacts DEF UseHeap, Ready
  <2> QED BY <2>1, <2>2, <2>3 DEF HeapLast
<1>6. CASE UNCHANGED allvars
  BY <1>6 DEF allvars, vars, kvars, pvars, bvars, HeapLast, PagingDone, g_fb_found
<1> QED BY <1>1, <1>2, <1>3, <1>4, <1>5, <1>6 DEF BNext, Initialize

-----------------------------------------------------------------------------
(* The lowest 4 MB stay mapped to themselves, by the directory's own table *)

LowIdentity ==
  paging # "off" =>
    /\ page_directory[0] = FirstTable /\ FirstTable \in DOMAIN table
    /\ \A i \in Slots : table[FirstTable][i] = i

(* map_page leaves the first 4 MB mapped.                                   *)
LEMMA LowIdentityPage ==
  ASSUME TablesOK, LowIdentity, paging # "off", NEW p \in Int, map_page(p)
  PROVE  LowIdentity'
<1> USE Sizes
<1> DEFINE d == (p \div EarlyEnd) % EarlyEnd
           s == p % EarlyEnd
           new == page_directory[d] = Absent
           t == IF new THEN next_pt ELSE page_directory[d]
           entries == IF new THEN [i \in Slots |-> Absent] ELSE table[t]
           low == p % (EarlyEnd * EarlyEnd)
<1>1. d \in Slots /\ s \in Slots /\ low = d * EarlyEnd + s
  <2>1. EarlyEnd \in Nat \ {0} /\ Slots = 0 .. EarlyEnd - 1
    BY SMT
  <2>2. p \div EarlyEnd \in Int
    BY <2>1, DivMod
  <2> QED BY <2>1, <2>2, DivMod, Indices
<1>2. /\ page_directory' = [page_directory EXCEPT ![d] = t]
      /\ table' = [x \in DOMAIN table \cup {t} |-> IF x = t THEN [entries EXCEPT ![s] = low] ELSE table[x]]
  BY DEF map_page
<1>3. /\ page_directory[0] = FirstTable /\ FirstTable \in DOMAIN table
      /\ \A i \in Slots : table[FirstTable][i] = i
  BY DEF LowIdentity
<1>4. FirstTable # Absent /\ FirstTable < FirstPool
  BY SMT DEF FirstTable, Absent
<1>5. page_directory'[0] = FirstTable
  <2>1. CASE d = 0
    <3>1. t = FirstTable
      BY <1>3, <1>4, <2>1
    <3> QED BY <1>1, <1>2, <2>1, <3>1 DEF TablesOK
  <2>2. CASE d # 0
    BY <1>1, <1>2, <1>3, <2>2 DEF TablesOK
  <2> QED BY <2>1, <2>2
<1>6. FirstTable \in DOMAIN table'
  BY <1>2, <1>3
<1>7. \A i \in Slots : table'[FirstTable][i] = i
  <2>1. CASE d = 0
    <3>1. t = FirstTable /\ entries = table[FirstTable]
      BY <1>3, <1>4, <2>1
    <3>2. table'[FirstTable] = [table[FirstTable] EXCEPT ![s] = low]
      BY <1>2, <3>1
    <3>3. low = s
      BY <1>1, <2>1, SMT
    <3>4. table[FirstTable] \in [Slots -> Int]
      BY <1>3, <1>4 DEF TablesOK
    <3> HIDE DEF low, s
    <3> QED BY <1>1, <1>3, <3>2, <3>3, <3>4
  <2>2. CASE d # 0
    <3>1. t # FirstTable
      <4>1. CASE new
        BY <4>1, <1>4, SMT DEF TablesOK
      <4>2. CASE ~new
        BY <4>2, <1>1, <1>3, <1>4, <2>2 DEF TablesOK
      <4> QED BY <4>1, <4>2
    <3> HIDE DEF t, entries
    <3>2. table'[FirstTable] = table[FirstTable]
      BY <1>2, <1>3, <3>1
    <3> QED BY <1>3, <3>2
  <2> QED BY <2>1, <2>2
<1> QED BY <1>5, <1>6, <1>7 DEF LowIdentity

(* There is no table before paging is set up.                               *)
LEMMA LowIdentityInit == BInit => LowIdentity
BY DEF BInit, PagingInit, LowIdentity

(* Every step leaves the first 4 MB mapped.                                 *)
LEMMA LowIdentityStep ==
  ASSUME BootInv, LowIdentity, [BNext]_allvars PROVE LowIdentity'
<1>1. CASE StartPaging
  <2>1. page_directory'[0] = FirstTable /\ table' = [x \in {FirstTable} |-> [i \in Slots |-> i]]
    BY <1>1, Sizes DEF StartPaging
  <2> QED BY <2>1 DEF LowIdentity
<1>2. CASE MapRamPage \/ MapFramebufferPage
  <2>1. paging # "off" /\ map_page(phys) /\ phys \in Int /\ TablesOK
    BY <1>2 DEF MapRamPage, MapFramebufferPage, BootInv, InputsOK
  <2> QED BY <2>1, LowIdentityPage
<1>3. CASE WalkEntry \/ NextEntry \/ EnablePaging \/ FramebufferMapped \/ MapFramebuffer
  <2>1. paging # "off" /\ UNCHANGED <<page_directory, table>>
    BY <1>3 DEF WalkEntry, NextEntry, EnablePaging, FramebufferMapped, MapFramebuffer,
                paging_map_framebuffer
  <2> QED BY <2>1 DEF LowIdentity
<1>4. CASE UNCHANGED pvars
  BY <1>4 DEF pvars, LowIdentity
<1> QED
  BY <1>1, <1>2, <1>3, <1>4
     DEF BNext, Initialize, ReadTag, InitPMM, InitPaging, PagingStep, InitHeap, UseHeap, allvars


-----------------------------------------------------------------------------
(* The pool of tables *)

PagingPhases == {"off", "entries", "pages", "on", "framebuffer", "mapped"}

(* The 4 MB whose table came from the pool.                                *)
FromPool == {d \in Slots \ {0} : page_directory[d] # Absent}

(* The tables in use are those of the directory, and next_pt has moved on  *)
(* by one for each that came from the pool.                                *)
PoolOK ==
  /\ paging \in PagingPhases
  /\ DOMAIN table = {page_directory[d] : d \in Slots} \ {Absent}
  /\ \A d \in Slots : page_directory[d] # Absent => page_directory[d] >= FirstTable
  /\ paging = "off" => \A d \in Slots : page_directory[d] = Absent
  /\ next_pt = FirstPool + Cardinality(FromPool)

(* No more tables are in use than the directory has entries.                *)
LEMMA FromPoolFinite ==
  IsFiniteSet(FromPool) /\ Cardinality(FromPool) \in 0 .. EarlyEnd
<1>1. IsFiniteSet(Slots) /\ Cardinality(Slots) = EarlyEnd
  <2>1. Slots = 0 .. EarlyEnd - 1 /\ 0 \in Int /\ EarlyEnd - 1 \in Int /\ EarlyEnd \in Nat
    BY Sizes
  <2>2. Cardinality(0 .. EarlyEnd - 1) = (EarlyEnd - 1) - 0 + 1
    BY <2>1, Sizes, FS_Interval
  <2>3. IsFiniteSet(0 .. EarlyEnd - 1)
    BY <2>1, FS_Interval
  <2> QED BY <2>1, <2>2, <2>3
<1>2. FromPool \subseteq Slots
  BY DEF FromPool
<1>3. IsFiniteSet(FromPool) /\ Cardinality(FromPool) <= Cardinality(Slots)
  BY <1>1, <1>2, FS_Subset
<1>4. Cardinality(FromPool) \in Nat
  BY <1>3, FS_CardinalityType
<1> QED BY <1>1, <1>3, <1>4, Sizes

(* There is no table before paging is set up.                               *)
LEMMA PoolInit == BInit => PoolOK
<1> SUFFICES ASSUME BInit PROVE PoolOK
  OBVIOUS
<1>1. page_directory = [d \in Slots |-> Absent] /\ table = [x \in {} |-> Absent]
      /\ next_pt = FirstPool /\ paging = "off"
  BY DEF BInit, PagingInit
<1>2. FromPool = {} /\ Cardinality({}) = 0
  BY <1>1, FS_EmptySet DEF FromPool
<1>3. DOMAIN table = {}
  BY <1>1
<1>4. {page_directory[d] : d \in Slots} \ {Absent} = {}
  BY <1>1
<1> QED BY <1>1, <1>2, <1>3, <1>4, Sizes DEF PoolOK, PagingPhases

(* paging_init_full starts at the beginning of the pool.                    *)
LEMMA PoolStart ==
  ASSUME PoolOK, StartPaging PROVE PoolOK'
<1>1. /\ page_directory' = [d \in Slots |-> IF d = 0 THEN FirstTable ELSE Absent]
      /\ table' = [x \in {FirstTable} |-> [i \in Slots |-> i]]
      /\ next_pt' = next_pt /\ paging = "off" /\ paging' = "entries"
  BY DEF StartPaging
<1>2. FirstTable \in Nat /\ FirstTable # Absent /\ 0 \in Slots
  BY Sizes, SMT DEF FirstTable, Absent
<1>3. FromPool' = FromPool
  BY <1>1 DEF FromPool, PoolOK
<1>4. DOMAIN table' = {FirstTable}
  BY <1>1
<1>5. {page_directory'[d] : d \in Slots} \ {Absent} = {FirstTable}
  BY <1>1, <1>2
<1>6. \A d \in Slots : page_directory'[d] # Absent => page_directory'[d] >= FirstTable
  BY <1>1, <1>2
<1> QED BY <1>1, <1>3, <1>4, <1>5, <1>6 DEF PoolOK, PagingPhases

(* map_page takes at most one table, and uses it for one entry.             *)
LEMMA PoolPage ==
  ASSUME TablesOK, PoolOK, LowIdentity, paging # "off", NEW p \in Int, map_page(p),
         paging' \in PagingPhases \ {"off"}
  PROVE  PoolOK'
<1> DEFINE d == (p \div EarlyEnd) % EarlyEnd
           s == p % EarlyEnd
           new == page_directory[d] = Absent
           t == IF new THEN next_pt ELSE page_directory[d]
           entries == IF new THEN [i \in Slots |-> Absent] ELSE table[t]
           low == p % (EarlyEnd * EarlyEnd)
<1>1. d \in Slots
  <2>1. EarlyEnd \in Nat \ {0} /\ Slots = 0 .. EarlyEnd - 1
    BY Sizes
  <2>2. p \div EarlyEnd \in Int
    BY <2>1, DivMod
  <2> QED BY <2>1, <2>2, DivMod
<1>2. /\ page_directory' = [page_directory EXCEPT ![d] = t]
      /\ table' = [x \in DOMAIN table \cup {t} |-> IF x = t THEN [entries EXCEPT ![s] = low] ELSE table[x]]
      /\ next_pt' = IF new THEN next_pt + 1 ELSE next_pt
  BY DEF map_page, NextTable
<1>3. page_directory \in [Slots -> Int] /\ next_pt \in Nat /\ FirstPool <= next_pt
  BY DEF TablesOK
<1>4. FirstTable \in Nat /\ FirstTable # Absent /\ FirstTable < FirstPool /\ FirstPool \in Nat
  BY Sizes, SMT DEF FirstTable, Absent
<1>5. t \in Int /\ t # Absent /\ t >= FirstTable
  BY <1>1, <1>3, <1>4, SMT DEF PoolOK, Absent
<1>6. page_directory'[d] = t /\ \A c \in Slots \ {d} : page_directory'[c] = page_directory[c]
  BY <1>1, <1>2, <1>3
<1>7. DOMAIN table' = DOMAIN table \cup {t}
  BY <1>2
<1>8. CASE ~new
  <2>1. t = page_directory[d] /\ page_directory' = page_directory /\ next_pt' = next_pt
    BY <1>1, <1>2, <1>3, <1>8
  <2>2. DOMAIN table' = DOMAIN table
    BY <2>1, <1>1, <1>5, <1>7 DEF PoolOK
  <2> HIDE DEF d, t, new
  <2>3. FromPool' = FromPool
    BY <2>1 DEF FromPool
  <2> QED BY <2>1, <2>2, <2>3 DEF PoolOK
<1>9. CASE new
  <2>1. d # 0
    BY <1>4, <1>9 DEF LowIdentity
  <2>2. t = next_pt /\ next_pt' = next_pt + 1
    BY <1>2, <1>9
  <2>3. page_directory[d] = Absent
    BY <1>9
  <2> HIDE DEF d, t, new
  <2>4. FromPool' = FromPool \cup {d} /\ d \notin FromPool
    BY <1>1, <1>5, <1>6, <2>1, <2>3 DEF FromPool
  <2>5. Cardinality(FromPool') = Cardinality(FromPool) + 1
    BY <2>4, FromPoolFinite, FS_AddElement
  <2>6. {page_directory'[c] : c \in Slots} \ {Absent}
          = ({page_directory[c] : c \in Slots} \ {Absent}) \cup {t}
    BY <1>1, <1>5, <1>6, <2>3
  <2>7. \A c \in Slots : page_directory'[c] # Absent => page_directory'[c] >= FirstTable
    BY <1>5, <1>6 DEF PoolOK
  <2>8. next_pt' = FirstPool + Cardinality(FromPool')
    BY <1>4, <2>2, <2>5, FromPoolFinite DEF PoolOK
  <2> QED BY <1>7, <2>6, <2>7, <2>8 DEF PoolOK
<1> QED BY <1>8, <1>9

(* Every step keeps the tables counted.                                     *)
LEMMA PoolStep ==
  ASSUME BootInv, LowIdentity, PoolOK, [BNext]_allvars PROVE PoolOK'
<1>1. CASE StartPaging
  BY <1>1, PoolStart
<1>2. CASE MapRamPage \/ MapFramebufferPage
  <2>1. /\ paging # "off" /\ paging' = paging /\ map_page(phys) /\ phys \in Int /\ TablesOK
    BY <1>2 DEF MapRamPage, MapFramebufferPage, BootInv, InputsOK
  <2>2. paging' \in PagingPhases \ {"off"}
    BY <2>1 DEF PoolOK
  <2> QED BY <2>1, <2>2, PoolPage
<1>3. CASE WalkEntry \/ NextEntry \/ EnablePaging \/ FramebufferMapped \/ MapFramebuffer
  <2>1. /\ paging # "off" /\ paging' \in PagingPhases \ {"off"}
        /\ UNCHANGED <<page_directory, table, next_pt>>
    BY <1>3 DEF WalkEntry, NextEntry, EnablePaging, FramebufferMapped, MapFramebuffer,
                paging_map_framebuffer, PagingPhases
  <2>2. FromPool' = FromPool
    BY <2>1 DEF FromPool
  <2> QED BY <2>1, <2>2 DEF PoolOK
<1>4. CASE UNCHANGED pvars
  <2>1. FromPool' = FromPool
    BY <1>4 DEF pvars, FromPool
  <2> QED BY <1>4, <2>1 DEF pvars, PoolOK
<1> QED
  BY <1>1, <1>2, <1>3, <1>4
     DEF BNext, Initialize, ReadTag, InitPMM, InitPaging, PagingStep, InitHeap, UseHeap, allvars

(* The invariants of paging hold in the whole system.                       *)
LEMMA BootPaging == BSpec => [](BootInv /\ LowIdentity /\ PoolOK)
<1>1. BInit => BootInv /\ LowIdentity /\ PoolOK
  BY InitOK, LowIdentityInit, PoolInit
<1>2. BootInv /\ LowIdentity /\ PoolOK /\ [BNext]_allvars => (BootInv /\ LowIdentity /\ PoolOK)'
  BY StepOK, LowIdentityStep, PoolStep
<1> QED BY <1>1, <1>2, PTL DEF BSpec

(* The tables and next_pt keep their types: with a table for each 4 MB the *)
(* pool never grows beyond EarlyEnd pages, whatever the memory map says    *)
(* (paging_init_full, paging_map_framebuffer).                             *)
THEOREM BootPagingTypeOK == BSpec => []PagingTypeOK
<1>1. BootInv /\ PoolOK => PagingTypeOK
  <2> SUFFICES ASSUME BootInv, PoolOK PROVE PagingTypeOK
    OBVIOUS
  <2>1. TablesOK /\ InputsOK
    BY DEF BootInv
  <2>2. /\ page_directory \in [Slots -> Int]
        /\ \A d \in Slots : page_directory[d] # Absent =>
             page_directory[d] \in FirstTable .. next_pt - 1
    <3>1. page_directory \in [Slots -> Int] /\ next_pt \in Nat
      BY <2>1 DEF TablesOK
    <3>2. FirstTable \in Nat
      BY Sizes DEF FirstTable
    <3>3. \A d \in Slots : page_directory[d] # Absent =>
            FirstTable <= page_directory[d] /\ page_directory[d] < next_pt
      BY <2>1 DEF TablesOK, PoolOK
    <3> QED BY <3>1, <3>2, <3>3
  <2>3. page_directory \in [Slots -> {Absent} \cup FirstTable .. next_pt - 1]
    BY <2>2
  <2>4. DOMAIN table \subseteq FirstTable .. next_pt - 1
    BY <2>2 DEF PoolOK
  <2>5. \A x \in DOMAIN table : table[x] \in [Slots -> {Absent} \cup Pages]
    <3> SUFFICES ASSUME NEW x \in DOMAIN table PROVE table[x] \in [Slots -> {Absent} \cup Pages]
      OBVIOUS
    <3>1. PICK d \in Slots : x = page_directory[d] /\ x # Absent
      BY DEF PoolOK
    <3>2. table[x] \in [Slots -> Int] /\ \A i \in Slots : table[x][i] \in {Absent, d * EarlyEnd + i}
      BY <3>1, <2>1 DEF TablesOK
    <3>3. \A i \in Slots : d * EarlyEnd + i \in Pages
      <4> SUFFICES ASSUME NEW i \in Slots PROVE d * EarlyEnd + i \in Pages
        OBVIOUS
      <4>1. EarlyEnd \in Nat /\ d \in Nat /\ i \in Nat /\ d < EarlyEnd /\ i < EarlyEnd
        BY Sizes
      <4>2. d * EarlyEnd \in Nat /\ d * EarlyEnd + EarlyEnd <= EarlyEnd * EarlyEnd
        BY <4>1, Multiples
      <4>3. EarlyEnd * EarlyEnd \in Nat
        BY <4>1
      <4> QED BY <4>1, <4>2, <4>3 DEF Pages
    <3> QED BY <3>2, <3>3
  <2>6. next_pt \in FirstPool .. FirstPool + EarlyEnd
    BY FromPoolFinite, Sizes DEF PoolOK
  <2>7. entry \in Nat /\ phys \in Nat /\ end \in Nat
    BY <2>1 DEF InputsOK
  <2>8. paging \in {"off", "entries", "pages", "on", "framebuffer", "mapped"}
    BY DEF PoolOK, PagingPhases
  <2> QED BY <2>3, <2>4, <2>5, <2>6, <2>7, <2>8 DEF PagingTypeOK
<1> QED BY <1>1, BootPaging, PTL

(* The pages of the heap *)

(* What one step takes: nothing, or the lowest page that is free.          *)
LEMMA HeapTakesLowest ==
  ASSUME KInv, HeapLast, KmallocInit \/ \E size \in Requests : Kmalloc(size)
  PROVE  \/ held' = held
         \/ \E page \in KernelEndPage + 1 .. TotalPages - 1 :
              /\ held' = held \cup {page} /\ page \notin held
              /\ \A q \in KernelEndPage + 1 .. page - 1 : q \in ZeroedPages => q \in held
<1>1. CASE held' = held
  BY <1>1
<1>2. ASSUME held' # held PROVE phase = "ready" /\ \E page \in {NULL} \cup Window : TakePage(page)
  <2>1. CASE KmallocInit
    BY <2>1 DEF KmallocInit, InitCache
  <2>2. ASSUME NEW size \in Requests, Kmalloc(size)
        PROVE  phase = "ready" /\ \E page \in {NULL} \cup Window : TakePage(page)
    <3>1. PICK page \in {NULL} \cup Window : kmalloc(size, page)
      BY <2>2 DEF Kmalloc
    <3>2. TakePage(page)
      BY <3>1, <1>2 DEF kmalloc, kmalloc_block, kmalloc_page, NoPage
    <3>3. phase = "ready"
      BY <2>2, HeapFacts DEF Kmalloc, KInv
    <3> QED BY <3>2, <3>3
  <2> QED BY <2>1, <2>2
<1>3. CASE held' # held
  <2>1. IInv /\ phase = "ready"
    BY <1>2, <1>3 DEF KInv
  <2>2. PICK page \in {NULL} \cup Window : TakePage(page)
    BY <1>2, <1>3
  <2>3. page \in Window \ used /\ \A q \in Window : q < page => q \in used
    BY <2>2, <1>3 DEF TakePage, pmm_alloc_page
  <2>4. page \in 1 .. TotalPages - 1 /\ page \notin held /\ held' = held \cup {page}
    BY <2>1, <2>2, <1>3, TakePageFacts DEF NoPage
  <2>5. Window = 0 .. total_pages - 1 /\ total_pages = TotalPages /\ total_pages > 0
    <3>1. Window = 0 .. total_pages - 1
      BY DEF Window, HeapLast
    <3>2. total_pages # 0
      BY <3>1, <2>3
    <3> QED BY <3>1, <3>2, <2>1, SizesAreNat DEF IInv, TypeOK
  <2>6. ReservedPages \subseteq used /\ used \cap ZeroedPages = (ReservedPages \cup held) \cap ZeroedPages
    BY <2>1, <2>5 DEF IInv, PagesAccountedFor
  <2>7. page \in KernelEndPage + 1 .. TotalPages - 1
    BY <2>3, <2>4, <2>6, SizesAssumption, SizesAreNat DEF ReservedPages
  <2>8. \A q \in KernelEndPage + 1 .. page - 1 : q \in ZeroedPages => q \in held
    <3> SUFFICES ASSUME NEW q \in KernelEndPage + 1 .. page - 1, q \in ZeroedPages PROVE q \in held
      OBVIOUS
    <3>1. q \in Window /\ q < page /\ q \notin ReservedPages
      BY <2>5, <2>7, SizesAssumption, SizesAreNat DEF ReservedPages
    <3>2. q \in used
      BY <3>1, <2>3
    <3> QED BY <3>1, <3>2, <2>6
  <2> QED BY <2>4, <2>7, <2>8
<1> QED BY <1>1, <1>3

(* First fit takes the pages below the directory before any other: a page  *)
(* of tables is taken only when all of those are.                          *)
FirstFit ==
  IF held \cap Tables = {} THEN held \subseteq KernelEndPage + 1 .. Directory - 1
  ELSE KernelEndPage + 1 .. Directory - 1 \subseteq held

(* The allocator hands out the lowest clear page, so the heap grows upwards. *)
LEMMA FirstFitTake ==
  ASSUME KInv, HeapLast, FirstFit, KmallocInit \/ \E size \in Requests : Kmalloc(size),
         Tables' = Tables, Tables \subseteq {x \in Int : x >= Directory}
  PROVE  FirstFit'
<1>1. CASE held' = held
  BY <1>1 DEF FirstFit
<1>2. CASE \E page \in KernelEndPage + 1 .. TotalPages - 1 :
              /\ held' = held \cup {page} /\ page \notin held
              /\ \A q \in KernelEndPage + 1 .. page - 1 : q \in ZeroedPages => q \in held
  <2>1. PICK page \in KernelEndPage + 1 .. TotalPages - 1 :
              /\ held' = held \cup {page} /\ page \notin held
              /\ \A q \in KernelEndPage + 1 .. page - 1 : q \in ZeroedPages => q \in held
    BY <1>2
  <2>2. /\ KernelEndPage \in Nat /\ Directory \in Nat /\ KernelEndPage < Directory
        /\ TotalPages \in Nat /\ Directory \in Tables
    BY SizesAssumption, SizesAreNat, PagingAssumption, Sizes DEF Tables
  <2>3. \A q \in 0 .. Directory : q \in ZeroedPages
    <3> DEFINE c == (TotalPages \div WordBits) * WordBits
    <3>1. c \in Nat
      <4>1. TotalPages \div WordBits \in Nat /\ WordBits \in Nat
        BY <2>2, SizesAssumption, Division
      <4> QED BY <4>1
    <3>2. Directory \in 0 .. c - 1
      BY BootAssumption, Zenon DEF ZeroedPages
    <3> HIDE DEF c
    <3>3. \A q \in 0 .. Directory : q \in 0 .. c - 1
      BY <3>1, <3>2
    <3> QED BY <3>3 DEF ZeroedPages, c
  <2>4. CASE held \cap Tables # {}
    BY <2>1, <2>4 DEF FirstFit
  <2>5. CASE held \cap Tables = {} /\ page \in Tables
    <3>1. page >= Directory
      BY <2>5
    <3>2. KernelEndPage + 1 .. Directory - 1 \subseteq held
      BY <2>1, <2>2, <2>3, <3>1
    <3>3. held' \cap Tables' # {}
      BY <2>1, <2>5
    <3> QED BY <2>1, <3>2, <3>3 DEF FirstFit
  <2>6. CASE held \cap Tables = {} /\ page \notin Tables
    <3>1. held \subseteq KernelEndPage + 1 .. Directory - 1
      BY <2>6 DEF FirstFit
    <3>2. page < Directory
      <4> SUFFICES ASSUME page >= Directory PROVE FALSE
        BY <2>1, <2>2
      <4>1. page > Directory
        BY <2>1, <2>2, <2>6
      <4>2. Directory \in held
        BY <2>1, <2>2, <2>3, <4>1
      <4> QED BY <4>2, <2>2, <2>6
    <3>3. page \in KernelEndPage + 1 .. Directory - 1
      BY <2>1, <2>2, <3>2
    <3>4. held' \cap Tables' = {} /\ held' \subseteq KernelEndPage + 1 .. Directory - 1
      BY <2>1, <2>6, <3>1, <3>3
    <3> QED BY <3>4 DEF FirstFit
  <2> QED BY <2>4, <2>5, <2>6
<1> QED BY <1>1, <1>2, HeapTakesLowest

(* Every table lies in the directory's page or behind it.                   *)
LEMMA TablesAboveDirectory == PoolOK /\ TablesOK => Tables \subseteq {x \in Int : x >= Directory}
<1> SUFFICES ASSUME PoolOK, TablesOK, NEW x \in Tables PROVE x \in Int /\ x >= Directory
  OBVIOUS
<1>1. Directory \in Nat
  BY Sizes
<1>2. CASE x = Directory
  BY <1>1, <1>2
<1>3. CASE x # Directory
  <2>1. PICK d \in Slots : x = page_directory[d] /\ x # Absent
    BY <1>3 DEF Tables
  <2>2. x \in Int /\ x >= FirstTable
    BY <2>1 DEF PoolOK, TablesOK
  <2> QED BY <1>1, <2>2 DEF FirstTable
<1> QED BY <1>2, <1>3

(* There is no heap before boot.                                            *)
LEMMA FirstFitInit == BInit => FirstFit
BY DEF BInit, KInit, Init, FirstFit

(* The heap is below the directory until the pages there are used up.       *)
LEMMA FirstFitStep ==
  ASSUME KInv, BootInv, PoolOK, HeapLast, FirstFit, [BNext]_allvars
  PROVE  FirstFit'
<1>1. CASE ReadTag \/ InitPMM
  <2>1. held = {} /\ held' = held
    BY <1>1 DEF ReadTag, InitPMM, ClearBitmap, NoMemoryMap, CountEntry, ReserveKernel, KInv, IInv,
                Untouched, vars
  <2> QED BY <2>1 DEF FirstFit
<1>2. CASE InitPaging \/ MapFramebuffer
  <2>1. ~PagingDone
    BY <1>2 DEF InitPaging, MapFramebuffer, PagingDone, StartPaging, PagingStep, WalkEntry,
                MapRamPage, NextEntry, EnablePaging, MapFramebufferPage, FramebufferMapped,
                paging_map_framebuffer
  <2>2. held = {} /\ held' = held
    BY <1>2, <2>1 DEF InitPaging, MapFramebuffer, HeapLast, vars
  <2> QED BY <2>2 DEF FirstFit
<1>3. CASE InitHeap \/ UseHeap \/ UNCHANGED allvars
  <2>1. Tables' = Tables
    BY <1>3 DEF InitHeap, UseHeap, allvars, pvars, Tables
  <2>2. Tables \subseteq {x \in Int : x >= Directory}
    BY TablesAboveDirectory DEF BootInv
  <2>3. CASE KmallocInit \/ \E size \in Requests : Kmalloc(size)
    BY <2>1, <2>2, <2>3, FirstFitTake
  <2>4. CASE UseHeap /\ \E ptr \in DOMAIN live : Kfree(ptr)
    <3>1. held \cap Tables = {}
      BY <2>4 DEF UseHeap
    <3>2. held' \subseteq held
      BY <2>4 DEF Kfree, kfree, NoPage
    <3> QED BY <2>1, <3>1, <3>2 DEF FirstFit
  <2>5. CASE UNCHANGED allvars
    BY <2>1, <2>5 DEF allvars, vars, FirstFit
  <2> QED BY <1>3, <2>3, <2>4, <2>5 DEF InitHeap, UseHeap
<1> QED BY <1>1, <1>2, <1>3 DEF BNext, Initialize

(* The invariants of the heap's place hold in the whole system.             *)
LEMMA BootHeapInv == BSpec => [](HeapLast /\ FirstFit)
<1>1. BInit => HeapLast /\ FirstFit
  BY HeapLastInit, FirstFitInit
<1>2. /\ KInv /\ BootInv /\ LowIdentity /\ PoolOK /\ HeapLast /\ FirstFit /\ [BNext]_allvars
      => (HeapLast /\ FirstFit)'
  BY HeapLastStep, FirstFitStep
<1> QED BY <1>1, <1>2, BootKInv, BootPaging, PTL DEF BSpec

(* A page below 4 MB is mapped to itself as soon as there are tables.      *)
LEMMA LowMapped ==
  ASSUME LowIdentity, paging # "off", NEW p \in Slots
  PROVE  Translate(p) = p
<1>1. p \in Nat /\ EarlyEnd \in Nat \ {0} /\ p < EarlyEnd
  BY Sizes
<1>2. p \div EarlyEnd = 0
  <2>1. 0 * EarlyEnd <= p /\ p < 0 * EarlyEnd + EarlyEnd
    BY <1>1
  <2> QED BY <1>1, <2>1, Division
<1>3. p % EarlyEnd = p
  <2>1. p = EarlyEnd * (p \div EarlyEnd) + (p % EarlyEnd) /\ p % EarlyEnd \in Int
    BY <1>1, DivMod
  <2> QED BY <1>1, <1>2, <2>1
<1>4. FirstTable # Absent
  BY Sizes, SMT DEF FirstTable, Absent
<1> QED BY <1>2, <1>3, <1>4 DEF Translate, LowIdentity

(* The page allocator knows nothing of the page tables, and the heap still *)
(* gets only pages that are mapped and hold no table, until every page     *)
(* below the directory is taken: first fit, and the order kernel_main      *)
(* starts them in (pmm_alloc_page, paging_init_full, kmalloc_init).        *)
THEOREM BootHeapPagesUsable == BSpec => []HeapPagesUsable
<1>1. LowIdentity /\ HeapLast /\ FirstFit => HeapPagesUsable
  <2> SUFFICES ASSUME LowIdentity, HeapLast, FirstFit PROVE HeapPagesUsable
    OBVIOUS
  <2>1. CASE held \cap Tables = {}
    <3> SUFFICES ASSUME NEW p \in held PROVE Translate(p) = p
      BY <2>1 DEF HeapPagesUsable
    <3>1. p \in KernelEndPage + 1 .. Directory - 1
      BY <2>1 DEF FirstFit
    <3>2. p \in Slots
      <4>1. Directory <= EarlyEnd /\ KernelEndPage \in Nat /\ EarlyEnd \in Nat /\ Directory \in Nat
        BY Sizes, SizesAssumption, SMT DEF Directory
      <4> QED BY <3>1, <4>1, Sizes
    <3>3. paging # "off"
      BY DEF HeapLast, PagingDone
    <3> QED BY <3>2, <3>3, LowMapped
  <2>2. CASE held \cap Tables # {}
    BY <2>2 DEF FirstFit, HeapPagesUsable
  <2> QED BY <2>1, <2>2
<1> QED BY <1>1, BootPaging, BootHeapInv, PTL

-----------------------------------------------------------------------------
(* Areas and pages *)

(* Nothing is cut off a number below the divisor.                           *)
LEMMA SmallRemainder ==
  ASSUME NEW n \in Nat \ {0}, NEW x \in 0 .. n - 1
  PROVE  x % n = x
<1>1. n * 0 + x = x
  OBVIOUS
<1> QED BY <1>1, Remainder

(* A quotient is at least q exactly when q whole pages fit.                *)
LEMMA AtLeastPages ==
  ASSUME NEW x \in Nat, NEW q \in Nat
  PROVE  q <= x \div PageSize <=> q * PageSize <= x
<1> DEFINE c == x \div PageSize
<1>1. PageSize \in Nat \ {0}
  BY Sizes
<1>2. c \in Nat /\ c * PageSize <= x
  BY <1>1, Division
<1>3. x < c * PageSize + PageSize
  <2>1. x = PageSize * c + (x % PageSize) /\ x % PageSize \in 0 .. PageSize - 1
    BY <1>1, DivMod
  <2> HIDE DEF c
  <2>2. PageSize * c = c * PageSize /\ c * PageSize \in Nat
    BY <1>1, <1>2
  <2> QED BY <1>1, <2>1, <2>2
<1> HIDE DEF c
<1>4. q * PageSize \in Nat /\ c * PageSize \in Nat
  BY <1>1, <1>2
<1>5. q < c => q * PageSize + PageSize <= c * PageSize
  BY <1>1, <1>2, Multiples
<1>6. c < q => c * PageSize + PageSize <= q * PageSize
  BY <1>1, <1>2, Multiples
<1>7. q <= c <=> q * PageSize <= x
  BY <1>1, <1>2, <1>3, <1>4, <1>5, <1>6
<1> QED BY <1>7 DEF c

PageAfter(e) == (e.addr + PageSize - 1) \div PageSize

PageBehind(e) == (e.addr + e.len) \div PageSize

AreaOK(e) == e.addr \in Nat /\ e.len \in Nat /\ e.addr + e.len <= Wide - PageSize

Within(p, e) == e.addr <= p * PageSize /\ (p + 1) * PageSize <= e.addr + e.len

(* The pages within an area are an interval.                                *)
LEMMA PagesWithin ==
  ASSUME NEW e, AreaOK(e)
  PROVE  /\ PageAfter(e) \in Nat /\ PageBehind(e) \in Nat /\ PageBehind(e) <= Wide \div PageSize
         /\ \A p \in Nat : Within(p, e) <=> PageAfter(e) <= p /\ p < PageBehind(e)
<1>1. PageSize \in Nat \ {0} /\ Wide \in Nat
  BY Sizes
<1>2. e.addr \in Nat /\ e.len \in Nat /\ e.addr + e.len <= Wide - PageSize
  BY DEF AreaOK
<1> DEFINE x == e.addr + PageSize - 1
           y == e.addr + e.len
<1>3. x \in Nat /\ y \in Nat /\ y <= Wide
  BY <1>1, <1>2
<1>4. PageAfter(e) = x \div PageSize /\ PageBehind(e) = y \div PageSize
  BY DEF PageAfter, PageBehind
<1> HIDE DEF x, y
<1>5. PageAfter(e) \in Nat /\ PageBehind(e) \in Nat /\ PageBehind(e) * PageSize <= y
  BY <1>1, <1>3, <1>4, Division
<1>6. PageBehind(e) <= Wide \div PageSize
  <2>1. PageBehind(e) * PageSize <= Wide
    BY <1>1, <1>3, <1>5
  <2> QED BY <1>1, <1>5, <2>1, AtLeastPages
<1>7. ASSUME NEW p \in Nat
      PROVE  Within(p, e) <=> PageAfter(e) <= p /\ p < PageBehind(e)
  <2>1. p + 1 <= PageAfter(e) <=> (p + 1) * PageSize <= x
    BY <1>3, <1>4, AtLeastPages
  <2>2. p + 1 <= PageBehind(e) <=> (p + 1) * PageSize <= y
    BY <1>3, <1>4, AtLeastPages
  <2>3. (p + 1) * PageSize = p * PageSize + PageSize /\ p * PageSize \in Nat
    BY <1>1
  <2>4. e.addr <= p * PageSize <=> ~((p + 1) * PageSize <= x)
    BY <1>1, <1>2, <2>3 DEF x
  <2>5. PageAfter(e) <= p <=> ~(p + 1 <= PageAfter(e))
    BY <1>5
  <2>6. p < PageBehind(e) <=> p + 1 <= PageBehind(e)
    BY <1>5
  <2> QED BY <2>1, <2>2, <2>4, <2>5, <2>6 DEF Within, y
<1> QED BY <1>5, <1>6, <1>7

(* The masks and the wrapping sums of the walk come to the whole pages of  *)
(* the area, even where it holds none and the length goes below zero.      *)
LEMMA AreaEndPage ==
  ASSUME NEW e, AreaOK(e)
  PROVE  LET base == Aligned(e.addr + PageSize - 1)
             len  == Aligned(e.len - (base - e.addr))
         IN  /\ base = PageSize * PageAfter(e)
             /\ (base + len) % Wide = PageSize * PageBehind(e)
<1> DEFINE base == Aligned(e.addr + PageSize - 1)
           b == PageAfter(e)
           t == PageBehind(e)
           x == e.addr + PageSize - 1
           z == e.addr + e.len
           y == e.len - (base - e.addr)
           len == Aligned(y)
<1>1. PageSize \in Nat \ {0} /\ Wide \in Nat \ {0}
  BY Sizes
<1>2. e.addr \in Nat /\ e.len \in Nat /\ e.addr + e.len <= Wide - PageSize
  BY DEF AreaOK
<1>3. x \in 0 .. Wide - 1 /\ x \in Nat /\ z \in 0 .. Wide - 1 /\ z \in Nat
  BY <1>1, <1>2
<1>4. b \in Nat /\ t \in Nat
  BY PagesWithin
<1>5. base = PageSize * b /\ base \in Nat
  <2>1. x % Wide = x
    BY <1>1, <1>3, SmallRemainder
  <2>2. Aligned(x) = PageSize * ((x % Wide) \div PageSize) /\ Aligned(x) \in Nat
    BY <1>3, AlignedDown
  <2>3. Aligned(x) = PageSize * (x \div PageSize)
    BY <2>1, <2>2
  <2> QED BY <2>2, <2>3 DEF PageAfter
<1>6. base <= x
  <2>1. (x \div PageSize) * PageSize <= x
    BY <1>1, <1>3, Division
  <2> QED BY <1>1, <1>4, <1>5, <2>1 DEF PageAfter
<1>7. t * PageSize <= z /\ z < t * PageSize + PageSize
  <2>1. z \div PageSize = t
    BY DEF PageBehind
  <2>2. t * PageSize <= z
    BY <1>1, <1>3, <2>1, Division
  <2>3. ~(t + 1 <= z \div PageSize)
    BY <1>4, <2>1
  <2>4. ~((t + 1) * PageSize <= z)
    BY <1>3, <1>4, <2>3, AtLeastPages
  <2>5. (t + 1) * PageSize = t * PageSize + PageSize /\ t * PageSize \in Nat
    BY <1>1, <1>4
  <2> QED BY <1>1, <1>3, <2>2, <2>4, <2>5
<1>8. y = z - base /\ x = e.addr + PageSize - 1 /\ e.addr <= z
  BY <1>2, <1>5
<1> HIDE DEF base, b, t, x, z, y
<1>9. y \in Int
  BY <1>3, <1>5, <1>8
<1>10. CASE base <= z
  <2>1. y \in 0 .. Wide - 1 /\ y \in Nat
    BY <1>1, <1>3, <1>5, <1>8, <1>10
  <2>2. len = PageSize * (y \div PageSize)
    BY <1>1, <1>9, <2>1, SmallRemainder, AlignedDown
  <2> DEFINE c == y \div PageSize
  <2>3. c \in Nat /\ c * PageSize <= y
    BY <1>1, <2>1, Division
  <2>4. y < (c + 1) * PageSize
    <3>1. ~(c + 1 <= y \div PageSize)
      BY <2>3
    <3>2. c + 1 \in Nat
      BY <2>3
    <3>3. ~((c + 1) * PageSize <= y)
      BY <2>1, <3>1, <3>2, AtLeastPages
    <3>4. (c + 1) * PageSize \in Nat
      BY <1>1, <3>2
    <3> QED BY <2>1, <3>3, <3>4
  <2> HIDE DEF c
  <2>5. base + len = PageSize * (b + c) /\ b + c \in Nat
    BY <1>1, <1>4, <1>5, <2>2, <2>3, Regroup DEF c
  <2>6. (b + c) * PageSize <= z /\ z < (b + c) * PageSize + PageSize
    <3>1. (b + c) * PageSize = PageSize * b + c * PageSize /\ (c + 1) * PageSize = c * PageSize + PageSize
      BY <1>1, <1>4, <2>3
    <3>2. z = base + y
      BY <1>3, <1>5, <1>8
    <3>3. c * PageSize \in Nat
      BY <1>1, <2>3
    <3> QED BY <1>1, <1>5, <2>1, <2>3, <2>4, <3>1, <3>2, <3>3
  <2>7. t = b + c
    <3>1. z \div PageSize = b + c
      BY <1>1, <1>3, <2>5, <2>6, Division
    <3> QED BY <3>1 DEF t, PageBehind, z
  <2>8. base + len \in 0 .. Wide - 1
    <3>1. base + len = (b + c) * PageSize /\ base + len \in Nat
      BY <1>1, <2>5
    <3> QED BY <1>1, <1>3, <2>6, <3>1
  <2>9. (base + len) % Wide = PageSize * t
    BY <1>1, <2>5, <2>7, <2>8, SmallRemainder
  <2> QED BY <1>5, <2>9 DEF base, b, t, len, y
<1>11. CASE z < base
  <2>1. b >= 1
    <3>1. b = 0 => base = 0
      BY <1>1, <1>5
    <3> QED BY <1>3, <1>4, <1>11, <3>1
  <2>2. -PageSize < y /\ y < 0
    BY <1>1, <1>2, <1>3, <1>5, <1>6, <1>8, <1>11
  <2>3. PICK k \in Nat : Wide = PageSize * k
    BY PageDividesWide
  <2>4. k >= 1
    <3>1. k = 0 => Wide = 0
      BY <1>1, <2>3
    <3> QED BY <1>1, <2>3, <3>1
  <2>5. PageSize <= Wide
    <3>1. PageSize * k = PageSize * (k - 1) + PageSize /\ k - 1 \in Nat
      BY <1>1, <2>4
    <3>2. PageSize * (k - 1) \in Nat
      BY <1>1, <3>1
    <3> QED BY <1>1, <2>3, <3>1, <3>2
  <2>6. y + Wide \in 0 .. Wide - 1 /\ y + Wide \in Nat
    BY <1>1, <1>9, <2>2, <2>5
  <2>7. y % Wide = y + Wide
    <3>1. Wide * (-1) + (y + Wide) = y
      BY <1>1, <1>9
    <3>2. (Wide * (-1) + (y + Wide)) % Wide = y + Wide
      BY <1>1, <2>6, Remainder
    <3> QED BY <3>1, <3>2
  <2>8. (y + Wide) \div PageSize = k - 1
    <3>1. k - 1 \in Nat /\ (k - 1) * PageSize + PageSize = Wide /\ (k - 1) * PageSize \in Nat
      BY <1>1, <2>3, <2>4
    <3>2. (k - 1) * PageSize <= y + Wide /\ y + Wide < (k - 1) * PageSize + PageSize
      BY <1>1, <1>9, <2>2, <3>1
    <3> QED BY <1>1, <2>6, <3>1, <3>2, Division
  <2>9. len = PageSize * (k - 1)
    BY <1>9, <2>7, <2>8, AlignedDown
  <2>10. base + len = Wide * 1 + PageSize * (b - 1)
    <3>1. PageSize * (k - 1) = PageSize * k - PageSize /\ PageSize * (b - 1) = PageSize * b - PageSize
      BY <1>1, <1>4, <2>3
    <3>2. PageSize * b \in Int /\ PageSize * k \in Int
      BY <1>1, <1>4, <2>3
    <3> QED BY <1>1, <1>5, <2>3, <2>9, <3>1, <3>2
  <2>11. PageSize * (b - 1) = base - PageSize /\ base - PageSize \in 0 .. Wide - 1
         /\ base - PageSize < e.addr
    <3>1. PageSize * (b - 1) = PageSize * b - PageSize /\ PageSize * (b - 1) \in Nat
      BY <1>1, <1>4, <2>1
    <3>2. PageSize * b \in Int
      BY <1>1, <1>4
    <3> QED BY <1>1, <1>2, <1>3, <1>5, <1>6, <1>8, <3>1, <3>2
  <2>12. (base + len) % Wide = PageSize * (b - 1)
    <3> DEFINE m == PageSize * (b - 1)
    <3>1. m \in 0 .. Wide - 1
      BY <2>11
    <3> HIDE DEF m
    <3>2. (Wide * 1 + m) % Wide = m
      BY <1>1, <3>1, Remainder
    <3> QED BY <2>10, <3>2 DEF m
  <2>13. t = b - 1
    <3>1. (b - 1) * PageSize = base - PageSize /\ b - 1 \in Nat
      BY <1>1, <1>4, <2>1, <2>11
    <3>2. (b - 1) * PageSize <= z /\ z < (b - 1) * PageSize + PageSize
      BY <1>1, <1>2, <1>3, <1>5, <1>8, <1>11, <2>11, <3>1
    <3>3. z \div PageSize = b - 1
      BY <1>1, <1>3, <3>1, <3>2, Division
    <3> QED BY <3>3 DEF t, PageBehind, z
  <2> QED BY <1>5, <2>12, <2>13 DEF base, b, t, len, y
<1> QED BY <1>3, <1>5, <1>10, <1>11

(* The rounding of paging_init_full finds that interval, less what lies below 4 MB. *)
LEMMA RamRangePages ==
  ASSUME NEW e, AreaOK(e)
  PROVE  RamRange(e) = [skip |-> PageAfter(e) < EarlyEnd /\ PageBehind(e) <= EarlyEnd,
                        from |-> IF PageAfter(e) < EarlyEnd THEN EarlyEnd ELSE PageAfter(e),
                        to   |-> PageBehind(e)]
<1> DEFINE base == Aligned(e.addr + PageSize - 1)
           len  == Aligned(e.len - (base - e.addr))
           b == PageAfter(e)
           t == PageBehind(e)
<1>1. base = PageSize * b /\ (base + len) % Wide = PageSize * t
  BY AreaEndPage
<1>2. b \in Nat /\ t \in Nat /\ EarlyEnd \in Nat /\ PageSize \in Nat \ {0}
  BY PagesWithin, Sizes
<1>3. RamRange(e) = [skip |-> base < FourMB /\ (base + len) % Wide <= FourMB,
                     from |-> (IF base < FourMB THEN FourMB ELSE base) \div PageSize,
                     to   |-> ((base + len) % Wide) \div PageSize]
  BY DEF RamRange, AreaEnd
<1> HIDE DEF base, len, b, t
<1>4. ASSUME NEW q \in Nat
      PROVE  /\ PageSize * q < FourMB <=> q < EarlyEnd
             /\ PageSize * q <= FourMB <=> q <= EarlyEnd
             /\ (PageSize * q) \div PageSize = q
  <2>1. FourMB = EarlyEnd * PageSize /\ FourMB \in Nat /\ PageSize * q = q * PageSize
        /\ q * PageSize \in Nat
    BY <1>2 DEF FourMB
  <2>2. q < EarlyEnd => q * PageSize + PageSize <= EarlyEnd * PageSize
    BY <1>2, Multiples
  <2>3. EarlyEnd < q => EarlyEnd * PageSize + PageSize <= q * PageSize
    BY <1>2, Multiples
  <2>4. q < EarlyEnd \/ q = EarlyEnd \/ EarlyEnd < q
    BY <1>2
  <2>5. PageSize * q < FourMB <=> q < EarlyEnd
    BY <1>2, <2>1, <2>2, <2>3, <2>4
  <2>6. PageSize * q <= FourMB <=> q <= EarlyEnd
    BY <1>2, <2>1, <2>2, <2>3, <2>4
  <2>7. (q * PageSize) \div PageSize = q
    BY <1>2, <2>1, Division
  <2> QED BY <2>1, <2>5, <2>6, <2>7
<1>5. FourMB \div PageSize = EarlyEnd
  <2>1. FourMB = PageSize * EarlyEnd
    BY <1>2 DEF FourMB
  <2> QED BY <1>2, <1>4, <2>1
<1>6. (base < FourMB <=> b < EarlyEnd) /\ base \div PageSize = b
  BY <1>1, <1>2, <1>4
<1>7. ((base + len) % Wide <= FourMB <=> t <= EarlyEnd) /\ ((base + len) % Wide) \div PageSize = t
  BY <1>1, <1>2, <1>4
<1>8. (IF base < FourMB THEN FourMB ELSE base) \div PageSize = IF b < EarlyEnd THEN EarlyEnd ELSE b
  BY <1>5, <1>6
<1>9. (base < FourMB /\ (base + len) % Wide <= FourMB) = (b < EarlyEnd /\ t <= EarlyEnd)
  BY <1>6, <1>7
<1> QED BY <1>3, <1>7, <1>8, <1>9 DEF b, t

(* An area is passed over only if it lies below 4 MB.                       *)
LEMMA RamSkipped ==
  ASSUME NEW e, AreaOK(e), RamRange(e).skip
  PROVE  PageAfter(e) < EarlyEnd /\ PageBehind(e) <= EarlyEnd
<1> DEFINE R == [skip |-> PageAfter(e) < EarlyEnd /\ PageBehind(e) <= EarlyEnd,
                 from |-> IF PageAfter(e) < EarlyEnd THEN EarlyEnd ELSE PageAfter(e),
                 to   |-> PageBehind(e)]
<1>1. RamRange(e) = R
  BY RamRangePages
<1>2. R.skip
  BY <1>1, Zenon
<1>3. R.skip = (PageAfter(e) < EarlyEnd /\ PageBehind(e) <= EarlyEnd)
  OBVIOUS
<1> QED BY <1>2, <1>3, Zenon

-----------------------------------------------------------------------------
(* What is mapped *)

LowOf(S) == {Low(p) : p \in S}

(* A page number that fits is made of one pair of indices only.            *)
LEMMA SamePage ==
  ASSUME NEW x \in Pages, NEW d \in Slots, NEW s \in Slots
  PROVE  /\ x \div EarlyEnd \in Slots /\ x % EarlyEnd \in Slots
         /\ x = d * EarlyEnd + s <=> x \div EarlyEnd = d /\ x % EarlyEnd = s
         /\ d * EarlyEnd + s \in Pages
<1> DEFINE n == EarlyEnd
           c == x \div n
           i == x % n
<1>1. n \in Nat \ {0} /\ Slots = 0 .. n - 1
  BY Sizes
<1>2. x \in Nat /\ x < n * n /\ n * n \in Nat
  BY <1>1 DEF Pages
<1>3. c \in Nat /\ i \in 0 .. n - 1 /\ x = n * c + i
  <2>1. x \in Int /\ n \in Nat \ {0}
    BY <1>1, <1>2
  <2>2. c \in Nat
    BY <1>2, <2>1, Division
  <2>3. i \in 0 .. n - 1 /\ x = n * c + i
    BY <2>1, DivMod
  <2> QED BY <2>2, <2>3
<1> HIDE DEF c, i
<1>4. c < n
  <2>1. n <= c => n * n <= n * c
    <3>1. n < c => n * n + n <= c * n
      BY <1>1, <1>3, Multiples
    <3> QED BY <1>1, <1>2, <1>3, <3>1
  <2>2. n * c \in Nat
    BY <1>1, <1>3
  <2> QED BY <1>1, <1>2, <1>3, <2>1, <2>2
<1>5. ASSUME x = d * n + s PROVE c = d /\ i = s
  <2>1. d * n \in Nat /\ d * n <= x /\ x < d * n + n /\ d \in Nat
    BY <1>1, <1>5
  <2>2. x \div n = d
    BY <1>1, <1>2, <2>1, Division
  <2> QED BY <1>1, <1>3, <1>5, <2>1, <2>2 DEF c
<1>6. d * n + s \in Pages
  <2>1. d \in Nat /\ s \in Nat /\ d < n /\ s < n
    BY <1>1
  <2>2. d * n \in Nat /\ d * n + n <= n * n
    BY <1>1, <2>1, Multiples
  <2> QED BY <1>1, <1>2, <2>1, <2>2 DEF Pages
<1>7. x = d * n + s <=> c = d /\ i = s
  BY <1>1, <1>3, <1>5
<1> QED BY <1>1, <1>3, <1>4, <1>6, <1>7 DEF c, i

(* What 32 bits keep of a page number.                                      *)
LEMMA LowPage ==
  ASSUME NEW p \in Nat
  PROVE  /\ Low(p) \in Pages
         /\ p \in Slots => Low(p) = p
<1>1. EarlyEnd \in Nat \ {0} /\ EarlyEnd * EarlyEnd \in Nat \ {0} /\ EarlyEnd <= EarlyEnd * EarlyEnd
  <2>1. EarlyEnd \in Nat \ {0} /\ EarlyEnd >= 6 /\ EarlyEnd * EarlyEnd \in Nat
    BY Sizes
  <2>2. 1 * EarlyEnd + EarlyEnd <= EarlyEnd * EarlyEnd
    BY <2>1, Multiples
  <2> QED BY <2>1, <2>2
<1> DEFINE n == EarlyEnd * EarlyEnd
<1>2. n \in Nat \ {0}
  BY <1>1
<1>3. Low(p) = p % n /\ Pages = 0 .. n - 1
  BY DEF Low, Pages
<1>4. Slots \subseteq 0 .. n - 1
  BY <1>1, Sizes
<1> HIDE DEF n
<1>5. p % n \in 0 .. n - 1
  BY <1>2, DivMod
<1>6. p \in Slots => p % n = p
  BY <1>2, <1>4, SmallRemainder
<1> QED BY <1>3, <1>5, <1>6

(* map_page maps the page its number is cut to, and nothing else.          *)
LEMMA MapPageMaps ==
  ASSUME TablesOK, NEW p \in Nat, map_page(p)
  PROVE  Mapped' = Mapped \cup {Low(p)}
<1> DEFINE d == (p \div EarlyEnd) % EarlyEnd
           s == p % EarlyEnd
           new == page_directory[d] = Absent
           t == IF new THEN next_pt ELSE page_directory[d]
           entries == IF new THEN [i \in Slots |-> Absent] ELSE table[t]
           low == p % (EarlyEnd * EarlyEnd)
<1>1. d \in Slots /\ s \in Slots /\ low = d * EarlyEnd + s
  <2>1. EarlyEnd \in Nat \ {0} /\ Slots = 0 .. EarlyEnd - 1 /\ p \in Int
    BY Sizes
  <2>2. p \div EarlyEnd \in Int
    BY <2>1, DivMod
  <2> QED BY <2>1, <2>2, DivMod, Indices
<1>2. low = Low(p) /\ low \in Pages /\ low # Absent
  <2>1. low = Low(p)
    BY DEF Low
  <2>2. Low(p) \in Pages
    BY LowPage
  <2>3. Low(p) \in Nat
    BY <2>2, Sizes DEF Pages
  <2> QED BY <2>1, <2>2, <2>3 DEF Absent
<1>3. /\ page_directory' = [page_directory EXCEPT ![d] = t]
      /\ table' = [x \in DOMAIN table \cup {t} |-> IF x = t THEN [entries EXCEPT ![s] = low] ELSE table[x]]
  BY DEF map_page
<1>4. /\ page_directory \in [Slots -> Int] /\ next_pt \in Nat
      /\ \A c \in Slots : page_directory[c] # Absent =>
           page_directory[c] < next_pt /\ page_directory[c] \in DOMAIN table
      /\ \A b, c \in Slots :
           page_directory[b] # Absent /\ page_directory[b] = page_directory[c] => b = c
      /\ \A c \in Slots : page_directory[c] # Absent => table[page_directory[c]] \in [Slots -> Int]
  BY DEF TablesOK
<1>5. t # Absent /\ entries \in [Slots -> Int]
  <2>1. CASE new
    BY <1>4, <2>1, SMT DEF Absent
  <2>2. CASE ~new
    BY <1>1, <1>4, <2>2
  <2> QED BY <2>1, <2>2
<1>6. \A c \in Slots \ {d} : page_directory[c] # Absent => page_directory[c] # t
  BY <1>1, <1>4
<1>7. \A i \in Slots : entries[i] = IF new THEN Absent ELSE table[page_directory[d]][i]
  OBVIOUS
<1>8. new <=> page_directory[d] = Absent
  OBVIOUS
<1> HIDE DEF d, s, new, t, entries, low
<1>9. page_directory'[d] = t /\ \A c \in Slots \ {d} : page_directory'[c] = page_directory[c]
  BY <1>1, <1>3, <1>4
<1>10. \A i \in Slots : table'[t][i] = IF i = s THEN low ELSE entries[i]
  <2>1. table'[t] = [entries EXCEPT ![s] = low]
    BY <1>3
  <2> QED BY <1>1, <1>5, <2>1
<1>11. \A y \in DOMAIN table \ {t} : table'[y] = table[y]
  BY <1>3
<1>12. ASSUME NEW x \in Pages
       PROVE  Translate(x)' # Absent <=> x = low \/ Translate(x) # Absent
  <2> DEFINE c == x \div EarlyEnd
             i == x % EarlyEnd
  <2>1. /\ c \in Slots /\ i \in Slots
        /\ x = d * EarlyEnd + s <=> c = d /\ i = s
    BY <1>1, SamePage
  <2>2. /\ Translate(x) = IF page_directory[c] = Absent THEN Absent ELSE table[page_directory[c]][i]
        /\ Translate(x)' = IF page_directory'[c] = Absent THEN Absent ELSE table'[page_directory'[c]][i]
    BY DEF Translate
  <2> HIDE DEF c, i
  <2>3. CASE c # d
    <3>1. page_directory'[c] = page_directory[c]
      BY <1>9, <2>1, <2>3
    <3>2. page_directory[c] # Absent => table'[page_directory[c]] = table[page_directory[c]]
      BY <1>4, <1>6, <1>11, <2>1, <2>3
    <3>3. Translate(x)' = Translate(x)
      BY <2>2, <3>1, <3>2
    <3> QED BY <1>1, <2>1, <2>3, <3>3
  <2>4. CASE c = d
    <3>1. Translate(x)' = table'[t][i]
      BY <1>5, <1>9, <2>2, <2>4
    <3>2. Translate(x)' = IF i = s THEN low ELSE entries[i]
      BY <1>10, <2>1, <3>1
    <3>3. entries[i] = Translate(x)
      BY <1>7, <1>8, <2>1, <2>2, <2>4
    <3> QED BY <1>1, <1>2, <2>1, <2>4, <3>2, <3>3
  <2> QED BY <2>3, <2>4
<1>13. Mapped' = {x \in Pages : Translate(x)' # Absent}
  BY DEF Mapped
<1> QED BY <1>2, <1>12, <1>13 DEF Mapped

(* Before the walk the lowest 4 MB are mapped.                             *)
LEMMA StartPagingMaps ==
  ASSUME StartPaging PROVE Mapped' = Slots
<1>1. /\ page_directory' = [d \in Slots |-> IF d = 0 THEN FirstTable ELSE Absent]
      /\ table' = [x \in {FirstTable} |-> [i \in Slots |-> i]]
  BY DEF StartPaging
<1>2. FirstTable # Absent /\ 0 \in Slots
  BY Sizes, SMT DEF FirstTable, Absent
<1>3. \A i \in Slots : i # Absent
  BY Sizes, SMT DEF Absent
<1>4. ASSUME NEW x \in Pages
      PROVE  Translate(x)' # Absent <=> x \in Slots
  <2> DEFINE c == x \div EarlyEnd
             i == x % EarlyEnd
  <2>1. /\ c \in Slots /\ i \in Slots /\ \A s \in Slots : x = 0 * EarlyEnd + s <=> c = 0 /\ i = s
    BY <1>2, SamePage
  <2>2. Translate(x)' = IF page_directory'[c] = Absent THEN Absent ELSE table'[page_directory'[c]][i]
    BY DEF Translate
  <2> HIDE DEF c, i
  <2>3. page_directory'[c] = IF c = 0 THEN FirstTable ELSE Absent
    BY <1>1, <2>1
  <2>4. table'[FirstTable][i] = i
    BY <1>1, <2>1
  <2>5. Translate(x)' = IF c = 0 THEN i ELSE Absent
    BY <1>2, <2>2, <2>3, <2>4
  <2>6. \A s \in Slots : 0 * EarlyEnd + s = s
    BY Sizes
  <2>7. x \in Slots <=> c = 0
    BY <2>1, <2>6
  <2> QED BY <1>3, <2>1, <2>5, <2>7
<1>5. Slots \subseteq Pages
  <2> SUFFICES ASSUME NEW s \in Slots PROVE s \in Pages
    OBVIOUS
  <2>1. s \in Nat
    BY Sizes
  <2> QED BY <2>1, LowPage
<1>6. Mapped' = {x \in Pages : Translate(x)' # Absent}
  BY DEF Mapped
<1> QED BY <1>4, <1>5, <1>6

-----------------------------------------------------------------------------
(* How far the walk and the framebuffer mapping have come *)

(* The boot tags say whether there is a bitmap; tables come after it.      *)
Order ==
  /\ phase = "off" => total_pages = 0
  /\ phase # "off" => (mmap_addr <=> total_pages # 0)
  /\ paging # "off" => phase = "ready"

AreasOK ==
  /\ Len(mmap) % 3 = 2 /\ Len(mmap) >= 5
  /\ \A i \in Entries : AreaOK(EntryAt(mmap, 3 * i))

FirstShown == g_fb.addr \div PageSize

BehindShown == (g_fb.addr + g_fb.size + PageSize - 1) \div PageSize

Area == EntryAt(mmap, entry)

Cursor ==
  /\ \E j \in 0 .. entry : entry = 3 * j
  /\ paging = "off" \/ total_pages = 0 => entry = 0
  /\ paging = "pages" =>
       /\ entry < WalkLength /\ Available(Area)
       /\ RamRange(Area).from <= phys /\ end = RamRange(Area).to
       /\ phys <= end \/ phys = RamRange(Area).from
  /\ paging \in {"on", "framebuffer", "mapped"} => entry >= WalkLength
  /\ paging \in {"framebuffer", "mapped"} =>
       g_fb_found /\ FirstShown <= phys /\ phys <= end /\ end = BehindShown
  /\ paging = "mapped" => phys >= end

(* The pages of the entries in front of word n of the map.                 *)
Walked(n) ==
  {p \in 0 .. Wide \div PageSize - 1 :
     \E i \in Entries : 3 * i < n /\ Within(p, EntryAt(mmap, 3 * i))}

MappedSoFar ==
  Slots \cup LowOf(Walked(entry))
        \cup LowOf(IF paging = "pages" THEN RamRange(Area).from .. phys - 1 ELSE {})
        \cup LowOf(IF paging \in {"framebuffer", "mapped"} THEN FirstShown .. phys - 1 ELSE {})

MappedOK == paging # "off" => Mapped = MappedSoFar

MappingInv == Order /\ AreasOK /\ Cursor /\ MappedOK

(* The area at the cursor is one of the map's.                             *)
LEMMA AreaAtCursor ==
  ASSUME InputsOK, AreasOK, NEW j \in Nat, 3 * j < MapLength
  PROVE  /\ j \in 0 .. MapLength \div 3 - 1
         /\ Available(EntryAt(mmap, 3 * j)) => AreaOK(EntryAt(mmap, 3 * j))
<1> DEFINE n == MapLength
           k == n \div 3
<1>1. n \in Nat /\ n % 3 = 0
  <2>1. Len(mmap) \in Nat /\ Len(mmap) % 3 = 2 /\ Len(mmap) >= 5
    BY DEF InputsOK, AreasOK
  <2> QED BY <2>1 DEF MapLength
<1>2. k \in Nat /\ n = 3 * k
  BY <1>1, SMT
<1>3. j <= k - 1
  BY <1>2
<1> QED BY <1>2, <1>3 DEF AreasOK, Entries

(* Over one more entry the walk has its pages behind it.                   *)
LEMMA WalkOn ==
  ASSUME InputsOK, AreasOK, NEW j \in Nat, 3 * j < MapLength
  PROVE  Walked(3 * j + 3) =
           Walked(3 * j) \cup {p \in 0 .. Wide \div PageSize - 1 :
                                 Available(EntryAt(mmap, 3 * j)) /\ Within(p, EntryAt(mmap, 3 * j))}
<1>1. j \in 0 .. MapLength \div 3 - 1
  BY AreaAtCursor
<1>2. j \in Entries <=> Available(EntryAt(mmap, 3 * j))
  BY <1>1 DEF Entries
<1>3. \A i \in Entries : i \in Nat
  <2>1. MapLength \div 3 \in Int
    BY SMT DEF InputsOK, MapLength
  <2> QED BY <2>1 DEF Entries
<1>4. \A i \in Entries : 3 * i < 3 * j + 3 <=> 3 * i < 3 * j \/ i = j
  BY <1>3
<1>5. 3 * j < 3 * j + 3
  OBVIOUS
<1> QED BY <1>2, <1>4, <1>5, Zenon DEF Walked

(* What is mapped depends on the tables only.                               *)
LEMMA MappedSame ==
  ASSUME UNCHANGED <<page_directory, table>>
  PROVE  Mapped' = Mapped
BY DEF Mapped, Translate

(* Steps that leave the tables, the map and the cursor alone.              *)
LEMMA MappingSame ==
  ASSUME MappingInv, UNCHANGED <<paging, page_directory, table, entry, phys, end, mmap, total_pages, g_fb>>
  PROVE  (AreasOK /\ Cursor /\ MappedOK)'
<1>1. AreasOK'
  BY DEF MappingInv, AreasOK, Entries, MapLength
<1>2. Cursor'
  BY DEF MappingInv, Cursor, Area, WalkLength, MapLength, g_fb_found, FirstShown, BehindShown
<1>3. Mapped' = Mapped
  BY MappedSame
<1>4. MappedSoFar' = MappedSoFar
  BY DEF MappedSoFar, Walked, Entries, MapLength, Area, FirstShown
<1> QED BY <1>1, <1>2, <1>3, <1>4 DEF MappingInv, MappedOK

(* The low parts of a union are the low parts of its members.              *)
LEMMA LowOfUnion ==
  /\ \A A, B : LowOf(A \cup B) = LowOf(A) \cup LowOf(B)
  /\ \A p : LowOf({p}) = {Low(p)}
  /\ LowOf({}) = {}
BY DEF LowOf

(* One page more adds its own low part and nothing else.                   *)
LEMMA LowOfOneMore ==
  \A A, B, p : B = A \cup {p} => LowOf(B) = LowOf(A) \cup {Low(p)}
BY LowOfUnion DEF LowOf

(* Pages below 4 MB were mapped before the walk.                           *)
LEMMA LowOfSlots ==
  ASSUME NEW S, S \subseteq Slots PROVE LowOf(S) \subseteq Slots
<1>1. \A p \in Slots : p \in Nat
  BY Sizes
<1> QED BY <1>1, LowPage DEF LowOf

(* No area lies before the first entry.                                     *)
LEMMA NothingWalked ==
  ASSUME InputsOK PROVE Walked(0) = {}
<1>1. MapLength \div 3 \in Int
  BY SMT DEF InputsOK, MapLength
<1>2. \A i \in Entries : ~(3 * i < 0)
  BY <1>1 DEF Entries
<1> QED BY <1>2 DEF Walked

-----------------------------------------------------------------------------
(* Each step of the walk *)

(* paging_init_full has mapped the first 4 MB when the walk begins.         *)
LEMMA StartMapping ==
  ASSUME BootInv, MappingInv, StartPaging, phase = "ready", UNCHANGED <<vars, kvars, bvars>>
  PROVE  MappingInv'
<1>1. /\ paging = "off" /\ paging' = "entries" /\ entry = 0 /\ entry' = 0
      /\ UNCHANGED <<mmap, total_pages, g_fb, phase, mmap_addr>>
  BY DEF StartPaging, MappingInv, Cursor, vars, bvars
<1>2. AreasOK'
  BY <1>1 DEF MappingInv, AreasOK, Entries, MapLength
<1>3. Cursor'
  <2>1. 0 \in 0 .. 0 /\ 0 = 3 * 0
    OBVIOUS
  <2> QED BY <1>1, <2>1 DEF Cursor
<1>4. Walked(entry)' = {}
  <2>1. Walked(entry)' = Walked(entry)
    BY <1>1 DEF Walked, Entries, MapLength
  <2> QED BY <1>1, <2>1, NothingWalked DEF BootInv
<1>5. Mapped' = MappedSoFar'
  <2>1. MappedSoFar' = Slots \cup LowOf(Walked(entry)') \cup LowOf({}) \cup LowOf({})
    BY <1>1 DEF MappedSoFar
  <2>2. MappedSoFar' = Slots
    BY <1>4, <2>1, LowOfUnion
  <2> QED BY <2>2, StartPagingMaps
<1>6. Order'
  BY <1>1 DEF MappingInv, Order
<1> QED BY <1>2, <1>3, <1>5, <1>6 DEF MappingInv, MappedOK

(* An entry of the walk that is not RAM, or lies below 4 MB, adds nothing.  *)
LEMMA WalkMapping ==
  ASSUME BootInv, MappingInv, WalkEntry, phase = "ready", UNCHANGED <<vars, kvars, bvars>>
  PROVE  MappingInv'
<1>1. /\ paging = "entries" /\ entry < WalkLength
      /\ UNCHANGED <<page_directory, table, mmap, total_pages, g_fb, phase, mmap_addr>>
  BY DEF WalkEntry, vars, bvars
<1>2. AreasOK' /\ AreasOK /\ InputsOK /\ Order'
  BY <1>1 DEF MappingInv, AreasOK, Entries, MapLength, BootInv, Order
<1>3. PICK j \in 0 .. entry : entry = 3 * j
  BY DEF MappingInv, Cursor
<1>4. j \in Nat /\ entry \in Nat /\ 3 * j < MapLength /\ total_pages # 0
  <2>1. entry \in Nat
    BY <1>2 DEF InputsOK
  <2>2. total_pages # 0 /\ WalkLength = MapLength
    BY <1>1, <2>1, SMT DEF WalkLength
  <2> QED BY <1>1, <1>3, <2>1, <2>2
<1>5. Mapped' = Mapped
  BY <1>1, MappedSame
<1>6. Mapped = Slots \cup LowOf(Walked(entry))
  BY <1>1, LowOfUnion DEF MappingInv, MappedOK, MappedSoFar
<1>7. Available(Area) => AreaOK(Area)
  BY <1>2, <1>3, <1>4, AreaAtCursor DEF Area
<1>8. CASE Available(Area) /\ ~RamRange(Area).skip
  <2>1. /\ paging' = "pages" /\ phys' = RamRange(Area).from /\ end' = RamRange(Area).to
        /\ entry' = entry
    BY <1>8 DEF WalkEntry, Area
  <2>2. Area' = Area /\ WalkLength' = WalkLength
    BY <1>1, <2>1 DEF Area, WalkLength, MapLength
  <2>3. phys' \in Nat
    BY <1>7, <1>8, <2>1, RamRangeTyped DEF AreaOK
  <2>4. Cursor'
    BY <1>1, <1>3, <1>4, <1>8, <2>1, <2>2, <2>3 DEF Cursor
  <2>5. Walked(entry)' = Walked(entry)
    BY <1>1, <2>1 DEF Walked, Entries, MapLength
  <2>6. RamRange(Area)'.from .. phys' - 1 = {}
    BY <2>1, <2>2, <2>3
  <2>7. MappedSoFar' = Slots \cup LowOf(Walked(entry))
    BY <2>1, <2>5, <2>6, LowOfUnion DEF MappedSoFar
  <2> QED BY <1>2, <1>5, <1>6, <2>4, <2>7 DEF MappingInv, MappedOK
<1>9. CASE ~(Available(Area) /\ ~RamRange(Area).skip)
  <2>1. paging' = paging /\ entry' = entry + 3
    BY <1>9 DEF WalkEntry, Skip, Area
  <2>2. entry' = 3 * (j + 1) /\ j + 1 \in 0 .. entry' /\ entry' = 3 * j + 3
    BY <1>3, <1>4, <2>1
  <2>3. Cursor'
    BY <1>1, <1>4, <2>1, <2>2 DEF Cursor
  <2> DEFINE P == {p \in 0 .. Wide \div PageSize - 1 : Available(Area) /\ Within(p, Area)}
  <2>4. Walked(entry)' = Walked(entry) \cup P
    <3>1. Walked(entry)' = Walked(3 * j + 3)
      BY <1>1, <2>2 DEF Walked, Entries, MapLength
    <3>2. Walked(3 * j + 3) =
            Walked(3 * j) \cup {p \in 0 .. Wide \div PageSize - 1 :
                                  Available(EntryAt(mmap, 3 * j)) /\ Within(p, EntryAt(mmap, 3 * j))}
      BY <1>2, <1>4, WalkOn
    <3> QED BY <1>3, <3>1, <3>2 DEF Area
  <2>5. P \subseteq Slots
    <3> SUFFICES ASSUME NEW p \in P PROVE p \in Slots
      OBVIOUS
    <3>1. Available(Area) /\ AreaOK(Area) /\ RamRange(Area).skip
      BY <1>7, <1>9
    <3>2. PageAfter(Area) < EarlyEnd /\ PageBehind(Area) <= EarlyEnd
      BY <3>1, RamSkipped
    <3>3. Wide \div PageSize \in Int
      BY Sizes, DivMod
    <3>4. p \in Nat
      BY <3>3
    <3>5. p < PageBehind(Area) /\ PageBehind(Area) \in Nat
      BY <3>1, <3>4, PagesWithin
    <3> QED BY <3>2, <3>4, <3>5, Sizes
  <2> HIDE DEF P
  <2>6. MappedSoFar' = Slots \cup LowOf(Walked(entry))
    BY <1>1, <2>1, <2>4, <2>5, LowOfUnion, LowOfSlots DEF MappedSoFar
  <2>7. paging' # "pages"
    BY <1>1, <2>1
  <2> QED BY <1>2, <1>5, <1>6, <2>3, <2>6 DEF MappingInv, MappedOK
<1> QED BY <1>8, <1>9

(* A page of RAM is mapped and counted.                                     *)
LEMMA RamMapping ==
  ASSUME BootInv, MappingInv, MapRamPage, phase = "ready", UNCHANGED <<vars, kvars, bvars>>
  PROVE  MappingInv'
<1>1. /\ paging = "pages" /\ paging' = paging /\ phys < end /\ map_page(phys)
      /\ phys' = phys + 1 /\ entry' = entry /\ end' = end
      /\ UNCHANGED <<mmap, total_pages, g_fb, phase, mmap_addr>>
  BY DEF MapRamPage, vars, bvars
<1>2. AreasOK' /\ Order' /\ phys \in Nat /\ end \in Nat /\ TablesOK
  BY <1>1 DEF MappingInv, AreasOK, Entries, MapLength, BootInv, InputsOK, Order
<1>3. Area' = Area /\ WalkLength' = WalkLength /\ Walked(entry)' = Walked(entry)
  BY <1>1 DEF Area, WalkLength, MapLength, Walked, Entries
<1>4. RamRange(Area).from \in Nat /\ RamRange(Area).from <= phys
  <2>1. entry \in Nat /\ entry < MapLength /\ mmap \in Seq(0 .. Wide - 1)
    <3>1. entry \in Nat /\ entry < WalkLength /\ mmap \in Seq(0 .. Wide - 1)
      BY <1>1 DEF MappingInv, Cursor, BootInv, InputsOK
    <3> QED BY <3>1, SMT DEF WalkLength
  <2>2. Area.addr \in Int /\ Area.len \in Int
    BY <2>1, EntryTyped, Sizes DEF Area
  <2> QED BY <1>1, <2>2, RamRangeTyped DEF MappingInv, Cursor
<1>5. Cursor'
  BY <1>1, <1>2, <1>3, <1>4 DEF MappingInv, Cursor
<1>6. Mapped' = Mapped \cup {Low(phys)}
  BY <1>1, <1>2, MapPageMaps
<1>7. RamRange(Area).from .. phys' - 1 = (RamRange(Area).from .. phys - 1) \cup {phys}
  BY <1>1, <1>2, <1>4
<1>8. MappedSoFar' = MappedSoFar \cup {Low(phys)}
  <2> DEFINE before == Slots \cup LowOf(Walked(entry))
             shown  == LowOf(RamRange(Area).from .. phys - 1)
             next   == LowOf(RamRange(Area).from .. phys' - 1)
  <2>1. MappedSoFar = before \cup shown
    BY <1>1, LowOfUnion DEF MappedSoFar
  <2>2. MappedSoFar' = before \cup next
    BY <1>1, <1>3, LowOfUnion DEF MappedSoFar
  <2>3. next = shown \cup {Low(phys)}
    BY <1>7, LowOfOneMore
  <2> HIDE DEF before, shown, next
  <2>4. before \cup next = (before \cup shown) \cup {Low(phys)}
    BY <2>3
  <2> QED BY <2>1, <2>2, <2>4
<1>9. Mapped = MappedSoFar
  BY <1>1 DEF MappingInv, MappedOK
<1> QED BY <1>2, <1>5, <1>6, <1>8, <1>9 DEF MappingInv, MappedOK

(* After the last page of an area the whole area is mapped.                 *)
LEMMA EntryMapping ==
  ASSUME BootInv, MappingInv, NextEntry, phase = "ready", UNCHANGED <<vars, kvars, bvars>>
  PROVE  MappingInv'
<1>1. /\ paging = "pages" /\ paging' = "entries" /\ phys >= end /\ entry' = entry + 3
      /\ UNCHANGED <<page_directory, table, mmap, total_pages, g_fb, phase, mmap_addr>>
  BY DEF NextEntry, vars, bvars
<1>2. AreasOK' /\ AreasOK /\ InputsOK /\ Order' /\ phys \in Nat /\ end \in Nat
  BY <1>1 DEF MappingInv, AreasOK, Entries, MapLength, BootInv, InputsOK, Order
<1>3. PICK j \in 0 .. entry : entry = 3 * j
  BY DEF MappingInv, Cursor
<1>4. j \in Nat /\ entry \in Nat /\ 3 * j < MapLength /\ total_pages # 0
  <2>1. entry \in Nat /\ entry < WalkLength
    BY <1>1, <1>2 DEF InputsOK, MappingInv, Cursor
  <2>2. total_pages # 0 /\ WalkLength = MapLength
    BY <2>1, SMT DEF WalkLength
  <2> QED BY <1>3, <2>1, <2>2
<1>5. /\ Available(Area) /\ AreaOK(Area) /\ end = RamRange(Area).to
      /\ RamRange(Area).from <= phys /\ (phys <= end \/ phys = RamRange(Area).from)
  <2>1. Available(EntryAt(mmap, 3 * j)) => AreaOK(EntryAt(mmap, 3 * j))
    BY <1>2, <1>4, AreaAtCursor
  <2> QED BY <1>1, <1>3, <2>1 DEF MappingInv, Cursor, Area
<1> DEFINE b == PageAfter(Area)
           t == PageBehind(Area)
           from == RamRange(Area).from
           P == {p \in 0 .. Wide \div PageSize - 1 : Available(Area) /\ Within(p, Area)}
<1>6. /\ b \in Nat /\ t \in Nat /\ end = t
      /\ from = IF b < EarlyEnd THEN EarlyEnd ELSE b
  BY <1>5, RamRangePages, PagesWithin
<1>7. P = b .. t - 1
  <2>1. t <= Wide \div PageSize /\ Wide \div PageSize \in Int
    BY <1>5, PagesWithin, Sizes, DivMod
  <2>2. \A p \in Nat : Within(p, Area) <=> b <= p /\ p < t
    BY <1>5, PagesWithin
  <2> HIDE DEF b, t
  <2> QED BY <1>5, <1>6, <2>1, <2>2
<1> HIDE DEF b, t, from, P
<1>8. LowOf(P) \cup Slots = LowOf(from .. phys - 1) \cup Slots
  <2>1. P \subseteq (from .. phys - 1) \cup Slots
    BY <1>1, <1>2, <1>6, <1>7, Sizes
  <2>2. from .. phys - 1 \subseteq P
    BY <1>2, <1>5, <1>6, <1>7, Sizes DEF from
  <2>3. LowOf(P) \subseteq LowOf((from .. phys - 1) \cup (P \cap Slots))
    BY <2>1 DEF LowOf
  <2>4. LowOf(P \cap Slots) \subseteq Slots
    BY LowOfSlots
  <2>5. LowOf(from .. phys - 1) \subseteq LowOf(P)
    BY <2>2 DEF LowOf
  <2>6. LowOf((from .. phys - 1) \cup (P \cap Slots)) = LowOf(from .. phys - 1) \cup LowOf(P \cap Slots)
    BY LowOfUnion
  <2> QED BY <2>3, <2>4, <2>5, <2>6
<1>9. entry' = 3 * (j + 1) /\ j + 1 \in 0 .. entry' /\ entry' = 3 * j + 3
  BY <1>1, <1>3, <1>4
<1>10. Cursor'
  BY <1>1, <1>4, <1>9 DEF Cursor
<1>11. Walked(entry)' = Walked(entry) \cup P
  <2>1. Walked(entry)' = Walked(3 * j + 3)
    BY <1>1, <1>9 DEF Walked, Entries, MapLength
  <2>2. Walked(3 * j + 3) =
          Walked(3 * j) \cup {p \in 0 .. Wide \div PageSize - 1 :
                                Available(EntryAt(mmap, 3 * j)) /\ Within(p, EntryAt(mmap, 3 * j))}
    BY <1>2, <1>4, WalkOn
  <2> QED BY <1>3, <2>1, <2>2 DEF Area, P
<1>12. Mapped' = Mapped
  BY <1>1, MappedSame
<1>13. Mapped = Slots \cup LowOf(Walked(entry)) \cup LowOf(from .. phys - 1)
  BY <1>1, LowOfUnion DEF MappingInv, MappedOK, MappedSoFar, from
<1>14. MappedSoFar' = Slots \cup LowOf(Walked(entry)) \cup LowOf(P)
  BY <1>1, <1>11, LowOfUnion DEF MappedSoFar
<1> QED BY <1>2, <1>8, <1>10, <1>12, <1>13, <1>14 DEF MappingInv, MappedOK

(* At the end of the map every area has been walked.                        *)
LEMMA EnableMapping ==
  ASSUME BootInv, MappingInv, EnablePaging, phase = "ready", UNCHANGED <<vars, kvars, bvars>>
  PROVE  MappingInv'
<1>1. /\ paging = "entries" /\ paging' = "on" /\ entry >= WalkLength
      /\ UNCHANGED <<page_directory, table, entry, mmap, total_pages, g_fb, phase, mmap_addr>>
  BY DEF EnablePaging, vars, bvars
<1>2. AreasOK' /\ Order'
  BY <1>1 DEF MappingInv, AreasOK, Entries, MapLength, Order
<1>3. WalkLength' = WalkLength /\ Walked(entry)' = Walked(entry)
  BY <1>1 DEF WalkLength, MapLength, Walked, Entries
<1>4. Cursor'
  BY <1>1, <1>3 DEF MappingInv, Cursor
<1>5. Mapped' = Mapped
  BY <1>1, MappedSame
<1>6. MappedSoFar' = MappedSoFar
  BY <1>1, <1>3 DEF MappedSoFar
<1> QED BY <1>1, <1>2, <1>4, <1>5, <1>6 DEF MappingInv, MappedOK

-----------------------------------------------------------------------------
(* The framebuffer *)

(* The rounding of paging_map_framebuffer finds the pages the framebuffer touches. *)
LEMMA ShownPages ==
  ASSUME FramebufferOK(g_fb)
  PROVE  /\ FirstShown \in Nat /\ BehindShown \in Nat /\ FirstShown <= BehindShown
         /\ Aligned(g_fb.addr) \div PageSize = FirstShown
         /\ Aligned(g_fb.addr + g_fb.size + PageSize - 1) \div PageSize = BehindShown
         /\ FramebufferPages = FirstShown .. BehindShown - 1
<1> DEFINE a == g_fb.addr
           z == g_fb.addr + g_fb.size + PageSize - 1
<1>1. /\ PageSize \in Nat \ {0} /\ Wide \in Nat \ {0}
      /\ g_fb.addr \in Nat /\ g_fb.size \in Nat /\ g_fb.addr + g_fb.size <= Wide - PageSize
  BY Sizes DEF FramebufferOK
<1>2. a \in Nat /\ a \in 0 .. Wide - 1 /\ z \in Nat /\ z \in 0 .. Wide - 1 /\ a <= z
  BY <1>1
<1>3. FirstShown = a \div PageSize /\ BehindShown = z \div PageSize
  BY DEF FirstShown, BehindShown
<1> HIDE DEF a, z
<1>4. FirstShown \in Nat /\ BehindShown \in Nat
  BY <1>1, <1>2, <1>3, Division
<1>5. FirstShown * PageSize <= a /\ BehindShown * PageSize <= z
  BY <1>1, <1>2, <1>3, Division
<1>6. FirstShown <= BehindShown
  <2>1. FirstShown * PageSize <= z
    <3>1. FirstShown * PageSize \in Nat
      BY <1>1, <1>4
    <3> QED BY <1>2, <1>5, <3>1
  <2> QED BY <1>2, <1>3, <1>4, <2>1, AtLeastPages
<1>7. a % Wide = a /\ z % Wide = z
  BY <1>1, <1>2, SmallRemainder
<1>8. Aligned(a) \div PageSize = FirstShown /\ Aligned(z) \div PageSize = BehindShown
  <2>1. a \in Int /\ z \in Int
    BY <1>2
  <2> QED BY <1>3, <1>7, <2>1, AlignedDown
<1>9. ASSUME NEW p \in Nat
      PROVE  (p + 1) * PageSize > g_fb.addr /\ p * PageSize < g_fb.addr + g_fb.size
               <=> FirstShown <= p /\ p < BehindShown
  <2>1. p + 1 <= FirstShown <=> (p + 1) * PageSize <= a
    BY <1>2, <1>3, AtLeastPages
  <2>2. p + 1 <= BehindShown <=> (p + 1) * PageSize <= z
    BY <1>2, <1>3, AtLeastPages
  <2>3. (p + 1) * PageSize = p * PageSize + PageSize /\ p * PageSize \in Nat
    BY <1>1
  <2>4. (p + 1) * PageSize > g_fb.addr <=> ~((p + 1) * PageSize <= a)
    BY <1>1, <2>3 DEF a
  <2>5. p * PageSize < g_fb.addr + g_fb.size <=> (p + 1) * PageSize <= z
    BY <1>1, <2>3 DEF z
  <2>6. (FirstShown <= p <=> ~(p + 1 <= FirstShown)) /\ (p < BehindShown <=> p + 1 <= BehindShown)
    BY <1>4
  <2> QED BY <2>1, <2>2, <2>4, <2>5, <2>6
<1>10. BehindShown <= Wide \div PageSize /\ Wide \div PageSize \in Int
  <2>1. BehindShown * PageSize <= Wide
    <3>1. BehindShown * PageSize \in Nat
      BY <1>1, <1>4
    <3> QED BY <1>1, <1>2, <1>5, <3>1
  <2>2. Wide \in Nat /\ Wide \div PageSize \in Int
    BY <1>1, DivMod
  <2> QED BY <1>4, <2>1, <2>2, AtLeastPages
<1>11. FramebufferPages = FirstShown .. BehindShown - 1
  <2>1. \A p \in 0 .. Wide \div PageSize - 1 : p \in Nat
    BY <1>10
  <2>2. \A p \in FirstShown .. BehindShown - 1 : p \in 0 .. Wide \div PageSize - 1 /\ p \in Nat
    BY <1>4, <1>10
  <2>3. \A p \in Nat : p \in FirstShown .. BehindShown - 1 <=> FirstShown <= p /\ p < BehindShown
    BY <1>4
  <2> HIDE DEF a, z
  <2> QED BY <1>9, <2>1, <2>2, <2>3, Zenon DEF FramebufferPages
<1> QED BY <1>4, <1>6, <1>8, <1>11 DEF a, z

(* The framebuffer's pages come next.                                       *)
LEMMA BeginShowing ==
  ASSUME BootInv, MappingInv, MapFramebuffer
  PROVE  MappingInv'
<1>1. /\ paging = "on" /\ paging' = "framebuffer" /\ g_fb_found
      /\ phys' = Aligned(g_fb.addr) \div PageSize
      /\ end' = Aligned(g_fb.addr + g_fb.size + PageSize - 1) \div PageSize
      /\ UNCHANGED <<page_directory, table, entry, mmap, total_pages, g_fb, phase, mmap_addr>>
  BY DEF MapFramebuffer, paging_map_framebuffer, vars, bvars
<1>2. AreasOK' /\ Order' /\ FramebufferOK(g_fb)
  BY <1>1 DEF MappingInv, AreasOK, Entries, MapLength, Order, BootInv, InputsOK
<1>3. /\ WalkLength' = WalkLength /\ Walked(entry)' = Walked(entry)
      /\ FirstShown' = FirstShown /\ BehindShown' = BehindShown /\ g_fb_found'
  BY <1>1 DEF WalkLength, MapLength, Walked, Entries, FirstShown, BehindShown, g_fb_found
<1>4. phys' = FirstShown /\ end' = BehindShown /\ FirstShown \in Nat /\ FirstShown <= BehindShown
  BY <1>1, <1>2, ShownPages
<1>5. Cursor'
  BY <1>1, <1>3, <1>4 DEF MappingInv, Cursor
<1>6. Mapped' = Mapped
  BY <1>1, MappedSame
<1>7. FirstShown' .. phys' - 1 = {}
  BY <1>3, <1>4
<1>8. MappedSoFar' = MappedSoFar
  BY <1>1, <1>3, <1>7 DEF MappedSoFar
<1> QED BY <1>1, <1>2, <1>5, <1>6, <1>8 DEF MappingInv, MappedOK

(* A page of the framebuffer is mapped and counted.                         *)
LEMMA ShowPage ==
  ASSUME BootInv, MappingInv, MapFramebufferPage, phase = "ready", UNCHANGED <<vars, kvars, bvars>>
  PROVE  MappingInv'
<1>1. /\ paging = "framebuffer" /\ paging' = paging /\ phys < end /\ map_page(phys)
      /\ phys' = phys + 1 /\ entry' = entry /\ end' = end
      /\ UNCHANGED <<mmap, total_pages, g_fb, phase, mmap_addr>>
  BY DEF MapFramebufferPage, vars, bvars
<1>2. AreasOK' /\ Order' /\ phys \in Nat /\ end \in Nat /\ TablesOK
  BY <1>1 DEF MappingInv, AreasOK, Entries, MapLength, BootInv, InputsOK, Order
<1>3. /\ WalkLength' = WalkLength /\ Walked(entry)' = Walked(entry)
      /\ FirstShown' = FirstShown /\ BehindShown' = BehindShown /\ g_fb_found' = g_fb_found
  BY <1>1 DEF WalkLength, MapLength, Walked, Entries, FirstShown, BehindShown, g_fb_found
<1>4. FirstShown \in Nat /\ FirstShown <= phys
  BY <1>1, ShownPages DEF MappingInv, Cursor, BootInv, InputsOK
<1>5. Cursor'
  BY <1>1, <1>2, <1>3, <1>4 DEF MappingInv, Cursor
<1>6. Mapped' = Mapped \cup {Low(phys)}
  BY <1>1, <1>2, MapPageMaps
<1>7. FirstShown' .. phys' - 1 = (FirstShown .. phys - 1) \cup {phys}
  BY <1>1, <1>2, <1>3, <1>4
<1>8. MappedSoFar' = MappedSoFar \cup {Low(phys)}
  <2> DEFINE before == Slots \cup LowOf(Walked(entry))
             shown  == LowOf(FirstShown .. phys - 1)
             next   == LowOf(FirstShown' .. phys' - 1)
  <2>1. MappedSoFar = before \cup shown
    BY <1>1, LowOfUnion DEF MappedSoFar
  <2>2. MappedSoFar' = before \cup next
    BY <1>1, <1>3, LowOfUnion DEF MappedSoFar
  <2>3. next = shown \cup {Low(phys)}
    BY <1>7, LowOfOneMore
  <2> HIDE DEF before, shown, next
  <2>4. before \cup next = (before \cup shown) \cup {Low(phys)}
    BY <2>3
  <2> QED BY <2>1, <2>2, <2>4
<1>9. Mapped = MappedSoFar
  BY <1>1 DEF MappingInv, MappedOK
<1> QED BY <1>2, <1>5, <1>6, <1>8, <1>9 DEF MappingInv, MappedOK

(* After the last page the framebuffer is mapped.                           *)
LEMMA EndShowing ==
  ASSUME BootInv, MappingInv, FramebufferMapped, phase = "ready", UNCHANGED <<vars, kvars, bvars>>
  PROVE  MappingInv'
<1>1. /\ paging = "framebuffer" /\ paging' = "mapped" /\ phys >= end
      /\ UNCHANGED <<page_directory, table, entry, phys, end, mmap, total_pages, g_fb, phase, mmap_addr>>
  BY DEF FramebufferMapped, vars, bvars
<1>2. AreasOK' /\ Order'
  BY <1>1 DEF MappingInv, AreasOK, Entries, MapLength, Order
<1>3. /\ WalkLength' = WalkLength /\ Walked(entry)' = Walked(entry)
      /\ FirstShown' = FirstShown /\ BehindShown' = BehindShown /\ g_fb_found' = g_fb_found
  BY <1>1 DEF WalkLength, MapLength, Walked, Entries, FirstShown, BehindShown, g_fb_found
<1>4. Cursor'
  BY <1>1, <1>3 DEF MappingInv, Cursor
<1>5. Mapped' = Mapped
  BY <1>1, MappedSame
<1>6. MappedSoFar' = MappedSoFar
  BY <1>1, <1>3 DEF MappedSoFar
<1> QED BY <1>1, <1>2, <1>4, <1>5, <1>6 DEF MappingInv, MappedOK

-----------------------------------------------------------------------------
(* Nothing is mapped before paging is set up.                               *)
LEMMA MappingInit == BInit => MappingInv
<1> SUFFICES ASSUME BInit PROVE MappingInv
  OBVIOUS
<1>1. /\ phase = "off" /\ mmap \in Maps /\ total_pages = 0 /\ paging = "off" /\ entry = 0
  BY DEF BInit, KInit, Init, PagingInit
<1>2. Order /\ MappedOK
  BY <1>1 DEF Order, MappedOK
<1>3. Cursor
  <2>1. 0 \in 0 .. 0 /\ 0 = 3 * 0
    OBVIOUS
  <2> QED BY <1>1, <2>1 DEF Cursor
<1>4. AreasOK
  <2>1. mmap \in Seq(0 .. Wide - 1) /\ Len(mmap) >= 5 /\ Len(mmap) % 3 = 2 /\ Len(mmap) \in Nat
    BY <1>1, InputsAssumption
  <2>2. ASSUME NEW i \in Entries PROVE AreaOK(EntryAt(mmap, 3 * i))
    <3>1. i \in 0 .. (Len(mmap) - 2) \div 3 - 1 /\ Available(EntryAt(mmap, 3 * i))
      BY DEF Entries, MapLength
    <3>2. mmap[3 * i + 1] + mmap[3 * i + 2] <= Wide - PageSize
      BY <1>1, <3>1, BootAssumption
    <3>3. 3 * i \in Nat /\ 3 * i < MapLength
      BY <2>1, <3>1, SMT DEF MapLength
    <3>4. EntryAt(mmap, 3 * i).addr \in 0 .. Wide - 1 /\ EntryAt(mmap, 3 * i).len \in 0 .. Wide - 1
      BY <2>1, <3>3, EntryTyped
    <3>5. EntryAt(mmap, 3 * i).addr = mmap[3 * i + 1] /\ EntryAt(mmap, 3 * i).len = mmap[3 * i + 2]
      BY DEF EntryAt
    <3> HIDE DEF Entries
    <3> QED BY <3>2, <3>4, <3>5, Sizes DEF AreaOK
  <2> QED BY <2>1, <2>2 DEF AreasOK
<1> QED BY <1>2, <1>3, <1>4 DEF MappingInv

(* A map that lies where the bitmap is cleared has no entry left.          *)
LEMMA ClearedMap ==
  ASSUME InputsOK, AreasOK, ClearBitmap PROVE AreasOK'
<1>1. CASE mmap' = mmap
  BY <1>1 DEF AreasOK, Entries, MapLength
<1>2. CASE mmap' = [i \in DOMAIN mmap |-> 0]
  <2>1. Len(mmap') = Len(mmap) /\ Len(mmap) \in Nat /\ DOMAIN mmap = 1 .. Len(mmap)
    BY <1>2 DEF InputsOK
  <2>2. Entries' = {}
    <3> SUFFICES ASSUME NEW i \in Entries' PROVE FALSE
      OBVIOUS
    <3>1. i \in 0 .. MapLength' \div 3 - 1 /\ Available(EntryAt(mmap', 3 * i))
      BY DEF Entries
    <3>2. MapLength' = Len(mmap) - 2
      BY <2>1 DEF MapLength
    <3>3. 3 * i + 3 \in DOMAIN mmap
      BY <2>1, <3>1, <3>2, SMT
    <3>4. EntryAt(mmap', 3 * i).type = 0 % AddrSpace
      BY <1>2, <3>3 DEF EntryAt
    <3>5. 0 % AddrSpace = 0
      BY SizesAssumption
    <3> QED BY <3>1, <3>4, <3>5 DEF Available
  <2> QED BY <2>1, <2>2 DEF AreasOK
<1> QED BY <1>1, <1>2 DEF ClearBitmap

(* Every step keeps what is mapped and how far the walk has come in line.   *)
LEMMA MappingStep ==
  ASSUME KInv, BootInv, MappingInv, [BNext]_allvars PROVE MappingInv'
<1>1. CASE ReadTag
  <2>1. /\ phase = "off" /\ phase' = phase /\ total_pages' = total_pages /\ mmap' = mmap
        /\ paging' = paging /\ entry' = entry
    BY <1>1 DEF ReadTag, vars, pvars
  <2>2. paging = "off" /\ total_pages = 0
    BY <2>1 DEF MappingInv, Order
  <2>3. Order' /\ MappedOK'
    BY <2>1, <2>2 DEF Order, MappedOK
  <2>4. Cursor'
    BY <2>1, <2>2 DEF MappingInv, Cursor
  <2>5. AreasOK'
    BY <2>1 DEF MappingInv, AreasOK, Entries, MapLength
  <2> QED BY <2>3, <2>4, <2>5 DEF MappingInv
<1>2. CASE InitPMM
  <2>1. paging = "off" /\ paging' = paging /\ entry' = entry /\ mmap_addr' = mmap_addr
    <3>1. phase # "ready"
      BY <1>2 DEF InitPMM, ClearBitmap, NoMemoryMap, CountEntry, ReserveKernel
    <3> QED BY <1>2, <3>1 DEF InitPMM, MappingInv, Order, pvars, bvars
  <2>2. MappedOK'
    BY <2>1 DEF MappedOK
  <2>3. Cursor'
    BY <2>1 DEF MappingInv, Cursor
  <2>4. Order'
    <3>1. TotalPages # 0
      BY SizesAreNat, SizesAssumption
    <3>2. CASE mmap_addr /\ ClearBitmap
      BY <2>1, <3>1, <3>2 DEF ClearBitmap, Order
    <3>3. CASE ~mmap_addr /\ NoMemoryMap
      BY <2>1, <3>3 DEF NoMemoryMap, MappingInv, Order
    <3>4. CASE CountEntry \/ ReserveKernel
      BY <2>1, <3>4 DEF CountEntry, ReserveKernel, MappingInv, Order
    <3> QED BY <1>2, <3>2, <3>3, <3>4 DEF InitPMM
  <2>5. AreasOK'
    <3>1. CASE ClearBitmap
      BY <3>1, ClearedMap DEF MappingInv, BootInv
    <3>2. CASE ~ClearBitmap
      <4>1. mmap' = mmap
        BY <1>2, <3>2 DEF InitPMM, NoMemoryMap, CountEntry, ReserveKernel
      <4> QED BY <4>1 DEF MappingInv, AreasOK, Entries, MapLength
    <3> QED BY <3>1, <3>2
  <2> QED BY <2>2, <2>3, <2>4, <2>5 DEF MappingInv
<1>3. CASE InitPaging
  <2>1. phase = "ready" /\ UNCHANGED <<vars, kvars, bvars>>
    BY <1>3 DEF InitPaging
  <2> QED
    BY <1>3, <2>1, StartMapping, WalkMapping, RamMapping, EntryMapping, EnableMapping, ShowPage,
       EndShowing DEF InitPaging, PagingStep
<1>4. CASE MapFramebuffer
  BY <1>4, BeginShowing
<1>5. CASE InitHeap \/ UseHeap \/ UNCHANGED allvars
  <2>1. UNCHANGED <<paging, page_directory, table, entry, phys, end, mmap, total_pages, g_fb,
                    phase, mmap_addr>>
    BY <1>5 DEF InitHeap, KmallocInit, UseHeap, Kmalloc, Kfree, allvars, vars, pvars, bvars
  <2>2. Order'
    BY <2>1 DEF MappingInv, Order
  <2> QED BY <2>1, <2>2, MappingSame DEF MappingInv
<1> QED BY <1>1, <1>2, <1>3, <1>4, <1>5 DEF BNext, Initialize

(* The walk over the memory map loses no page and maps no other: not in    *)
(* the masks that round an area's ends, not where one begins below 4 MB,   *)
(* and not in the two steps over it with different strides; and the        *)
(* framebuffer is mapped to its last byte, for every memory map and every  *)
(* framebuffer (paging_init_full, paging_map_framebuffer).                 *)
THEOREM BootRamAndFramebufferMapped == BSpec => []RamAndFramebufferMapped
<1>1. BootInv /\ MappingInv => RamAndFramebufferMapped
  <2> SUFFICES ASSUME BootInv, MappingInv, paging \in {"on", "mapped"}
               PROVE  Mapped = Slots \cup {Low(p) : p \in IF mmap_addr THEN RamPages ELSE {}}
                          \cup {Low(p) : p \in IF paging = "mapped" THEN FramebufferPages ELSE {}}
    BY DEF RamAndFramebufferMapped
  <2>1. Mapped = Slots \cup LowOf(Walked(entry))
               \cup LowOf(IF paging \in {"framebuffer", "mapped"} THEN FirstShown .. phys - 1 ELSE {})
    BY LowOfUnion DEF MappingInv, MappedOK, MappedSoFar
  <2>2. Walked(entry) = IF mmap_addr THEN RamPages ELSE {}
    <3>1. phase = "ready" /\ entry >= WalkLength /\ InputsOK /\ entry \in Nat
      BY DEF MappingInv, Order, Cursor, BootInv, InputsOK
    <3>2. CASE mmap_addr
      <4>1. total_pages # 0
        BY <3>1, <3>2 DEF MappingInv, Order
      <4>2. MapLength \in Int /\ entry >= MapLength
        BY <3>1, <4>1, SMT DEF WalkLength, MapLength, InputsOK
      <4>3. \A i \in Entries : 3 * i < entry
        BY <3>1, <4>2, SMT DEF Entries
      <4>4. Walked(entry) = RamPages
        BY <4>3, Zenon DEF Walked, RamPages, Within
      <4> QED BY <3>2, <4>4
    <3>3. CASE ~mmap_addr
      <4>1. entry = 0
        BY <3>1, <3>3 DEF MappingInv, Order, Cursor
      <4> QED BY <3>1, <3>3, <4>1, NothingWalked
    <3> QED BY <3>2, <3>3
  <2>3. paging = "mapped" => FirstShown .. phys - 1 = FramebufferPages
    <3> SUFFICES ASSUME paging = "mapped" PROVE FirstShown .. phys - 1 = FramebufferPages
      OBVIOUS
    <3>1. FramebufferOK(g_fb) /\ phys \in Nat /\ end \in Nat /\ phys <= end /\ phys >= end
          /\ end = BehindShown
      BY DEF MappingInv, Cursor, BootInv, InputsOK
    <3>2. phys = BehindShown
      BY <3>1
    <3> QED BY <3>1, <3>2, ShownPages
  <2> QED BY <2>1, <2>2, <2>3 DEF LowOf
<1>2. BInit => MappingInv
  BY MappingInit
<1>3. KInv /\ BootInv /\ LowIdentity /\ PoolOK /\ MappingInv /\ [BNext]_allvars => MappingInv'
  BY MappingStep
<1> QED BY <1>1, <1>2, <1>3, BootKInv, BootPaging, PTL DEF BSpec

=============================================================================
