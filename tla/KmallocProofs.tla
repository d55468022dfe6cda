--------------------------- MODULE KmallocProofs ----------------------------
(***************************************************************************)
(* Proofs about the kernel heap, for every size of pages, headers and      *)
(* caches and every sequence of requests: its types, that free lists end,  *)
(* that no block is lost, that a block is as large as asked, and that it   *)
(* keeps the promise of Heap.                                              *)
(***************************************************************************)
EXTENDS Kmalloc, PMMProofs, Numbers

-----------------------------------------------------------------------------
(* Blocks and pages *)

(* The sizes of blocks and pages that the arithmetic below needs.           *)
LEMMA HeapFacts ==
  /\ NUM_CACHES \in Nat /\ NUM_CACHES > 0 /\ NUM_CACHES \in Caches
  /\ Caches \subseteq Nat \ {0}
  /\ PageSize \in Nat \ {0} /\ HeaderSize \in Nat \ {0}
  /\ \A i \in Caches : /\ BLOCK_SIZES[i] \in Nat \ {0}
                       /\ real_block_size(i) \in Nat
                       /\ HeaderSize < real_block_size(i) /\ real_block_size(i) <= PageSize
<1>1. NUM_CACHES \in Nat /\ NUM_CACHES > 0
  BY HeapAssumption, EmptySeq DEF NUM_CACHES
<1>2. \A i \in Caches : BLOCK_SIZES[i] \in Nat \ {0}
  BY HeapAssumption, ElementOfSeq DEF Caches, NUM_CACHES
<1> QED
  BY <1>1, <1>2, HeapAssumption, SizesAssumption DEF Caches, real_block_size

(* An interval left of another ends where that one starts, or before.      *)
LEMMA Multiples ==
  ASSUME NEW a \in Nat, NEW b \in Nat, NEW c \in Nat, a < b
  PROVE  a * c \in Nat /\ b * c \in Nat /\ a * c + c <= b * c
OBVIOUS

(* The quotient of natural numbers, for the solver.                         *)
LEMMA Division ==
  ASSUME NEW n \in Nat, NEW d \in Nat \ {0}
  PROVE  /\ n \div d \in Nat /\ (n \div d) * d <= n
         /\ d <= n => n \div d >= 1
         /\ \A q \in Nat : q * d <= n /\ n < q * d + d => n \div d = q
OBVIOUS

(* The extent of a block lies inside its page, in one of its slots.        *)
LEMMA BlockInPage ==
  ASSUME NEW i \in Caches, NEW page \in Nat, NEW b \in BlocksOf(i, page)
  PROVE  /\ page * PageSize \in Nat /\ b \in Nat
         /\ page * PageSize <= b
         /\ b + real_block_size(i) <= page * PageSize + PageSize
         /\ b \div PageSize = page
<1> DEFINE r == real_block_size(i)
<1>1. r \in Nat \ {0} /\ r <= PageSize /\ PageSize \in Nat \ {0}
  BY HeapFacts
<1> HIDE DEF r
<1>2. PageSize \div r \in Nat /\ (PageSize \div r) * r <= PageSize
  BY <1>1, Division
<1>3. PICK k \in 0 .. PageSize \div r - 1 : b = page * PageSize + k * r
  BY DEF BlocksOf, r
<1>4. k \in Nat /\ k * r \in Nat /\ k * r + r <= (PageSize \div r) * r
  BY <1>1, <1>2, <1>3, Multiples
<1>5. page * PageSize \in Nat
  BY <1>1
<1>6. b \in Nat /\ page * PageSize <= b /\ b + r <= page * PageSize + PageSize
  BY <1>1, <1>2, <1>3, <1>4, <1>5
<1>7. b \div PageSize = page
  BY <1>1, <1>5, <1>6, Division
<1> QED
  BY <1>5, <1>6, <1>7 DEF r

(* Two blocks of a page do not overlap.                                    *)
LEMMA BlocksApart ==
  ASSUME NEW i \in Caches, NEW page \in Nat, NEW b \in BlocksOf(i, page),
         NEW c \in BlocksOf(i, page), b < c
  PROVE  b + real_block_size(i) <= c
<1> DEFINE r == real_block_size(i)
<1>1. r \in Nat \ {0} /\ PageSize \in Nat \ {0} /\ PageSize \div r \in Nat
  BY HeapFacts, Division
<1> HIDE DEF r
<1>2. PICK j \in 0 .. PageSize \div r - 1 : b = page * PageSize + j * r
  BY DEF BlocksOf, r
<1>3. PICK k \in 0 .. PageSize \div r - 1 : c = page * PageSize + k * r
  BY DEF BlocksOf, r
<1>4. j \in Nat /\ k \in Nat /\ page * PageSize \in Nat
  BY <1>1, <1>2, <1>3
<1>5. j * r < k * r /\ j * r \in Nat /\ k * r \in Nat
  BY <1>1, <1>2, <1>3, <1>4
<1>6. j < k
  <2>1. j = k => j * r = k * r
    OBVIOUS
  <2>2. k < j => k * r <= j * r
    BY <1>1, <1>4, <1>5, Multiples
  <2> QED BY <1>4, <1>5, <2>1, <2>2
<1>7. j * r + r <= k * r
  BY <1>1, <1>4, <1>6, Multiples
<1> QED
  BY <1>1, <1>2, <1>3, <1>4, <1>5, <1>7 DEF r

(* Where cache_grow's loop starts and where it stops.                      *)
LEMMA FirstAndLastBlock ==
  ASSUME NEW i \in Caches, NEW page \in Nat
  PROVE  /\ page * PageSize \in BlocksOf(i, page)
         /\ NewHead(i, page) \in BlocksOf(i, page)
<1>1. /\ real_block_size(i) \in Nat \ {0} /\ real_block_size(i) <= PageSize
      /\ PageSize \in Nat \ {0}
  BY HeapFacts
<1>2. PageSize \div real_block_size(i) \in Nat /\ PageSize \div real_block_size(i) >= 1
  BY <1>1, Division
<1>3. /\ 0 \in 0 .. PageSize \div real_block_size(i) - 1
      /\ PageSize \div real_block_size(i) - 1 \in 0 .. PageSize \div real_block_size(i) - 1
  BY <1>2
<1>4. page * PageSize + 0 * real_block_size(i) = page * PageSize
  BY <1>1
<1> QED
  BY <1>1, <1>3, <1>4 DEF BlocksOf, NewHead

(* Pages do not overlap, and those that exist are inside memory.           *)
LEMMA PagesApart ==
  ASSUME NEW page \in Nat, NEW other \in Nat, page < other
  PROVE  page * PageSize + PageSize <= other * PageSize
BY HeapFacts, Multiples

(* Every byte of a page is an address in that page.                         *)
LEMMA PageInMemory ==
  ASSUME NEW page \in 1 .. TotalPages - 1
  PROVE  /\ page \in Nat /\ page * PageSize \in Nat /\ page * PageSize >= PageSize
         /\ page * PageSize + PageSize <= TotalPages * PageSize
         /\ \A a \in page * PageSize .. page * PageSize + PageSize - 1 :
              a \in Addresses /\ a \div PageSize = page
<1>1. page \in Nat /\ PageSize \in Nat \ {0} /\ TotalPages \in Nat /\ 0 < page /\ page < TotalPages
  BY HeapFacts, SizesAreNat
<1>2. /\ 0 * PageSize + PageSize <= page * PageSize /\ page * PageSize \in Nat
      /\ page * PageSize + PageSize <= TotalPages * PageSize
      /\ TotalPages * PageSize \in Nat
  BY <1>1, Multiples
<1>3. ASSUME NEW a \in page * PageSize .. page * PageSize + PageSize - 1
      PROVE  a \in Addresses /\ a \div PageSize = page
  <2>1. a \in Nat /\ a >= page * PageSize /\ a < page * PageSize + PageSize
    BY <1>1, <1>2
  <2>2. a \div PageSize = page
    BY <1>1, <2>1, Division
  <2> QED BY <1>1, <1>2, <2>1, <2>2 DEF Addresses
<1> QED
  BY <1>1, <1>2, <1>3

(* The null pointer is an address too, of page 0.                           *)
LEMMA NullIsAddress == NULL \in Addresses
<1>1. TotalPages \in Nat /\ 0 < TotalPages /\ PageSize \in Nat \ {0}
  BY HeapFacts, SizesAreNat, SizesAssumption
<1>2. 0 * PageSize + PageSize <= TotalPages * PageSize /\ TotalPages * PageSize \in Nat
  BY <1>1, Multiples
<1> QED
  BY <1>1, <1>2 DEF NULL, Addresses

(* &caches[i], numbered, is an address: sizes grow with the index.         *)
LEMMA CacheIdIsAddress ==
  \A i \in Caches : CacheId(i) \in Addresses /\ CacheId(i) # NULL
<1> DEFINE T == {k \in Nat : k \in Caches => k <= BLOCK_SIZES[k]}
<1>1. \A k \in 0 .. NUM_CACHES - 1 : k \in T => k + 1 \in T
  <2> SUFFICES ASSUME NEW k \in 0 .. NUM_CACHES - 1, k \in T PROVE k + 1 \in T
    OBVIOUS
  <2>1. k \in Nat /\ k + 1 \in Caches /\ NUM_CACHES \in Nat
    BY HeapFacts DEF Caches
  <2>2. CASE k = 0
    BY <2>1, <2>2, HeapFacts
  <2>3. CASE k # 0
    <3>1. k \in Caches /\ k < k + 1
      BY <2>1, <2>3 DEF Caches
    <3>2. BLOCK_SIZES[k] < BLOCK_SIZES[k + 1]
      BY <2>1, <3>1, HeapAssumption
    <3> QED BY <2>1, <3>1, <3>2, HeapFacts
  <2> QED BY <2>2, <2>3
<1>2. 0 \in T
  BY DEF Caches
<1>3. 0 .. NUM_CACHES \subseteq T
  <2> HIDE DEF T
  <2> QED BY <1>1, <1>2, HeapFacts, UpTo
<1>4. \A i \in Caches : i \in Nat /\ i <= BLOCK_SIZES[i]
  BY <1>3, HeapFacts DEF Caches
<1>5. \A i \in Caches : i < PageSize /\ i > 0
  BY <1>4, HeapFacts DEF real_block_size
<1>6. PageSize <= TotalPages * PageSize
  <2>1. TotalPages \in Nat /\ 0 < TotalPages /\ PageSize \in Nat
    BY HeapFacts, SizesAreNat, SizesAssumption
  <2> QED BY <2>1, Multiples
<1> QED
  BY <1>4, <1>5, <1>6, HeapFacts, SizesAreNat DEF CacheId, Addresses, NULL

-----------------------------------------------------------------------------
(* Free lists *)

(* head leads through every block of S, once, and then to null: a block's  *)
(* rank is how many blocks there are from it to the end.                   *)
Ranked(S, head, w, rank, n) ==
  /\ n = 0 <=> head = NULL
  /\ n > 0 => head \in S /\ rank[head] = n
  /\ \A b \in S : /\ b # NULL /\ rank[b] \in 1 .. n
                  /\ rank[b] = 1 => w[b] = NULL
                  /\ rank[b] > 1 => w[b] \in S /\ rank[w[b]] = rank[b] - 1
  /\ \A b, c \in S : rank[b] = rank[c] => b = c

IsList(S, head, w) ==
  \E rank \in [S -> Nat], n \in Nat : Ranked(S, head, w, rank, n)

(* An empty list is the null pointer, and no other list is.                 *)
LEMMA ListEnds ==
  ASSUME NEW S, NEW head, NEW w, IsList(S, head, w)
  PROVE  /\ head = NULL => S = {}
         /\ head # NULL => head \in S
<1>1. PICK rank \in [S -> Nat], n \in Nat : Ranked(S, head, w, rank, n)
  BY DEF IsList
<1> QED  BY <1>1 DEF Ranked

(* The null pointer is the empty list.                                      *)
LEMMA ListEmpty == ASSUME NEW w PROVE IsList({}, NULL, w)
<1> DEFINE rank == [b \in {} |-> 0]
<1>1. rank \in [{} -> Nat] /\ 0 \in Nat
  OBVIOUS
<1>2. Ranked({}, NULL, w, rank, 0)
  BY DEF Ranked
<1> QED  BY <1>1, <1>2 DEF IsList

(* A list is what the words of its blocks say, whatever else is written.   *)
LEMMA ListSame ==
  ASSUME NEW S, NEW head, NEW w, NEW v, IsList(S, head, w), \A b \in S : v[b] = w[b]
  PROVE  IsList(S, head, v)
<1>1. PICK rank \in [S -> Nat], n \in Nat : Ranked(S, head, w, rank, n)
  BY DEF IsList
<1>2. Ranked(S, head, v, rank, n)
  BY <1>1 DEF Ranked
<1> QED  BY <1>2 DEF IsList

(* A block off the list goes in front when its word names the old head.    *)
LEMMA ListPush ==
  ASSUME NEW S, NEW head, NEW w, NEW v, NEW block, IsList(S, head, w),
         block \notin S, block # NULL, v[block] = head, \A b \in S : v[b] = w[b]
  PROVE  IsList(S \cup {block}, block, v)
<1>1. PICK rank \in [S -> Nat], n \in Nat : Ranked(S, head, w, rank, n)
  BY DEF IsList
<1> DEFINE R == [b \in S \cup {block} |-> IF b = block THEN n + 1 ELSE rank[b]]
<1>2. R \in [S \cup {block} -> Nat] /\ n + 1 \in Nat
  OBVIOUS
<1>3. R[block] = n + 1 /\ \A b \in S : R[b] = rank[b] /\ b # block
  OBVIOUS
<1> HIDE DEF R
<1>4. \A b \in S : rank[b] \in 1 .. n /\ R[b] \in 1 .. n + 1 /\ R[b] # n + 1
  BY <1>1, <1>3 DEF Ranked
<1>5. n + 1 > 0 /\ n + 1 # 0 /\ n + 1 \in 1 .. n + 1 /\ n + 1 - 1 = n
  OBVIOUS
<1>6. n + 1 = 1 => head = NULL
  BY <1>1 DEF Ranked
<1>7. n + 1 > 1 => head \in S /\ R[head] = n
  BY <1>1, <1>3 DEF Ranked
<1>8. \A b \in S : /\ b # NULL
                   /\ R[b] = 1 => v[b] = NULL
                   /\ R[b] > 1 => v[b] \in S /\ R[v[b]] = R[b] - 1
  BY <1>1, <1>3 DEF Ranked
<1>9. \A b, c \in S \cup {block} : R[b] = R[c] => b = c
  BY <1>1, <1>3, <1>4 DEF Ranked
<1>10. Ranked(S \cup {block}, block, v, R, n + 1)
  BY <1>3, <1>4, <1>5, <1>6, <1>7, <1>8, <1>9 DEF Ranked
<1> QED  BY <1>2, <1>10 DEF IsList

(* The head comes off, and its word is the head of the rest.               *)
LEMMA ListPop ==
  ASSUME NEW S, NEW head, NEW w, NEW v, IsList(S, head, w), head # NULL,
         \A b \in S \ {head} : v[b] = w[b]
  PROVE  IsList(S \ {head}, w[head], v)
<1>1. PICK rank \in [S -> Nat], n \in Nat : Ranked(S, head, w, rank, n)
  BY DEF IsList
<1>2. n > 0 /\ n - 1 \in Nat /\ head \in S /\ rank[head] = n
  BY <1>1 DEF Ranked
<1> DEFINE R == [b \in S \ {head} |-> rank[b]]
<1>3. R \in [S \ {head} -> Nat]
  OBVIOUS
<1>4. \A b \in S \ {head} : R[b] = rank[b]
  OBVIOUS
<1> HIDE DEF R
<1>5. \A b \in S \ {head} : rank[b] \in 1 .. n /\ rank[b] # n
  BY <1>1, <1>2 DEF Ranked
<1>6. \A b \in S \ {head} : R[b] \in 1 .. n - 1
  BY <1>4, <1>5
<1>7. \A b \in S : rank[b] > 1 => w[b] \in S \ {head}
  <2> SUFFICES ASSUME NEW b \in S, rank[b] > 1 PROVE w[b] # head /\ w[b] \in S
    OBVIOUS
  <2>1. rank[w[b]] = rank[b] - 1 /\ w[b] \in S /\ rank[b] \in 1 .. n
    BY <1>1 DEF Ranked
  <2> QED BY <1>2, <2>1
<1>8. n - 1 = 0 <=> w[head] = NULL
  BY <1>1, <1>2 DEF Ranked
<1>9. n - 1 > 0 => w[head] \in S \ {head} /\ R[w[head]] = n - 1
  BY <1>1, <1>2, <1>4, <1>7 DEF Ranked
<1>10. \A b \in S \ {head} : /\ b # NULL
                             /\ R[b] = 1 => v[b] = NULL
                             /\ R[b] > 1 => v[b] \in S \ {head} /\ R[v[b]] = R[b] - 1
  BY <1>1, <1>4, <1>7 DEF Ranked
<1>11. \A b, c \in S \ {head} : R[b] = R[c] => b = c
  BY <1>1, <1>4 DEF Ranked
<1>12. Ranked(S \ {head}, w[head], v, R, n - 1)
  BY <1>6, <1>8, <1>9, <1>10, <1>11 DEF Ranked
<1> QED  BY <1>2, <1>3, <1>12 DEF IsList

(* The list cache_grow leaves in a page that no list led to before.        *)
LEMMA ListGrow ==
  ASSUME NEW i \in Caches, NEW page \in Nat \ {0}, NEW v,
         \A b \in BlocksOf(i, page) :
           v[b] = IF b = page * PageSize THEN NULL ELSE b - real_block_size(i)
  PROVE  IsList(BlocksOf(i, page), NewHead(i, page), v)
<1> DEFINE r == real_block_size(i)
           n == PageSize \div r
           P == page * PageSize
           S == BlocksOf(i, page)
           R == [b \in S |-> (b - P) \div r + 1]
<1>1. /\ r \in Nat \ {0} /\ r <= PageSize /\ PageSize \in Nat \ {0}
      /\ n \in Nat /\ n >= 1 /\ P \in Nat
  BY HeapFacts, Division
<1>2. P > 0
  BY <1>1, HeapFacts
<1>3. S = {P + k * r : k \in 0 .. n - 1} /\ NewHead(i, page) = P + (n - 1) * r
  BY DEF BlocksOf, NewHead
<1>4. \A b \in S : v[b] = IF b = P THEN NULL ELSE b - r
  OBVIOUS
<1> HIDE DEF r, n, P, S
<1>5. ASSUME NEW k \in 0 .. n - 1
      PROVE  /\ k * r \in Nat /\ (P + k * r - P) \div r = k
             /\ P + k * r \in S /\ R[P + k * r] = k + 1
  <2>1. k \in Nat /\ k * r \in Nat /\ P + k * r - P = k * r
    BY <1>1
  <2>2. k * r <= k * r /\ k * r < k * r + r
    BY <1>1, <2>1
  <2>3. (k * r) \div r = k
    BY <1>1, <2>1, <2>2, Division
  <2>4. (P + k * r - P) \div r = k
    BY <2>1, <2>3
  <2>5. P + k * r \in S
    BY <1>3
  <2>6. \A b \in S : R[b] = (b - P) \div r + 1
    OBVIOUS
  <2> HIDE DEF R
  <2>7. R[P + k * r] = k + 1
    BY <1>1, <2>1, <2>4, <2>5, <2>6
  <2>8. k * r \in Nat
    BY <2>1
  <2> QED BY <2>4, <2>5, <2>7, <2>8, Zenon
<1>6. \A b \in S : \E k \in 0 .. n - 1 : b = P + k * r /\ k * r \in Nat /\ R[b] = k + 1
  <2> TAKE b \in S
  <2>1. PICK k \in 0 .. n - 1 : b = P + k * r
    BY <1>3
  <2>2. k * r \in Nat /\ R[P + k * r] = k + 1
    BY <1>5, <2>1
  <2> QED BY <2>1, <2>2
<1>7. R \in [S -> Nat]
  <2>1. \A b \in S : R[b] \in Nat
    BY <1>1, <1>6
  <2> QED BY <2>1
<1>8. R[NewHead(i, page)] = n /\ NewHead(i, page) \in S
  BY <1>1, <1>3, <1>5
<1> HIDE DEF R
<1>9. ASSUME NEW b \in S
      PROVE  /\ b # NULL /\ R[b] \in 1 .. n
             /\ R[b] = 1 => v[b] = NULL
             /\ R[b] > 1 => v[b] \in S /\ R[v[b]] = R[b] - 1
  <2>1. PICK k \in 0 .. n - 1 : b = P + k * r /\ k * r \in Nat /\ R[b] = k + 1
    BY <1>6
  <2>2. b # NULL /\ R[b] \in 1 .. n
    BY <1>1, <1>2, <2>1 DEF NULL
  <2>3. CASE k = 0
    <3>1. b = P /\ R[b] = 1
      BY <1>1, <2>1, <2>3
    <3> QED BY <1>4, <2>2, <3>1
  <2>4. CASE k # 0
    <3>1. k - 1 \in 0 .. n - 1 /\ k \in Nat /\ k - 1 + 1 = k
      BY <1>1, <2>4
    <3>2. k * r = (k - 1) * r + r /\ (k - 1) * r \in Nat
      BY <1>1, <3>1
    <3>3. b # P /\ b - r = P + (k - 1) * r
      BY <1>1, <2>1, <3>2
    <3>4. v[b] = P + (k - 1) * r
      BY <1>4, <3>3
    <3> QED BY <1>5, <2>1, <2>2, <3>1, <3>4
  <2> QED BY <2>3, <2>4
<1>10. \A b, c \in S : R[b] = R[c] => b = c
  BY <1>6
<1>11. n > 0 /\ n # 0 /\ NewHead(i, page) # NULL
  BY <1>1, <1>8, <1>9
<1>12. Ranked(S, NewHead(i, page), v, R, n)
  BY <1>8, <1>9, <1>10, <1>11 DEF Ranked
<1>13. IsList(S, NewHead(i, page), v)
  BY <1>1, <1>7, <1>12 DEF IsList
<1> QED  BY <1>13 DEF S

-----------------------------------------------------------------------------
(* Pages and their owners.  own maps each page the heap holds to the cache *)
(* that cut it into blocks, or to 0 when it is one caller's own.           *)
SlotsOf(i, page) == IF i = 0 THEN {page * PageSize} ELSE BlocksOf(i, page)

Room(i) == IF i = 0 THEN PageSize ELSE real_block_size(i)

OwnOK(own) ==
  /\ DOMAIN own \subseteq 1 .. TotalPages - 1
  /\ \A page \in DOMAIN own : own[page] \in 0 .. NUM_CACHES

Owner(own, b) == own[b \div PageSize]

Cut(own) ==
  {b \in Addresses : b \div PageSize \in DOMAIN own /\ b \in SlotsOf(Owner(own, b), b \div PageSize)}

OwnedBy(own, i) == {page \in DOMAIN own : own[page] = i}

Free(own, lv, i) ==
  {b \in Cut(own) : Owner(own, b) = i /\ b + HeaderSize \notin DOMAIN lv}

(* Where a slot of a page lies.                                            *)
LEMMA SlotInPage ==
  ASSUME NEW i \in 0 .. NUM_CACHES, NEW page \in 1 .. TotalPages - 1, NEW b \in SlotsOf(i, page)
  PROVE  /\ b \in Nat /\ b \in Addresses /\ b \div PageSize = page
         /\ page * PageSize \in Nat /\ page * PageSize <= b
         /\ b + Room(i) <= page * PageSize + PageSize
         /\ b >= PageSize /\ b # NULL
         /\ Room(i) \in Nat /\ HeaderSize < Room(i)
<1>1. CASE i = 0
  <2>1. b = page * PageSize /\ Room(i) = PageSize
    BY <1>1 DEF SlotsOf, Room
  <2>2. HeaderSize < PageSize /\ PageSize \in Nat \ {0}
    BY HeapFacts
  <2>3. /\ page * PageSize \in Nat /\ page * PageSize >= PageSize
        /\ page * PageSize \in page * PageSize .. page * PageSize + PageSize - 1
    BY <2>2, PageInMemory
  <2>4. b \in Addresses /\ b \div PageSize = page
    BY <2>1, <2>3, PageInMemory
  <2> QED BY <2>1, <2>2, <2>3, <2>4 DEF NULL
<1>2. CASE i # 0
  <2>1. i \in Caches /\ b \in BlocksOf(i, page) /\ Room(i) = real_block_size(i)
    BY <1>2 DEF SlotsOf, Room, Caches
  <2>2. page \in Nat /\ page * PageSize >= PageSize
    BY PageInMemory
  <2>3. /\ b \in Nat /\ page * PageSize \in Nat /\ page * PageSize <= b
        /\ b + real_block_size(i) <= page * PageSize + PageSize
        /\ b \div PageSize = page
    BY <2>1, <2>2, BlockInPage
  <2>4. real_block_size(i) \in Nat /\ HeaderSize < real_block_size(i) /\ PageSize \in Nat \ {0}
        /\ HeaderSize \in Nat
    BY <2>1, HeapFacts
  <2>5. b \in page * PageSize .. page * PageSize + PageSize - 1
    BY <2>3, <2>4
  <2>6. b \in Addresses
    BY <2>5, PageInMemory
  <2> QED BY <2>1, <2>2, <2>3, <2>4, <2>6 DEF NULL
<1> QED  BY <1>1, <1>2

(* The same for a block the heap has cut; a caller's pointer to it.        *)
LEMMA CutFacts ==
  ASSUME NEW own, OwnOK(own), NEW b \in Cut(own)
  PROVE  /\ b \div PageSize \in DOMAIN own /\ b \div PageSize \in 1 .. TotalPages - 1
         /\ b \in SlotsOf(Owner(own, b), b \div PageSize)
         /\ Owner(own, b) \in 0 .. NUM_CACHES
         /\ b \in Nat /\ b # NULL /\ b \in Addresses
         /\ (b \div PageSize) * PageSize \in Nat /\ (b \div PageSize) * PageSize <= b
         /\ b + Room(Owner(own, b)) <= (b \div PageSize) * PageSize + PageSize
         /\ Room(Owner(own, b)) \in Nat /\ HeaderSize < Room(Owner(own, b))
<1>1. b \div PageSize \in DOMAIN own /\ b \in SlotsOf(Owner(own, b), b \div PageSize)
  BY DEF Cut
<1>2. b \div PageSize \in 1 .. TotalPages - 1 /\ Owner(own, b) \in 0 .. NUM_CACHES
  BY <1>1 DEF OwnOK, Owner
<1> QED  BY <1>1, <1>2, SlotInPage

(* The blocks that pages are cut into do not overlap.                       *)
LEMMA CutApart ==
  ASSUME NEW own, OwnOK(own), NEW b \in Cut(own), NEW c \in Cut(own), b < c
  PROVE  b + Room(Owner(own, b)) <= c
<1> DEFINE p == b \div PageSize
           q == c \div PageSize
<1>1. /\ p \in DOMAIN own /\ p \in Nat /\ b \in SlotsOf(Owner(own, b), p) /\ b \in Nat
      /\ p * PageSize \in Nat /\ p * PageSize <= b
      /\ b + Room(Owner(own, b)) <= p * PageSize + PageSize /\ Room(Owner(own, b)) \in Nat
      /\ Owner(own, b) \in 0 .. NUM_CACHES
  BY CutFacts
<1>2. /\ q \in DOMAIN own /\ q \in Nat /\ c \in SlotsOf(Owner(own, c), q) /\ c \in Nat
      /\ q * PageSize \in Nat /\ q * PageSize <= c
      /\ c + Room(Owner(own, c)) <= q * PageSize + PageSize /\ Room(Owner(own, c)) \in Nat
      /\ HeaderSize < Room(Owner(own, c))
  BY CutFacts
<1>3. CASE p = q
  <2>1. Owner(own, b) = Owner(own, c)
    BY <1>3 DEF Owner
  <2>2. CASE Owner(own, b) = 0
    <3>1. b = p * PageSize /\ c = q * PageSize
      BY <1>1, <1>2, <2>1, <2>2 DEF SlotsOf
    <3>2. b = c
      BY <1>3, <3>1
    <3> QED BY <1>1, <3>2
  <2>3. CASE Owner(own, b) # 0
    <3>1. Owner(own, b) \in Caches /\ b \in BlocksOf(Owner(own, b), p)
          /\ c \in BlocksOf(Owner(own, b), p)
      BY <1>1, <1>2, <1>3, <2>1, <2>3 DEF SlotsOf, Caches
    <3>2. b + real_block_size(Owner(own, b)) <= c
      BY <1>1, <3>1, BlocksApart
    <3> QED BY <2>3, <3>2 DEF Room
  <2> QED BY <2>2, <2>3
<1>4. CASE p < q
  <2>1. p * PageSize + PageSize <= q * PageSize
    BY <1>1, <1>2, <1>4, PagesApart
  <2>2. PageSize \in Nat
    BY HeapFacts
  <2> HIDE DEF p, q
  <2> QED BY <1>1, <1>2, <2>1, <2>2
<1>5. CASE q < p
  <2>1. q * PageSize + PageSize <= p * PageSize
    BY <1>1, <1>2, <1>5, PagesApart
  <2>2. PageSize \in Nat /\ HeaderSize \in Nat
    BY HeapFacts
  <2> HIDE DEF p, q
  <2>3. FALSE
    BY <1>1, <1>2, <2>1, <2>2
  <2> QED BY <2>3
<1> HIDE DEF p, q
<1> QED  BY <1>1, <1>2, <1>3, <1>4, <1>5

-----------------------------------------------------------------------------
(* The heap *)

GoodSize(i, size) ==
  /\ size > 0
  /\ IF i = 0 THEN size > BLOCK_SIZES[NUM_CACHES] ELSE Fits(i, size)

WordsOK(own, w) ==
  /\ Cut(own) \subseteq DOMAIN w /\ DOMAIN w \subseteq Addresses
  /\ \A b \in DOMAIN w : w[b] \in Addresses

(* A pointer in use names a slot, whose word names the owner of its page.  *)
LiveOK(own, w, lv) ==
  \A p \in DOMAIN lv :
    /\ p \in Addresses /\ p - HeaderSize \in Cut(own)
    /\ w[p - HeaderSize] = Owner(own, p - HeaderSize)
    /\ lv[p] \in Requests /\ GoodSize(Owner(own, p - HeaderSize), lv[p])

ListsOK(own, fl, w, lv) ==
  /\ \A i \in Caches : IsList(Free(own, lv, i), fl[i], w)
  /\ Free(own, lv, 0) = {}

CountsOK(own, fl, cp) ==
  /\ fl \in [Caches -> Addresses]
  /\ cp \in [Caches -> Nat]
  /\ \A i \in Caches : cp[i] = Cardinality(OwnedBy(own, i))

HeapOK(own, fl, w, cp, lv) ==
  /\ OwnOK(own) /\ WordsOK(own, w) /\ LiveOK(own, w, lv)
  /\ ListsOK(own, fl, w, lv) /\ CountsOK(own, fl, cp)

Owns(own, page, i) == [p \in DOMAIN own \cup {page} |-> IF p = page THEN i ELSE own[p]]

(* A page more: its slots are cut, and nothing else changes.               *)
LEMMA PageAdded ==
  ASSUME NEW own, OwnOK(own), NEW page \in 1 .. TotalPages - 1, page \notin DOMAIN own,
         NEW i \in 0 .. NUM_CACHES
  PROVE  /\ OwnOK(Owns(own, page, i))
         /\ Cut(Owns(own, page, i)) = Cut(own) \cup SlotsOf(i, page)
         /\ Cut(own) \cap SlotsOf(i, page) = {}
         /\ \A b \in Cut(own) : Owner(Owns(own, page, i), b) = Owner(own, b)
         /\ \A b \in SlotsOf(i, page) : Owner(Owns(own, page, i), b) = i
<1> DEFINE new == Owns(own, page, i)
<1>1. /\ DOMAIN new = DOMAIN own \cup {page} /\ new[page] = i
      /\ \A p \in DOMAIN own : new[p] = own[p]
  BY DEF Owns
<1> HIDE DEF new
<1>2. OwnOK(new)
  BY <1>1 DEF OwnOK
<1>3. \A b \in SlotsOf(i, page) : b \in Addresses /\ b \div PageSize = page
  BY SlotInPage
<1>4. \A b \in Cut(own) : b \div PageSize \in DOMAIN own /\ b \div PageSize # page
  BY DEF Cut
<1>5. \A b \in Cut(own) : Owner(new, b) = Owner(own, b)
  BY <1>1, <1>4 DEF Owner
<1>6. \A b \in SlotsOf(i, page) : Owner(new, b) = i
  BY <1>1, <1>3 DEF Owner
<1>7. Cut(own) \cup SlotsOf(i, page) \subseteq Cut(new)
  <2>1. Cut(own) \subseteq Cut(new)
    BY <1>1, <1>5 DEF Cut
  <2>2. SlotsOf(i, page) \subseteq Cut(new)
    BY <1>1, <1>3, <1>6 DEF Cut
  <2> QED BY <2>1, <2>2
<1>8. Cut(new) \subseteq Cut(own) \cup SlotsOf(i, page)
  <2> SUFFICES ASSUME NEW b \in Cut(new) PROVE b \in Cut(own) \cup SlotsOf(i, page)
    OBVIOUS
  <2>1. /\ b \in Addresses /\ b \div PageSize \in DOMAIN new
        /\ b \in SlotsOf(Owner(new, b), b \div PageSize)
    BY DEF Cut
  <2>2. CASE b \div PageSize = page
    BY <1>1, <2>1, <2>2 DEF Owner
  <2>3. CASE b \div PageSize # page
    <3>1. b \div PageSize \in DOMAIN own /\ Owner(new, b) = Owner(own, b)
      BY <1>1, <2>1, <2>3 DEF Owner
    <3> QED BY <2>1, <3>1 DEF Cut
  <2> QED BY <2>2, <2>3
<1> QED  BY <1>2, <1>3, <1>4, <1>5, <1>6, <1>7, <1>8 DEF new

(* A page that a cache takes becomes its own and nobody else's.             *)
LEMMA OwnedAdded ==
  ASSUME NEW own, OwnOK(own), NEW page, page \notin DOMAIN own, NEW i
  PROVE  /\ OwnedBy(Owns(own, page, i), i) = OwnedBy(own, i) \cup {page}
         /\ \A j : j # i => OwnedBy(Owns(own, page, i), j) = OwnedBy(own, j)
         /\ page \notin OwnedBy(own, i)
BY DEF Owns, OwnedBy

(* A cache owns no more pages than there are.                               *)
LEMMA OwnedFinite ==
  ASSUME NEW own, OwnOK(own), NEW i
  PROVE  /\ IsFiniteSet(OwnedBy(own, i)) /\ Cardinality(OwnedBy(own, i)) \in 0 .. TotalPages
<1>1. OwnedBy(own, i) \subseteq 1 .. TotalPages - 1 /\ TotalPages \in Nat /\ TotalPages > 0
  BY SizesAreNat, SizesAssumption DEF OwnOK, OwnedBy
<1>2. /\ IsFiniteSet(1 .. TotalPages - 1)
      /\ Cardinality(1 .. TotalPages - 1) = TotalPages - 1
  BY <1>1, FS_Interval
<1>3. /\ IsFiniteSet(OwnedBy(own, i))
      /\ Cardinality(OwnedBy(own, i)) <= Cardinality(1 .. TotalPages - 1)
  BY <1>1, <1>2, FS_Subset
<1>4. Cardinality(OwnedBy(own, i)) \in Nat
  BY <1>3, FS_CardinalityType
<1> QED  BY <1>1, <1>2, <1>3, <1>4

(* A pointer is a header's size above its block, and no block above it.    *)
LEMMA LiveAreCut ==
  ASSUME NEW own, NEW w, NEW lv, OwnOK(own), LiveOK(own, w, lv), NEW b, b \notin Cut(own), b \in Int
  PROVE  b + HeaderSize \notin DOMAIN lv
<1> SUFFICES ASSUME b + HeaderSize \in DOMAIN lv PROVE FALSE
  OBVIOUS
<1>1. \A p \in DOMAIN lv : p - HeaderSize \in Cut(own)
  BY DEF LiveOK
<1>2. b + HeaderSize - HeaderSize \in Cut(own)
  BY <1>1, HeapFacts
<1>3. b + HeaderSize - HeaderSize = b
  BY HeapFacts
<1> QED  BY <1>2, <1>3

(* cache_grow: a page cut into blocks, all of them on the list.            *)
LEMMA Grow ==
  ASSUME NEW own, NEW fl, NEW w, NEW cp, NEW lv, HeapOK(own, fl, w, cp, lv),
         NEW i \in Caches, fl[i] = NULL,
         NEW page \in 1 .. TotalPages - 1, page \notin DOMAIN own,
         NEW v,
         DOMAIN v = DOMAIN w \cup BlocksOf(i, page),
         \A b \in BlocksOf(i, page) :
           v[b] = IF b = page * PageSize THEN NULL ELSE b - real_block_size(i),
         \A b \in DOMAIN w \ BlocksOf(i, page) : v[b] = w[b]
  PROVE  HeapOK(Owns(own, page, i), [fl EXCEPT ![i] = NewHead(i, page)], v,
                [cp EXCEPT ![i] = @ + 1], lv)
<1> DEFINE new == Owns(own, page, i)
           S == BlocksOf(i, page)
           fl1 == [fl EXCEPT ![i] = NewHead(i, page)]
           cp1 == [cp EXCEPT ![i] = @ + 1]
<1>1. i \in 0 .. NUM_CACHES /\ i # 0 /\ SlotsOf(i, page) = S /\ page \in Nat \ {0}
  BY HeapFacts DEF Caches, SlotsOf
<1>2. OwnOK(own) /\ WordsOK(own, w) /\ LiveOK(own, w, lv) /\ ListsOK(own, fl, w, lv)
      /\ CountsOK(own, fl, cp)
  BY DEF HeapOK
<1>3. /\ OwnOK(new) /\ Cut(new) = Cut(own) \cup S /\ Cut(own) \cap S = {}
      /\ \A b \in Cut(own) : Owner(new, b) = Owner(own, b)
      /\ \A b \in S : Owner(new, b) = i
  BY <1>1, <1>2, PageAdded
<1>4. \A b \in S : b \in Addresses /\ b \in Nat /\ b # NULL
  <2>1. \A b \in SlotsOf(i, page) : b \in Addresses /\ b \in Nat /\ b # NULL
    BY <1>1, SlotInPage
  <2> QED BY <1>1, <2>1
<1>5. NewHead(i, page) \in S
  BY <1>1, FirstAndLastBlock
<1>6. \A b \in S : v[b] \in Addresses
  <2> SUFFICES ASSUME NEW b \in S PROVE v[b] \in Addresses
    OBVIOUS
  <2>1. CASE b = page * PageSize
    <3>1. v[b] = NULL
      BY <2>1
    <3> QED BY <3>1, NullIsAddress
  <2>2. CASE b # page * PageSize
    <3>1. IsList(S, NewHead(i, page), v)
      BY <1>1, ListGrow
    <3>2. PICK rank \in [S -> Nat], n \in Nat : Ranked(S, NewHead(i, page), v, rank, n)
      BY <3>1 DEF IsList
    <3>3. v[b] = NULL \/ v[b] \in S
      BY <3>2 DEF Ranked
    <3> QED BY <1>4, <3>3, NullIsAddress
  <2> QED BY <2>1, <2>2
<1> HIDE DEF new, S, fl1, cp1
<1>7. \A b \in Cut(own) : b \in DOMAIN w /\ v[b] = w[b]
  BY <1>2, <1>3 DEF WordsOK, S
<1>8. WordsOK(new, v)
  BY <1>2, <1>3, <1>4, <1>6 DEF WordsOK, S
<1>9. LiveOK(new, v, lv)
  BY <1>2, <1>3, <1>7 DEF LiveOK
<1>10. \A b \in S : b + HeaderSize \notin DOMAIN lv
  BY <1>2, <1>3, <1>4, LiveAreCut
<1>11. Free(own, lv, i) = {}
  BY <1>2, ListEnds DEF ListsOK
<1>12. Free(new, lv, i) = S
  BY <1>3, <1>10, <1>11 DEF Free
<1>13. \A j : j # i => Free(new, lv, j) = Free(own, lv, j)
  BY <1>3 DEF Free
<1>14. ListsOK(new, fl1, v, lv)
  <2>1. ASSUME NEW j \in Caches, j # i PROVE IsList(Free(new, lv, j), fl1[j], v)
    <3>1. IsList(Free(own, lv, j), fl[j], w) /\ fl1[j] = fl[j]
      BY <1>2, <2>1 DEF ListsOK, CountsOK, fl1
    <3>2. \A b \in Free(own, lv, j) : v[b] = w[b]
      BY <1>7 DEF Free
    <3>3. IsList(Free(own, lv, j), fl[j], v)
      BY <3>1, <3>2, ListSame
    <3> QED BY <1>13, <2>1, <3>1, <3>3
  <2>2. IsList(Free(new, lv, i), fl1[i], v)
    <3>1. IsList(S, NewHead(i, page), v)
      BY <1>1, ListGrow DEF S
    <3>2. fl1[i] = NewHead(i, page)
      BY <1>2 DEF CountsOK, fl1
    <3> QED BY <1>12, <3>1, <3>2
  <2>3. Free(new, lv, 0) = {}
    BY <1>1, <1>2, <1>13 DEF ListsOK
  <2> QED BY <2>1, <2>2, <2>3 DEF ListsOK
<1>15. CountsOK(new, fl1, cp1)
  <2>1. fl1 \in [Caches -> Addresses]
    BY <1>2, <1>4, <1>5 DEF CountsOK, fl1
  <2>2. \A j \in Caches : cp[j] = Cardinality(OwnedBy(own, j)) /\ cp[j] \in Nat
    BY <1>2 DEF CountsOK
  <2>3. Cardinality(OwnedBy(new, i)) = Cardinality(OwnedBy(own, i)) + 1
    <3>1. IsFiniteSet(OwnedBy(own, i))
      BY <1>2, OwnedFinite
    <3>2. OwnedBy(new, i) = OwnedBy(own, i) \cup {page} /\ page \notin OwnedBy(own, i)
      BY <1>2, OwnedAdded DEF new
    <3> QED BY <3>1, <3>2, FS_AddElement
  <2>4. \A j \in Caches : j # i => OwnedBy(new, j) = OwnedBy(own, j)
    BY <1>2, OwnedAdded DEF new
  <2>5. cp1 \in [Caches -> Nat] /\ cp1[i] = cp[i] + 1 /\ \A j \in Caches : j # i => cp1[j] = cp[j]
    BY <1>2 DEF CountsOK, cp1
  <2>6. \A j \in Caches : cp1[j] = Cardinality(OwnedBy(new, j))
    <3>1. cp1[i] = Cardinality(OwnedBy(new, i))
      BY <2>2, <2>3, <2>5
    <3>2. \A j \in Caches : j # i => cp1[j] = Cardinality(OwnedBy(new, j))
      BY <2>2, <2>4, <2>5
    <3> QED BY <3>1, <3>2
  <2> QED BY <2>1, <2>5, <2>6 DEF CountsOK
<1> QED  BY <1>3, <1>8, <1>9, <1>14, <1>15 DEF HeapOK, new, fl1, cp1

(* Every byte of a block lies in the block's page.                          *)
LEMMA PointerIsAddress ==
  ASSUME NEW own, OwnOK(own), NEW b \in Cut(own), NEW n \in Nat, n < Room(Owner(own, b))
  PROVE  b + n \in Addresses /\ (b + n) \div PageSize = b \div PageSize
<1> DEFINE p == b \div PageSize
<1>1. /\ p \in 1 .. TotalPages - 1 /\ b \in Nat
      /\ p * PageSize \in Nat /\ p * PageSize <= b
      /\ b + Room(Owner(own, b)) <= p * PageSize + PageSize
      /\ Room(Owner(own, b)) \in Nat /\ PageSize \in Nat
  BY CutFacts, HeapFacts
<1> HIDE DEF p
<1>2. b + n \in p * PageSize .. p * PageSize + PageSize - 1
  BY <1>1
<1>3. b + n \in Addresses /\ (b + n) \div PageSize = p
  BY <1>1, <1>2, PageInMemory
<1> QED  BY <1>3 DEF p

Give(lv, ptr, size) == [q \in DOMAIN lv \cup {ptr} |-> IF q = ptr THEN size ELSE lv[q]]

(* What a caller is given leaves the free blocks, and nobody else's slot.  *)
LEMMA GiveFacts ==
  ASSUME NEW own, NEW w, NEW v, NEW lv, OwnOK(own), LiveOK(own, w, lv),
         NEW block \in Cut(own), block + HeaderSize \notin DOMAIN lv,
         v[block] = Owner(own, block),
         \A b \in Cut(own) : b # block => v[b] = w[b],
         NEW size \in Requests, GoodSize(Owner(own, block), size)
  PROVE  /\ LiveOK(own, v, Give(lv, block + HeaderSize, size))
         /\ \A i : Free(own, Give(lv, block + HeaderSize, size), i) = Free(own, lv, i) \ {block}
<1> DEFINE ptr == block + HeaderSize
           new == Give(lv, ptr, size)
<1>1. block \in Nat /\ HeaderSize \in Nat /\ \A b \in Cut(own) : b \in Nat
  BY CutFacts, HeapFacts
<1>2. ptr \in Addresses
  BY <1>1, CutFacts, PointerIsAddress
<1>3. ptr - HeaderSize = block /\ ptr \notin DOMAIN lv
  BY <1>1
<1>4. \A b \in Cut(own) : b + HeaderSize = ptr => b = block
  BY <1>1
<1> HIDE DEF ptr
<1>5. /\ DOMAIN new = DOMAIN lv \cup {ptr} /\ new[ptr] = size
      /\ \A q \in DOMAIN lv : new[q] = lv[q]
  BY <1>3 DEF Give
<1> HIDE DEF new
<1>6. \A q \in DOMAIN lv : q - HeaderSize # block
  <2> SUFFICES ASSUME NEW q \in DOMAIN lv, q - HeaderSize = block PROVE FALSE
    OBVIOUS
  <2>1. q \in Addresses
    BY DEF LiveOK
  <2>2. q \in Int
    BY <2>1 DEF Addresses
  <2>3. q = block + HeaderSize
    BY <1>1, <2>2
  <2> QED BY <2>3
<1>7. LiveOK(own, v, new)
  <2>1. ASSUME NEW q \in DOMAIN lv
        PROVE  /\ q \in Addresses /\ q - HeaderSize \in Cut(own)
               /\ v[q - HeaderSize] = Owner(own, q - HeaderSize)
               /\ new[q] \in Requests /\ GoodSize(Owner(own, q - HeaderSize), new[q])
    BY <1>5, <1>6 DEF LiveOK
  <2>2. /\ ptr \in Addresses /\ ptr - HeaderSize \in Cut(own)
        /\ v[ptr - HeaderSize] = Owner(own, ptr - HeaderSize)
        /\ new[ptr] \in Requests /\ GoodSize(Owner(own, ptr - HeaderSize), new[ptr])
    BY <1>2, <1>3, <1>5
  <2> QED BY <1>5, <2>1, <2>2 DEF LiveOK
<1>8. \A i : Free(own, new, i) = Free(own, lv, i) \ {block}
  BY <1>4, <1>5 DEF Free, ptr
<1> QED  BY <1>7, <1>8 DEF new, ptr

(* kmalloc with a block on the list: the head goes to the caller.          *)
LEMMA Pop ==
  ASSUME NEW own, NEW fl, NEW w, NEW cp, NEW lv, HeapOK(own, fl, w, cp, lv),
         NEW i \in Caches, fl[i] # NULL,
         NEW size \in Requests, size > 0, Fits(i, size)
  PROVE  /\ HeapOK(own, [fl EXCEPT ![i] = w[fl[i]]], [w EXCEPT ![fl[i]] = CacheId(i)], cp,
                   Give(lv, fl[i] + HeaderSize, size))
         /\ fl[i] + HeaderSize \notin DOMAIN lv
<1> DEFINE block == fl[i]
           v == [w EXCEPT ![block] = CacheId(i)]
           fl1 == [fl EXCEPT ![i] = w[block]]
           new == Give(lv, block + HeaderSize, size)
<1>1. OwnOK(own) /\ WordsOK(own, w) /\ LiveOK(own, w, lv) /\ ListsOK(own, fl, w, lv)
      /\ CountsOK(own, fl, cp)
  BY DEF HeapOK
<1>2. IsList(Free(own, lv, i), block, w) /\ block \in Free(own, lv, i)
  BY <1>1, ListEnds DEF ListsOK
<1>3. block \in Cut(own) /\ Owner(own, block) = i /\ block + HeaderSize \notin DOMAIN lv
      /\ block \in DOMAIN w
  BY <1>1, <1>2 DEF Free, WordsOK
<1>4. fl1[i] = w[block] /\ fl1 \in [Caches -> Addresses] /\ \A j \in Caches : j # i => fl1[j] = fl[j]
  BY <1>1, <1>3 DEF CountsOK, WordsOK
<1> HIDE DEF block
<1>5. DOMAIN v = DOMAIN w /\ v[block] = i /\ \A b \in DOMAIN w : b # block => v[b] = w[b]
  BY <1>3 DEF CacheId
<1> HIDE DEF v, fl1
<1>6. WordsOK(own, v)
  <2>1. v[block] \in Addresses
    BY <1>5, CacheIdIsAddress DEF CacheId
  <2> QED BY <1>1, <1>5, <2>1 DEF WordsOK
<1>7. \A b \in Cut(own) : b # block => v[b] = w[b]
  BY <1>1, <1>5 DEF WordsOK
<1>8. GoodSize(Owner(own, block), size)
  BY <1>3, HeapFacts DEF GoodSize
<1>9. /\ LiveOK(own, v, new)
      /\ \A j : Free(own, new, j) = Free(own, lv, j) \ {block}
  BY <1>1, <1>3, <1>5, <1>7, <1>8, GiveFacts
<1> HIDE DEF new
<1>10. ListsOK(own, fl1, v, new)
  <2>1. IsList(Free(own, new, i), fl1[i], v)
    <3>1. \A b \in Free(own, lv, i) \ {block} : v[b] = w[b]
      BY <1>7 DEF Free
    <3>2. IsList(Free(own, lv, i) \ {block}, w[block], v)
      BY <1>2, <3>1, ListPop DEF block
    <3> QED BY <1>4, <1>9, <3>2
  <2>2. ASSUME NEW j \in Caches, j # i PROVE IsList(Free(own, new, j), fl1[j], v)
    <3>1. Free(own, new, j) = Free(own, lv, j) /\ \A b \in Free(own, lv, j) : b # block
      BY <1>3, <1>9, <2>2 DEF Free
    <3>2. \A b \in Free(own, lv, j) : v[b] = w[b]
      BY <1>7, <3>1 DEF Free
    <3>3. IsList(Free(own, lv, j), fl[j], w)
      BY <1>1 DEF ListsOK
    <3>4. IsList(Free(own, lv, j), fl[j], v)
      BY <3>2, <3>3, ListSame
    <3> QED BY <1>4, <2>2, <3>1, <3>4
  <2>3. Free(own, new, 0) = {}
    BY <1>1, <1>9 DEF ListsOK
  <2> QED BY <2>1, <2>2, <2>3 DEF ListsOK
<1>11. CountsOK(own, fl1, cp)
  BY <1>1, <1>4 DEF CountsOK
<1>12. HeapOK(own, fl1, v, cp, new)
  BY <1>1, <1>6, <1>9, <1>10, <1>11 DEF HeapOK
<1> QED  BY <1>3, <1>12 DEF new, v, fl1, block

(* kmalloc of a page: the slot is the page, and the caller has it.         *)
LEMMA WholePage ==
  ASSUME NEW own, NEW fl, NEW w, NEW cp, NEW lv, HeapOK(own, fl, w, cp, lv),
         NEW page \in 1 .. TotalPages - 1, page \notin DOMAIN own,
         NEW size \in Requests, size > BLOCK_SIZES[NUM_CACHES]
  PROVE  /\ HeapOK(Owns(own, page, 0), fl,
                [b \in DOMAIN w \cup {page * PageSize} |->
                   IF b = page * PageSize THEN NULL ELSE w[b]],
                cp, Give(lv, page * PageSize + HeaderSize, size))
         /\ page * PageSize + HeaderSize \notin DOMAIN lv
<1> DEFINE block == page * PageSize
           own1 == Owns(own, page, 0)
           v == [b \in DOMAIN w \cup {block} |-> IF b = block THEN NULL ELSE w[b]]
           new == Give(lv, block + HeaderSize, size)
<1>1. OwnOK(own) /\ WordsOK(own, w) /\ LiveOK(own, w, lv) /\ ListsOK(own, fl, w, lv)
      /\ CountsOK(own, fl, cp)
  BY DEF HeapOK
<1>2. 0 \in 0 .. NUM_CACHES /\ SlotsOf(0, page) = {block}
  BY HeapFacts DEF SlotsOf
<1>3. /\ OwnOK(own1) /\ Cut(own1) = Cut(own) \cup {block} /\ block \notin Cut(own)
      /\ \A b \in Cut(own) : Owner(own1, b) = Owner(own, b)
      /\ Owner(own1, block) = 0
  BY <1>1, <1>2, PageAdded
<1>4. block \in Addresses /\ block \in Nat
  BY <1>2, SlotInPage
<1> HIDE DEF block, own1
<1>5. /\ DOMAIN v = DOMAIN w \cup {block} /\ v[block] = NULL
      /\ \A b \in DOMAIN w : b # block => v[b] = w[b]
  OBVIOUS
<1> HIDE DEF v
<1>6. WordsOK(own1, v)
  BY <1>1, <1>3, <1>4, <1>5, NullIsAddress DEF WordsOK
<1>7. LiveOK(own1, w, lv)
  BY <1>1, <1>3 DEF LiveOK
<1>8. block + HeaderSize \notin DOMAIN lv
  BY <1>1, <1>3, <1>4, LiveAreCut
<1>9. \A b \in Cut(own1) : b # block => v[b] = w[b]
  BY <1>1, <1>3, <1>5 DEF WordsOK
<1>10. GoodSize(Owner(own1, block), size)
  <2>1. size \in Nat /\ BLOCK_SIZES[NUM_CACHES] \in Nat
    BY HeapAssumption, HeapFacts
  <2> QED BY <1>3, <2>1 DEF GoodSize
<1>11. /\ LiveOK(own1, v, new)
       /\ \A j : Free(own1, new, j) = Free(own1, lv, j) \ {block}
  BY <1>3, <1>5, <1>7, <1>8, <1>9, <1>10, GiveFacts DEF NULL
<1> HIDE DEF new
<1>12. \A j : Free(own1, new, j) = Free(own, lv, j)
  <2>1. \A j : Free(own1, lv, j) \ {block} = Free(own, lv, j)
    BY <1>3 DEF Free
  <2> QED BY <1>11, <2>1
<1>13. ListsOK(own1, fl, v, new)
  <2>1. ASSUME NEW j \in Caches PROVE IsList(Free(own, lv, j), fl[j], v)
    <3>1. \A b \in Free(own, lv, j) : v[b] = w[b]
      BY <1>3, <1>9 DEF Free
    <3>2. IsList(Free(own, lv, j), fl[j], w)
      BY <1>1 DEF ListsOK
    <3> QED BY <3>1, <3>2, ListSame
  <2> QED BY <1>1, <1>12, <2>1 DEF ListsOK
<1>14. CountsOK(own1, fl, cp)
  <2>1. \A j \in Caches : j # 0
    BY DEF Caches
  <2>2. \A j \in Caches : OwnedBy(own1, j) = OwnedBy(own, j)
    BY <1>1, <2>1, OwnedAdded DEF own1
  <2> QED BY <1>1, <2>2 DEF CountsOK
<1>15. HeapOK(own1, fl, v, cp, new)
  BY <1>3, <1>6, <1>11, <1>13, <1>14 DEF HeapOK
<1> QED  BY <1>8, <1>15 DEF new, v, own1, block

(* What a caller sees of kmalloc: nothing, or a pointer that was not in    *)
(* use.                                                                    *)
GivenNew(size) ==
  \/ live' = live
  \/ \E ptr : ptr \notin DOMAIN live /\ live' = Give(live, ptr, size)

Taken(lv, ptr) == [q \in DOMAIN lv \ {ptr} |-> lv[q]]

(* Blocks and pointers to them, one to one.                                *)
LEMMA PointersApart ==
  ASSUME NEW own, NEW w, NEW lv, OwnOK(own), LiveOK(own, w, lv), NEW ptr \in DOMAIN lv
  PROVE  /\ \A q \in DOMAIN lv : q # ptr => q - HeaderSize # ptr - HeaderSize
         /\ \A b \in Cut(own) : b + HeaderSize = ptr <=> b = ptr - HeaderSize
<1>1. \A q \in DOMAIN lv : q \in Int
  BY DEF LiveOK, Addresses
<1>2. HeaderSize \in Int /\ \A b \in Cut(own) : b \in Int
  BY HeapFacts, CutFacts
<1> QED  BY <1>1, <1>2

(* kfree of a block: in front of its cache's list.                         *)
LEMMA Push ==
  ASSUME NEW own, NEW fl, NEW w, NEW cp, NEW lv, HeapOK(own, fl, w, cp, lv),
         NEW ptr \in DOMAIN lv, NEW block, block = ptr - HeaderSize,
         NEW i \in Caches, w[block] = i
  PROVE  HeapOK(own, [fl EXCEPT ![i] = block], [w EXCEPT ![block] = fl[i]], cp,
                Taken(lv, ptr))
<1> DEFINE v == [w EXCEPT ![block] = fl[i]]
           fl1 == [fl EXCEPT ![i] = block]
           new == Taken(lv, ptr)
<1>1. OwnOK(own) /\ WordsOK(own, w) /\ LiveOK(own, w, lv) /\ ListsOK(own, fl, w, lv)
      /\ CountsOK(own, fl, cp)
  BY DEF HeapOK
<1>2. /\ block \in Cut(own) /\ Owner(own, block) = i /\ block \in DOMAIN w
      /\ block # NULL /\ block \in Addresses
  BY <1>1, CutFacts DEF LiveOK, WordsOK
<1>3. fl1 \in [Caches -> Addresses] /\ fl1[i] = block /\ \A j \in Caches : j # i => fl1[j] = fl[j]
  BY <1>1, <1>2 DEF CountsOK
<1>4. DOMAIN v = DOMAIN w /\ v[block] = fl[i] /\ \A b \in DOMAIN w : b # block => v[b] = w[b]
  BY <1>2
<1>5. DOMAIN new = DOMAIN lv \ {ptr} /\ \A q \in DOMAIN new : new[q] = lv[q]
  BY DEF Taken
<1> HIDE DEF v, fl1, new
<1>6. WordsOK(own, v)
  BY <1>1, <1>4 DEF WordsOK, CountsOK
<1>7. \A b \in Cut(own) : b # block => v[b] = w[b]
  BY <1>1, <1>4 DEF WordsOK
<1>8. LiveOK(own, v, new)
  <2>1. \A q \in DOMAIN new : q \in DOMAIN lv /\ q - HeaderSize # block
    BY <1>1, <1>5, PointersApart
  <2> QED BY <1>1, <1>5, <1>7, <2>1 DEF LiveOK
<1>9. /\ Free(own, new, i) = Free(own, lv, i) \cup {block} /\ block \notin Free(own, lv, i)
      /\ \A j : j # i => Free(own, new, j) = Free(own, lv, j)
  <2>1. \A b \in Cut(own) : b + HeaderSize = ptr <=> b = block
    BY <1>1, PointersApart
  <2>2. block + HeaderSize \in DOMAIN lv /\ block + HeaderSize \notin DOMAIN new
    BY <1>2, <1>5, <2>1
  <2>3. \A b \in Cut(own) : b # block => (b + HeaderSize \in DOMAIN new <=> b + HeaderSize \in DOMAIN lv)
    BY <1>5, <2>1
  <2> QED BY <1>2, <2>2, <2>3 DEF Free
<1>10. ListsOK(own, fl1, v, new)
  <2>1. IsList(Free(own, new, i), fl1[i], v)
    <3>1. \A b \in Free(own, lv, i) : v[b] = w[b]
      BY <1>7, <1>9 DEF Free
    <3>2. IsList(Free(own, lv, i), fl[i], w)
      BY <1>1 DEF ListsOK
    <3>3. IsList(Free(own, lv, i) \cup {block}, block, v)
      BY <1>2, <1>4, <1>9, <3>1, <3>2, ListPush
    <3> QED BY <1>3, <1>9, <3>3
  <2>2. ASSUME NEW j \in Caches, j # i PROVE IsList(Free(own, new, j), fl1[j], v)
    <3>1. \A b \in Free(own, lv, j) : v[b] = w[b]
      BY <1>2, <1>7, <2>2 DEF Free
    <3>2. IsList(Free(own, lv, j), fl[j], w)
      BY <1>1 DEF ListsOK
    <3>3. IsList(Free(own, lv, j), fl[j], v)
      BY <3>1, <3>2, ListSame
    <3> QED BY <1>3, <1>9, <2>2, <3>3
  <2>3. Free(own, new, 0) = {}
    <3>1. i # 0
      BY DEF Caches
    <3> QED BY <1>1, <1>9, <3>1 DEF ListsOK
  <2> QED BY <2>1, <2>2, <2>3 DEF ListsOK
<1>11. CountsOK(own, fl1, cp)
  BY <1>1, <1>3 DEF CountsOK
<1>12. HeapOK(own, fl1, v, cp, new)
  BY <1>1, <1>6, <1>8, <1>10, <1>11 DEF HeapOK
<1> QED  BY <1>12 DEF new, v, fl1

Disowns(own, page) == [p \in DOMAIN own \ {page} |-> own[p]]

(* kfree of a page: nobody's any more.                                     *)
LEMMA GiveBack ==
  ASSUME NEW own, NEW fl, NEW w, NEW cp, NEW lv, HeapOK(own, fl, w, cp, lv),
         NEW ptr \in DOMAIN lv, NEW block, block = ptr - HeaderSize, w[block] = 0
  PROVE  /\ block \div PageSize \in DOMAIN own
         /\ HeapOK(Disowns(own, block \div PageSize), fl, w, cp, Taken(lv, ptr))
<1> DEFINE page == block \div PageSize
           own1 == Disowns(own, page)
           new == Taken(lv, ptr)
<1>1. OwnOK(own) /\ WordsOK(own, w) /\ LiveOK(own, w, lv) /\ ListsOK(own, fl, w, lv)
      /\ CountsOK(own, fl, cp)
  BY DEF HeapOK
<1>2. block \in Cut(own) /\ Owner(own, block) = 0
  BY <1>1 DEF LiveOK
<1>3. page \in DOMAIN own /\ own[page] = 0
  BY <1>2 DEF Cut, Owner
<1>4. DOMAIN own1 = DOMAIN own \ {page} /\ \A p \in DOMAIN own1 : own1[p] = own[p]
  BY DEF Disowns
<1>5. DOMAIN new = DOMAIN lv \ {ptr} /\ \A q \in DOMAIN new : new[q] = lv[q]
  BY DEF Taken
<1>6. \A b \in Cut(own) : b \div PageSize = page => b = block
  <2> SUFFICES ASSUME NEW b \in Cut(own), b \div PageSize = page PROVE b = block
    OBVIOUS
  <2>1. Owner(own, b) = 0
    BY <1>2 DEF Owner
  <2>2. b \in SlotsOf(0, page) /\ block \in SlotsOf(0, page)
    BY <1>2, <2>1 DEF Cut
  <2> QED BY <2>2 DEF SlotsOf
<1> HIDE DEF own1, new
<1>7. Cut(own1) = Cut(own) \ {block} /\ \A b \in Cut(own1) : Owner(own1, b) = Owner(own, b)
  <2>1. \A b : b \div PageSize \in DOMAIN own1 => Owner(own1, b) = Owner(own, b)
    BY <1>4 DEF Owner
  <2>2. \A b \in Cut(own1) : b \in Cut(own) /\ b # block
    BY <1>4, <2>1 DEF Cut
  <2>3. \A b \in Cut(own) : b # block => b \in Cut(own1)
    BY <1>4, <1>6, <2>1 DEF Cut
  <2> QED BY <2>1, <2>2, <2>3 DEF Cut
<1>8. OwnOK(own1)
  BY <1>1, <1>4 DEF OwnOK
<1>9. WordsOK(own1, w)
  BY <1>1, <1>7 DEF WordsOK
<1>10. LiveOK(own1, w, new)
  <2>1. \A q \in DOMAIN new : q \in DOMAIN lv /\ q - HeaderSize # block
    BY <1>1, <1>5, PointersApart
  <2> QED BY <1>1, <1>5, <1>7, <2>1 DEF LiveOK
<1>11. \A j : Free(own1, new, j) = Free(own, lv, j)
  <2>1. \A b \in Cut(own) : b + HeaderSize = ptr <=> b = block
    BY <1>1, PointersApart
  <2>2. block + HeaderSize \in DOMAIN lv
    BY <1>2, <2>1
  <2>3. \A b \in Cut(own1) : b + HeaderSize \in DOMAIN new <=> b + HeaderSize \in DOMAIN lv
    BY <1>5, <1>7, <2>1
  <2> QED BY <1>7, <2>2, <2>3 DEF Free
<1>12. ListsOK(own1, fl, w, new)
  BY <1>1, <1>11 DEF ListsOK
<1>13. CountsOK(own1, fl, cp)
  <2>1. \A j \in Caches : j # 0
    BY DEF Caches
  <2>2. \A j \in Caches : OwnedBy(own1, j) = OwnedBy(own, j)
    BY <1>3, <1>4, <2>1 DEF OwnedBy
  <2> QED BY <1>1, <2>2 DEF CountsOK
<1>14. HeapOK(own1, fl, w, cp, new)
  BY <1>8, <1>9, <1>10, <1>12, <1>13 DEF HeapOK
<1> QED  BY <1>3, <1>14 DEF new, own1

-----------------------------------------------------------------------------
(* The invariant: the allocator's, and a way to assign the pages held to   *)
(* caches and callers that accounts for every list, word and pointer.      *)
Untried ==
  /\ \A i \in Caches : i > inited => free_list[i] = NULL /\ cache_pages[i] = 0
  /\ DOMAIN live # {} => inited = NUM_CACHES

KInv ==
  /\ IInv
  /\ inited \in 0 .. NUM_CACHES
  /\ inited > 0 => phase = "ready"
  /\ Untried
  /\ \E own \in [held -> 0 .. NUM_CACHES] : HeapOK(own, free_list, word, cache_pages, live)

(* A page taken from the allocator was in nobody's hands.                   *)
LEMMA TakePageFacts ==
  ASSUME IInv, phase = "ready", NEW page, TakePage(page)
  PROVE  \/ page = NULL /\ UNCHANGED <<used, free_pages, held>>
         \/ /\ page \in 1 .. TotalPages - 1 /\ page # NULL
            /\ page \notin held /\ held' = held \cup {page}
<1>1. CASE Window \subseteq used /\ page = NULL /\ UNCHANGED <<used, free_pages>>
  BY <1>1 DEF TakePage
<1>2. CASE page \in Window \ used
  <2>1. total_pages = TotalPages /\ total_pages > 0
    <3>1. total_pages = 0 => ~early_alloc
      BY DEF IInv, Untouched
    <3>2. total_pages = 0 => Window = {}
      BY <3>1 DEF Window
    <3> QED  BY <3>2, <1>2, SizesAreNat DEF IInv, TypeOK
  <2>2. page \notin ReservedPages \cup held /\ page # NULL
    BY <2>1, <1>2, SizesAreNat DEF IInv, PagesAccountedFor
  <2>3. page \in 1 .. TotalPages - 1
    BY <1>2, <2>1, <2>2, SizesAreNat, SizesAssumption DEF Window, NULL
  <2> QED  BY <2>2, <2>3 DEF TakePage
<1> QED  BY <1>1, <1>2 DEF TakePage, pmm_alloc_page

(* Taking a page is a call of pmm_alloc_page.                               *)
LEMMA TakePageIsAlloc ==
  ASSUME phase = "ready", NEW page \in {NULL} \cup Window, TakePage(page),
         UNCHANGED <<phase, mmap, pos, total_pages, early_alloc>>
  PROVE  AllocPage
BY DEF TakePage, AllocPage

(* Before kmalloc_init the heap has nothing.                                *)
LEMMA KInitInv == KInit => KInv
<1> SUFFICES ASSUME KInit PROVE KInv
  OBVIOUS
<1>1. IInv /\ held = {}
  BY InitIInv DEF KInit, Init
<1>2. inited = 0 /\ inited \in 0 .. NUM_CACHES /\ Untried
  BY HeapFacts DEF KInit, Untried
<1> DEFINE own == [p \in {} |-> 0]
<1>3. own \in [held -> 0 .. NUM_CACHES] /\ DOMAIN own = {}
  BY <1>1
<1> HIDE DEF own
<1>4. OwnOK(own) /\ Cut(own) = {} /\ \A i, lv : Free(own, lv, i) = {}
  BY <1>3 DEF OwnOK, Cut, Free
<1>5. DOMAIN word = {} /\ DOMAIN live = {}
  BY DEF KInit
<1>6. WordsOK(own, word) /\ LiveOK(own, word, live)
  BY <1>4, <1>5 DEF WordsOK, LiveOK
<1>7. ListsOK(own, free_list, word, live)
  BY <1>4, ListEmpty DEF ListsOK, KInit
<1>8. CountsOK(own, free_list, cache_pages)
  <2>1. \A i : OwnedBy(own, i) = {}
    BY <1>3 DEF OwnedBy
  <2>2. Cardinality({}) = 0
    BY FS_EmptySet
  <2> QED BY <2>1, <2>2, NullIsAddress DEF KInit, CountsOK
<1>9. HeapOK(own, free_list, word, cache_pages, live)
  BY <1>4, <1>6, <1>7, <1>8 DEF HeapOK
<1>10. ~(inited > 0)
  BY <1>2
<1>11. \E new \in [held -> 0 .. NUM_CACHES] : HeapOK(new, free_list, word, cache_pages, live)
  BY <1>3, <1>9
<1> HIDE DEF KInit
<1> QED  BY <1>1, <1>2, <1>10, <1>11 DEF KInv

(* Growing in the terms of the state: what Threaded writes.                *)
LEMMA ThreadedFacts ==
  ASSUME NEW i \in Caches, NEW page, free_list[i] = NULL
  PROVE  /\ DOMAIN Threaded(i, page) = DOMAIN word \cup BlocksOf(i, page)
         /\ \A b \in BlocksOf(i, page) :
              Threaded(i, page)[b] = IF b = page * PageSize THEN NULL ELSE b - real_block_size(i)
         /\ \A b \in DOMAIN word \ BlocksOf(i, page) : Threaded(i, page)[b] = word[b]
BY DEF Threaded

(* A turn of kmalloc_init keeps the invariant, and is a step of the page allocator or none. *)
LEMMA InitCacheInv ==
  ASSUME KInv, KmallocInit
  PROVE  KInv' /\ [Next]_vars
<1>1. PICK page \in {NULL} \cup Window : InitCache(page)
  BY DEF KmallocInit
<1>2. UNCHANGED <<phase, mmap, pos, total_pages, early_alloc>>
  BY DEF KmallocInit
<1> DEFINE i == inited + 1
<1>3. /\ phase = "ready" /\ inited < NUM_CACHES /\ TakePage(page) /\ inited' = i
      /\ live' = live
  BY <1>1 DEF InitCache
<1>4. /\ i \in Caches /\ i > inited /\ i \in 0 .. NUM_CACHES /\ i > 0
      /\ inited \in 0 .. NUM_CACHES /\ \A j \in Caches : j > i => j > inited /\ j # i
  BY <1>3, HeapFacts DEF KInv, Caches
<1>5. AllocPage /\ IInv'
  BY <1>2, <1>3, TakePageIsAlloc, NextIInv DEF KInv, Next
<1>6. PICK own \in [held -> 0 .. NUM_CACHES] : HeapOK(own, free_list, word, cache_pages, live)
  BY DEF KInv
<1>7. free_list[i] = NULL /\ cache_pages[i] = 0
  BY <1>4 DEF KInv, Untried
<1>8. free_list \in [Caches -> Addresses] /\ cache_pages \in [Caches -> Nat]
  BY <1>6 DEF HeapOK, CountsOK
<1>9. CASE page = NULL /\ UNCHANGED <<used, free_pages, held>>
  <2>1. UNCHANGED <<free_list, cache_pages, word, live, held>>
    BY <1>1, <1>9 DEF InitCache
  <2>2. Untried'
    BY <1>3, <1>4, <2>1 DEF KInv, Untried
  <2> QED BY <1>2, <1>3, <1>4, <1>5, <1>6, <2>1, <2>2 DEF KInv, Next
<1>10. CASE /\ page \in 1 .. TotalPages - 1 /\ page # NULL
            /\ page \notin held /\ held' = held \cup {page}
  <2>1. /\ free_list' = [free_list EXCEPT ![i] = NewHead(i, page)]
        /\ cache_pages' = [cache_pages EXCEPT ![i] = 1]
        /\ word' = Threaded(i, page)
    BY <1>1, <1>10 DEF InitCache
  <2>2. cache_pages' = [cache_pages EXCEPT ![i] = @ + 1]
    BY <1>4, <1>7, <1>8, <2>1
  <2> HIDE DEF i
  <2>3. HeapOK(Owns(own, page, i), free_list', word', cache_pages', live')
    <3>1. page \notin DOMAIN own
      BY <1>10
    <3>2. /\ DOMAIN word' = DOMAIN word \cup BlocksOf(i, page)
          /\ \A b \in BlocksOf(i, page) :
               word'[b] = IF b = page * PageSize THEN NULL ELSE b - real_block_size(i)
          /\ \A b \in DOMAIN word \ BlocksOf(i, page) : word'[b] = word[b]
      BY <1>4, <1>7, <2>1, ThreadedFacts
    <3>3. HeapOK(Owns(own, page, i), [free_list EXCEPT ![i] = NewHead(i, page)], word',
                 [cache_pages EXCEPT ![i] = @ + 1], live)
      BY <1>4, <1>6, <1>7, <1>10, <3>1, <3>2, Grow
    <3> QED BY <1>3, <2>1, <2>2, <3>3
  <2>4. Owns(own, page, i) \in [held' -> 0 .. NUM_CACHES]
    BY <1>4, <1>6, <1>10 DEF Owns
  <2>5. Untried'
    BY <1>3, <1>4, <1>8, <2>1 DEF KInv, Untried
  <2> QED BY <1>2, <1>3, <1>4, <1>5, <2>3, <2>4, <2>5 DEF KInv, Next
<1>11. IInv
  BY DEF KInv
<1>12. \/ page = NULL /\ UNCHANGED <<used, free_pages, held>>
       \/ /\ page \in 1 .. TotalPages - 1 /\ page # NULL
          /\ page \notin held /\ held' = held \cup {page}
  BY <1>3, <1>11, TakePageFacts
<1> QED  BY <1>9, <1>10, <1>12

(* kmalloc from a cache keeps the heap in order and gives a new block.      *)
LEMMA KmallocBlockInv ==
  ASSUME NEW own \in [held -> 0 .. NUM_CACHES],
         HeapOK(own, free_list, word, cache_pages, live),
         IInv, phase = "ready",
         NEW i \in Caches, NEW size \in Requests, size > 0, Fits(i, size),
         NEW page, kmalloc_block(i, size, page)
  PROVE  /\ \E new \in [held' -> 0 .. NUM_CACHES] :
              HeapOK(new, free_list', word', cache_pages', live')
         /\ GivenNew(size)
<1>1. free_list \in [Caches -> Addresses] /\ cache_pages \in [Caches -> Nat]
  BY DEF HeapOK, CountsOK
<1>2. CASE free_list[i] # NULL
  <2>1. page = NULL /\ held' = held
    BY <1>2 DEF kmalloc_block, NoPage
  <2>2. /\ free_list' = [free_list EXCEPT ![i] = word[free_list[i]]]
        /\ cache_pages' = [cache_pages EXCEPT ![i] = @]
        /\ word' = [word EXCEPT ![free_list[i]] = CacheId(i)]
        /\ live' = Given(free_list[i] + HeaderSize, size)
    BY <1>2, <2>1 DEF kmalloc_block
  <2>3. cache_pages' = cache_pages
    BY <1>1, <2>2
  <2>4. live' = Give(live, free_list[i] + HeaderSize, size)
    BY <2>2 DEF Given, Give
  <2>5. HeapOK(own, [free_list EXCEPT ![i] = word[free_list[i]]],
               [word EXCEPT ![free_list[i]] = CacheId(i)], cache_pages,
               Give(live, free_list[i] + HeaderSize, size))
       /\ free_list[i] + HeaderSize \notin DOMAIN live
    BY <1>2, Pop
  <2>6. HeapOK(own, free_list', word', cache_pages', live')
    BY <2>2, <2>3, <2>4, <2>5
  <2>7. GivenNew(size)
    BY <2>4, <2>5 DEF GivenNew
  <2> QED BY <2>1, <2>6, <2>7
<1>3. CASE free_list[i] = NULL /\ page = NULL /\ UNCHANGED <<used, free_pages, held>>
  <2>1. UNCHANGED <<free_list, cache_pages, word, live, held>>
    BY <1>3 DEF kmalloc_block
  <2> QED BY <2>1 DEF GivenNew
<1>4. CASE /\ free_list[i] = NULL
           /\ page \in 1 .. TotalPages - 1 /\ page # NULL
           /\ page \notin held /\ held' = held \cup {page}
  <2> DEFINE head == NewHead(i, page)
             words == Threaded(i, page)
             own1 == Owns(own, page, i)
             fl1 == [free_list EXCEPT ![i] = head]
             cp1 == [cache_pages EXCEPT ![i] = @ + 1]
  <2>1. HeapOK(own1, fl1, words, cp1, live)
    <3>1. page \notin DOMAIN own
      BY <1>4
    <3>2. /\ DOMAIN words = DOMAIN word \cup BlocksOf(i, page)
          /\ \A b \in BlocksOf(i, page) :
               words[b] = IF b = page * PageSize THEN NULL ELSE b - real_block_size(i)
          /\ \A b \in DOMAIN word \ BlocksOf(i, page) : words[b] = word[b]
      BY <1>4, ThreadedFacts
    <3> HIDE DEF words
    <3> QED BY <1>4, <3>1, <3>2, Grow
  <2>2. head # NULL
    <3>1. head \in BlocksOf(i, page) /\ i \in 0 .. NUM_CACHES
      BY <1>4, FirstAndLastBlock, HeapFacts DEF Caches
    <3>2. head \in SlotsOf(i, page)
      BY <3>1 DEF SlotsOf, Caches
    <3> QED BY <1>4, <3>1, <3>2, SlotInPage
  <2>3. fl1[i] = head
    BY <1>1
  <2>4. /\ free_list' = [free_list EXCEPT ![i] = words[head]]
        /\ cache_pages' = cp1
        /\ word' = [words EXCEPT ![head] = CacheId(i)]
        /\ live' = Given(head + HeaderSize, size)
    BY <1>4, <2>2 DEF kmalloc_block
  <2>5. live' = Give(live, head + HeaderSize, size)
    BY <2>4 DEF Given, Give
  <2>6. free_list' = [fl1 EXCEPT ![i] = words[head]]
    BY <1>1, <2>4
  <2>7. own1 \in [held' -> 0 .. NUM_CACHES]
    BY <1>4, HeapFacts DEF Owns, Caches
  <2> HIDE DEF fl1, cp1, own1, words, head
  <2>8. HeapOK(own1, [fl1 EXCEPT ![i] = words[fl1[i]]], [words EXCEPT ![fl1[i]] = CacheId(i)],
               cp1, Give(live, fl1[i] + HeaderSize, size))
       /\ fl1[i] + HeaderSize \notin DOMAIN live
    BY <2>1, <2>2, <2>3, Pop
  <2>9. HeapOK(own1, free_list', word', cache_pages', live')
    BY <2>3, <2>4, <2>5, <2>6, <2>8
  <2>10. GivenNew(size)
    BY <2>3, <2>5, <2>8 DEF GivenNew
  <2> QED BY <2>7, <2>9, <2>10
<1>5. free_list[i] = NULL => TakePage(page)
  BY DEF kmalloc_block
<1> QED  BY <1>2, <1>3, <1>4, <1>5, TakePageFacts

(* So does kmalloc of a page.                                               *)
LEMMA KmallocPageInv ==
  ASSUME NEW own \in [held -> 0 .. NUM_CACHES],
         HeapOK(own, free_list, word, cache_pages, live),
         IInv, phase = "ready",
         NEW size \in Requests, size > BLOCK_SIZES[NUM_CACHES],
         NEW page, kmalloc_page(size, page)
  PROVE  /\ \E new \in [held' -> 0 .. NUM_CACHES] :
              HeapOK(new, free_list', word', cache_pages', live')
         /\ GivenNew(size)
<1>1. TakePage(page) /\ UNCHANGED <<free_list, cache_pages>>
  BY DEF kmalloc_page
<1>2. CASE page = NULL /\ UNCHANGED <<used, free_pages, held>>
  <2>1. UNCHANGED <<word, live, held>>
    BY <1>2 DEF kmalloc_page
  <2> QED BY <1>1, <2>1 DEF GivenNew
<1>3. CASE /\ page \in 1 .. TotalPages - 1 /\ page # NULL
           /\ page \notin held /\ held' = held \cup {page}
  <2>1. /\ word' = [b \in DOMAIN word \cup {page * PageSize} |->
                      IF b = page * PageSize THEN NULL ELSE word[b]]
        /\ live' = Give(live, page * PageSize + HeaderSize, size)
    BY <1>3 DEF kmalloc_page, Given, Give
  <2>2. page \notin DOMAIN own
    BY <1>3
  <2>3. /\ HeapOK(Owns(own, page, 0), free_list', word', cache_pages', live')
        /\ page * PageSize + HeaderSize \notin DOMAIN live
    BY <1>1, <1>3, <2>1, <2>2, WholePage
  <2>4. Owns(own, page, 0) \in [held' -> 0 .. NUM_CACHES]
    BY <1>3, HeapFacts DEF Owns
  <2> QED BY <2>1, <2>3, <2>4 DEF GivenNew
<1> QED  BY <1>1, <1>2, <1>3, TakePageFacts

(* kmalloc keeps the invariant, and is a step of the page allocator or none. *)
LEMMA KmallocInv ==
  ASSUME KInv, NEW size \in Requests, Kmalloc(size)
  PROVE  KInv' /\ [Next]_vars /\ GivenNew(size)
<1>1. PICK page \in {NULL} \cup Window : kmalloc(size, page)
  BY DEF Kmalloc
<1>2. UNCHANGED <<phase, mmap, pos, total_pages, early_alloc, inited>> /\ inited = NUM_CACHES
  BY DEF Kmalloc
<1>3. IInv /\ phase = "ready"
  BY <1>2, HeapFacts DEF KInv
<1>4. PICK own \in [held -> 0 .. NUM_CACHES] : HeapOK(own, free_list, word, cache_pages, live)
  BY DEF KInv
<1>5. /\ \E new \in [held' -> 0 .. NUM_CACHES] :
           HeapOK(new, free_list', word', cache_pages', live')
      /\ GivenNew(size)
  <2>1. CASE size = 0 /\ page = NULL /\ NoPage /\ UNCHANGED <<free_list, cache_pages, word, live>>
    BY <1>4, <2>1 DEF NoPage, GivenNew
  <2>2. CASE size > BLOCK_SIZES[NUM_CACHES] /\ kmalloc_page(size, page)
    BY <1>3, <1>4, <2>2, KmallocPageInv
  <2>3. CASE size > 0 /\ \E i \in Caches : Fits(i, size) /\ kmalloc_block(i, size, page)
    BY <1>3, <1>4, <2>3, KmallocBlockInv
  <2> QED BY <1>1, <2>1, <2>2, <2>3 DEF kmalloc
<1>6. TakePage(page) \/ NoPage
  BY <1>1 DEF kmalloc, kmalloc_page, kmalloc_block
<1>7. AllocPage \/ UNCHANGED vars
  BY <1>2, <1>3, <1>6, TakePageIsAlloc DEF NoPage, vars
<1>8. [Next]_vars
  BY <1>7 DEF Next
<1>9. IInv'
  BY <1>3, <1>8, NextIInv
<1>10. Untried'
  BY <1>2, HeapFacts DEF Untried, Caches
<1> QED  BY <1>2, <1>3, <1>5, <1>8, <1>9, <1>10, HeapFacts DEF KInv

(* So does kfree, of what was given.                                        *)
LEMMA KfreeInv ==
  ASSUME KInv, NEW ptr \in DOMAIN live, Kfree(ptr)
  PROVE  KInv' /\ [Next]_vars
<1> DEFINE block == ptr - HeaderSize
           page == block \div PageSize
<1>1. /\ UNCHANGED <<phase, mmap, pos, total_pages, early_alloc, inited, cache_pages>>
      /\ live' = Taken(live, ptr)
  BY DEF Kfree, kfree, Taken
<1>2. PICK own \in [held -> 0 .. NUM_CACHES] : HeapOK(own, free_list, word, cache_pages, live)
  BY DEF KInv
<1>3. IInv
  BY DEF KInv
<1>4. LiveOK(own, word, live) /\ OwnOK(own)
  BY <1>2 DEF HeapOK
<1>5. word[block] \in 0 .. NUM_CACHES /\ page \in held
  <2>1. block \in Cut(own) /\ word[block] = Owner(own, block)
    BY <1>4 DEF LiveOK
  <2> HIDE DEF block
  <2> QED BY <1>2, <1>4, <2>1, CutFacts
<1>6. phase = "ready"
  BY <1>3, <1>5 DEF IInv, Untouched
<1>7. CASE word[block] = 0
  <2>1. pmm_free_page(page) /\ held' = held \ {page} /\ UNCHANGED <<free_list, word>>
    BY <1>7 DEF Kfree, kfree, NULL
  <2>2. FreePage(page)
    BY <1>1, <1>5, <1>6, <2>1 DEF FreePage
  <2>3. Disowns(own, page) \in [held' -> 0 .. NUM_CACHES]
    BY <1>2, <2>1 DEF Disowns
  <2>4. HeapOK(Disowns(own, page), free_list, word, cache_pages, Taken(live, ptr))
    BY <1>2, <1>7, GiveBack
  <2>5. HeapOK(Disowns(own, page), free_list', word', cache_pages', live')
    BY <1>1, <2>1, <2>4
  <2>6. [Next]_vars
    BY <1>5, <2>2 DEF Next
  <2>7. IInv'
    BY <1>3, <2>6, NextIInv
  <2>8. Untried'
    BY <1>1, <2>1 DEF KInv, Untried
  <2> HIDE DEF page, block
  <2> QED BY <1>1, <2>3, <2>5, <2>6, <2>7, <2>8 DEF KInv
<1>8. CASE word[block] # 0
  <2> DEFINE i == word[block]
  <2>1. i \in Caches
    BY <1>5, <1>8 DEF Caches
  <2>2. /\ word' = [word EXCEPT ![block] = free_list[i]]
        /\ free_list' = [free_list EXCEPT ![i] = block]
        /\ NoPage
    BY <1>8 DEF Kfree, kfree, NULL
  <2>3. HeapOK(own, [free_list EXCEPT ![i] = block], [word EXCEPT ![block] = free_list[i]],
               cache_pages, Taken(live, ptr))
    BY <1>2, <2>1, Push
  <2>4. HeapOK(own, free_list', word', cache_pages', live')
    BY <1>1, <2>2, <2>3
  <2>5. UNCHANGED vars
    BY <1>1, <2>2 DEF NoPage, vars
  <2>6. IInv' /\ held' = held
    BY <1>3, <2>5, NextIInv DEF vars
  <2>7. Untried'
    <3>1. inited = NUM_CACHES /\ DOMAIN live' \subseteq DOMAIN live
      BY <1>1 DEF KInv, Untried, Taken
    <3>2. \A j \in Caches : ~(j > inited)
      BY <3>1, HeapFacts DEF Caches
    <3> QED BY <1>1, <3>1, <3>2 DEF Untried
  <2> HIDE DEF page, block, i
  <2> QED BY <1>1, <1>2, <2>4, <2>5, <2>6, <2>7 DEF KInv
<1> QED  BY <1>7, <1>8

(* Every step keeps the invariant, and is a step of the page allocator or none. *)
LEMMA KNextInv == KInv /\ [KNext]_<<vars, kvars>> => KInv' /\ [Next]_vars
<1> SUFFICES ASSUME KInv, [KNext]_<<vars, kvars>> PROVE KInv' /\ [Next]_vars
  OBVIOUS
<1>1. CASE Boot
  <2>1. [Next]_vars /\ UNCHANGED <<inited, free_list, cache_pages, word, live>>
    BY <1>1 DEF Boot, Booting, Next, kvars
  <2>2. IInv'
    BY <2>1, NextIInv DEF KInv
  <2>3. phase # "ready" /\ held' = held
    BY <1>1 DEF Boot, Booting, NoMemoryMap, ClearBitmap, CountEntry, ReserveKernel
  <2>4. Untried'
    BY <2>1 DEF KInv, Untried
  <2> QED BY <2>1, <2>2, <2>3, <2>4 DEF KInv
<1>2. CASE KmallocInit
  BY <1>2, InitCacheInv
<1>3. ASSUME NEW size \in Requests, Kmalloc(size) PROVE KInv' /\ [Next]_vars
  BY <1>3, KmallocInv
<1>4. ASSUME NEW ptr \in DOMAIN live, Kfree(ptr) PROVE KInv' /\ [Next]_vars
  BY <1>4, KfreeInv
<1>5. CASE UNCHANGED <<vars, kvars>>
  <2>1. UNCHANGED vars /\ UNCHANGED <<phase, held, inited, free_list, cache_pages, word, live>>
    BY <1>5 DEF kvars, vars
  <2>2. IInv'
    BY <2>1, NextIInv DEF KInv
  <2>3. Untried'
    BY <2>1 DEF KInv, Untried
  <2> QED BY <2>1, <2>2, <2>3 DEF KInv
<1> QED
  BY <1>1, <1>2, <1>3, <1>4, <1>5 DEF KNext

(* So it holds throughout.                                                  *)
LEMMA KSpecInv == KSpec => []KInv
<1>1. KInv /\ [KNext]_<<vars, kvars>> => KInv'
  BY KNextInv
<1> QED
  BY <1>1, KInitInv, PTL DEF KSpec

-----------------------------------------------------------------------------
(* Types, and no more pages counted than memory has.                       *)
THEOREM KSpecTypeOK == KSpec => []KTypeOK
<1>1. ASSUME KInv PROVE KTypeOK
  <2>1. PICK own \in [held -> 0 .. NUM_CACHES] : HeapOK(own, free_list, word, cache_pages, live)
    BY <1>1 DEF KInv
  <2>2. OwnOK(own) /\ WordsOK(own, word) /\ LiveOK(own, word, live)
        /\ CountsOK(own, free_list, cache_pages)
    BY <2>1 DEF HeapOK
  <2>3. cache_pages \in [Caches -> 0 .. TotalPages]
    <3>1. \A i \in Caches : cache_pages[i] \in 0 .. TotalPages
      BY <2>2, OwnedFinite DEF CountsOK
    <3> QED BY <2>2, <3>1 DEF CountsOK
  <2>4. DOMAIN live \subseteq Addresses /\ \A p \in DOMAIN live : live[p] \in Requests
    BY <2>2 DEF LiveOK
  <2>5. inited \in 0 .. NUM_CACHES
    BY <1>1 DEF KInv
  <2> QED BY <2>2, <2>3, <2>4, <2>5 DEF KTypeOK, WordsOK, CountsOK
<1> QED
  BY <1>1, KSpecInv, PTL

(* A size the heap may have promised fits the slot it gave.                *)
LEMMA UsableFits ==
  ASSUME NEW i \in 0 .. NUM_CACHES, NEW size \in Requests, GoodSize(i, size)
  PROVE  /\ Usable(size) \in Nat \ {0} /\ HeaderSize + Usable(size) <= Room(i)
         /\ Usable(size) <= size
<1>1. /\ size \in Nat /\ size > 0 /\ HeaderSize \in Nat \ {0} /\ PageSize \in Nat \ {0}
      /\ HeaderSize < PageSize
  BY HeapAssumption, HeapFacts DEF GoodSize
<1>2. Usable(size) \in Nat \ {0} /\ HeaderSize + Usable(size) <= PageSize /\ Usable(size) <= size
  BY <1>1 DEF Usable
<1>3. CASE i = 0
  BY <1>2, <1>3 DEF Room
<1>4. CASE i # 0
  <2>1. i \in Caches /\ BLOCK_SIZES[i] \in Nat /\ BLOCK_SIZES[i] >= size
    BY <1>4, HeapFacts DEF Caches, GoodSize, Fits
  <2>2. Room(i) = BLOCK_SIZES[i] + HeaderSize
    BY <1>4 DEF Room, real_block_size
  <2> QED BY <1>1, <1>2, <2>1, <2>2
<1> QED  BY <1>3, <1>4

(* The address of a page is a multiple of the page size.                    *)
LEMMA PageStart ==
  ASSUME NEW n \in Nat, NEW d \in Nat \ {0}
  PROVE  (n * d) % d = 0
OBVIOUS

(* Every allocation lies in a block of the right cache, whole, or starts a *)
(* page of its own.                                                        *)
THEOREM KSpecBlockHoldsRequest == KSpec => []BlockHoldsRequest
<1>1. ASSUME KInv PROVE BlockHoldsRequest
  <2>1. PICK own \in [held -> 0 .. NUM_CACHES] : HeapOK(own, free_list, word, cache_pages, live)
    BY <1>1 DEF KInv
  <2>2. OwnOK(own) /\ LiveOK(own, word, live)
    BY <2>1 DEF HeapOK
  <2> SUFFICES ASSUME NEW p \in DOMAIN live, NEW b, b = p - HeaderSize
               PROVE  /\ b \div PageSize = (p + Usable(live[p]) - 1) \div PageSize
                      /\ \A i \in Caches : word[b] = CacheId(i) => Fits(i, live[p])
                      /\ word[b] = NULL => live[p] > BLOCK_SIZES[NUM_CACHES] /\ b % PageSize = 0
    BY DEF BlockHoldsRequest
  <2>3. /\ b \in Cut(own) /\ word[b] = Owner(own, b) /\ live[p] \in Requests
        /\ GoodSize(Owner(own, b), live[p]) /\ p \in Addresses
    BY <2>2 DEF LiveOK
  <2>4. /\ Owner(own, b) \in 0 .. NUM_CACHES /\ b \in Nat /\ Room(Owner(own, b)) \in Nat
        /\ b \div PageSize \in 1 .. TotalPages - 1 /\ b \in SlotsOf(Owner(own, b), b \div PageSize)
    BY <2>2, <2>3, CutFacts
  <2>5. /\ Usable(live[p]) \in Nat \ {0} /\ HeaderSize + Usable(live[p]) <= Room(Owner(own, b))
    BY <2>3, <2>4, UsableFits
  <2> DEFINE n == HeaderSize + Usable(live[p]) - 1
  <2>6. n \in Nat /\ n < Room(Owner(own, b)) /\ p + Usable(live[p]) - 1 = b + n
    <3>1. p \in Int /\ HeaderSize \in Nat
      BY <2>3, HeapFacts DEF Addresses
    <3> QED BY <2>4, <2>5, <3>1
  <2>7. (b + n) \div PageSize = b \div PageSize
    <3> HIDE DEF n
    <3> QED BY <2>2, <2>3, <2>6, PointerIsAddress
  <2>8. b \div PageSize = (p + Usable(live[p]) - 1) \div PageSize
    BY <2>6, <2>7
  <2>9. \A i \in Caches : word[b] = CacheId(i) => Fits(i, live[p])
    BY <2>3 DEF CacheId, GoodSize, Caches
  <2>10. ASSUME word[b] = NULL PROVE live[p] > BLOCK_SIZES[NUM_CACHES] /\ b % PageSize = 0
    <3>1. Owner(own, b) = 0
      BY <2>3, <2>10 DEF NULL
    <3>2. b = (b \div PageSize) * PageSize
      BY <2>4, <3>1 DEF SlotsOf
    <3>3. ((b \div PageSize) * PageSize) % PageSize = 0
      BY <2>4, PageInMemory, HeapFacts, PageStart
    <3> QED BY <2>3, <3>1, <3>2, <3>3 DEF GoodSize
  <2> QED BY <2>8, <2>9, <2>10
<1> QED
  BY <1>1, KSpecInv, PTL

-----------------------------------------------------------------------------
(* What callers see: Heap's state, and where its allocations lie.          *)
Seen == [p \in DOMAIN live |-> Usable(live[p])]

Apart ==
  \A p \in DOMAIN live :
    /\ p \in HeapMemory /\ live[p] \in Requests
    /\ Usable(live[p]) > 0
    /\ H!Extent(p, Usable(live[p])) \subseteq HeapMemory
    /\ \A q \in DOMAIN live \ {p} :
         H!Extent(p, Usable(live[p])) \cap H!Extent(q, Usable(live[q])) = {}

(* Blocks in use do not overlap.                                            *)
LEMMA ExtentsApart == KInv => Apart
<1> SUFFICES ASSUME KInv PROVE Apart
  OBVIOUS
<1>1. PICK own \in [held -> 0 .. NUM_CACHES] : HeapOK(own, free_list, word, cache_pages, live)
  BY DEF KInv
<1>2. OwnOK(own) /\ LiveOK(own, word, live)
  BY <1>1 DEF HeapOK
<1>3. \A page \in held : page \notin ReservedPages
  BY SizesAreNat DEF KInv, IInv, Untouched, PagesAccountedFor, TypeOK
<1>4. ASSUME NEW p \in DOMAIN live
      PROVE  /\ p - HeaderSize \in Cut(own) /\ p - HeaderSize \in Nat /\ p \in Int
             /\ (p - HeaderSize) \div PageSize \in held
             /\ live[p] \in Requests
             /\ Room(Owner(own, p - HeaderSize)) \in Nat
             /\ Usable(live[p]) \in Nat \ {0}
             /\ HeaderSize + Usable(live[p]) <= Room(Owner(own, p - HeaderSize))
  <2> DEFINE b == p - HeaderSize
  <2>1. /\ b \in Cut(own) /\ live[p] \in Requests /\ GoodSize(Owner(own, b), live[p])
        /\ p \in Int
    BY <1>2 DEF LiveOK, Addresses
  <2> HIDE DEF b
  <2>2. /\ Owner(own, b) \in 0 .. NUM_CACHES /\ b \in Nat /\ Room(Owner(own, b)) \in Nat
        /\ b \div PageSize \in held
    BY <1>1, <1>2, <2>1, CutFacts
  <2>3. /\ Usable(live[p]) \in Nat \ {0} /\ HeaderSize + Usable(live[p]) <= Room(Owner(own, b))
    BY <2>1, <2>2, UsableFits
  <2> QED BY <2>1, <2>2, <2>3 DEF b
<1>5. HeaderSize \in Nat \ {0}
  BY HeapFacts
<1>6. ASSUME NEW p \in DOMAIN live, NEW a \in H!Extent(p, Usable(live[p]))
      PROVE  a \in HeapMemory
  <2> DEFINE b == p - HeaderSize
             n == a - b
  <2>1. n \in Nat /\ n < Room(Owner(own, b)) /\ b + n = a
    BY <1>4, <1>5 DEF H!Extent
  <2>2. b \in Cut(own) /\ b \div PageSize \in held
    BY <1>4
  <2> HIDE DEF n, b
  <2>3. b + n \in Addresses /\ (b + n) \div PageSize = b \div PageSize
    BY <1>2, <2>1, <2>2, PointerIsAddress
  <2>4. a \in Addresses /\ a \div PageSize \in held
    BY <2>1, <2>2, <2>3
  <2> QED BY <1>3, <2>4 DEF HeapMemory
<1>7. ASSUME NEW p \in DOMAIN live PROVE p \in H!Extent(p, Usable(live[p]))
  BY <1>4 DEF H!Extent
<1>8. ASSUME NEW p \in DOMAIN live, NEW q \in DOMAIN live, p < q
      PROVE  H!Extent(p, Usable(live[p])) \cap H!Extent(q, Usable(live[q])) = {}
  <2> DEFINE b == p - HeaderSize
             c == q - HeaderSize
  <2>1. b < c
    BY <1>4, <1>5, <1>8
  <2>2. b \in Cut(own) /\ c \in Cut(own)
    BY <1>4
  <2>3. b + Room(Owner(own, b)) <= c
    <3> HIDE DEF b, c
    <3> QED BY <1>2, <2>1, <2>2, CutApart
  <2>4. p + Usable(live[p]) <= q
    BY <1>4, <1>5, <2>3
  <2> QED BY <1>4, <2>4 DEF H!Extent
<1>9. ASSUME NEW p \in DOMAIN live, NEW q \in DOMAIN live \ {p}
      PROVE  H!Extent(p, Usable(live[p])) \cap H!Extent(q, Usable(live[q])) = {}
  <2>1. p < q \/ q < p
    BY <1>4, <1>9
  <2> QED BY <1>8, <2>1
<1> QED  BY <1>4, <1>6, <1>7, <1>9 DEF Apart

(* A pointer more that was not in use, or one less.                        *)
LEMMA AllocateSeen ==
  ASSUME NEW size \in Requests, NEW ptr, ptr \notin DOMAIN live,
         live' = Give(live, ptr, size), Apart'
  PROVE  H!Next
<1>1. /\ DOMAIN live' = DOMAIN live \cup {ptr} /\ live'[ptr] = size
      /\ \A q \in DOMAIN live : live'[q] = live[q] /\ q # ptr
  BY DEF Give
<1>2. /\ ptr \in HeapMemory /\ Usable(size) > 0
      /\ H!Extent(ptr, Usable(size)) \subseteq HeapMemory
      /\ \A q \in DOMAIN live : H!Extent(ptr, Usable(size)) \cap H!Extent(q, Usable(live[q])) = {}
  BY <1>1 DEF Apart
<1>3. Seen' = [q \in DOMAIN Seen \cup {ptr} |-> IF q = ptr THEN Usable(size) ELSE Seen[q]]
  BY <1>1 DEF Seen
<1>4. H!Allocate(ptr, Usable(size))
  BY <1>2, <1>3 DEF H!Allocate, Seen
<1> QED  BY <1>2, <1>4 DEF H!Next

(* Forgetting a block is the abstract heap's release of it.                 *)
LEMMA ReleaseSeen ==
  ASSUME NEW ptr \in DOMAIN live, live' = Taken(live, ptr)
  PROVE  H!Next
<1>1. Seen' = [q \in DOMAIN Seen \ {ptr} |-> Seen[q]]
  BY DEF Seen, Taken
<1>2. H!Release(ptr)
  BY <1>1 DEF H!Release, Seen
<1> QED  BY <1>2 DEF H!Next

(* kmalloc and kfree implement Heap: the steps of the page allocator and   *)
(* of the caches are all invisible to a caller.                            *)
THEOREM KmallocImplementsHeap == KSpec => ImplementsHeap
<1>1. KInit => H!Init
  <2> SUFFICES ASSUME KInit PROVE H!Init
    OBVIOUS
  <2>1. DOMAIN live = {}
    BY DEF KInit
  <2>2. [p \in DOMAIN live |-> Usable(live[p])] = [p \in {} |-> Usable(live[p])]
    BY <2>1
  <2>3. \A f : f = [p \in {} |-> Usable(live[p])] => f = <<>>
    OBVIOUS
  <2> QED BY <2>2, <2>3 DEF H!Init
<1>2. KInv /\ Apart' /\ [KNext]_<<vars, kvars>> => [H!Next]_Seen
  <2> SUFFICES ASSUME KInv, Apart', [KNext]_<<vars, kvars>> PROVE [H!Next]_Seen
    OBVIOUS
  <2>1. CASE live' = live
    BY <2>1 DEF Seen
  <2>2. CASE KmallocInit \/ Boot \/ UNCHANGED <<vars, kvars>>
    BY <2>1, <2>2 DEF KmallocInit, InitCache, Boot, kvars
  <2>3. ASSUME NEW size \in Requests, Kmalloc(size) PROVE [H!Next]_Seen
    <3>1. GivenNew(size)
      BY <2>3, KmallocInv
    <3> QED BY <2>1, <3>1, AllocateSeen DEF GivenNew
  <2>4. ASSUME NEW ptr \in DOMAIN live, Kfree(ptr) PROVE [H!Next]_Seen
    <3>1. live' = Taken(live, ptr)
      BY <2>4 DEF Kfree, Taken
    <3> QED BY <3>1, ReleaseSeen
  <2> QED
    BY <2>2, <2>3, <2>4 DEF KNext
<1> QED
  BY <1>1, <1>2, KSpecInv, ExtentsApart, PTL DEF KSpec, ImplementsHeap, H!Spec, Seen

-----------------------------------------------------------------------------
(* Walking a list: Chain is a function by recursion, and finds every block *)
(* of the list within as many steps as words have been written.            *)
Link(f, head, w, c) ==
  [k \in 0 .. c |-> IF k = 0 THEN head ELSE IF f[k - 1] = NULL THEN NULL ELSE w[f[k - 1]]]

AllRanks(S, rank, n) == \A k \in Nat : k < n => \E b \in S : rank[b] = n - k

(* The ranks of a list are the numbers from its length down to 1.           *)
LEMMA RanksAllUsed ==
  ASSUME NEW S, NEW head, NEW w, NEW rank \in [S -> Nat], NEW n \in Nat, Ranked(S, head, w, rank, n)
  PROVE  AllRanks(S, rank, n)
<1> DEFINE T == {k \in Nat : k < n => \E b \in S : rank[b] = n - k}
<1>1. CASE n = 0
  BY <1>1 DEF AllRanks
<1>2. CASE n > 0
  <2>1. 0 \in T
    <3>1. head \in S /\ rank[head] = n - 0
      BY <1>2 DEF Ranked
    <3> QED BY <3>1
  <2>2. ASSUME NEW k \in 0 .. (n - 1) - 1, k \in T PROVE k + 1 \in T
    <3>1. k \in Nat /\ k < n /\ n - k > 1 /\ n - (k + 1) = n - k - 1
      BY <1>2, <2>2
    <3>2. PICK b \in S : rank[b] = n - k
      BY <2>2, <3>1
    <3>3. w[b] \in S /\ rank[w[b]] = n - k - 1
      BY <3>1, <3>2 DEF Ranked
    <3> QED BY <3>1, <3>3
  <2>3. n - 1 \in Nat
    BY <1>2
  <2>4. 0 .. n - 1 \subseteq T
    <3> HIDE DEF T
    <3> QED BY <2>1, <2>2, <2>3, UpTo
  <2>5. \A k \in Nat : k < n => k \in 0 .. n - 1
    OBVIOUS
  <2> QED BY <2>4, <2>5 DEF AllRanks
<1> QED  BY <1>1, <1>2

(* A list is no longer than the set it runs over.                           *)
LEMMA RanksFit ==
  ASSUME NEW S, NEW head, NEW w, NEW rank \in [S -> Nat], NEW n \in Nat, Ranked(S, head, w, rank, n),
         IsFiniteSet(S)
  PROVE  n <= Cardinality(S)
<1>1. \A r \in 1 .. n : \E b \in S : rank[b] = r
  <2> SUFFICES ASSUME NEW r \in 1 .. n PROVE \E b \in S : rank[b] = r
    OBVIOUS
  <2>1. n - r \in Nat /\ n - r < n /\ n - (n - r) = r
    OBVIOUS
  <2>2. AllRanks(S, rank, n)
    BY RanksAllUsed
  <2>3. \E b \in S : rank[b] = n - (n - r)
    BY <2>1, <2>2 DEF AllRanks
  <2> QED BY <2>1, <2>3
<1>2. rank \in Surjection(S, 1 .. n)
  <2>1. rank \in [S -> 1 .. n]
    BY DEF Ranked
  <2> QED BY <1>1, <2>1 DEF Surjection
<1>3. Cardinality(1 .. n) = n
  BY FS_Interval
<1> QED  BY <1>2, <1>3, FS_Surjection

(* Following the links a number of times is well defined.                   *)
LEMMA LinkExists ==
  ASSUME NEW S, NEW head, NEW w, IsList(S, head, w), NEW c \in Nat
  PROVE  \E f : f = Link(f, head, w, c)
<1>1. PICK rank \in [S -> Nat], n \in Nat : Ranked(S, head, w, rank, n)
  BY DEF IsList
<1> DEFINE At(k) == CHOOSE b \in S : rank[b] = n - k
           f == [k \in 0 .. c |-> IF k < n THEN At(k) ELSE NULL]
<1>2. \A k \in Nat : k < n => At(k) \in S /\ rank[At(k)] = n - k
  <2> SUFFICES ASSUME NEW k \in Nat, k < n PROVE At(k) \in S /\ rank[At(k)] = n - k
    OBVIOUS
  <2>1. AllRanks(S, rank, n)
    BY <1>1, RanksAllUsed
  <2>2. \E b \in S : rank[b] = n - k
    BY <2>1 DEF AllRanks
  <2> QED BY <2>2
<1> HIDE DEF At
<1>3. f[0] = head
  <2>1. CASE n = 0
    BY <1>1, <2>1 DEF Ranked
  <2>2. CASE n > 0
    <3>1. head \in S /\ rank[head] = n /\ At(0) \in S /\ rank[At(0)] = n
      BY <1>1, <1>2, <2>2 DEF Ranked
    <3>2. At(0) = head
      BY <1>1, <3>1 DEF Ranked
    <3> QED BY <2>2, <3>2
  <2> QED BY <2>1, <2>2
<1>4. ASSUME NEW k \in 1 .. c
      PROVE  f[k] = IF f[k - 1] = NULL THEN NULL ELSE w[f[k - 1]]
  <2>1. k - 1 \in 0 .. c /\ k \in 0 .. c /\ k - 1 \in Nat
    OBVIOUS
  <2>2. CASE k - 1 < n
    <3>1. f[k - 1] = At(k - 1) /\ At(k - 1) \in S /\ rank[At(k - 1)] = n - (k - 1)
      BY <1>2, <2>1, <2>2
    <3>2. At(k - 1) # NULL
      BY <1>1, <3>1 DEF Ranked
    <3>3. CASE k < n
      <4>1. f[k] = At(k) /\ At(k) \in S /\ rank[At(k)] = n - k
        BY <1>2, <2>1, <3>3
      <4>2. w[At(k - 1)] \in S /\ rank[w[At(k - 1)]] = n - k
        BY <1>1, <2>1, <3>1, <3>3 DEF Ranked
      <4>3. w[At(k - 1)] = At(k)
        BY <1>1, <4>1, <4>2 DEF Ranked
      <4> QED BY <3>1, <3>2, <4>1, <4>3
    <3>4. CASE ~(k < n)
      <4>1. f[k] = NULL
        BY <2>1, <3>4
      <4>2. rank[At(k - 1)] = 1
        BY <2>1, <2>2, <3>1, <3>4
      <4>3. w[At(k - 1)] = NULL
        BY <1>1, <3>1, <4>2 DEF Ranked
      <4> QED BY <3>1, <3>2, <4>1, <4>3
    <3> QED BY <3>3, <3>4
  <2>3. CASE ~(k - 1 < n)
    <3>1. f[k - 1] = NULL /\ f[k] = NULL
      BY <2>1, <2>3
    <3> QED BY <3>1
  <2> QED BY <2>2, <2>3
<1>5. f = [k \in 0 .. c |-> f[k]]
  OBVIOUS
<1> HIDE DEF f
<1>6. ASSUME NEW k \in 0 .. c
      PROVE  f[k] = IF k = 0 THEN head ELSE IF f[k - 1] = NULL THEN NULL ELSE w[f[k - 1]]
  <2>1. CASE k = 0
    BY <1>3, <2>1
  <2>2. CASE k # 0
    <3>1. k \in 1 .. c
      BY <2>2
    <3> QED BY <1>4, <2>2, <3>1
  <2> QED BY <2>1, <2>2
<1>7. f = Link(f, head, w, c)
  BY <1>5, <1>6, Zenon DEF Link
<1> QED  BY <1>7

(* Following them often enough visits every member and ends.                *)
LEMMA LinkWalks ==
  ASSUME NEW S, NEW head, NEW w, IsList(S, head, w), IsFiniteSet(S),
         NEW c \in Nat, Cardinality(S) <= c, NEW f, f = Link(f, head, w, c)
  PROVE  f[c] = NULL /\ {f[k] : k \in DOMAIN f} \ {NULL} = S
<1>1. PICK rank \in [S -> Nat], n \in Nat : Ranked(S, head, w, rank, n)
  BY DEF IsList
<1>2. n <= c
  <2>1. n <= Cardinality(S) /\ Cardinality(S) \in Nat
    BY <1>1, RanksFit, FS_CardinalityType
  <2> QED BY <2>1
<1>3. /\ DOMAIN f = 0 .. c /\ f[0] = head
      /\ \A k \in 0 .. c - 1 : f[k + 1] = IF f[k] = NULL THEN NULL ELSE w[f[k]]
  <2>1. DOMAIN f = 0 .. c /\ f[0] = head
    BY DEF Link
  <2>2. ASSUME NEW k \in 0 .. c - 1
        PROVE  f[k + 1] = IF f[k] = NULL THEN NULL ELSE w[f[k]]
    <3>1. k + 1 \in 0 .. c /\ k + 1 # 0 /\ k + 1 - 1 = k
      OBVIOUS
    <3>2. f[k + 1] = IF f[k + 1 - 1] = NULL THEN NULL ELSE w[f[k + 1 - 1]]
      BY <3>1 DEF Link
    <3> QED BY <3>1, <3>2
  <2> QED BY <2>1, <2>2
<1> DEFINE T == {k \in Nat : IF k < n THEN f[k] \in S /\ rank[f[k]] = n - k ELSE f[k] = NULL}
<1>4. 0 \in T
  BY <1>1, <1>3 DEF Ranked
<1>5. ASSUME NEW k \in 0 .. c - 1, k \in T PROVE k + 1 \in T
  <2>1. f[k + 1] = IF f[k] = NULL THEN NULL ELSE w[f[k]]
    BY <1>3
  <2>2. CASE k < n
    <3>1. f[k] \in S /\ rank[f[k]] = n - k /\ f[k] # NULL
      BY <1>1, <1>5, <2>2 DEF Ranked
    <3>2. f[k + 1] = w[f[k]]
      BY <2>1, <3>1
    <3>3. CASE k + 1 < n
      <4>1. w[f[k]] \in S /\ rank[w[f[k]]] = n - k - 1
        BY <1>1, <3>1, <3>3 DEF Ranked
      <4> QED BY <3>2, <3>3, <4>1
    <3>4. CASE ~(k + 1 < n)
      <4>1. rank[f[k]] = 1
        BY <2>2, <3>1, <3>4
      <4>2. w[f[k]] = NULL
        BY <1>1, <3>1, <4>1 DEF Ranked
      <4> QED BY <3>2, <3>4, <4>2
    <3> QED BY <3>3, <3>4
  <2>3. CASE ~(k < n)
    <3>1. f[k] = NULL
      BY <1>5, <2>3
    <3> QED BY <2>1, <2>3, <3>1
  <2> QED BY <2>2, <2>3
<1>6. 0 .. c \subseteq T
  <2> HIDE DEF T
  <2> QED BY <1>4, <1>5, UpTo
<1>7. \A k \in 0 .. c : IF k < n THEN f[k] \in S /\ rank[f[k]] = n - k ELSE f[k] = NULL
  BY <1>6
<1>8. f[c] = NULL
  BY <1>2, <1>7
<1>9. \A k \in 0 .. c : f[k] = NULL \/ f[k] \in S
  BY <1>7
<1>10. ASSUME NEW b \in S PROVE b # NULL /\ \E k \in 0 .. c : f[k] = b
  <2>1. rank[b] \in 1 .. n /\ b # NULL
    BY <1>1 DEF Ranked
  <2>2. n - rank[b] \in 0 .. c /\ n - rank[b] < n /\ n - (n - rank[b]) = rank[b]
    BY <1>2, <2>1
  <2>3. f[n - rank[b]] \in S /\ rank[f[n - rank[b]]] = rank[b]
    BY <1>7, <2>2
  <2>4. f[n - rank[b]] = b
    BY <1>1, <2>3 DEF Ranked
  <2> QED BY <2>1, <2>2, <2>4
<1> QED  BY <1>3, <1>8, <1>9, <1>10

(* Chain is Link, at the words the heap has written.                       *)
LEMMA ChainWalks ==
  ASSUME KInv, NEW own \in [held -> 0 .. NUM_CACHES],
         HeapOK(own, free_list, word, cache_pages, live), NEW i \in Caches
  PROVE  /\ Chain(i)[Cardinality(DOMAIN word)] = NULL
         /\ FreeBlocks(i) = Free(own, live, i)
<1> DEFINE S == Free(own, live, i)
           c == Cardinality(DOMAIN word)
<1>1. OwnOK(own) /\ WordsOK(own, word) /\ IsList(S, free_list[i], word)
  BY DEF HeapOK, ListsOK
<1>2. IsFiniteSet(S) /\ c \in Nat /\ Cardinality(S) <= c
  <2>1. TotalPages * PageSize - 1 \in Int
    BY SizesAreNat, HeapFacts
  <2>2. IsFiniteSet(Addresses)
    BY <2>1, FS_Interval DEF Addresses
  <2>3. IsFiniteSet(DOMAIN word)
    BY <1>1, <2>2, FS_Subset DEF WordsOK
  <2>4. S \subseteq DOMAIN word
    BY <1>1 DEF WordsOK, Free
  <2> HIDE DEF S
  <2> QED BY <2>3, <2>4, FS_Subset, FS_CardinalityType
<1>3. Chain(i) = CHOOSE f : f = Link(f, free_list[i], word, c)
  BY Zenon DEF Chain, Link
<1> HIDE DEF S, c
<1>4. \E f : f = Link(f, free_list[i], word, c)
  BY <1>1, <1>2, LinkExists
<1>5. Chain(i) = Link(Chain(i), free_list[i], word, c)
  BY <1>3, <1>4
<1>6. Chain(i)[c] = NULL /\ {Chain(i)[k] : k \in DOMAIN Chain(i)} \ {NULL} = S
  BY <1>1, <1>2, <1>5, LinkWalks
<1> QED  BY <1>6 DEF FreeBlocks, S, c

(* No free list runs in a circle, or out of the blocks.                    *)
THEOREM KSpecFreeListsEnd == KSpec => []FreeListsEnd
<1>1. ASSUME KInv PROVE FreeListsEnd
  <2>1. PICK own \in [held -> 0 .. NUM_CACHES] : HeapOK(own, free_list, word, cache_pages, live)
    BY <1>1 DEF KInv
  <2> QED BY <1>1, <2>1, ChainWalks DEF FreeListsEnd
<1> QED
  BY <1>1, KSpecInv, PTL

(* Every block cut from a page is free or in use, never both and never     *)
(* neither, and the pages of the caches and the callers are all the pages  *)
(* kmalloc has taken, each with one owner.                                 *)
THEOREM KSpecNoBlockLost == KSpec => []NoBlockLost
<1>1. ASSUME KInv PROVE NoBlockLost
  <2>1. PICK own \in [held -> 0 .. NUM_CACHES] : HeapOK(own, free_list, word, cache_pages, live)
    BY <1>1 DEF KInv
  <2>2. /\ OwnOK(own) /\ LiveOK(own, word, live) /\ Free(own, live, 0) = {}
        /\ CountsOK(own, free_list, cache_pages) /\ DOMAIN own = held
    BY <2>1 DEF HeapOK, ListsOK
  <2>3. \A b \in Cut(own) : b \in Int /\ Owner(own, b) \in 0 .. NUM_CACHES
    BY <2>2, CutFacts
  <2>4. \A b : b \in Blocks <=> b \in Cut(own) /\ b + HeaderSize \in DOMAIN live
    <3>1. ASSUME NEW b \in Blocks PROVE b \in Cut(own) /\ b + HeaderSize \in DOMAIN live
      <4>1. PICK p \in DOMAIN live : b = p - HeaderSize
        BY DEF Blocks
      <4>2. b \in Cut(own) /\ p \in Int
        BY <2>2, <4>1 DEF LiveOK, Addresses
      <4>3. b + HeaderSize = p
        BY <4>1, <4>2, HeapFacts
      <4> QED BY <4>2, <4>3
    <3>2. ASSUME NEW b \in Cut(own), b + HeaderSize \in DOMAIN live PROVE b \in Blocks
      <4> DEFINE p == b + HeaderSize
      <4>1. p - HeaderSize = b
        BY <2>3, HeapFacts
      <4>2. p \in DOMAIN live
        BY <3>2
      <4> HIDE DEF p
      <4> QED BY <4>1, <4>2 DEF Blocks
    <3> QED BY <3>1, <3>2
  <2>5. \A b \in Blocks : word[b] = Owner(own, b)
    BY <2>2 DEF LiveOK, Blocks
  <2> DEFINE All(i) == {b \in Cut(own) : Owner(own, b) = i}
  <2>6. \A i \in Caches : FreeBlocks(i) = Free(own, live, i)
    BY <1>1, <2>1, ChainWalks
  <2>7. \A i \in Caches : LiveBlocks(i) = {b \in All(i) : b + HeaderSize \in DOMAIN live}
    BY <2>4, <2>5 DEF LiveBlocks, CacheId
  <2>8. \A i \in Caches : /\ FreeBlocks(i) \cap Blocks = {}
                          /\ FreeBlocks(i) \cup LiveBlocks(i) = All(i)
    BY <2>4, <2>6, <2>7 DEF Free
  <2>9. LargeBlocks = All(0)
    BY <2>2, <2>4, <2>5 DEF LargeBlocks, NULL, Free
  <2>10. ASSUME NEW i \in 0 .. NUM_CACHES
         PROVE  /\ {b \div PageSize : b \in All(i)} = OwnedBy(own, i)
                /\ All(i) = UNION {SlotsOf(i, page) : page \in OwnedBy(own, i)}
    <3>1. ASSUME NEW b \in All(i)
          PROVE  b \div PageSize \in OwnedBy(own, i) /\ b \in SlotsOf(i, b \div PageSize)
      BY DEF Cut, Owner, OwnedBy
    <3>2. ASSUME NEW page \in OwnedBy(own, i), NEW b \in SlotsOf(i, page)
          PROVE  b \in All(i) /\ b \div PageSize = page
      <4>1. page \in 1 .. TotalPages - 1 /\ page \in DOMAIN own /\ own[page] = i
        BY <2>2 DEF OwnedBy, OwnOK
      <4>2. b \in Addresses /\ b \div PageSize = page
        BY <4>1, SlotInPage
      <4> QED BY <4>1, <4>2 DEF Cut, Owner
    <3>3. ASSUME NEW page \in OwnedBy(own, i) PROVE \E b : b \in SlotsOf(i, page)
      <4>1. page \in Nat
        BY <2>2, PageInMemory DEF OwnedBy, OwnOK
      <4>2. CASE i = 0
        BY <4>2 DEF SlotsOf
      <4>3. CASE i # 0
        BY <4>1, <4>3, FirstAndLastBlock DEF SlotsOf, Caches
      <4> QED BY <4>2, <4>3
    <3> HIDE DEF All
    <3> QED BY <3>1, <3>2, <3>3
  <2>11. \A i \in Caches : i \in 0 .. NUM_CACHES /\ i # 0
    BY HeapFacts DEF Caches
  <2>12. \A i \in Caches : PagesOf(i) = OwnedBy(own, i)
    BY <2>8, <2>10, <2>11 DEF PagesOf
  <2>13. LargePages = OwnedBy(own, 0)
    BY <2>9, <2>10, HeapFacts DEF LargePages
  <2>14. ASSUME NEW i \in Caches
         PROVE  /\ FreeBlocks(i) \cap Blocks = {}
                /\ FreeBlocks(i) \cup LiveBlocks(i) = UNION {BlocksOf(i, page) : page \in PagesOf(i)}
                /\ Cardinality(PagesOf(i)) = cache_pages[i]
                /\ \A j \in Caches \ {i} : PagesOf(i) \cap PagesOf(j) = {}
                /\ PagesOf(i) \cap LargePages = {}
    <3>1. \A page : SlotsOf(i, page) = BlocksOf(i, page)
      BY <2>11 DEF SlotsOf
    <3>2. FreeBlocks(i) \cup LiveBlocks(i) = UNION {BlocksOf(i, page) : page \in PagesOf(i)}
      BY <2>8, <2>10, <2>11, <2>12, <3>1
    <3>3. Cardinality(PagesOf(i)) = cache_pages[i]
      BY <2>2, <2>12 DEF CountsOK
    <3>4. /\ \A j \in Caches \ {i} : PagesOf(i) \cap PagesOf(j) = {}
          /\ PagesOf(i) \cap LargePages = {}
      BY <2>11, <2>12, <2>13 DEF OwnedBy
    <3> QED BY <2>8, <3>2, <3>3, <3>4
  <2>15. \A b, c \in LargeBlocks : b \div PageSize = c \div PageSize => b = c
    BY <2>9 DEF Cut, SlotsOf
  <2>16. held = (UNION {PagesOf(i) : i \in Caches}) \cup LargePages
    <3>1. \A page \in held : own[page] = 0 \/ own[page] \in Caches
      BY <2>2 DEF OwnOK, Caches
    <3>2. \A page \in held : page \in OwnedBy(own, own[page])
      BY <2>2 DEF OwnedBy
    <3>3. \A i : OwnedBy(own, i) \subseteq held
      BY <2>2 DEF OwnedBy
    <3> QED BY <2>12, <2>13, <3>1, <3>2, <3>3
  <2> QED BY <2>14, <2>15, <2>16 DEF NoBlockLost
<1> QED
  BY <1>1, KSpecInv, PTL

=============================================================================
