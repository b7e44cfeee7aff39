---------------------------- MODULE MemoryProofs ----------------------------
(***************************************************************************)
(* The allocator of memory.c, for any size of the pool, of pages, of       *)
(* headers and of blocks, and any requests; and the division of the memory *)
(* at boot, for any size of it.                                            *)
(*                                                                         *)
(* The allocator hands out no byte twice because of five facts that need   *)
(* each other (IInv): every allocation lies where its header says          *)
(* (Placed), on pages of its own or as a block of an arena (Apart), the    *)
(* bitmap marks exactly those pages and the lost ones (Marked), the free   *)
(* lists have blocks of arenas, each once (ListedRight), and each block of *)
(* an arena is free or in use, as many free as the header counts           *)
(* (ArenasRight).  Each operation is one of five changes: TakePages,       *)
(* WithinArena (a block taken or put back), GivePages, NewArenaInv and     *)
(* StopInv.                                                                *)
(***************************************************************************)
EXTENDS Memory, MemLayout, LibraryProofs

-----------------------------------------------------------------------------
(* mem_block_desc_init() computes sizes that double.                        *)
LEMMA BlockSizesDef ==
  block_size = [d \in Descs |-> IF d = 1 THEN MIN_BLOCK ELSE 2 * block_size[d - 1]]
<1> DEFINE n == MEM_DESC_CNT - 1
           G == [x \in (0..n) \X Nat |-> 2 * x[2]]
<1>1. n \in Nat /\ MIN_BLOCK \in Nat /\ Descs = 1..(n + 1)
  BY DescAssumption DEF Descs
<1>2. G \in [(0..n) \X Nat -> Nat]
  OBVIOUS
<1>3. PICK f : Recursive(f, n, Nat, MIN_BLOCK, G)
  <2> HIDE DEF n, G
  <2> QED
    BY <1>1, <1>2, RecursionExists
<1> USE DEF Recursive
<1> DEFINE h == [d \in Descs |-> f[d - 1]]
<1>4. \A i \in 1..n : f[i] = 2 * f[i - 1]
  <2> SUFFICES ASSUME NEW i \in 1..n PROVE f[i] = 2 * f[i - 1]
    OBVIOUS
  <2>1. <<i, f[i - 1]>> \in (0..n) \X Nat
    BY <1>1, <1>3
  <2> QED
    BY <1>3, <2>1
<1>5. h = [d \in Descs |-> IF d = 1 THEN MIN_BLOCK ELSE 2 * h[d - 1]]
  <2> SUFFICES ASSUME NEW d \in Descs
               PROVE  h[d] = IF d = 1 THEN MIN_BLOCK ELSE 2 * h[d - 1]
    BY <1>1
  <2>1. CASE d = 1
    <3>1. d - 1 = 0 /\ h[d] = f[d - 1]
      BY <2>1
    <3> QED
      BY <1>3, <2>1, <3>1
  <2>2. CASE d # 1
    <3>1. d - 1 \in 1..n /\ d - 1 \in Descs
      BY <1>1, <2>2
    <3>2. h[d] = f[d - 1] /\ h[d - 1] = f[(d - 1) - 1]
      BY <3>1
    <3> QED
      BY <1>4, <2>2, <3>1, <3>2
  <2> QED
    BY <2>1, <2>2
<1> HIDE DEF h
<1> QED
  BY <1>5, Zenon DEF block_size

(* Every block has a size, and the last one is the largest.                 *)
LEMMA BlockSizes ==
  /\ \A d \in Descs : block_size[d] \in Nat \ {0} /\ block_size[d] <= Large
  /\ MEM_DESC_CNT \in Descs
<1> DEFINE P == {i \in Nat : i < MEM_DESC_CNT => block_size[i + 1] \in Nat \ {0}}
<1>0. MEM_DESC_CNT \in Nat \ {0} /\ MIN_BLOCK \in Nat \ {0} /\ Descs = 1..MEM_DESC_CNT
  BY DescAssumption DEF Descs
<1>1. block_size[1] = MIN_BLOCK
  BY <1>0, BlockSizesDef
<1>2. \A i \in 1..(MEM_DESC_CNT - 1) : block_size[i + 1] = 2 * block_size[i]
  <2> SUFFICES ASSUME NEW i \in 1..(MEM_DESC_CNT - 1) PROVE block_size[i + 1] = 2 * block_size[i]
    OBVIOUS
  <2>1. i + 1 \in Descs /\ i + 1 # 1 /\ (i + 1) - 1 = i
    BY <1>0
  <2> QED
    BY <2>1, BlockSizesDef
<1>3. 0..MEM_DESC_CNT \subseteq P
  <2>1. 0 \in P
    BY <1>0, <1>1
  <2>2. ASSUME NEW i \in 0..(MEM_DESC_CNT - 1), i \in P PROVE i + 1 \in P
    BY <1>0, <1>2, <2>2
  <2>3. P \in SUBSET Nat
    OBVIOUS
  <2> HIDE DEF P
  <2> QED
    BY <1>0, <2>1, <2>2, <2>3, Upwards
<1>4. \A d \in Descs : block_size[d] \in Nat \ {0}
  <2> SUFFICES ASSUME NEW d \in Descs PROVE block_size[d] \in Nat \ {0}
    OBVIOUS
  <2>1. d - 1 \in 0..MEM_DESC_CNT /\ d - 1 < MEM_DESC_CNT /\ (d - 1) + 1 = d
    BY <1>0
  <2>2. d - 1 \in P
    <3> HIDE DEF P
    <3> QED
      BY <1>3, <2>1
  <2> QED
    BY <2>1, <2>2
<1> DEFINE Q == {i \in Nat : i < MEM_DESC_CNT => block_size[MEM_DESC_CNT - i] <= Large}
<1>5. 0..MEM_DESC_CNT \subseteq Q
  <2>1. 0 \in Q
    BY <1>0, <1>4 DEF Large
  <2>2. ASSUME NEW i \in 0..(MEM_DESC_CNT - 1), i \in Q PROVE i + 1 \in Q
    <3> SUFFICES ASSUME i + 1 < MEM_DESC_CNT PROVE block_size[MEM_DESC_CNT - (i + 1)] <= Large
      BY <1>0
    <3> DEFINE d == MEM_DESC_CNT - (i + 1)
    <3>1. d \in 1..(MEM_DESC_CNT - 1) /\ d + 1 = MEM_DESC_CNT - i /\ d \in Descs /\ i < MEM_DESC_CNT
      BY <1>0
    <3>2. block_size[d + 1] = 2 * block_size[d] /\ block_size[d] \in Nat
      BY <1>2, <1>4, <3>1
    <3>3. block_size[d + 1] <= Large
      BY <2>2, <3>1
    <3>4. Large \in Nat
      BY <1>0, <1>4 DEF Large
    <3> QED
      BY <3>2, <3>3, <3>4
  <2>3. Q \in SUBSET Nat
    OBVIOUS
  <2> HIDE DEF Q
  <2> QED
    BY <1>0, <2>1, <2>2, <2>3, Upwards
<1>6. ASSUME NEW d \in Descs PROVE block_size[d] <= Large
  <2>1. MEM_DESC_CNT - d \in 0..MEM_DESC_CNT /\ MEM_DESC_CNT - d < MEM_DESC_CNT
        /\ MEM_DESC_CNT - (MEM_DESC_CNT - d) = d
    BY <1>0
  <2>2. MEM_DESC_CNT - d \in Q
    <3> HIDE DEF Q
    <3> QED
      BY <1>5, <2>1
  <2> QED
    BY <2>1, <2>2
<1> QED
  BY <1>0, <1>4, <1>6

-----------------------------------------------------------------------------
(* The inductive invariant.                                                 *)
BlockSet(p, d) == {arena_2_block(p, d, i) : i \in 0..(blocks_each_arena(d) - 1)}
Small(a) == a.kind = "malloc" /\ a.size <= Large

(* Where an allocation is: whole pages, pages behind a header that counts   *)
(* them, or a block of an arena.                                            *)
PagesAt(a) == /\ a.ptr = Page(a.ptr) * PAGE_SIZE
              /\ \E n \in 1..PAGES : a.size = n * PAGE_SIZE
BigAt(a) == /\ a.ptr = Page(a.ptr) * PAGE_SIZE + ARENA
            /\ arena[Page(a.ptr)] = [desc |-> 0, cnt |-> page_cnt(a.size)]
SmallAt(a) == /\ arena[Page(a.ptr)].desc \in Descs
              /\ a.ptr \in BlockSet(Page(a.ptr), arena[Page(a.ptr)].desc)
              /\ a.size <= block_size[arena[Page(a.ptr)].desc]

Placed ==
  \A a \in live : /\ a.size > 0
                  /\ a.kind = "pages" => PagesAt(a)
                  /\ a.kind = "malloc" /\ ~Small(a) => BigAt(a)
                  /\ Small(a) => SmallAt(a)

(* Only small allocations share a page, and they are different blocks.      *)
Apart ==
  \A a, b \in live : \A q \in PagesOf(a) :
    a # b /\ q \in PagesOf(b) => Small(a) /\ Small(b) /\ a.ptr # b.ptr

(* The bits of the virtual pool; the last one is never set.                 *)
Marked ==
  /\ \A a \in live : \A q \in PagesOf(a) : q \in vm /\ q \notin lost
  /\ \A q \in vm : q \in lost \/ \E a \in live : q \in PagesOf(a)
  /\ lost \subseteq vm
  /\ PAGES - 1 \notin vm

(* The free lists.                                                          *)
ListedRight ==
  \A d \in Descs :
    /\ NoDup(free_list[d])
    /\ \A b \in OnFreeList(d) : /\ Page(b) \in Arenas /\ arena[Page(b)].desc = d
                                /\ b \in BlockSet(Page(b), d)
                                /\ \A a \in live : Small(a) => a.ptr # b

(* A block of an arena is free or in use, and the header counts the free.   *)
ArenasRight ==
  \A p \in Arenas :
    LET d == arena[p].desc
    IN  /\ arena[p].cnt = Cardinality({b \in OnFreeList(d) : Page(b) = p})
        /\ \A b \in BlockSet(p, d) : b \in OnFreeList(d) \/ \E a \in live : Small(a) /\ a.ptr = b

(* NeverStops fails, at the end of the pool only: the kernel stops in       *)
(* bitmap_apply() when the last page, which is never given away, is free    *)
(* and the page before it is not.  As long as two pages are free there,     *)
(* running out of memory is an error return.                                *)
StopsAtEnd == stopped => PAGES - 1 \notin vm /\ PAGES - 2 \in vm

IInv == /\ TypeOK /\ Placed /\ Apart /\ Marked /\ ListedRight /\ ArenasRight /\ StopsAtEnd

-----------------------------------------------------------------------------
(* Addresses, pages and blocks.                                             *)
LEMMA PageSizes ==
  /\ PAGE_SIZE \in Nat \ {0} /\ ARENA \in Nat /\ Large \in Nat \ {0}
  /\ Large <= PAGE_SIZE - ARENA /\ ARENA < PAGE_SIZE /\ PAGES \in Nat \ {0, 1}
<1>1. Large \in Nat \ {0}
  BY BlockSizes DEF Large
<1> QED
  BY <1>1, ArenaAssumption, PagesAssumption

(* The page of an address within it.                                        *)
LEMMA PageIs ==
  ASSUME NEW p \in Nat, NEW r \in 0..(PAGE_SIZE - 1)
  PROVE  Page(p * PAGE_SIZE + r) = p /\ p * PAGE_SIZE \in Nat
<1>1. (p * PAGE_SIZE + r) \div PAGE_SIZE = p
  BY PageSizes, DivideUnique
<1>2. p * PAGE_SIZE \in Nat
  BY PageSizes, Products
<1> QED
  BY <1>1, <1>2 DEF Page

(* Pages are in the order of addresses.                                     *)
LEMMA PageMonotone ==
  ASSUME NEW x \in Nat, NEW y \in Nat
  PROVE  /\ Page(x) \in Nat /\ Page(x) * PAGE_SIZE \in Nat /\ Page(x) * PAGE_SIZE <= x
         /\ x <= y => Page(x) <= Page(y)
<1> DEFINE q == x \div PAGE_SIZE
<1>1. q \in Nat /\ q * PAGE_SIZE \in Nat /\ q * PAGE_SIZE <= x
  <2>1. /\ x \div PAGE_SIZE \in Nat /\ x % PAGE_SIZE \in 0..(PAGE_SIZE - 1)
        /\ (x \div PAGE_SIZE) * PAGE_SIZE \in Nat
        /\ (x \div PAGE_SIZE) * PAGE_SIZE + (x % PAGE_SIZE) = x
    BY PageSizes, Divide
  <2> QED
    BY <2>1, PageSizes
<1> HIDE DEF q
<1>2. x <= y => y \div PAGE_SIZE >= q
  BY <1>1, PageSizes, DivideMonotone
<1>3. y \div PAGE_SIZE \in Nat
  BY PageSizes, Divide
<1> QED
  BY <1>1, <1>2, <1>3 DEF Page, q

(* The blocks of an arena, and its header, fit in a page.                   *)
LEMMA BlockCounts ==
  ASSUME NEW d \in Descs
  PROVE  /\ blocks_each_arena(d) \in Nat \ {0}
         /\ blocks_each_arena(d) * block_size[d] \in Nat
         /\ blocks_each_arena(d) * block_size[d] <= PAGE_SIZE - ARENA
<1> DEFINE space == PAGE_SIZE - ARENA
           z == block_size[d]
<1>1. space \in Nat /\ z \in Nat \ {0} /\ z <= space
  BY PageSizes, BlockSizes
<1> HIDE DEF space, z
<1>2. space \div z \in Nat /\ space % z \in 0..(z - 1) /\ (space \div z) * z \in Nat
      /\ (space \div z) * z + (space % z) = space
  BY <1>1, Divide
<1>3. space \div z >= 1
  <2>1. 1 * z = z
    BY <1>1
  <2>2. space >= 1 * z => space \div z >= 1
    BY <1>1, DivideMonotone
  <2> QED
    BY <1>1, <2>1, <2>2
<1>4. blocks_each_arena(d) = space \div z
  BY DEF blocks_each_arena, space, z
<1>5. (space \div z) \in Nat \ {0} /\ (space \div z) * z <= space
  <2> DEFINE k == space \div z
             product == k * z
             rest == space % z
  <2>1. k \in Nat /\ k >= 1 /\ product \in Nat /\ rest \in 0..(z - 1) /\ product + rest = space
    BY <1>2, <1>3
  <2> HIDE DEF k, product, rest
  <2>2. k \in Nat \ {0} /\ product <= space
    BY <1>1, <2>1
  <2> QED
    BY <2>2 DEF k, product
<1> QED
  BY <1>2, <1>4, <1>5 DEF space, z

(* The first and the last byte of block i.                                  *)
LEMMA BlockInside ==
  ASSUME NEW p \in Nat, NEW d \in Descs, NEW i \in 0..(blocks_each_arena(d) - 1)
  PROVE  /\ i * block_size[d] \in Nat
         /\ i * block_size[d] + block_size[d] <= PAGE_SIZE - ARENA
         /\ p * PAGE_SIZE \in Nat
         /\ arena_2_block(p, d, i) = p * PAGE_SIZE + (ARENA + i * block_size[d])
<1>1. blocks_each_arena(d) \in Nat \ {0} /\ block_size[d] \in Nat /\ i \in Nat /\ i < blocks_each_arena(d)
  BY BlockCounts, BlockSizes
<1>2. i * block_size[d] + block_size[d] <= blocks_each_arena(d) * block_size[d]
      /\ i * block_size[d] \in Nat
  BY <1>1, Products
<1>3. p * PAGE_SIZE \in Nat
  BY PageSizes, Products
<1> QED
  BY <1>1, <1>2, <1>3, BlockCounts, PageSizes DEF arena_2_block

(* A block lies within its page, behind the header.                         *)
LEMMA BlockFacts ==
  ASSUME NEW p \in Nat, NEW d \in Descs, NEW b \in BlockSet(p, d)
  PROVE  /\ b \in Nat /\ Page(b) = p /\ b >= p * PAGE_SIZE + ARENA /\ p * PAGE_SIZE \in Nat
         /\ \A s \in 1..block_size[d] : Page(b + s - 1) = p
<1>1. PICK i \in 0..(blocks_each_arena(d) - 1) : b = arena_2_block(p, d, i)
  BY DEF BlockSet
<1> DEFINE m == i * block_size[d]
<1>2. m \in Nat /\ m + block_size[d] <= PAGE_SIZE - ARENA /\ p * PAGE_SIZE \in Nat
      /\ b = p * PAGE_SIZE + (ARENA + m) /\ block_size[d] \in Nat \ {0}
  BY <1>1, BlockInside, BlockSizes
<1> HIDE DEF m
<1>3. ASSUME NEW s \in 1..block_size[d] PROVE Page(b + s - 1) = p
  <2>1. ARENA + m + s - 1 \in 0..(PAGE_SIZE - 1) /\ b + s - 1 = p * PAGE_SIZE + (ARENA + m + s - 1)
    BY <1>2, PageSizes
  <2> QED
    BY <2>1, PageIs
<1>4. b \in Nat /\ b >= p * PAGE_SIZE + ARENA /\ 1 \in 1..block_size[d] /\ b + 1 - 1 = b
  BY <1>2, PageSizes
<1> QED
  BY <1>2, <1>3, <1>4

(* Two blocks of an arena do not overlap.                                   *)
LEMMA BlocksApart ==
  ASSUME NEW p \in Nat, NEW d \in Descs, NEW b \in BlockSet(p, d), NEW c \in BlockSet(p, d), b # c
  PROVE  b + block_size[d] <= c \/ c + block_size[d] <= b
<1>1. PICK i \in 0..(blocks_each_arena(d) - 1) : b = arena_2_block(p, d, i)
  BY DEF BlockSet
<1>2. PICK j \in 0..(blocks_each_arena(d) - 1) : c = arena_2_block(p, d, j)
  BY DEF BlockSet
<1> DEFINE z == block_size[d]
<1>3. z \in Nat /\ i \in Nat /\ j \in Nat /\ i # j
  BY <1>1, <1>2, BlockSizes, BlockCounts
<1>4. (i < j => i * z + z <= j * z) /\ (j < i => j * z + z <= i * z) /\ i * z \in Nat /\ j * z \in Nat
  <2> HIDE DEF z
  <2> QED
    BY <1>3, Products
<1>5. b = p * PAGE_SIZE + (ARENA + i * z) /\ c = p * PAGE_SIZE + (ARENA + j * z) /\ p * PAGE_SIZE \in Nat
  BY <1>1, <1>2, BlockInside
<1> HIDE DEF z
<1>6. b + z <= c \/ c + z <= b
  BY <1>3, <1>4, <1>5, PageSizes
<1> QED
  BY <1>6 DEF z

(* arena_2_block() gives each index a block of its own.                     *)
LEMMA BlockIndex ==
  ASSUME NEW p \in Nat, NEW d \in Descs,
         NEW i \in 0..(blocks_each_arena(d) - 1), NEW j \in 0..(blocks_each_arena(d) - 1),
         arena_2_block(p, d, i) = arena_2_block(p, d, j)
  PROVE  i = j
<1> DEFINE z == block_size[d]
<1>1. z \in Nat \ {0} /\ i \in Nat /\ j \in Nat
  BY BlockSizes, BlockCounts
<1>2. (i < j => i * z + z <= j * z) /\ (j < i => j * z + z <= i * z) /\ i * z \in Nat /\ j * z \in Nat
  <2> HIDE DEF z
  <2> QED
    BY <1>1, Products
<1>3. /\ arena_2_block(p, d, i) = p * PAGE_SIZE + (ARENA + i * z)
      /\ arena_2_block(p, d, j) = p * PAGE_SIZE + (ARENA + j * z) /\ p * PAGE_SIZE \in Nat
  BY BlockInside
<1> DEFINE iz == i * z
           jz == j * z
           pp == p * PAGE_SIZE
<1>4. /\ (i < j => iz + z <= jz) /\ (j < i => jz + z <= iz) /\ iz \in Nat /\ jz \in Nat
      /\ pp + (ARENA + iz) = pp + (ARENA + jz) /\ pp \in Nat
  BY <1>2, <1>3
<1> HIDE DEF z, iz, jz, pp
<1> QED
  BY <1>1, <1>4, PageSizes

(* An arena has as many blocks as its descriptor says.                      *)
LEMMA BlockSetCount ==
  ASSUME NEW p \in Nat, NEW d \in Descs
  PROVE  IsFiniteSet(BlockSet(p, d)) /\ Cardinality(BlockSet(p, d)) = blocks_each_arena(d)
<1> DEFINE I == 0..(blocks_each_arena(d) - 1)
           f == [i \in I |-> arena_2_block(p, d, i)]
<1>1. f \in Bijection(I, BlockSet(p, d))
  BY BlockIndex DEF BlockSet, Bijection, Injection, Surjection, IsInjective
<1>2. ExistsBijection(I, BlockSet(p, d))
  <2> HIDE DEF f
  <2> QED
    BY <1>1 DEF ExistsBijection
<1>3. IsFiniteSet(I) /\ Cardinality(I) = blocks_each_arena(d)
  BY BlockCounts, FS_Interval
<1> HIDE DEF I
<1> QED
  BY <1>2, <1>3, FS_Bijection

(* The pages of an allocation of whole pages, and of one behind a header.   *)
LEMMA EndOfPages ==
  ASSUME NEW p \in Nat, NEW n \in Nat \ {0}
  PROVE  /\ p * PAGE_SIZE \in Nat /\ n * PAGE_SIZE \in Nat \ {0}
         /\ Page(p * PAGE_SIZE) = p
         /\ Page(p * PAGE_SIZE + n * PAGE_SIZE - 1) = p + n - 1
<1>1. p * PAGE_SIZE \in Nat /\ Page(p * PAGE_SIZE + 0) = p
  BY PageIs, PageSizes
<1>2. n * PAGE_SIZE \in Nat /\ n * PAGE_SIZE = (n - 1) * PAGE_SIZE + PAGE_SIZE
      /\ (n - 1) * PAGE_SIZE \in Nat /\ n - 1 \in Nat
  <2>1. n - 1 \in Nat /\ (n - 1) + 1 = n
    OBVIOUS
  <2>2. (n - 1) * PAGE_SIZE \in Nat /\ ((n - 1) + 1) * PAGE_SIZE = (n - 1) * PAGE_SIZE + PAGE_SIZE
    BY <2>1, PageSizes, Products
  <2> QED
    BY <2>1, <2>2, PageSizes
<1>3. (p + (n - 1)) * PAGE_SIZE = p * PAGE_SIZE + (n - 1) * PAGE_SIZE
  BY PageSizes, SMTT(30)
<1>4. p + (n - 1) \in Nat /\ PAGE_SIZE - 1 \in 0..(PAGE_SIZE - 1)
  BY <1>2, PageSizes
<1>5. Page((p + (n - 1)) * PAGE_SIZE + (PAGE_SIZE - 1)) = p + (n - 1)
  BY <1>4, PageIs
<1>6. (p + (n - 1)) * PAGE_SIZE + (PAGE_SIZE - 1) = p * PAGE_SIZE + n * PAGE_SIZE - 1
  BY <1>1, <1>2, <1>3, PageSizes
<1>7. p * PAGE_SIZE + 0 = p * PAGE_SIZE /\ p + (n - 1) = p + n - 1 /\ n * PAGE_SIZE # 0
  BY <1>1, <1>2, PageSizes
<1> QED
  BY <1>1, <1>2, <1>5, <1>6, <1>7

(* The pages that sys_malloc() takes for a large request are those that it  *)
(* covers, the header included.                                             *)
LEMMA EndOfBig ==
  ASSUME NEW p \in Nat, NEW size \in Nat \ {0}
  PROVE  /\ page_cnt(size) \in Nat \ {0} /\ p * PAGE_SIZE \in Nat
         /\ Page(p * PAGE_SIZE + ARENA) = p
         /\ Page(p * PAGE_SIZE + ARENA + size - 1) = p + page_cnt(size) - 1
<1>1. p * PAGE_SIZE \in Nat /\ Page(p * PAGE_SIZE + ARENA) = p
  BY PageIs, PageSizes
<1> DEFINE m == ARENA + size - 1
           q == m \div PAGE_SIZE
           r == m % PAGE_SIZE
<1>2. m \in Nat
  BY PageSizes
<1>3. q \in Nat /\ q * PAGE_SIZE \in Nat /\ q * PAGE_SIZE + r = m /\ r \in 0..(PAGE_SIZE - 1)
  <2> HIDE DEF m
  <2> QED
    BY <1>2, PageSizes, Divide
<1> HIDE DEF q, r
<1>4. page_cnt(size) = q + 1
  <2>1. q + 1 \in Nat /\ (q + 1) * PAGE_SIZE = q * PAGE_SIZE + PAGE_SIZE
    BY <1>3, PageSizes, Products
  <2>2. size + ARENA + PAGE_SIZE - 1 = (q + 1) * PAGE_SIZE + r
    BY <1>3, <2>1, PageSizes
  <2>3. ((q + 1) * PAGE_SIZE + r) \div PAGE_SIZE = q + 1
    BY <1>3, <2>1, PageSizes, DivideUnique
  <2> QED
    BY <2>2, <2>3 DEF page_cnt
<1>5. p + q \in Nat /\ (p + q) * PAGE_SIZE = p * PAGE_SIZE + q * PAGE_SIZE
  BY <1>3, PageSizes, SMTT(30)
<1>6. Page((p + q) * PAGE_SIZE + r) = p + q
  BY <1>3, <1>5, PageIs
<1>7. (p + q) * PAGE_SIZE + r = p * PAGE_SIZE + ARENA + size - 1
  BY <1>1, <1>3, <1>5, PageSizes
<1>8. p + q = p + (q + 1) - 1 /\ q + 1 \in Nat \ {0}
  BY <1>3
<1> QED
  BY <1>1, <1>4, <1>6, <1>7, <1>8

-----------------------------------------------------------------------------
(* Lists without duplicates.                                                *)
LEMMA PopKeeps ==
  ASSUME NEW s \in Seq(Nat), s # <<>>, NoDup(s)
  PROVE  /\ Tail(s) \in Seq(Nat) /\ NoDup(Tail(s))
         /\ Head(s) \in Elems(s) /\ Elems(Tail(s)) = Elems(s) \ {Head(s)}
<1>1. Tail(s) \in Seq(Nat) /\ Len(Tail(s)) = Len(s) - 1 /\ Len(s) \in Nat \ {0} /\ Head(s) = s[1]
      /\ \A i \in 1..(Len(s) - 1) : Tail(s)[i] = s[i + 1]
  BY HeadTailProperties
<1>2. NoDup(Tail(s))
  BY <1>1 DEF NoDup
<1>3. Head(s) \in Elems(s)
  BY <1>1 DEF Elems
<1>4. ASSUME NEW x \in Elems(Tail(s)) PROVE x \in Elems(s) \ {Head(s)}
  <2>1. PICK i \in 1..(Len(s) - 1) : x = s[i + 1]
    BY <1>1 DEF Elems
  <2>2. i + 1 \in 1..Len(s) /\ i + 1 # 1 /\ 1 \in 1..Len(s)
    BY <1>1
  <2> QED
    BY <1>1, <2>1, <2>2 DEF Elems, NoDup
<1>5. ASSUME NEW x \in Elems(s), x # Head(s) PROVE x \in Elems(Tail(s))
  <2>1. PICK i \in 1..Len(s) : x = s[i]
    BY DEF Elems
  <2>2. i # 1 /\ i - 1 \in 1..(Len(s) - 1) /\ (i - 1) + 1 = i
    BY <1>1, <1>5, <2>1
  <2>3. Tail(s)[i - 1] = x
    BY <1>1, <2>1, <2>2
  <2> QED
    BY <1>1, <2>2, <2>3 DEF Elems
<1> QED
  BY <1>1, <1>2, <1>3, <1>4, <1>5

(* What sys_free() does to a free list.                                     *)
LEMMA AppendKeeps ==
  ASSUME NEW s \in Seq(Nat), NEW x \in Nat, NoDup(s), x \notin Elems(s)
  PROVE  /\ Append(s, x) \in Seq(Nat) /\ NoDup(Append(s, x))
         /\ Elems(Append(s, x)) = Elems(s) \union {x}
<1> DEFINE t == Append(s, x)
<1>1. t \in Seq(Nat) /\ Len(t) = Len(s) + 1 /\ Len(s) \in Nat /\ t[Len(s) + 1] = x
      /\ \A i \in 1..Len(s) : t[i] = s[i]
  BY AppendProperties
<1> HIDE DEF t
<1>2. \A i \in 1..Len(t) : i \in 1..Len(s) \/ i = Len(s) + 1
  BY <1>1
<1>3. \A i \in 1..Len(s) : s[i] # x
  BY DEF Elems
<1>4. NoDup(t)
  <2> SUFFICES ASSUME NEW i \in 1..Len(t), NEW j \in 1..Len(t), t[i] = t[j] PROVE i = j
    BY DEF NoDup
  <2>1. CASE i \in 1..Len(s) /\ j \in 1..Len(s)
    BY <1>1, <2>1 DEF NoDup
  <2>2. CASE i = Len(s) + 1 \/ j = Len(s) + 1
    BY <1>1, <1>2, <1>3, <2>2
  <2> QED
    BY <1>2, <2>1, <2>2
<1>5. Elems(t) = Elems(s) \union {x}
  <2>1. ASSUME NEW y \in Elems(t) PROVE y \in Elems(s) \union {x}
    BY <1>1, <1>2 DEF Elems
  <2>2. ASSUME NEW y \in Elems(s) PROVE y \in Elems(t)
    <3>1. PICK i \in 1..Len(s) : y = s[i]
      BY DEF Elems
    <3>2. i \in 1..Len(t) /\ t[i] = y
      BY <1>1, <3>1
    <3> QED
      BY <3>2 DEF Elems
  <2>3. x \in Elems(t)
    <3>1. Len(s) + 1 \in 1..Len(t)
      BY <1>1
    <3> QED
      BY <1>1, <3>1 DEF Elems
  <2> QED
    BY <2>1, <2>2, <2>3
<1> QED
  BY <1>1, <1>4, <1>5 DEF t

(* list_del_safe() of one block.                                            *)
LEMMA RemoveKeeps ==
  ASSUME NEW s \in Seq(Nat), NEW x, NoDup(s)
  PROVE  /\ RemoveFirst(s, x) \in Seq(Nat) /\ NoDup(RemoveFirst(s, x))
         /\ Elems(RemoveFirst(s, x)) = Elems(s) \ {x}
<1>1. CASE ~\E i \in 1..Len(s) : s[i] = x
  <2>1. RemoveFirst(s, x) = s
    BY <1>1 DEF RemoveFirst
  <2> QED
    BY <1>1, <2>1 DEF Elems
<1>2. CASE \E i \in 1..Len(s) : s[i] = x
  <2> DEFINE I == {i \in 1..Len(s) : s[i] = x}
             k == Min(I)
             t == SubSeq(s, 1, k - 1) \o SubSeq(s, k + 1, Len(s))
  <2>1. RemoveFirst(s, x) = t
    BY <1>2 DEF RemoveFirst, RemoveAt, SelectInSeq
  <2>2. k \in I
    <3>1. I \in SUBSET Nat /\ I # {}
      BY <1>2
    <3> HIDE DEF I
    <3>2. PICK i \in I : \A j \in I : i <= j
      BY <3>1, LeastNat
    <3> QED
      BY <3>2 DEF Min
  <2>3. k \in 1..Len(s) /\ s[k] = x /\ Len(s) \in Nat
    BY <2>2
  <2> HIDE DEF k
  <2>4. /\ t \in Seq(Nat) /\ Len(t) = Len(s) - 1
        /\ \A i \in 1..(Len(s) - 1) : t[i] = IF i < k THEN s[i] ELSE s[i + 1]
    <3> DEFINE u == SubSeq(s, 1, k - 1)
               v == SubSeq(s, k + 1, Len(s))
    <3>1. u \in Seq(Nat) /\ Len(u) = k - 1 /\ \A i \in 1..(k - 1) : u[i] = s[i]
      <4>1. \A i \in 1..(k - 1) : s[i] \in Nat
        BY <2>3
      <4>2. /\ u \in Seq(Nat) /\ Len(u) = (IF 1 <= k - 1 THEN (k - 1) - 1 + 1 ELSE 0)
            /\ \A i \in 1..((k - 1) - 1 + 1) : u[i] = s[1 + i - 1]
        BY <2>3, <4>1, SubSeqProperties
      <4> QED
        BY <2>3, <4>2
    <3>2. v \in Seq(Nat) /\ Len(v) = Len(s) - k /\ \A i \in 1..(Len(s) - k) : v[i] = s[k + i]
      <4>1. \A i \in (k + 1)..Len(s) : s[i] \in Nat
        BY <2>3
      <4>2. /\ v \in Seq(Nat) /\ Len(v) = (IF k + 1 <= Len(s) THEN Len(s) - (k + 1) + 1 ELSE 0)
            /\ \A i \in 1..(Len(s) - (k + 1) + 1) : v[i] = s[(k + 1) + i - 1]
        BY <2>3, <4>1, SubSeqProperties
      <4> QED
        BY <2>3, <4>2
    <3> HIDE DEF u, v
    <3>3. u \o v \in Seq(Nat) /\ Len(u \o v) = Len(u) + Len(v)
          /\ \A i \in 1..(Len(u) + Len(v)) : (u \o v)[i] = IF i <= Len(u) THEN u[i] ELSE v[i - Len(u)]
      BY <3>1, <3>2, ConcatProperties
    <3>4. ASSUME NEW i \in 1..(Len(s) - 1) PROVE (u \o v)[i] = IF i < k THEN s[i] ELSE s[i + 1]
      <4>1. CASE i < k
        BY <2>3, <3>1, <3>2, <3>3, <4>1
      <4>2. CASE ~(i < k)
        <5>1. i - Len(u) \in 1..(Len(s) - k) /\ ~(i <= Len(u)) /\ k + (i - Len(u)) = i + 1
              /\ i \in 1..(Len(u) + Len(v))
          BY <2>3, <3>1, <3>2, <4>2
        <5>2. v[i - Len(u)] = s[i + 1]
          BY <3>2, <5>1
        <5> QED
          BY <3>3, <4>2, <5>1, <5>2
      <4> QED
        BY <4>1, <4>2
    <3>5. Len(u \o v) = Len(s) - 1
      BY <2>3, <3>1, <3>2, <3>3
    <3>6. t = u \o v
      BY DEF u, v
    <3> HIDE DEF t
    <3> QED
      BY <3>3, <3>4, <3>5, <3>6
  <2> HIDE DEF t
  <2>4a. ASSUME NEW i \in 1..(Len(s) - 1)
         PROVE  \E m \in 1..Len(s) : t[i] = s[m] /\ (m < k => i = m) /\ (m > k => i = m - 1) /\ m # k
    <3>1. CASE i < k
      <4>1. i \in 1..Len(s) /\ ~(i > k) /\ i # k
        BY <2>3, <3>1
      <4>2. t[i] = s[i]
        BY <2>4, <3>1
      <4> QED
        BY <4>1, <4>2
    <3>2. CASE ~(i < k)
      <4>1. i + 1 \in 1..Len(s) /\ ~(i + 1 < k) /\ i = (i + 1) - 1 /\ i + 1 # k
        BY <2>3, <3>2
      <4>2. t[i] = s[i + 1]
        BY <2>4, <3>2
      <4> QED
        BY <4>1, <4>2
    <3> QED
      BY <3>1, <3>2
  <2>5. NoDup(t)
    <3> SUFFICES ASSUME NEW i \in 1..Len(t), NEW j \in 1..Len(t), t[i] = t[j] PROVE i = j
      BY DEF NoDup
    <3>0. i \in 1..(Len(s) - 1) /\ j \in 1..(Len(s) - 1)
      BY <2>4
    <3>1. PICK m \in 1..Len(s) : t[i] = s[m] /\ (m < k => i = m) /\ (m > k => i = m - 1) /\ m # k
      BY <2>4a, <3>0
    <3>2. PICK n \in 1..Len(s) : t[j] = s[n] /\ (n < k => j = n) /\ (n > k => j = n - 1) /\ n # k
      BY <2>4a, <3>0
    <3>3. m = n
      BY <3>1, <3>2 DEF NoDup
    <3> QED
      BY <2>3, <3>1, <3>2, <3>3
  <2>6. ASSUME NEW y \in Elems(t) PROVE y \in Elems(s) \ {x}
    <3>1. PICK i \in 1..(Len(s) - 1) : y = t[i]
      BY <2>4 DEF Elems
    <3>2. PICK j \in 1..Len(s) : j # k /\ y = s[j]
      BY <2>4a, <3>1
    <3> QED
      BY <2>3, <3>2 DEF Elems, NoDup
  <2>7. ASSUME NEW y \in Elems(s), y # x PROVE y \in Elems(t)
    <3>1. PICK j \in 1..Len(s) : y = s[j]
      BY DEF Elems
    <3>2. PICK i \in 1..(Len(s) - 1) : y = t[i]
      <4>1. CASE j < k
        <5>1. j \in 1..(Len(s) - 1)
          BY <2>3, <4>1
        <5>2. t[j] = s[j]
          BY <2>4, <4>1, <5>1
        <5> QED
          BY <3>1, <5>1, <5>2
      <4>2. CASE j > k
        <5>1. j - 1 \in 1..(Len(s) - 1) /\ ~(j - 1 < k) /\ (j - 1) + 1 = j
          BY <2>3, <4>2
        <5>2. t[j - 1] = s[j]
          BY <2>4, <5>1
        <5> QED
          BY <3>1, <5>1, <5>2
      <4>3. j # k
        BY <2>3, <2>7, <3>1
      <4> QED
        BY <2>3, <4>1, <4>2, <4>3
    <3> QED
      BY <2>4, <3>2 DEF Elems
  <2> QED
    BY <2>1, <2>4, <2>5, <2>6, <2>7
<1> QED
  BY <1>1, <1>2

(* list_del_safe() of the first n blocks of the arena in page p takes those *)
(* off the list and nothing else.                                           *)
LEMMA DelBlocks ==
  ASSUME NEW q \in Seq(Nat), NoDup(q), NEW p, NEW d, NEW n \in Nat
  PROVE  /\ del_blocks(q, p, d, n) \in Seq(Nat) /\ NoDup(del_blocks(q, p, d, n))
         /\ Elems(del_blocks(q, p, d, n)) =
              Elems(q) \ {arena_2_block(p, d, i) : i \in 0..(n - 1)}
<1> DEFINE S == {s \in Seq(Nat) : NoDup(s)}
           del == CHOOSE f : f = [i \in 0..n |-> IF i = 0 THEN q
                                                ELSE RemoveFirst(f[i - 1], arena_2_block(p, d, i - 1))]
           G == [x \in (0..n) \X S |-> RemoveFirst(x[2], arena_2_block(p, d, x[1] - 1))]
           gone(k) == {arena_2_block(p, d, i) : i \in 0..(k - 1)}
<1>1. del_blocks(q, p, d, n) = del[n]
  BY DEF del_blocks
<1>2. q \in S /\ \A s \in S : \A x : RemoveFirst(s, x) \in S
  BY RemoveKeeps
<1>3. G \in [(0..n) \X S -> S]
  <2> HIDE DEF S
  <2> QED
    BY <1>2
<1>4. PICK f : Recursive(f, n, S, q, G)
  <2> HIDE DEF S, G
  <2> QED
    BY <1>2, <1>3, RecursionExists
<1>5. f \in [0..n -> S] /\ f[0] = q
      /\ \A i \in 1..n : f[i] = RemoveFirst(f[i - 1], arena_2_block(p, d, i - 1))
  <2> HIDE DEF S
  <2>1. f \in [0..n -> S] /\ f[0] = q /\ \A i \in 1..n : f[i] = G[<<i, f[i - 1]>>]
    <3> HIDE DEF G
    <3> QED
      BY <1>4 DEF Recursive
  <2>2. \A i \in 1..n : <<i, f[i - 1]>> \in (0..n) \X S
    BY <2>1
  <2> QED
    BY <2>1, <2>2
<1>6. f = [i \in 0..n |-> IF i = 0 THEN q ELSE RemoveFirst(f[i - 1], arena_2_block(p, d, i - 1))]
  <2> HIDE DEF S
  <2> QED
    BY <1>5
<1>7. del = [i \in 0..n |-> IF i = 0 THEN q ELSE RemoveFirst(del[i - 1], arena_2_block(p, d, i - 1))]
  BY <1>6, Zenon
<1> HIDE DEF del
<1>8. del[0] = q /\ \A i \in 0..(n - 1) : del[i + 1] = RemoveFirst(del[i], arena_2_block(p, d, i))
  <2>1. del[0] = q
    BY <1>7
  <2>2. ASSUME NEW i \in 0..(n - 1) PROVE del[i + 1] = RemoveFirst(del[i], arena_2_block(p, d, i))
    <3>1. i + 1 \in 0..n /\ i + 1 # 0 /\ (i + 1) - 1 = i
      OBVIOUS
    <3> QED
      BY <1>7, <3>1
  <2> QED
    BY <2>1, <2>2
<1> DEFINE P == {k \in Nat : del[k] \in S /\ Elems(del[k]) = Elems(q) \ gone(k)}
<1>9. 0 \in P
  <2>1. gone(0) = {}
    OBVIOUS
  <2> HIDE DEF S, gone
  <2> QED
    BY <1>2, <1>8, <2>1
<1>10. ASSUME NEW k \in 0..(n - 1), k \in P PROVE k + 1 \in P
  <2>1. del[k] \in Seq(Nat) /\ NoDup(del[k]) /\ Elems(del[k]) = Elems(q) \ gone(k)
    BY <1>10
  <2>2. del[k + 1] = RemoveFirst(del[k], arena_2_block(p, d, k))
    BY <1>8
  <2>3. del[k + 1] \in S /\ Elems(del[k + 1]) = Elems(del[k]) \ {arena_2_block(p, d, k)}
    BY <2>1, <2>2, RemoveKeeps
  <2>4. gone(k + 1) = gone(k) \union {arena_2_block(p, d, k)}
    <3>1. \A i : i \in 0..((k + 1) - 1) <=> i \in 0..(k - 1) \/ i = k
      OBVIOUS
    <3> QED
      BY <3>1
  <2>5. k + 1 \in Nat
    OBVIOUS
  <2> HIDE DEF S, gone
  <2> QED
    BY <2>1, <2>3, <2>4, <2>5
<1>11. n \in P
  <2>1. P \in SUBSET Nat
    OBVIOUS
  <2> HIDE DEF P
  <2>2. 0..n \subseteq P
    BY <1>9, <1>10, <2>1, Upwards
  <2> QED
    BY <2>2
<1> QED
  BY <1>1, <1>11

-----------------------------------------------------------------------------
(* The pages of an allocation.                                              *)
Alloc == [ptr : Nat, size : Nat, kind : {"pages", "malloc"}]

(* An allocation covers the page of its pointer.                            *)
LEMMA FirstPage ==
  ASSUME NEW a \in Alloc, a.size > 0
  PROVE  /\ Page(a.ptr) \in Nat /\ Page(a.ptr) \in PagesOf(a)
         /\ \A x \in Bytes(a) : x \in Nat /\ Page(x) \in PagesOf(a)
<1> DEFINE p == a.ptr
           e == a.ptr + a.size - 1
<1>1. p \in Nat /\ e \in Nat /\ p <= e /\ a.size \in Nat
  BY DEF Alloc
<1>2. ASSUME NEW x \in p..e PROVE x \in Nat /\ Page(x) \in Page(p)..Page(e)
  <2>1. x \in Nat /\ p <= x /\ x <= e
    BY <1>1, <1>2
  <2>2. Page(p) <= Page(x) /\ Page(x) <= Page(e) /\ Page(p) \in Nat /\ Page(x) \in Nat /\ Page(e) \in Nat
    <3> HIDE DEF p, e
    <3> QED
      BY <1>1, <2>1, PageMonotone
  <2> QED
    BY <2>1, <2>2
<1>3. p \in p..e
  BY <1>1
<1>4. Page(p) \in Nat
  BY <1>1, PageMonotone
<1> QED
  BY <1>2, <1>3, <1>4 DEF PagesOf, Bytes

(* A block covers one page.                                                 *)
LEMMA SmallPages ==
  ASSUME NEW a \in Alloc, a.size > 0, NEW d \in Descs,
         a.ptr \in BlockSet(Page(a.ptr), d), a.size <= block_size[d]
  PROVE  PagesOf(a) = {Page(a.ptr)}
<1>1. Page(a.ptr) \in Nat /\ block_size[d] \in Nat /\ a.size \in Nat
  BY FirstPage, BlockSizes DEF Alloc
<1>2. a.size \in 1..block_size[d]
  BY <1>1
<1>3. Page(a.ptr + a.size - 1) = Page(a.ptr)
  BY <1>1, <1>2, BlockFacts
<1> QED
  BY <1>1, <1>3 DEF PagesOf

(* An allocation behind a header covers the pages that the header counts.   *)
LEMMA BigPages ==
  ASSUME NEW a \in Alloc, a.size > 0, a.ptr = Page(a.ptr) * PAGE_SIZE + ARENA
  PROVE  /\ page_cnt(a.size) \in Nat \ {0}
         /\ PagesOf(a) = Page(a.ptr)..(Page(a.ptr) + page_cnt(a.size) - 1)
<1> DEFINE p == Page(a.ptr)
<1>1. p \in Nat /\ a.size \in Nat \ {0}
  BY FirstPage DEF Alloc
<1>2. /\ page_cnt(a.size) \in Nat \ {0}
      /\ Page(p * PAGE_SIZE + ARENA + a.size - 1) = p + page_cnt(a.size) - 1
  <2> HIDE DEF p
  <2> QED
    BY <1>1, EndOfBig
<1>3. Page(a.ptr + a.size - 1) = p + page_cnt(a.size) - 1
  BY <1>2
<1> QED
  BY <1>2, <1>3 DEF PagesOf

(* A page is an arena while one of its blocks is in use.                    *)
LEMMA ArenasAre == \A p : p \in Arenas <=> \E a \in live : Small(a) /\ p = Page(a.ptr)
BY DEF Arenas, Small

(* What the invariant says of an allocation and of an arena.                *)
LEMMA LiveFacts ==
  ASSUME IInv, NEW a \in live
  PROVE  /\ a \in Alloc /\ a.size > 0 /\ Page(a.ptr) \in PagesOf(a)
         /\ \A q \in PagesOf(a) : q \in vm /\ q \notin lost /\ q \in 0..(PAGES - 2)
         /\ Small(a) => /\ PagesOf(a) = {Page(a.ptr)} /\ Page(a.ptr) \in Arenas
                        /\ arena[Page(a.ptr)].desc \in Descs
<1>1. a \in Alloc /\ a.size > 0
  BY DEF IInv, TypeOK, Placed, Alloc
<1>2. Page(a.ptr) \in PagesOf(a)
  BY <1>1, FirstPage
<1>3. \A q \in PagesOf(a) : q \in vm /\ q \notin lost /\ q \in 0..(PAGES - 2)
  <2> SUFFICES ASSUME NEW q \in PagesOf(a) PROVE q \in vm /\ q \notin lost /\ q \in 0..(PAGES - 2)
    OBVIOUS
  <2>1. q \in vm /\ q \notin lost /\ q \in 0..(PAGES - 1) /\ PAGES - 1 \notin vm
    BY DEF IInv, TypeOK, Marked
  <2> QED
    BY <2>1, PageSizes
<1>4. ASSUME Small(a) PROVE /\ PagesOf(a) = {Page(a.ptr)} /\ Page(a.ptr) \in Arenas
                            /\ arena[Page(a.ptr)].desc \in Descs
  <2>1. SmallAt(a)
    BY <1>4 DEF IInv, Placed
  <2> QED
    BY <1>1, <1>4, <2>1, SmallPages, ArenasAre DEF SmallAt
<1> QED
  BY <1>1, <1>2, <1>3, <1>4

(* A page that is an arena holds nothing but blocks.                        *)
LEMMA ArenaFacts ==
  ASSUME IInv, NEW p \in Arenas
  PROVE  /\ p \in 0..(PAGES - 2) /\ p \in Nat /\ p \in vm /\ p \notin lost
         /\ arena[p].desc \in Descs
         /\ \A a \in live : p \in PagesOf(a) => Small(a) /\ Page(a.ptr) = p
<1>1. PICK c \in live : Small(c) /\ p = Page(c.ptr)
  BY ArenasAre
<1>2. p \in PagesOf(c) /\ p \in 0..(PAGES - 2) /\ p \in vm /\ p \notin lost /\ arena[p].desc \in Descs
  BY <1>1, LiveFacts
<1>3. ASSUME NEW a \in live, p \in PagesOf(a) PROVE Small(a) /\ Page(a.ptr) = p
  <2>1. Small(a)
    BY <1>1, <1>2, <1>3 DEF IInv, Apart
  <2>2. PagesOf(a) = {Page(a.ptr)}
    BY <2>1, LiveFacts
  <2> QED
    BY <1>3, <2>1, <2>2
<1> QED
  BY <1>2, <1>3

(* The free list of a descriptor has each block once, all of them of arenas *)
(* of that size.                                                            *)
LEMMA ListFacts ==
  ASSUME IInv, NEW d \in Descs
  PROVE  /\ free_list[d] \in Seq(Nat) /\ NoDup(free_list[d]) /\ OnFreeList(d) = Elems(free_list[d])
         /\ IsFiniteSet(OnFreeList(d)) /\ Cardinality(OnFreeList(d)) = Len(free_list[d])
         /\ \A b \in OnFreeList(d) : /\ Page(b) \in Arenas /\ arena[Page(b)].desc = d
                                     /\ b \in BlockSet(Page(b), d) /\ b \in Nat
                                     /\ \A a \in live : Small(a) => a.ptr # b
<1>1. free_list[d] \in Seq(Nat) /\ NoDup(free_list[d])
  BY DEF IInv, TypeOK, ListedRight
<1>2. OnFreeList(d) = Elems(free_list[d])
  BY DEF OnFreeList, Elems
<1>3. ASSUME NEW b \in OnFreeList(d)
      PROVE  /\ Page(b) \in Arenas /\ arena[Page(b)].desc = d
             /\ b \in BlockSet(Page(b), d) /\ b \in Nat
             /\ \A a \in live : Small(a) => a.ptr # b
  <2>1. b \in Nat
    BY <1>1, <1>2 DEF Elems
  <2> QED
    BY <2>1 DEF IInv, ListedRight
<1> QED
  BY <1>1, <1>2, <1>3, ElemsCount

(* The invariant says that nothing overlaps: two allocations on one page    *)
(* are two blocks of one arena.                                             *)
LEMMA InvNoOverlap == IInv => NoOverlap
<1> SUFFICES ASSUME IInv PROVE NoOverlap
  OBVIOUS
<1>1. ASSUME NEW a \in live, NEW b \in live, a # b, NEW x \in Bytes(a), x \in Bytes(b) PROVE FALSE
  <2>1. Page(x) \in PagesOf(a) /\ Page(x) \in PagesOf(b) /\ a \in Alloc /\ b \in Alloc
    BY <1>1, LiveFacts, FirstPage
  <2>2. Small(a) /\ Small(b) /\ a.ptr # b.ptr
    BY <1>1, <2>1 DEF IInv, Apart
  <2> DEFINE p == Page(x)
             d == arena[p].desc
  <2>3. Page(a.ptr) = p /\ Page(b.ptr) = p /\ d \in Descs /\ p \in Nat
    BY <2>1, <2>2, LiveFacts, FirstPage
  <2>4. /\ a.ptr \in BlockSet(p, d) /\ b.ptr \in BlockSet(p, d)
        /\ a.size <= block_size[d] /\ b.size <= block_size[d]
    BY <2>2, <2>3 DEF IInv, Placed, SmallAt
  <2>5. a.ptr + block_size[d] <= b.ptr \/ b.ptr + block_size[d] <= a.ptr
    <3> HIDE DEF p, d
    <3> QED
      BY <2>2, <2>3, <2>4, BlocksApart
  <2>6. block_size[d] \in Nat /\ a.ptr \in Nat /\ b.ptr \in Nat /\ a.size \in Nat /\ b.size \in Nat
        /\ x \in a.ptr..(a.ptr + a.size - 1) /\ x \in b.ptr..(b.ptr + b.size - 1)
    BY <1>1, <2>1, <2>3, BlockSizes DEF Alloc, Bytes
  <2> HIDE DEF p, d
  <2> QED
    BY <2>4, <2>5, <2>6
<1>2. ASSUME NEW a \in live PROVE PagesOf(a) \subseteq vm
  BY LiveFacts
<1>3. ASSUME NEW a \in live, NEW e \in Descs, NEW b \in OnFreeList(e), b \in Bytes(a) PROVE FALSE
  <2> DEFINE p == Page(b)
  <2>1. p \in Arenas /\ arena[p].desc = e /\ b \in BlockSet(p, e) /\ (Small(a) => a.ptr # b)
    BY ListFacts
  <2>2. p \in PagesOf(a) /\ a \in Alloc /\ b \in a.ptr..(a.ptr + a.size - 1)
    BY <1>3, LiveFacts, FirstPage DEF Bytes
  <2>3. Small(a) /\ Page(a.ptr) = p /\ p \in Nat
    BY <2>1, <2>2, ArenaFacts
  <2>4. a.ptr \in BlockSet(p, e) /\ a.size <= block_size[e]
    BY <2>1, <2>3 DEF IInv, Placed, SmallAt
  <2>5. a.ptr + block_size[e] <= b \/ b + block_size[e] <= a.ptr
    <3> HIDE DEF p
    <3> QED
      BY <2>1, <2>3, <2>4, BlocksApart
  <2>6. block_size[e] \in Nat \ {0} /\ a.ptr \in Nat /\ a.size \in Nat /\ b \in Nat
    BY <2>2, BlockSizes, ListFacts DEF Alloc
  <2> HIDE DEF p
  <2> QED
    BY <2>2, <2>4, <2>5, <2>6
<1>4. ASSUME NEW a \in live, a.kind = "malloc", NEW i \in 0..(ARENA - 1),
             Page(a.ptr) * PAGE_SIZE + i \in Bytes(a)
      PROVE  FALSE
  <2> DEFINE p == Page(a.ptr)
  <2>1. p \in Nat /\ a \in Alloc /\ a.ptr \in Nat /\ a.size \in Nat
    BY LiveFacts, FirstPage DEF Alloc
  <2>2. a.ptr >= p * PAGE_SIZE + ARENA
    <3>1. CASE Small(a)
      <4> DEFINE d == arena[p].desc
      <4>1. a.ptr \in BlockSet(p, d) /\ d \in Descs
        BY <3>1 DEF IInv, Placed, SmallAt
      <4> HIDE DEF p, d
      <4> QED
        BY <2>1, <4>1, BlockFacts
    <3>2. CASE ~Small(a)
      <4>1. a.ptr = p * PAGE_SIZE + ARENA
        BY <1>4, <3>2 DEF IInv, Placed, BigAt
      <4>2. p * PAGE_SIZE \in Nat
        BY <2>1, PageSizes, Products
      <4> HIDE DEF p
      <4> QED
        BY <4>1, <4>2, PageSizes
    <3> QED
      BY <3>1, <3>2
  <2>3. p * PAGE_SIZE \in Nat
    BY <2>1, PageSizes, Products
  <2>4. p * PAGE_SIZE + i >= a.ptr
    BY <1>4, <2>1 DEF Bytes
  <2> HIDE DEF p
  <2> QED
    BY <2>1, <2>2, <2>3, <2>4, PageSizes
<1> QED
  <2>1. \A a, b \in live : a # b => Bytes(a) \intersect Bytes(b) = {}
    BY <1>1
  <2>2. \A a \in live, d \in Descs : Bytes(a) \intersect OnFreeList(d) = {}
    BY <1>3
  <2>3. \A a \in live : a.kind = "malloc" =>
          Bytes(a) \intersect {Page(a.ptr) * PAGE_SIZE + i : i \in 0..(ARENA - 1)} = {}
    BY <1>4
  <2> QED
    BY <1>2, <2>1, <2>2, <2>3 DEF NoOverlap

(* The invariant says that the counts are right.                            *)
LEMMA InvArenasCount == IInv => ArenasCount
<1> SUFFICES ASSUME IInv PROVE ArenasCount
  OBVIOUS
<1>1. \A d \in Descs : \A b \in OnFreeList(d) : Page(b) \in Arenas /\ arena[Page(b)].desc = d
  BY ListFacts
<1>2. ASSUME NEW p \in Arenas
      PROVE  /\ arena[p].desc # 0
             /\ arena[p].cnt = Cardinality({b \in OnFreeList(arena[p].desc) : Page(b) = p})
  BY ArenaFacts DEF IInv, ArenasRight, Descs
<1>3. \A d \in Descs : Cardinality(OnFreeList(d)) = Len(free_list[d])
  BY ListFacts
<1> QED
  BY <1>1, <1>2, <1>3 DEF ArenasCount

(* FreedPagesReturn fails: vaddr_free() leaks pages since bitmap_set_bits() *)
(* clears only one bit.  The pages marked as used are exactly those of what *)
(* is allocated and, for each freed allocation of several pages, all but    *)
(* its first page.                                                          *)
LosesOnlyTails == vm \ UNION {PagesOf(a) : a \in live} = lost

(* The invariant says which pages are lost.                                 *)
LEMMA InvLosesOnlyTails == IInv => LosesOnlyTails
<1> SUFFICES ASSUME IInv PROVE LosesOnlyTails
  OBVIOUS
<1> QED
  BY DEF IInv, Marked, LosesOnlyTails

(* The invariant holds after mem_init().                                    *)
LEMMA InitInv == Init => IInv
<1> SUFFICES ASSUME Init PROVE IInv
  OBVIOUS
<1>1. TypeOK
  <2>1. NoArena \in [desc : 0..MEM_DESC_CNT, cnt : Nat]
    BY DescAssumption DEF NoArena
  <2>2. <<>> \in Seq(Nat)
    OBVIOUS
  <2> QED
    BY <2>1, <2>2 DEF Init, TypeOK, bitmap_zero
<1>2. Placed /\ Apart /\ Marked /\ StopsAtEnd
  BY DEF Init, Placed, Apart, Marked, StopsAtEnd, bitmap_zero
<1>3. ListedRight
  BY DEF Init, ListedRight, NoDup, OnFreeList
<1>4. ArenasRight
  BY DEF Init, ArenasRight, Arenas
<1> QED
  BY <1>1, <1>2, <1>3, <1>4 DEF IInv

-----------------------------------------------------------------------------
(* What bitmap_apply() gives away is free, and is not the last page; it     *)
(* stops the kernel only when the page before the last is in use.           *)
LEMMA Applied ==
  ASSUME IInv, NEW n \in Nat \ {0}, NEW p, p = bitmap_apply(vm, PAGES, n), p # NONE
  PROVE  /\ p \in {STOP, SPIN} => PAGES - 2 \in vm
         /\ p \notin {STOP, SPIN} => /\ p \in Nat /\ p + n - 1 \in Nat /\ p \in p..(p + n - 1)
                                     /\ \A q \in p..(p + n - 1) : q \in 0..(PAGES - 2) /\ q \notin vm
<1>1. PAGES \in Nat \ {0, 1} /\ PAGES - 1 \notin vm
  BY PageSizes DEF IInv, Marked
<1>2. Returns(vm, PAGES, n, p) \/ (p = SPIN /\ PAGES - 1 \in vm)
  <2>1. \/ Returns(vm, PAGES, n, bitmap_apply(vm, PAGES, n))
        \/ /\ bitmap_apply(vm, PAGES, n) = SPIN
           /\ Fits(vm, PAGES, n) = {} /\ PAGES - 1 \in vm
    BY <1>1, ApplyFinds
  <2> QED
    BY <2>1
<1>3. Returns(vm, PAGES, n, p)
  BY <1>1, <1>2
<1>4. CASE p = STOP
  <2>1. LastBits(vm, PAGES)
    <3>1. p \notin Nat
      BY <1>4 DEF STOP
    <3>2. p \notin Fits(vm, PAGES, n)
      BY <1>1, <3>1 DEF Fits
    <3> QED
      BY <1>3, <1>4, <3>2 DEF Returns, NONE, STOP
  <2> QED
    BY <1>1, <1>4, <2>1 DEF LastBits
<1>5. CASE p # STOP
  <2>1. p \in Fits(vm, PAGES, n)
    BY <1>3, <1>5 DEF Returns
  <2>2. p \in 0..(PAGES - 1) /\ p + n - 1 < PAGES - 1 /\ \A k \in p..(p + n - 1) : k \notin vm
    BY <1>1, <2>1, FitsMember
  <2> QED
    BY <1>1, <1>5, <2>2 DEF STOP, SPIN
<1> QED
  BY <1>4, <1>5

(* An ASSERT that fails in bitmap_apply() leaves everything as it was.      *)
LEMMA StopInv ==
  ASSUME IInv, stop, PAGES - 2 \in vm
  PROVE  IInv'
<1>1. TypeOK' /\ Placed' /\ Apart' /\ Marked'
  BY DEF IInv, stop, TypeOK, Placed, PagesAt, BigAt, SmallAt, Apart, Marked
<1>2. ListedRight' /\ ArenasRight'
  <2>1. Arenas' = Arenas /\ (\A d : OnFreeList(d)' = OnFreeList(d))
    BY DEF stop, OnFreeList, Arenas
  <2>2. ListedRight'
    BY <2>1 DEF IInv, stop, ListedRight
  <2>3. ArenasRight'
    BY <2>1 DEF IInv, stop, ArenasRight
  <2> QED
    BY <2>2, <2>3
<1>3. StopsAtEnd'
  BY DEF IInv, stop, Marked, StopsAtEnd
<1> QED
  BY <1>1, <1>2, <1>3 DEF IInv

(* Whole pages, from p to e, for an allocation that is not a block.         *)
LEMMA TakePages ==
  ASSUME IInv, ~stopped, NEW p \in Nat, NEW e \in Nat, p \in p..e,
         \A q \in p..e : q \in 0..(PAGES - 2) /\ q \notin vm,
         NEW a \in Alloc, a.size > 0, ~Small(a), PagesOf(a) = p..e,
         vm' = vm \union (p..e), phys' = phys \union {p},
         arena' \in [0..(PAGES - 1) -> [desc : 0..MEM_DESC_CNT, cnt : Nat]],
         \A q \in 0..(PAGES - 1) : q \notin p..e => arena'[q] = arena[q],
         a.kind = "pages" => PagesAt(a), a.kind = "malloc" => BigAt(a)',
         live' = live \union {a},
         UNCHANGED <<free_list, lost, stopped>>
  PROVE  IInv'
<1>0. PAGES \in Nat \ {0, 1} /\ PAGES - 1 \notin vm
  BY PageSizes DEF IInv, Marked
<1>1. ASSUME NEW c \in live PROVE /\ \A q \in PagesOf(c) : q \notin p..e
                                  /\ Page(c.ptr) \in PagesOf(c)
                                  /\ arena'[Page(c.ptr)] = arena[Page(c.ptr)]
  <2>1. \A q \in PagesOf(c) : q \in vm /\ q \in 0..(PAGES - 2)
    BY LiveFacts
  <2>2. Page(c.ptr) \in PagesOf(c)
    BY LiveFacts
  <2>3. Page(c.ptr) \in 0..(PAGES - 1)
    BY <1>0, <2>1, <2>2
  <2> QED
    BY <2>1, <2>2, <2>3
<1>2. Arenas' = Arenas /\ \A q \in Arenas : arena'[q] = arena[q]
  BY <1>1 DEF Arenas, Small
<1>3. \A d : OnFreeList(d)' = OnFreeList(d)
  BY DEF OnFreeList
<1>4. TypeOK'
  <2>1. vm' \subseteq 0..(PAGES - 1) /\ phys' \subseteq 0..(PAGES - 1)
    <3>1. \A q \in p..e : q \in 0..(PAGES - 1)
      BY <1>0
    <3> QED
      BY <3>1 DEF IInv, TypeOK
  <2>2. live' \subseteq [ptr : Nat, size : Nat, kind : {"pages", "malloc"}]
    BY DEF IInv, TypeOK, Alloc
  <2> QED
    BY <2>1, <2>2 DEF IInv, TypeOK
<1>5. Placed'
  <2> SUFFICES ASSUME NEW c \in live'
               PROVE  /\ c.size > 0
                      /\ c.kind = "pages" => PagesAt(c)
                      /\ c.kind = "malloc" /\ ~Small(c) => BigAt(c)'
                      /\ Small(c) => SmallAt(c)'
    BY DEF Placed, PagesAt
  <2>1. CASE c = a
    BY <2>1
  <2>2. CASE c \in live
    BY <1>1, <2>2 DEF IInv, Placed, BigAt, SmallAt
  <2> QED
    BY <2>1, <2>2
<1>6. Apart'
  <2> SUFFICES ASSUME NEW b \in live', NEW c \in live', NEW q \in PagesOf(b), b # c, q \in PagesOf(c)
               PROVE  Small(b) /\ Small(c) /\ b.ptr # c.ptr
    BY DEF Apart
  <2>1. b \in live /\ c \in live
    BY <1>1
  <2> QED
    BY <2>1 DEF IInv, Apart
<1>7. Marked'
  BY <1>0, <1>1 DEF IInv, Marked
<1>8. ListedRight'
  BY <1>2, <1>3 DEF IInv, ListedRight
<1>9. ArenasRight'
  <2> SUFFICES ASSUME NEW q \in Arenas
               PROVE  /\ arena[q].cnt = Cardinality({b \in OnFreeList(arena[q].desc) : Page(b) = q})
                      /\ \A b \in BlockSet(q, arena[q].desc) :
                           b \in OnFreeList(arena[q].desc) \/ \E x \in live' : Small(x) /\ x.ptr = b
    BY <1>2, <1>3, ZenonT(60) DEF ArenasRight
  <2>1. /\ arena[q].cnt = Cardinality({b \in OnFreeList(arena[q].desc) : Page(b) = q})
        /\ \A b \in BlockSet(q, arena[q].desc) :
             b \in OnFreeList(arena[q].desc) \/ \E x \in live : Small(x) /\ x.ptr = b
    BY DEF IInv, ArenasRight
  <2> QED
    BY <2>1
<1>10. StopsAtEnd'
  BY DEF StopsAtEnd
<1> QED
  BY <1>4, <1>5, <1>6, <1>7, <1>8, <1>9, <1>10 DEF IInv

(* page_alloc() marks every page as used in the virtual pool, and only the  *)
(* first in the physical one.                                               *)
LEMMA PageAlloc ==
  ASSUME NEW p, NEW n \in Nat \ {0}, page_alloc(p, n)
  PROVE  vm' = vm \union (p..(p + n - 1)) /\ phys' = phys \union {p}
BY DEF page_alloc, vaddr_alloc, bitmap_set_bits, bitmap_set_bit

(* get_kernel_pages() takes pages that are free.                            *)
LEMMA GetKernelPagesInv ==
  ASSUME IInv, NEW n \in PageCounts, get_kernel_pages(n)
  PROVE  IInv'
<1> DEFINE p == bitmap_apply(vm, PAGES, n)
           e == p + n - 1
           a == [ptr |-> p * PAGE_SIZE, size |-> n * PAGE_SIZE, kind |-> "pages"]
<1>1. n \in Nat \ {0}
  BY RequestAssumption
<1>2. ~stopped /\ p # NONE
  BY DEF get_kernel_pages
<1>3. /\ p \in {STOP, SPIN} => PAGES - 2 \in vm
      /\ p \notin {STOP, SPIN} => /\ p \in Nat /\ e \in Nat /\ p \in p..e
                                  /\ \A q \in p..e : q \in 0..(PAGES - 2) /\ q \notin vm
  <2> HIDE DEF p
  <2> QED
    BY <1>1, <1>2, Applied DEF p
<1>4. CASE p \in {STOP, SPIN}
  <2>1. stop
    BY <1>4 DEF get_kernel_pages
  <2> QED
    BY <1>3, <1>4, <2>1, StopInv
<1>5. CASE p \notin {STOP, SPIN}
  <2>1. /\ page_alloc(p, n) /\ live' = live \union {a} /\ UNCHANGED <<free_list, lost, stopped>>
        /\ arena' = [q \in DOMAIN arena |-> IF q \in p..e THEN NoArena ELSE arena[q]]
    BY <1>5 DEF get_kernel_pages
  <2> HIDE DEF p
  <2>2. p \in Nat /\ e \in Nat /\ p \in p..e /\ \A q \in p..e : q \in 0..(PAGES - 2) /\ q \notin vm
    BY <1>3, <1>5
  <2>3. vm' = vm \union (p..e) /\ phys' = phys \union {p}
    BY <1>1, <2>1, PageAlloc
  <2>4. p * PAGE_SIZE \in Nat /\ n * PAGE_SIZE \in Nat \ {0} /\ Page(p * PAGE_SIZE) = p
        /\ Page(p * PAGE_SIZE + n * PAGE_SIZE - 1) = e
    BY <1>1, <2>2, EndOfPages
  <2>5. /\ a.ptr = p * PAGE_SIZE /\ a.size = n * PAGE_SIZE /\ a.kind = "pages"
    OBVIOUS
  <2>6. a \in Alloc
    BY <2>4 DEF Alloc
  <2> HIDE DEF e
  <2>7. arena' \in [0..(PAGES - 1) -> [desc : 0..MEM_DESC_CNT, cnt : Nat]]
        /\ \A q \in 0..(PAGES - 1) : q \notin p..e => arena'[q] = arena[q]
    <3>1. NoArena \in [desc : 0..MEM_DESC_CNT, cnt : Nat]
      BY DescAssumption DEF NoArena
    <3>2. arena \in [0..(PAGES - 1) -> [desc : 0..MEM_DESC_CNT, cnt : Nat]]
      BY DEF IInv, TypeOK
    <3> QED
      BY <2>1, <3>1, <3>2
  <2> HIDE DEF a
  <2>8. PagesOf(a) = p..e /\ ~Small(a) /\ a.size > 0
    BY <2>4, <2>5 DEF PagesOf, Small
  <2>9. PagesAt(a)
    <3>1. n \in 1..PAGES
      BY <1>1, <2>2, PageSizes DEF e
    <3> QED
      BY <2>4, <2>5, <3>1 DEF PagesAt
  <2> QED
    BY <1>2, <2>1, <2>2, <2>3, <2>5, <2>6, <2>7, <2>8, <2>9, TakePages
<1> QED
  BY <1>4, <1>5

(* sys_malloc() of a large size takes pages that are free, and writes a     *)
(* header that counts them.                                                 *)
LEMMA MallocPagesInv ==
  ASSUME IInv, NEW size \in Sizes, sys_malloc_pages(size)
  PROVE  IInv'
<1> DEFINE n == page_cnt(size)
<1>0. PICK p : p = bitmap_apply(vm, PAGES, n)
  OBVIOUS
<1> DEFINE e == p + n - 1
           a == [ptr |-> p * PAGE_SIZE + ARENA, size |-> size, kind |-> "malloc"]
<1>1. size \in Nat \ {0}
  BY RequestAssumption
<1>2. n \in Nat \ {0}
  BY <1>1, EndOfBig
<1>3. ~stopped /\ p # NONE /\ size > Large
  BY <1>0 DEF sys_malloc_pages
<1>4. /\ p \in {STOP, SPIN} => PAGES - 2 \in vm
      /\ p \notin {STOP, SPIN} => /\ p \in Nat /\ e \in Nat /\ p \in p..e
                                  /\ \A q \in p..e : q \in 0..(PAGES - 2) /\ q \notin vm
  <2> HIDE DEF n
  <2> QED
    BY <1>0, <1>2, <1>3, Applied
<1>5. CASE p \in {STOP, SPIN}
  <2>1. stop
    BY <1>0, <1>5 DEF sys_malloc_pages
  <2> QED
    BY <1>4, <1>5, <2>1, StopInv
<1>6. CASE p \notin {STOP, SPIN}
  <2>1. /\ page_alloc(p, n) /\ live' = live \union {a} /\ UNCHANGED <<free_list, lost, stopped>>
        /\ arena' = [q \in DOMAIN arena |-> CASE q = p -> [desc |-> 0, cnt |-> n]
                                              [] q \in (p + 1)..e -> NoArena
                                              [] OTHER -> arena[q]]
    BY <1>0, <1>6 DEF sys_malloc_pages
  <2>2. p \in Nat /\ e \in Nat /\ p \in p..e /\ \A q \in p..e : q \in 0..(PAGES - 2) /\ q \notin vm
    BY <1>4, <1>6
  <2>3. vm' = vm \union (p..e) /\ phys' = phys \union {p}
    <3> HIDE DEF n
    <3> QED
      BY <1>2, <2>1, PageAlloc
  <2>4. p * PAGE_SIZE \in Nat /\ Page(p * PAGE_SIZE + ARENA) = p
        /\ Page(p * PAGE_SIZE + ARENA + size - 1) = e
    BY <1>1, <2>2, EndOfBig
  <2>5. a.ptr = p * PAGE_SIZE + ARENA /\ a.size = size /\ a.kind = "malloc"
    OBVIOUS
  <2>6. a \in Alloc
    BY <1>1, <2>4, PageSizes DEF Alloc
  <2> HIDE DEF e, n
  <2>7. /\ arena' \in [0..(PAGES - 1) -> [desc : 0..MEM_DESC_CNT, cnt : Nat]]
        /\ \A q \in 0..(PAGES - 1) : q \notin p..e => arena'[q] = arena[q]
        /\ arena'[p] = [desc |-> 0, cnt |-> n]
    <3> DEFINE H == [desc : 0..MEM_DESC_CNT, cnt : Nat]
               new == [desc |-> 0, cnt |-> n]
    <3>1. NoArena \in H /\ new \in H
      BY <1>2, DescAssumption DEF NoArena
    <3>2. arena \in [0..(PAGES - 1) -> H]
      BY DEF IInv, TypeOK
    <3>3. \A q \in 0..(PAGES - 1) : arena'[q] = CASE q = p -> new
                                                  [] q \in (p + 1)..e -> NoArena
                                                  [] OTHER -> arena[q]
      <4> HIDE DEF H
      <4> QED
        BY <2>1, <3>2
    <3>4. DOMAIN arena' = 0..(PAGES - 1) /\ arena' = [q \in 0..(PAGES - 1) |-> arena'[q]]
      <4> HIDE DEF H, new
      <4> QED
        BY <2>1, <3>2
    <3> HIDE DEF H, new
    <3>5. \A q \in 0..(PAGES - 1) : q = p => arena'[q] = new
      BY <3>3, <2>2
    <3>6. \A q \in 0..(PAGES - 1) : q \in (p + 1)..e => arena'[q] = NoArena
      BY <3>3, <2>2
    <3>7. \A q \in 0..(PAGES - 1) : q # p /\ q \notin (p + 1)..e => arena'[q] = arena[q]
      BY <3>3, <2>2
    <3>8. \A q \in 0..(PAGES - 1) : q \notin p..e => q # p /\ q \notin (p + 1)..e
      BY <2>2
    <3>9. p \in 0..(PAGES - 1)
      BY <2>2, PageSizes
    <3>10. \A q \in 0..(PAGES - 1) : arena'[q] \in H
      BY <3>1, <3>2, <3>5, <3>6, <3>7
    <3>11. arena' \in [0..(PAGES - 1) -> H]
      BY <3>4, <3>10
    <3> QED
      BY <3>5, <3>7, <3>8, <3>9, <3>11 DEF H, new
  <2> HIDE DEF a
  <2>8. PagesOf(a) = p..e /\ ~Small(a) /\ a.size > 0
    BY <1>1, <1>3, <2>4, <2>5, PageSizes DEF PagesOf, Small
  <2>9. BigAt(a)'
    BY <2>4, <2>5, <2>7 DEF BigAt, n
  <2> QED
    BY <1>3, <2>1, <2>2, <2>3, <2>5, <2>6, <2>7, <2>8, <2>9, TakePages
<1> QED
  BY <1>5, <1>6

-----------------------------------------------------------------------------
(* Blocks.                                                                  *)
LEMMA DescFor ==
  ASSUME NEW size \in Nat, size <= Large
  PROVE  desc_for(size) \in Descs /\ size <= block_size[desc_for(size)]
<1> DEFINE D == {d \in Descs : size <= block_size[d]}
<1>1. D \in SUBSET Nat /\ D # {}
  BY BlockSizes DEF Descs, Large
<1>2. Least(D) \in D
  <2> HIDE DEF D
  <2> QED
    BY <1>1, LeastIs
<1> QED
  BY <1>2 DEF desc_for

(* The free blocks of an arena.                                             *)
FreeIn(p, d) == {b \in OnFreeList(d) : Page(b) = p}

(* The free blocks of a page are finitely many.                             *)
LEMMA FreeInFinite ==
  ASSUME IInv, NEW d \in Descs, NEW p
  PROVE  IsFiniteSet(FreeIn(p, d)) /\ Cardinality(FreeIn(p, d)) \in Nat
<1>1. IsFiniteSet(OnFreeList(d)) /\ FreeIn(p, d) \in SUBSET OnFreeList(d)
  BY ListFacts DEF FreeIn
<1>2. IsFiniteSet(FreeIn(p, d))
  BY <1>1, FS_Subset
<1> QED
  BY <1>2, FS_CardinalityType

(* A step within the arena of page p, whose blocks have size d: other pages *)
(* keep their headers, and the allocations and the free list change in p    *)
(* alone.                                                                   *)
ArenaHeader(p, d) ==
  /\ arena' \in [0..(PAGES - 1) -> [desc : 0..MEM_DESC_CNT, cnt : Nat]]
  /\ arena'[p].desc = d
  /\ \A q \in 0..(PAGES - 1) : q # p => arena'[q] = arena[q]
  /\ arena'[p].cnt = Cardinality({b \in Elems(free_list'[d]) : Page(b) = p})

ArenaList(p, d) ==
  /\ free_list' \in [Descs -> Seq(Nat)] /\ NoDup(free_list'[d])
  /\ \A c \in Descs : c # d => free_list'[c] = free_list[c]
  /\ \A b \in Elems(free_list'[d]) :
       b \in OnFreeList(d) \/ (b \in BlockSet(p, d) /\ Page(b) = p)
  /\ \A b \in OnFreeList(d) : Page(b) # p => b \in Elems(free_list'[d])

ArenaLive(p, d) ==
  /\ \A b \in BlockSet(p, d) : b \in Elems(free_list'[d])
                                 <=> ~\E a \in live' : Small(a) /\ a.ptr = b
  /\ \A a \in live' : a \in live \/ /\ a \in Alloc /\ a.size > 0 /\ a.size <= block_size[d]
                                    /\ Small(a) /\ a.ptr \in BlockSet(p, d) /\ Page(a.ptr) = p
  /\ \A a \in live : a \notin live' => Small(a) /\ Page(a.ptr) = p
  /\ \A a, b \in live' : a.ptr = b.ptr /\ Small(a) /\ Small(b) => a = b
  /\ \E a \in live' : Small(a) /\ Page(a.ptr) = p

(* Such a step keeps the invariant.                                         *)
LEMMA WithinArena ==
  ASSUME IInv, ~stopped, NEW p \in Arenas, NEW d \in Descs, arena[p].desc = d,
         UNCHANGED <<vm, phys, lost, stopped>>,
         ArenaHeader(p, d), ArenaList(p, d), ArenaLive(p, d)
  PROVE  IInv'
<1> USE DEF ArenaHeader, ArenaList, ArenaLive
<1>1. /\ p \in 0..(PAGES - 2) /\ p \in Nat /\ p \in vm /\ p \notin lost
      /\ \A a \in live : p \in PagesOf(a) => Small(a) /\ Page(a.ptr) = p
  BY ArenaFacts
<1>2. Arenas' = Arenas
  <2>1. \A q : q \in Arenas' <=> \E a \in live' : Small(a) /\ q = Page(a.ptr)
    BY DEF Arenas, Small
  <2>2. \A q : q \in Arenas <=> \E a \in live : Small(a) /\ q = Page(a.ptr)
    BY ArenasAre
  <2>3. p \in Arenas'
    BY <2>1
  <2>4. ASSUME NEW q \in Arenas PROVE q \in Arenas'
    <3>1. PICK a \in live : Small(a) /\ q = Page(a.ptr)
      BY <2>2
    <3> QED
      BY <2>1, <2>3, <3>1
  <2>5. ASSUME NEW q \in Arenas' PROVE q \in Arenas
    <3>1. PICK a \in live' : Small(a) /\ q = Page(a.ptr)
      BY <2>1
    <3> QED
      BY <2>2, <3>1
  <2> QED
    BY <2>4, <2>5
<1>3. /\ \A c \in Descs : OnFreeList(c)' = Elems(free_list'[c]) /\ OnFreeList(c) = Elems(free_list[c])
      /\ \A c \in Descs : c # d => OnFreeList(c)' = OnFreeList(c)
  BY DEF OnFreeList, Elems
<1>4. ASSUME NEW a \in live'
      PROVE  /\ a \in Alloc /\ a.size > 0
             /\ a \in live \/ (Small(a) /\ PagesOf(a) = {p} /\ Page(a.ptr) = p)
  <2>1. CASE a \in live
    BY <2>1, LiveFacts
  <2>2. CASE a \notin live
    <3>1. a \in Alloc /\ a.size > 0 /\ a.size <= block_size[d] /\ Small(a) /\ Page(a.ptr) = p
          /\ a.ptr \in BlockSet(Page(a.ptr), d)
      BY <2>2
    <3> QED
      BY <3>1, SmallPages
  <2> QED
    BY <2>1, <2>2
<1>5. ASSUME NEW a \in live
      PROVE  /\ arena'[Page(a.ptr)].desc = arena[Page(a.ptr)].desc
             /\ ~Small(a) => arena'[Page(a.ptr)] = arena[Page(a.ptr)]
             /\ Page(a.ptr) \in PagesOf(a)
  <2>1. Page(a.ptr) \in PagesOf(a) /\ \A q \in PagesOf(a) : q \in 0..(PAGES - 2)
    BY LiveFacts
  <2>2. Page(a.ptr) \in 0..(PAGES - 1)
    BY <2>1, PageSizes
  <2> QED
    BY <1>1, <2>1, <2>2
<1>6. TypeOK'
  <2>1. live' \subseteq [ptr : Nat, size : Nat, kind : {"pages", "malloc"}]
    BY <1>4 DEF Alloc
  <2> QED
    BY <2>1 DEF IInv, TypeOK
<1>7. Placed'
  <2> SUFFICES ASSUME NEW a \in live'
               PROVE  /\ a.size > 0
                      /\ a.kind = "pages" => PagesAt(a)
                      /\ a.kind = "malloc" /\ ~Small(a) => BigAt(a)'
                      /\ Small(a) => SmallAt(a)'
    BY DEF Placed, PagesAt
  <2>1. CASE a \in live
    BY <1>5, <2>1 DEF IInv, Placed, BigAt, SmallAt
  <2>2. CASE a \notin live
    <3>1. a.size > 0 /\ a.size <= block_size[d] /\ Small(a) /\ a.ptr \in BlockSet(p, d)
          /\ Page(a.ptr) = p /\ a.kind = "malloc"
      BY <2>2 DEF Small
    <3> QED
      BY <3>1 DEF SmallAt
  <2> QED
    BY <2>1, <2>2
<1>8. Apart'
  <2> SUFFICES ASSUME NEW a \in live', NEW b \in live', NEW q \in PagesOf(a), a # b, q \in PagesOf(b)
               PROVE  Small(a) /\ Small(b) /\ a.ptr # b.ptr
    BY DEF Apart
  <2>1. CASE a \in live /\ b \in live
    BY <2>1 DEF IInv, Apart
  <2>2. CASE a \notin live \/ b \notin live
    <3>1. q = p
      BY <1>4, <2>2
    <3>2. Small(a) /\ Small(b)
      BY <1>1, <1>4, <3>1
    <3> QED
      BY <3>2
  <2> QED
    BY <2>1, <2>2
<1>9. Marked'
  <2>1. ASSUME NEW a \in live', NEW q \in PagesOf(a) PROVE q \in vm /\ q \notin lost
    BY <1>1, <1>4, <2>1, LiveFacts
  <2>2. ASSUME NEW q \in vm PROVE q \in lost \/ \E a \in live' : q \in PagesOf(a)
    <3> SUFFICES ASSUME q \notin lost PROVE \E a \in live' : q \in PagesOf(a)
      OBVIOUS
    <3>1. PICK a \in live : q \in PagesOf(a)
      BY <2>2 DEF IInv, Marked
    <3>2. CASE a \in live'
      BY <3>1, <3>2
    <3>3. CASE a \notin live'
      <4>1. q = p
        BY <3>1, <3>3, LiveFacts
      <4>2. PICK b \in live' : Small(b) /\ Page(b.ptr) = p
        OBVIOUS
      <4>3. p \in PagesOf(b)
        BY <1>4, <1>5, <4>2
      <4> QED
        BY <4>1, <4>3
    <3> QED
      BY <3>2, <3>3
  <2> QED
    BY <2>1, <2>2 DEF IInv, Marked
<1>10. ListedRight'
  <2> SUFFICES ASSUME NEW c \in Descs
               PROVE  /\ NoDup(free_list'[c])
                      /\ \A b \in OnFreeList(c)' : /\ Page(b) \in Arenas /\ arena'[Page(b)].desc = c
                                                   /\ b \in BlockSet(Page(b), c)
                                                   /\ \A a \in live' : Small(a) => a.ptr # b
    BY <1>2 DEF ListedRight
  <2>1. NoDup(free_list'[c])
    BY DEF IInv, ListedRight
  <2>2. ASSUME NEW b \in OnFreeList(c)'
        PROVE  /\ Page(b) \in Arenas /\ arena'[Page(b)].desc = c
               /\ b \in BlockSet(Page(b), c)
               /\ \A a \in live' : Small(a) => a.ptr # b
    <3>1. CASE b \in OnFreeList(c)
      <4>1. /\ Page(b) \in Arenas /\ arena[Page(b)].desc = c /\ b \in BlockSet(Page(b), c)
            /\ \A a \in live : Small(a) => a.ptr # b
        BY <3>1, ListFacts
      <4>2. Page(b) \in 0..(PAGES - 1)
        BY <4>1, ArenaFacts, PageSizes
      <4>3. arena'[Page(b)].desc = c
        BY <4>1, <4>2
      <4>4. ASSUME NEW a \in live', Small(a), a.ptr = b PROVE FALSE
        <5>1. a \notin live
          BY <4>1, <4>4
        <5>2. Page(b) = p /\ b \in BlockSet(p, d)
          BY <4>4, <5>1
        <5>3. c = d
          BY <4>1, <5>2
        <5> QED
          BY <1>3, <2>2, <4>4, <5>2, <5>3
      <4> QED
        BY <4>1, <4>3, <4>4
    <3>2. CASE b \notin OnFreeList(c)
      <4>1. c = d
        BY <1>3, <2>2, <3>2
      <4>2. b \in BlockSet(p, d) /\ Page(b) = p /\ b \in Elems(free_list'[d])
        BY <1>3, <2>2, <3>2, <4>1
      <4> QED
        BY <4>1, <4>2
    <3> QED
      BY <3>1, <3>2
  <2> QED
    BY <2>1, <2>2
<1>11. ArenasRight'
  <2> SUFFICES ASSUME NEW q \in Arenas
               PROVE  /\ arena'[q].cnt =
                           Cardinality({b \in Elems(free_list'[arena'[q].desc]) : Page(b) = q})
                      /\ \A b \in BlockSet(q, arena'[q].desc) :
                           b \in Elems(free_list'[arena'[q].desc]) \/ \E a \in live' : Small(a) /\ a.ptr = b
    <3>1. \A c : OnFreeList(c)' = Elems(free_list'[c])
      BY DEF OnFreeList, Elems
    <3> QED
      BY <1>2, <3>1 DEF ArenasRight, OnFreeList, Elems
  <2>0. PICK c : c = arena'[q].desc
    OBVIOUS
  <2> SUFFICES /\ arena'[q].cnt = Cardinality({b \in Elems(free_list'[c]) : Page(b) = q})
               /\ \A b \in BlockSet(q, c) :
                    b \in Elems(free_list'[c]) \/ \E a \in live' : Small(a) /\ a.ptr = b
    BY <2>0
  <2>1. CASE q = p
    <3>1. c = d
      BY <2>0, <2>1
    <3>2. /\ arena'[p].cnt = Cardinality({b \in Elems(free_list'[d]) : Page(b) = p})
          /\ \A b \in BlockSet(p, d) :
               b \in Elems(free_list'[d]) \/ \E a \in live' : Small(a) /\ a.ptr = b
      OBVIOUS
    <3> QED
      BY <2>1, <3>1, <3>2
  <2>2. CASE q # p
    <3>1. q \in 0..(PAGES - 1) /\ q \in Nat
      BY ArenaFacts, PageSizes
    <3>2. arena'[q] = arena[q] /\ c = arena[q].desc /\ c \in Descs
      BY <2>0, <2>2, <3>1, ArenaFacts
    <3>3. /\ arena[q].cnt = Cardinality({b \in OnFreeList(c) : Page(b) = q})
          /\ \A b \in BlockSet(q, c) :
               b \in OnFreeList(c) \/ \E a \in live : Small(a) /\ a.ptr = b
      BY <3>2 DEF IInv, ArenasRight
    <3>4. {b \in Elems(free_list'[c]) : Page(b) = q} = {b \in OnFreeList(c) : Page(b) = q}
      <4>1. CASE c = d
        <5>1. \A b : Page(b) = q => (b \in Elems(free_list'[d]) <=> b \in OnFreeList(d))
          BY <2>2
        <5> QED
          BY <4>1, <5>1
      <4>2. CASE c # d
        <5>1. free_list'[c] = free_list[c] /\ OnFreeList(c) = Elems(free_list[c])
          BY <1>3, <3>2, <4>2
        <5> QED
          BY <5>1
      <4> QED
        BY <4>1, <4>2
    <3>5. \A b \in BlockSet(q, c) : Page(b) = q
      BY <3>1, <3>2, BlockFacts
    <3>6. ASSUME NEW b \in BlockSet(q, c) PROVE b \in Elems(free_list'[c]) \/ \E a \in live' : Small(a) /\ a.ptr = b
      <4>1. CASE b \in OnFreeList(c)
        BY <3>4, <3>5, <4>1
      <4>2. CASE \E a \in live : Small(a) /\ a.ptr = b
        <5>1. PICK a \in live : Small(a) /\ a.ptr = b
          BY <4>2
        <5>2. a \in live'
          BY <2>2, <3>5, <5>1
        <5> QED
          BY <5>1, <5>2
      <4> QED
        BY <3>3, <4>1, <4>2
    <3> QED
      BY <3>2, <3>3, <3>4, <3>6
  <2> QED
    BY <2>1, <2>2
<1>12. StopsAtEnd'
  BY DEF StopsAtEnd
<1> QED
  BY <1>6, <1>7, <1>8, <1>9, <1>10, <1>11, <1>12 DEF IInv

(* A block is allocated once.                                               *)
LEMMA SameBlock ==
  ASSUME IInv, NEW a \in live, NEW b \in live, Small(a), Small(b), a.ptr = b.ptr
  PROVE  a = b
<1>1. Page(a.ptr) \in PagesOf(a) /\ Page(a.ptr) \in PagesOf(b)
  BY LiveFacts
<1> QED
  BY <1>1 DEF IInv, Apart

(* What the invariant says of the blocks of one arena.                      *)
ArenaHolds(p, d) ==
  /\ d \in Descs /\ p \in Nat /\ p \in 0..(PAGES - 1)
  /\ arena[p].cnt = Cardinality(FreeIn(p, d)) /\ IsFiniteSet(FreeIn(p, d))
  /\ FreeIn(p, d) \subseteq BlockSet(p, d)
  /\ \A b \in BlockSet(p, d) : b \in OnFreeList(d) <=> ~\E a \in live : Small(a) /\ a.ptr = b
  /\ \A a \in live : Small(a) /\ Page(a.ptr) = p => a.ptr \in BlockSet(p, d)

(* What the invariant says of one arena.                                    *)
LEMMA ArenaBlocks ==
  ASSUME IInv, NEW p \in Arenas
  PROVE  ArenaHolds(p, arena[p].desc)
<1> DEFINE d == arena[p].desc
<1>1. d \in Descs /\ p \in Nat /\ p \in 0..(PAGES - 1)
  BY ArenaFacts, PageSizes
<1>2. /\ arena[p].cnt = Cardinality(FreeIn(p, d))
      /\ \A b \in BlockSet(p, d) : b \in OnFreeList(d) \/ \E a \in live : Small(a) /\ a.ptr = b
  BY DEF IInv, ArenasRight, FreeIn
<1>3. IsFiniteSet(FreeIn(p, d))
  BY <1>1, FreeInFinite
<1>4. \A b \in OnFreeList(d) : b \in BlockSet(Page(b), d) /\ \A a \in live : Small(a) => a.ptr # b
  BY <1>1, ListFacts
<1>5. FreeIn(p, d) \subseteq BlockSet(p, d)
  BY <1>4 DEF FreeIn
<1>6. \A a \in live : Small(a) /\ Page(a.ptr) = p => a.ptr \in BlockSet(p, d)
  BY DEF IInv, Placed, SmallAt
<1> HIDE DEF d
<1> QED
  BY <1>1, <1>2, <1>3, <1>4, <1>5, <1>6 DEF ArenaHolds, d

(* sys_malloc() from a free list.                                           *)
LEMMA PopInv ==
  ASSUME IInv, ~stopped, NEW d \in Descs, free_list[d] # <<>>,
         NEW size \in Nat \ {0}, size <= Large, size <= block_size[d],
         take_block(d, free_list[d], arena, size), UNCHANGED <<vm, phys, lost, stopped>>
  PROVE  IInv'
<1>1. PICK b : b = Head(free_list[d])
  OBVIOUS
<1>2. PICK p : p = Page(b)
  OBVIOUS
<1> DEFINE a == [ptr |-> b, size |-> size, kind |-> "malloc"]
           E == OnFreeList(d)
<1>3. /\ free_list' = [free_list EXCEPT ![d] = Tail(free_list[d])]
      /\ arena' = [arena EXCEPT ![p].cnt = @ - 1] /\ live' = live \union {a}
  BY <1>1, <1>2 DEF take_block
<1>4. /\ free_list \in [Descs -> Seq(Nat)] /\ NoDup(free_list[d]) /\ E = Elems(free_list[d])
      /\ arena \in [0..(PAGES - 1) -> [desc : 0..MEM_DESC_CNT, cnt : Nat]]
  <2>1. E = Elems(free_list[d]) /\ NoDup(free_list[d])
    BY ListFacts
  <2> QED
    BY <2>1 DEF IInv, TypeOK
<1>5. /\ Tail(free_list[d]) \in Seq(Nat) /\ NoDup(Tail(free_list[d]))
      /\ b \in E /\ Elems(Tail(free_list[d])) = E \ {b}
  <2>1. free_list[d] \in Seq(Nat)
    BY <1>4
  <2> QED
    BY <1>1, <1>4, <2>1, PopKeeps
<1>6. /\ free_list' \in [Descs -> Seq(Nat)] /\ free_list'[d] = Tail(free_list[d])
      /\ \A c \in Descs : c # d => free_list'[c] = free_list[c]
  BY <1>3, <1>4, <1>5
<1>7. p \in Arenas /\ arena[p].desc = d /\ b \in BlockSet(p, d) /\ b \in Nat
      /\ \A c \in live : Small(c) => c.ptr # b
  BY <1>2, <1>5, ListFacts
<1>8. /\ p \in Nat /\ p \in 0..(PAGES - 1)
      /\ arena[p].cnt = Cardinality(FreeIn(p, d)) /\ IsFiniteSet(FreeIn(p, d))
      /\ \A x \in BlockSet(p, d) : x \in E <=> ~\E c \in live : Small(c) /\ c.ptr = x
  BY <1>7, ArenaBlocks DEF ArenaHolds
<1>9. /\ Cardinality(FreeIn(p, d) \ {b}) = Cardinality(FreeIn(p, d)) - 1
      /\ Cardinality(FreeIn(p, d) \ {b}) \in Nat
  <2>1. b \in FreeIn(p, d)
    BY <1>2, <1>5 DEF FreeIn
  <2>2. /\ IsFiniteSet(FreeIn(p, d) \ {b})
        /\ Cardinality(FreeIn(p, d) \ {b}) = IF b \in FreeIn(p, d) THEN Cardinality(FreeIn(p, d)) - 1
                                                                   ELSE Cardinality(FreeIn(p, d))
    BY <1>8, FS_RemoveElement
  <2> QED
    BY <2>1, <2>2, FS_CardinalityType
<1>10. arena[p].cnt - 1 \in Nat /\ arena[p].cnt - 1 = Cardinality({x \in Elems(free_list'[d]) : Page(x) = p})
  <2>1. {x \in Elems(free_list'[d]) : Page(x) = p} = FreeIn(p, d) \ {b}
    BY <1>5, <1>6 DEF FreeIn
  <2> QED
    BY <1>8, <1>9, <2>1
<1>11. /\ arena' \in [0..(PAGES - 1) -> [desc : 0..MEM_DESC_CNT, cnt : Nat]]
       /\ arena'[p].desc = d /\ arena'[p].cnt = arena[p].cnt - 1
       /\ \A q \in 0..(PAGES - 1) : q # p => arena'[q] = arena[q]
  BY <1>3, <1>4, <1>7, <1>8, <1>10
<1>12. a \in Alloc /\ a.size > 0 /\ a.size <= block_size[d] /\ Small(a) /\ a.ptr = b /\ Page(a.ptr) = p
  BY <1>2, <1>7 DEF Alloc, Small
<1> HIDE DEF a
<1>13. \A x \in BlockSet(p, d) : x \in Elems(free_list'[d]) <=> ~\E c \in live' : Small(c) /\ c.ptr = x
  BY <1>3, <1>5, <1>6, <1>8, <1>12
<1>14. \A x, y \in live' : x.ptr = y.ptr /\ Small(x) /\ Small(y) => x = y
  BY <1>3, <1>7, <1>12, SameBlock
<1>15. /\ \A x \in Elems(free_list'[d]) : x \in OnFreeList(d)
       /\ \A x \in OnFreeList(d) : Page(x) # p => x \in Elems(free_list'[d])
       /\ NoDup(free_list'[d])
  BY <1>2, <1>5, <1>6
<1>16. /\ \A x \in live' : x \in live \/ /\ x \in Alloc /\ x.size > 0 /\ x.size <= block_size[d]
                                         /\ Small(x) /\ x.ptr \in BlockSet(p, d) /\ Page(x.ptr) = p
       /\ \A x \in live : x \notin live' => Small(x) /\ Page(x.ptr) = p
       /\ \E x \in live' : Small(x) /\ Page(x.ptr) = p
  BY <1>3, <1>7, <1>12
<1> HIDE DEF E
<1> QED
  <2>1. ArenaHeader(p, d)
    BY <1>10, <1>11 DEF ArenaHeader
  <2>2. ArenaList(p, d)
    BY <1>6, <1>15 DEF ArenaList
  <2>3. ArenaLive(p, d)
    BY <1>13, <1>14, <1>16 DEF ArenaLive
  <2> QED
    BY <1>7, <2>1, <2>2, <2>3, WithinArena

(* sys_free() of a block, when its arena has others in use.                 *)
LEMMA PushInv ==
  ASSUME IInv, ~stopped, NEW a \in live, Small(a), NEW p, p = Page(a.ptr),
         NEW d, d = arena[p].desc, arena[p].cnt + 1 # blocks_each_arena(d),
         live' = live \ {a}, free_list' = [free_list EXCEPT ![d] = Append(free_list[d], a.ptr)],
         arena' = recount(p), UNCHANGED <<vm, phys, lost, stopped>>
  PROVE  IInv'
<1> DEFINE E == OnFreeList(d)
           b == a.ptr
<1>1. p \in Arenas /\ a \in Alloc /\ b \in Nat
  BY LiveFacts DEF Alloc
<1>2. /\ d \in Descs /\ p \in Nat /\ p \in 0..(PAGES - 1)
      /\ arena[p].cnt = Cardinality(FreeIn(p, d)) /\ IsFiniteSet(FreeIn(p, d))
      /\ FreeIn(p, d) \subseteq BlockSet(p, d) /\ b \in BlockSet(p, d)
      /\ \A x \in BlockSet(p, d) : x \in E <=> ~\E c \in live : Small(c) /\ c.ptr = x
  <2>1. /\ d \in Descs /\ p \in Nat /\ p \in 0..(PAGES - 1)
        /\ arena[p].cnt = Cardinality(FreeIn(p, d)) /\ IsFiniteSet(FreeIn(p, d))
        /\ FreeIn(p, d) \subseteq BlockSet(p, d)
        /\ \A x \in BlockSet(p, d) : x \in OnFreeList(d) <=> ~\E c \in live : Small(c) /\ c.ptr = x
        /\ \A c \in live : Small(c) /\ Page(c.ptr) = p => c.ptr \in BlockSet(p, d)
    BY <1>1, ArenaBlocks DEF ArenaHolds
  <2>2. b \in BlockSet(p, d)
    BY <2>1
  <2> QED
    BY <2>1, <2>2
<1>3. /\ free_list \in [Descs -> Seq(Nat)] /\ NoDup(free_list[d]) /\ E = Elems(free_list[d])
      /\ arena \in [0..(PAGES - 1) -> [desc : 0..MEM_DESC_CNT, cnt : Nat]]
  <2>1. E = Elems(free_list[d]) /\ NoDup(free_list[d])
    BY <1>2, ListFacts
  <2> QED
    BY <2>1 DEF IInv, TypeOK
<1>4. b \notin E
  BY <1>2
<1>5. /\ Append(free_list[d], b) \in Seq(Nat) /\ NoDup(Append(free_list[d], b))
      /\ Elems(Append(free_list[d], b)) = E \union {b}
  <2>1. free_list[d] \in Seq(Nat)
    BY <1>2, <1>3
  <2> QED
    BY <1>1, <1>3, <1>4, <2>1, AppendKeeps
<1>6. /\ free_list' \in [Descs -> Seq(Nat)] /\ free_list'[d] = Append(free_list[d], b)
      /\ \A c \in Descs : c # d => free_list'[c] = free_list[c]
  BY <1>2, <1>3, <1>5
<1>7. IsFiniteSet(FreeIn(p, d) \union {b}) /\ Cardinality(FreeIn(p, d) \union {b}) = arena[p].cnt + 1
  <2>1. b \notin FreeIn(p, d)
    BY <1>4 DEF FreeIn
  <2>2. /\ IsFiniteSet(FreeIn(p, d) \union {b})
        /\ Cardinality(FreeIn(p, d) \union {b}) =
             IF b \in FreeIn(p, d) THEN Cardinality(FreeIn(p, d)) ELSE Cardinality(FreeIn(p, d)) + 1
    BY <1>2, FS_AddElement
  <2> QED
    BY <1>2, <2>1, <2>2
<1>8. {x \in Elems(free_list'[d]) : Page(x) = p} = FreeIn(p, d) \union {b}
  BY <1>5, <1>6 DEF FreeIn
<1>9. /\ arena' \in [0..(PAGES - 1) -> [desc : 0..MEM_DESC_CNT, cnt : Nat]]
      /\ arena'[p].desc = d /\ arena'[p].cnt = arena[p].cnt + 1
      /\ \A q \in 0..(PAGES - 1) : q # p => arena'[q] = arena[q]
  BY <1>2, <1>3 DEF recount
<1>10. PICK c \in live : Small(c) /\ c # a /\ Page(c.ptr) = p
  <2>1. FreeIn(p, d) \union {b} # BlockSet(p, d)
    <3> SUFFICES ASSUME FreeIn(p, d) \union {b} = BlockSet(p, d) PROVE FALSE
      OBVIOUS
    <3>1. Cardinality(BlockSet(p, d)) = blocks_each_arena(d)
      BY <1>2, BlockSetCount
    <3> QED
      BY <1>7, <3>1
  <2>2. PICK x \in BlockSet(p, d) : x \notin FreeIn(p, d) /\ x # b
    BY <1>2, <2>1
  <2>3. Page(x) = p
    BY <1>2, BlockFacts
  <2>4. x \notin E
    BY <2>2, <2>3 DEF FreeIn
  <2> QED
    BY <1>2, <2>2, <2>3, <2>4
<1>11. \A x \in BlockSet(p, d) : x \in Elems(free_list'[d]) <=> ~\E y \in live' : Small(y) /\ y.ptr = x
  <2> SUFFICES ASSUME NEW x \in BlockSet(p, d)
               PROVE  x \in Elems(free_list'[d]) <=> ~\E y \in live' : Small(y) /\ y.ptr = x
    OBVIOUS
  <2>1. CASE x = b
    <3>1. ASSUME NEW y \in live', Small(y), y.ptr = x PROVE FALSE
      <4>1. y = a
        BY <2>1, <3>1, SameBlock
      <4> QED
        BY <3>1, <4>1
    <3> QED
      BY <1>5, <1>6, <2>1, <3>1
  <2>2. CASE x # b
    BY <1>2, <1>5, <1>6, <2>2
  <2> QED
    BY <2>1, <2>2
<1>12. \A x, y \in live' : x.ptr = y.ptr /\ Small(x) /\ Small(y) => x = y
  BY SameBlock
<1>13. /\ \A x \in Elems(free_list'[d]) :
             x \in OnFreeList(d) \/ (x \in BlockSet(p, d) /\ Page(x) = p)
       /\ \A x \in OnFreeList(d) : Page(x) # p => x \in Elems(free_list'[d])
       /\ NoDup(free_list'[d])
  BY <1>2, <1>5, <1>6
<1>14. /\ \A x \in live' : x \in live
       /\ \A x \in live : x \notin live' => Small(x) /\ Page(x.ptr) = p
       /\ \E x \in live' : Small(x) /\ Page(x.ptr) = p
  BY <1>10
<1>15. arena'[p].cnt = Cardinality({x \in Elems(free_list'[d]) : Page(x) = p})
  BY <1>7, <1>8, <1>9
<1> HIDE DEF E, b
<1> QED
  <2>1. ArenaHeader(p, d)
    BY <1>9, <1>15 DEF ArenaHeader
  <2>2. ArenaList(p, d)
    BY <1>6, <1>13 DEF ArenaList
  <2>3. ArenaLive(p, d)
    BY <1>11, <1>12, <1>14 DEF ArenaLive
  <2> QED
    BY <1>1, <1>2, <2>1, <2>2, <2>3, WithinArena

(* The pages of an allocation that is alone on them are given back, the     *)
(* bit of the first of them is cleared and its blocks leave the free lists. *)
GivenLists(p) ==
  /\ free_list' \in [Descs -> Seq(Nat)]
  /\ \A c \in Descs : NoDup(free_list'[c])
  /\ \A c \in Descs : \A b : b \in Elems(free_list'[c]) <=> b \in OnFreeList(c) /\ Page(b) # p

(* Giving the pages of an allocation back keeps the invariant: their tails  *)
(* are lost.                                                                *)
LEMMA GivePages ==
  ASSUME IInv, ~stopped, NEW a \in live, NEW p, p = Page(a.ptr),
         \A c \in live : c # a => \A q \in PagesOf(a) : q \notin PagesOf(c),
         live' = live \ {a}, vm' = vm \ {p}, lost' = lost \union (PagesOf(a) \ {p}),
         phys' \subseteq phys, stopped' = stopped,
         arena' = [arena EXCEPT ![p] = NoArena], GivenLists(p)
  PROVE  IInv'
<1>1. p \in PagesOf(a) /\ \A q \in PagesOf(a) : q \in vm /\ q \notin lost /\ q \in 0..(PAGES - 2)
  BY LiveFacts
<1>2. /\ arena \in [0..(PAGES - 1) -> [desc : 0..MEM_DESC_CNT, cnt : Nat]]
      /\ p \in 0..(PAGES - 1) /\ PAGES - 1 \notin vm
  <2>1. p \in 0..(PAGES - 2)
    BY <1>1
  <2>2. p \in 0..(PAGES - 1)
    BY <2>1, PageSizes
  <2> QED
    BY <2>2 DEF IInv, TypeOK, Marked
<1>3. /\ arena' \in [0..(PAGES - 1) -> [desc : 0..MEM_DESC_CNT, cnt : Nat]]
      /\ \A q \in 0..(PAGES - 1) : q # p => arena'[q] = arena[q]
  <2>1. NoArena \in [desc : 0..MEM_DESC_CNT, cnt : Nat]
    BY DescAssumption DEF NoArena
  <2> QED
    BY <1>2, <2>1
<1>4. ASSUME NEW c \in live'
      PROVE  /\ c \in live /\ c # a /\ p \notin PagesOf(c) /\ Page(c.ptr) # p
             /\ arena'[Page(c.ptr)] = arena[Page(c.ptr)]
  <2>1. c \in live /\ c # a /\ p \notin PagesOf(c)
    BY <1>1
  <2>2. Page(c.ptr) \in PagesOf(c) /\ \A q \in PagesOf(c) : q \in 0..(PAGES - 2)
    BY <2>1, LiveFacts
  <2>3. Page(c.ptr) \in 0..(PAGES - 1)
    BY <2>2, PageSizes
  <2> QED
    BY <1>3, <2>1, <2>2, <2>3
<1>5. \A q : q \in Arenas' <=> q \in Arenas /\ q # p
  <2>1. \A q : q \in Arenas' <=> \E c \in live' : Small(c) /\ q = Page(c.ptr)
    BY DEF Arenas, Small
  <2>2. ASSUME NEW q \in Arenas, q # p PROVE q \in Arenas'
    <3>1. PICK c \in live : Small(c) /\ q = Page(c.ptr)
      BY ArenasAre
    <3>2. c \in live'
      BY <2>2, <3>1
    <3> QED
      BY <2>1, <3>1, <3>2
  <2>3. ASSUME NEW q \in Arenas' PROVE q \in Arenas /\ q # p
    <3>1. PICK c \in live' : Small(c) /\ q = Page(c.ptr)
      BY <2>1, <2>3
    <3>2. c \in live /\ q # p
      BY <1>4, <3>1
    <3> QED
      BY <3>1, <3>2, ArenasAre
  <2> QED
    BY <2>2, <2>3
<1>6. TypeOK'
  <2>1. vm' \subseteq 0..(PAGES - 1) /\ lost' \subseteq 0..(PAGES - 1) /\ phys' \subseteq 0..(PAGES - 1)
    BY <1>1 DEF IInv, TypeOK
  <2> QED
    BY <1>3, <2>1 DEF IInv, TypeOK, GivenLists
<1>7. Placed'
  <2> SUFFICES ASSUME NEW c \in live'
               PROVE  /\ c.size > 0
                      /\ c.kind = "pages" => PagesAt(c)
                      /\ c.kind = "malloc" /\ ~Small(c) => BigAt(c)'
                      /\ Small(c) => SmallAt(c)'
    BY DEF Placed, PagesAt
  <2> QED
    BY <1>4 DEF IInv, Placed, BigAt, SmallAt
<1>8. Apart'
  BY <1>4 DEF IInv, Apart
<1>9. Marked'
  <2>1. ASSUME NEW c \in live', NEW q \in PagesOf(c) PROVE q \in vm' /\ q \notin lost'
    BY <1>4, <2>1, LiveFacts
  <2>2. ASSUME NEW q \in vm' PROVE q \in lost' \/ \E c \in live' : q \in PagesOf(c)
    <3>1. q \in lost \/ \E c \in live : q \in PagesOf(c)
      BY DEF IInv, Marked
    <3> QED
      BY <3>1
  <2>3. lost' \subseteq vm'
    BY <1>1 DEF IInv, Marked
  <2> QED
    BY <1>2, <2>1, <2>2, <2>3 DEF Marked
<1>10. ListedRight'
  <2> SUFFICES ASSUME NEW c \in Descs
               PROVE  /\ NoDup(free_list'[c])
                      /\ \A b \in Elems(free_list'[c]) :
                           /\ Page(b) \in Arenas' /\ arena'[Page(b)].desc = c
                           /\ b \in BlockSet(Page(b), c)
                           /\ \A x \in live' : Small(x) => x.ptr # b
    BY DEF ListedRight, OnFreeList, Elems
  <2>1. NoDup(free_list'[c])
    BY DEF GivenLists
  <2>2. ASSUME NEW b \in Elems(free_list'[c])
        PROVE  /\ Page(b) \in Arenas' /\ arena'[Page(b)].desc = c
               /\ b \in BlockSet(Page(b), c)
               /\ \A x \in live' : Small(x) => x.ptr # b
    <3>1. b \in OnFreeList(c) /\ Page(b) # p
      BY <2>2 DEF GivenLists
    <3>2. /\ Page(b) \in Arenas /\ arena[Page(b)].desc = c /\ b \in BlockSet(Page(b), c)
          /\ \A x \in live : Small(x) => x.ptr # b
      BY <3>1, ListFacts
    <3>3. Page(b) \in 0..(PAGES - 1)
      BY <3>2, ArenaFacts, PageSizes
    <3> QED
      BY <1>3, <1>4, <1>5, <3>1, <3>2, <3>3
  <2> QED
    BY <2>1, <2>2
<1>11. ArenasRight'
  <2> SUFFICES ASSUME NEW q \in Arenas'
               PROVE  /\ arena'[q].cnt =
                           Cardinality({b \in Elems(free_list'[arena'[q].desc]) : Page(b) = q})
                      /\ \A b \in BlockSet(q, arena'[q].desc) :
                           b \in Elems(free_list'[arena'[q].desc]) \/ \E x \in live' : Small(x) /\ x.ptr = b
    <3>1. \A c : OnFreeList(c)' = Elems(free_list'[c])
      BY DEF OnFreeList, Elems
    <3> QED
      BY <3>1 DEF ArenasRight, OnFreeList, Elems
  <2>1. q \in Arenas /\ q # p
    BY <1>5
  <2>2. PICK d : d = arena[q].desc
    OBVIOUS
  <2>3. /\ d \in Descs /\ q \in Nat /\ q \in 0..(PAGES - 1)
        /\ arena[q].cnt = Cardinality(FreeIn(q, d)) /\ IsFiniteSet(FreeIn(q, d))
        /\ FreeIn(q, d) \subseteq BlockSet(q, d)
        /\ \A b \in BlockSet(q, d) : b \in OnFreeList(d) <=> ~\E x \in live : Small(x) /\ x.ptr = b
        /\ \A x \in live : Small(x) /\ Page(x.ptr) = q => x.ptr \in BlockSet(q, d)
    BY <2>1, <2>2, ArenaBlocks DEF ArenaHolds
  <2>4. arena'[q] = arena[q] /\ arena'[q].desc = d
    BY <1>3, <2>1, <2>2, <2>3
  <2>5. {b \in Elems(free_list'[d]) : Page(b) = q} = FreeIn(q, d)
    BY <2>1, <2>3 DEF FreeIn, GivenLists
  <2>6. ASSUME NEW b \in BlockSet(q, d)
        PROVE  b \in Elems(free_list'[d]) \/ \E x \in live' : Small(x) /\ x.ptr = b
    <3>1. Page(b) = q
      BY <2>3, BlockFacts
    <3>2. CASE b \in OnFreeList(d)
      BY <2>1, <2>3, <3>1, <3>2 DEF GivenLists
    <3>3. CASE b \notin OnFreeList(d)
      <4>1. PICK x \in live : Small(x) /\ x.ptr = b
        BY <2>3, <3>3
      <4>2. x # a
        BY <2>1, <3>1, <4>1
      <4> QED
        BY <4>1, <4>2
    <3> QED
      BY <3>2, <3>3
  <2> QED
    BY <2>3, <2>4, <2>5, <2>6
<1>12. StopsAtEnd'
  BY DEF StopsAtEnd
<1> QED
  BY <1>6, <1>7, <1>8, <1>9, <1>10, <1>11, <1>12 DEF IInv

(* page_free() clears one bit of the virtual pool; the other pages are      *)
(* lost.                                                                    *)
LEMMA PageFree ==
  ASSUME NEW ptr, NEW p, p = Page(ptr), NEW n \in Nat \ {0}, page_free(ptr, n)
  PROVE  vm' = vm \ {p} /\ phys' \subseteq phys /\ lost' = lost \union ((p + 1)..(p + n - 1))
BY DEF page_free, phy_free, vaddr_free, bitmap_set_bits, bitmap_set_bit

(* sys_free() of whole pages.                                               *)
LEMMA FreeBigInv ==
  ASSUME IInv, ~stopped, NEW a \in live, a.kind = "malloc", NEW p, p = Page(a.ptr),
         arena[p].desc = 0, page_free(a.ptr, arena[p].cnt),
         live' = live \ {a}, arena' = [arena EXCEPT ![p] = NoArena], UNCHANGED <<free_list, stopped>>
  PROVE  IInv'
<1>1. a \in Alloc /\ a.size > 0 /\ p \in PagesOf(a)
  BY LiveFacts
<1>2. ~Small(a)
  BY LiveFacts DEF Descs
<1>3. a.ptr = p * PAGE_SIZE + ARENA /\ arena[p].cnt = page_cnt(a.size)
  <2>1. BigAt(a)
    BY <1>2 DEF IInv, Placed
  <2>2. arena[p] = [desc |-> 0, cnt |-> page_cnt(a.size)] /\ a.ptr = p * PAGE_SIZE + ARENA
    BY <2>1 DEF BigAt
  <2> QED
    BY <2>2
<1>4. PICK n : n = page_cnt(a.size)
  OBVIOUS
<1>5. n \in Nat \ {0} /\ PagesOf(a) = p..(p + n - 1) /\ p \in Nat
  BY <1>1, <1>3, <1>4, BigPages, FirstPage
<1>6. vm' = vm \ {p} /\ phys' \subseteq phys /\ lost' = lost \union ((p + 1)..(p + n - 1))
  BY <1>3, <1>4, <1>5, PageFree
<1>7. (p + 1)..(p + n - 1) = PagesOf(a) \ {p}
  BY <1>5
<1>8. \A c \in live : c # a => \A q \in PagesOf(a) : q \notin PagesOf(c)
  BY <1>2 DEF IInv, Apart
<1>9. p \notin Arenas
  BY <1>1, <1>2, ArenaFacts
<1>10. GivenLists(p)
  <2>1. \A c \in Descs : /\ free_list[c] \in Seq(Nat) /\ NoDup(free_list[c])
                         /\ OnFreeList(c) = Elems(free_list[c])
                         /\ \A b \in OnFreeList(c) : Page(b) \in Arenas
    BY ListFacts
  <2>2. free_list' \in [Descs -> Seq(Nat)]
    BY DEF IInv, TypeOK
  <2> QED
    BY <1>9, <2>1, <2>2 DEF GivenLists
<1> QED
  BY <1>6, <1>7, <1>8, <1>10, GivePages

(* sys_free() of the last block in use of an arena.                         *)
LEMMA LastBlockInv ==
  ASSUME IInv, ~stopped, NEW a \in live, Small(a), NEW p, p = Page(a.ptr),
         NEW d, d = arena[p].desc, NEW n, n = arena[p].cnt + 1, n = blocks_each_arena(d),
         live' = live \ {a}, arena' = [arena EXCEPT ![p] = NoArena],
         free_list' = [free_list EXCEPT ![d] = del_blocks(Append(free_list[d], a.ptr), p, d, n)],
         page_free(a.ptr, 1), UNCHANGED stopped
  PROVE  IInv'
<1>1. p \in Arenas /\ a \in Alloc /\ a.ptr \in Nat /\ PagesOf(a) = {p}
  BY LiveFacts DEF Alloc
<1>2. /\ d \in Descs /\ p \in Nat /\ p \in 0..(PAGES - 1)
      /\ arena[p].cnt = Cardinality(FreeIn(p, d)) /\ IsFiniteSet(FreeIn(p, d))
      /\ FreeIn(p, d) \subseteq BlockSet(p, d)
      /\ \A x \in BlockSet(p, d) : x \in OnFreeList(d) <=> ~\E c \in live : Small(c) /\ c.ptr = x
      /\ \A c \in live : Small(c) /\ Page(c.ptr) = p => c.ptr \in BlockSet(p, d)
  <2>1. ArenaHolds(p, d)
    BY <1>1, ArenaBlocks
  <2> QED
    BY <2>1 DEF ArenaHolds
<1>3. a.ptr \in BlockSet(p, d) /\ a.ptr \notin OnFreeList(d)
  BY <1>2
<1>4. FreeIn(p, d) \union {a.ptr} = BlockSet(p, d)
  <2> DEFINE T == FreeIn(p, d) \union {a.ptr}
  <2>1. a.ptr \notin FreeIn(p, d)
    BY <1>3 DEF FreeIn
  <2>2. /\ IsFiniteSet(T)
        /\ Cardinality(T) = IF a.ptr \in FreeIn(p, d) THEN Cardinality(FreeIn(p, d))
                                                      ELSE Cardinality(FreeIn(p, d)) + 1
    BY <1>2, FS_AddElement
  <2>3. Cardinality(T) = blocks_each_arena(d)
    BY <1>2, <2>1, <2>2
  <2>4. IsFiniteSet(BlockSet(p, d)) /\ Cardinality(BlockSet(p, d)) = blocks_each_arena(d)
    BY <1>2, BlockSetCount
  <2>5. T \in SUBSET BlockSet(p, d)
    BY <1>2, <1>3
  <2> HIDE DEF T
  <2>6. Cardinality(BlockSet(p, d)) = Cardinality(T) => BlockSet(p, d) = T
    BY <2>4, <2>5, FS_Subset
  <2> QED
    BY <2>3, <2>4, <2>6 DEF T
<1>5. ASSUME NEW c \in live, c # a, p \in PagesOf(c) PROVE FALSE
  <2>1. Small(c) /\ Page(c.ptr) = p
    BY <1>1, <1>5, ArenaFacts
  <2>2. c.ptr \in BlockSet(p, d) /\ c.ptr \notin OnFreeList(d)
    BY <1>2, <2>1
  <2>3. c.ptr = a.ptr
    BY <1>4, <2>2 DEF FreeIn
  <2> QED
    BY <1>5, <2>1, <2>3, SameBlock
<1>6. vm' = vm \ {p} /\ phys' \subseteq phys /\ lost' = lost \union (PagesOf(a) \ {p})
  <2>1. vm' = vm \ {p} /\ phys' \subseteq phys /\ lost' = lost \union ((p + 1)..(p + 1 - 1))
    BY PageFree
  <2> QED
    BY <1>1, <1>2, <2>1
<1>7. GivenLists(p)
  <2> DEFINE back == Append(free_list[d], a.ptr)
             del == del_blocks(back, p, d, n)
  <2>1. \A c \in Descs : /\ free_list[c] \in Seq(Nat) /\ NoDup(free_list[c])
                         /\ OnFreeList(c) = Elems(free_list[c])
                         /\ \A b \in OnFreeList(c) : arena[Page(b)].desc = c
    BY ListFacts
  <2>2. back \in Seq(Nat) /\ NoDup(back) /\ Elems(back) = OnFreeList(d) \union {a.ptr}
    BY <1>1, <1>2, <1>3, <2>1, AppendKeeps
  <2>3. n \in Nat /\ {arena_2_block(p, d, i) : i \in 0..(n - 1)} = BlockSet(p, d)
    BY <1>2, BlockCounts DEF BlockSet
  <2>4. del \in Seq(Nat) /\ NoDup(del) /\ Elems(del) = Elems(back) \ BlockSet(p, d)
    <3> HIDE DEF back
    <3>1. /\ del \in Seq(Nat) /\ NoDup(del)
          /\ Elems(del) = Elems(back) \ {arena_2_block(p, d, i) : i \in 0..(n - 1)}
      BY <2>2, <2>3, DelBlocks
    <3> QED
      BY <2>3, <3>1
  <2> HIDE DEF back, del
  <2>5. \A b : b \in Elems(del) <=> b \in OnFreeList(d) /\ Page(b) # p
    <3>1. \A b \in BlockSet(p, d) : Page(b) = p
      BY <1>2, BlockFacts
    <3>2. \A b : b \in OnFreeList(d) /\ Page(b) = p => b \in BlockSet(p, d)
      BY <1>2 DEF FreeIn
    <3> QED
      BY <1>3, <2>2, <2>4, <3>1, <3>2
  <2>6. free_list' = [free_list EXCEPT ![d] = del] /\ free_list \in [Descs -> Seq(Nat)]
    BY DEF IInv, TypeOK, del, back
  <2>7. /\ free_list' \in [Descs -> Seq(Nat)] /\ free_list'[d] = del
        /\ \A c \in Descs : c # d => free_list'[c] = free_list[c]
    BY <1>2, <2>4, <2>6
  <2>8. ASSUME NEW c \in Descs
        PROVE  /\ NoDup(free_list'[c])
               /\ \A b : b \in Elems(free_list'[c]) <=> b \in OnFreeList(c) /\ Page(b) # p
    <3>1. CASE c = d
      BY <2>4, <2>5, <2>7, <3>1
    <3>2. CASE c # d
      BY <2>1, <2>7, <3>2
    <3> QED
      BY <3>1, <3>2
  <2> QED
    BY <2>7, <2>8 DEF GivenLists
<1>8. \A c \in live : c # a => \A q \in PagesOf(a) : q \notin PagesOf(c)
  BY <1>1, <1>5
<1> QED
  BY <1>6, <1>7, <1>8, GivePages

(* The blocks of a new arena, in the order of its list.                     *)
LEMMA NewBlocks ==
  ASSUME NEW p \in Nat, NEW d \in Descs
  PROVE  /\ BlocksOf(p, d) \in Seq(Nat) /\ BlocksOf(p, d) # <<>> /\ NoDup(BlocksOf(p, d))
         /\ Elems(BlocksOf(p, d)) = BlockSet(p, d)
<1> DEFINE n == blocks_each_arena(d)
           s == BlocksOf(p, d)
<1>1. n \in Nat \ {0}
  BY BlockCounts
<1>2. \A i \in 1..n : arena_2_block(p, d, i - 1) \in Nat
  <2> SUFFICES ASSUME NEW i \in 1..n PROVE arena_2_block(p, d, i - 1) \in Nat
    OBVIOUS
  <2>1. i - 1 \in 0..(n - 1)
    BY <1>1
  <2>2. arena_2_block(p, d, i - 1) \in BlockSet(p, d)
    BY <2>1 DEF BlockSet
  <2> QED
    BY <2>2, BlockFacts
<1>3. s = [i \in 1..n |-> arena_2_block(p, d, i - 1)]
  BY DEF BlocksOf
<1> HIDE DEF n, s
<1>4. s \in Seq(Nat) /\ Len(s) = n
  BY <1>1, <1>2, <1>3
<1>5. s # <<>>
  BY <1>1, <1>4
<1>6. NoDup(s)
  <2> SUFFICES ASSUME NEW i \in 1..n, NEW j \in 1..n, s[i] = s[j] PROVE i = j
    BY <1>4 DEF NoDup
  <2>1. i - 1 \in 0..(n - 1) /\ j - 1 \in 0..(n - 1)
    BY <1>1
  <2>2. arena_2_block(p, d, i - 1) = arena_2_block(p, d, j - 1)
    BY <1>3
  <2>3. i - 1 = j - 1
    BY <2>1, <2>2, BlockIndex DEF n
  <2> QED
    BY <1>1, <2>3
<1>7. Elems(s) = BlockSet(p, d)
  <2>1. ASSUME NEW i \in 1..n PROVE s[i] \in BlockSet(p, d)
    <3>1. i - 1 \in 0..(n - 1) /\ s[i] = arena_2_block(p, d, i - 1)
      BY <1>1, <1>3
    <3> QED
      BY <3>1 DEF BlockSet, n
  <2>2. ASSUME NEW b \in BlockSet(p, d) PROVE b \in Elems(s)
    <3>1. PICK i \in 0..(n - 1) : b = arena_2_block(p, d, i)
      BY DEF BlockSet, n
    <3>2. i + 1 \in 1..n /\ (i + 1) - 1 = i
      BY <1>1
    <3>3. s[i + 1] = b
      BY <1>3, <3>1, <3>2
    <3> QED
      BY <1>4, <3>2, <3>3 DEF Elems
  <2> QED
    BY <1>4, <2>1, <2>2 DEF Elems
<1> QED
  BY <1>4, <1>5, <1>6, <1>7 DEF s

(* sys_malloc() with a new arena in page p.                                 *)
LEMMA NewArenaInv ==
  ASSUME IInv, ~stopped, NEW d \in Descs, free_list[d] = <<>>,
         NEW size \in Nat \ {0}, size <= Large, size <= block_size[d],
         NEW p \in 0..(PAGES - 2), p \notin vm,
         vm' = vm \union {p}, phys' = phys \union {p},
         take_block(d, BlocksOf(p, d),
                  [arena EXCEPT ![p] = [desc |-> d, cnt |-> blocks_each_arena(d)]], size),
         UNCHANGED <<lost, stopped>>
  PROVE  IInv'
<1> DEFINE s == BlocksOf(p, d)
           new == [desc |-> d, cnt |-> blocks_each_arena(d)]
<1>1. PICK b : b = Head(s)
  OBVIOUS
<1> DEFINE a == [ptr |-> b, size |-> size, kind |-> "malloc"]
<1>2. PAGES \in Nat \ {0, 1} /\ PAGES - 1 \notin vm /\ p \in Nat /\ p \in 0..(PAGES - 1) /\ p # PAGES - 1
  BY PageSizes DEF IInv, Marked
<1>3. s \in Seq(Nat) /\ s # <<>> /\ NoDup(s) /\ Elems(s) = BlockSet(p, d)
  BY <1>2, NewBlocks
<1>4. Tail(s) \in Seq(Nat) /\ NoDup(Tail(s)) /\ b \in BlockSet(p, d) /\ Elems(Tail(s)) = BlockSet(p, d) \ {b}
  <2> HIDE DEF s
  <2> QED
    BY <1>1, <1>3, PopKeeps
<1>5. Page(b) = p /\ b \in Nat /\ \A x \in BlockSet(p, d) : Page(x) = p
  BY <1>2, <1>4, BlockFacts
<1>6. /\ free_list' = [free_list EXCEPT ![d] = Tail(s)] /\ live' = live \union {a}
      /\ arena' = [[arena EXCEPT ![p] = new] EXCEPT ![p].cnt = @ - 1]
  BY <1>1, <1>5 DEF take_block
<1> HIDE DEF s
<1>7. /\ free_list \in [Descs -> Seq(Nat)]
      /\ arena \in [0..(PAGES - 1) -> [desc : 0..MEM_DESC_CNT, cnt : Nat]]
  BY DEF IInv, TypeOK
<1>8. /\ free_list' \in [Descs -> Seq(Nat)] /\ free_list'[d] = Tail(s)
      /\ \A c \in Descs : c # d => free_list'[c] = free_list[c]
  BY <1>4, <1>6, <1>7
<1>9. blocks_each_arena(d) \in Nat \ {0} /\ d \in 0..MEM_DESC_CNT
  BY BlockCounts DEF Descs
<1>10. /\ arena' \in [0..(PAGES - 1) -> [desc : 0..MEM_DESC_CNT, cnt : Nat]]
       /\ arena'[p].desc = d /\ arena'[p].cnt = blocks_each_arena(d) - 1
       /\ \A q \in 0..(PAGES - 1) : q # p => arena'[q] = arena[q]
  <2> DEFINE H == [desc : 0..MEM_DESC_CNT, cnt : Nat]
             mid == [arena EXCEPT ![p] = new]
             old == [desc |-> d, cnt |-> blocks_each_arena(d) - 1]
  <2>1. mid[p] = new /\ \A q \in 0..(PAGES - 1) : q # p => mid[q] = arena[q]
    BY <1>2, <1>7
  <2>2. arena' = [mid EXCEPT ![p] = [mid[p] EXCEPT !.cnt = @ - 1]]
    BY <1>6
  <2>3. [new EXCEPT !.cnt = @ - 1] = old /\ old \in H
    BY <1>9
  <2>4. arena' = [arena EXCEPT ![p] = old]
    BY <1>2, <1>7, <2>1, <2>2, <2>3
  <2>5. old.desc = d /\ old.cnt = blocks_each_arena(d) - 1
    OBVIOUS
  <2> HIDE DEF old, mid, new, H
  <2>6. arena \in [0..(PAGES - 1) -> H]
    BY <1>7 DEF H
  <2>7. arena' \in [0..(PAGES - 1) -> H] /\ arena'[p] = old
        /\ \A q \in 0..(PAGES - 1) : q # p => arena'[q] = arena[q]
    BY <1>2, <2>3, <2>4, <2>6
  <2> QED
    BY <2>5, <2>7 DEF H
<1>11. a \in Alloc /\ a.size > 0 /\ a.size <= block_size[d] /\ Small(a) /\ a.ptr = b
       /\ a.kind = "malloc" /\ a.size = size
  BY <1>5 DEF Alloc, Small
<1> HIDE DEF a, new
<1>12. PagesOf(a) = {p}
  <2>1. a.ptr \in BlockSet(Page(a.ptr), d) /\ Page(a.ptr) = p
    BY <1>4, <1>5, <1>11
  <2> QED
    BY <1>11, <2>1, SmallPages
<1>13. ASSUME NEW c \in live
       PROVE  /\ p \notin PagesOf(c) /\ Page(c.ptr) # p /\ Page(c.ptr) \in 0..(PAGES - 1)
              /\ arena'[Page(c.ptr)] = arena[Page(c.ptr)]
  <2>1. Page(c.ptr) \in PagesOf(c) /\ \A q \in PagesOf(c) : q \in 0..(PAGES - 2) /\ q \in vm
    BY LiveFacts
  <2>2. Page(c.ptr) \in 0..(PAGES - 1)
    BY <1>2, <2>1
  <2> QED
    BY <1>10, <2>1, <2>2
<1>14. Arenas' = Arenas \union {p} /\ p \notin Arenas
  <2>1. \A q : q \in Arenas' <=> \E c \in live' : Small(c) /\ q = Page(c.ptr)
    BY DEF Arenas, Small
  <2>2. \A q : q \in Arenas <=> \E c \in live : Small(c) /\ q = Page(c.ptr)
    BY ArenasAre
  <2>3. p \in Arenas' /\ p \notin Arenas
    BY <1>5, <1>6, <1>11, <1>13, <2>1, <2>2
  <2>4. ASSUME NEW q \in Arenas PROVE q \in Arenas'
    BY <1>6, <2>1, <2>2
  <2>5. ASSUME NEW q \in Arenas' PROVE q \in Arenas \union {p}
    BY <1>5, <1>6, <1>11, <2>1, <2>2
  <2> QED
    BY <2>3, <2>4, <2>5
<1>15. \A c \in Descs : OnFreeList(c) = Elems(free_list[c]) /\ \A x \in OnFreeList(c) : Page(x) \in Arenas
  BY ListFacts
<1>16. TypeOK'
  <2>1. live' \subseteq [ptr : Nat, size : Nat, kind : {"pages", "malloc"}]
    BY <1>6, <1>11 DEF IInv, TypeOK, Alloc
  <2>2. vm' \subseteq 0..(PAGES - 1) /\ phys' \subseteq 0..(PAGES - 1)
    BY <1>2 DEF IInv, TypeOK
  <2> QED
    BY <1>8, <1>10, <2>1, <2>2 DEF IInv, TypeOK
<1>17. Placed'
  <2> SUFFICES ASSUME NEW c \in live'
               PROVE  /\ c.size > 0
                      /\ c.kind = "pages" => PagesAt(c)
                      /\ c.kind = "malloc" /\ ~Small(c) => BigAt(c)'
                      /\ Small(c) => SmallAt(c)'
    BY DEF Placed, PagesAt
  <2>1. CASE c = a
    <3>1. SmallAt(c)'
      BY <1>4, <1>5, <1>10, <1>11, <2>1 DEF SmallAt
    <3> QED
      BY <1>11, <2>1, <3>1
  <2>2. CASE c \in live
    BY <1>13, <2>2 DEF IInv, Placed, BigAt, SmallAt
  <2> QED
    BY <1>6, <2>1, <2>2
<1>18. Apart'
  <2> SUFFICES ASSUME NEW x \in live', NEW y \in live', NEW q \in PagesOf(x), x # y, q \in PagesOf(y)
               PROVE  Small(x) /\ Small(y) /\ x.ptr # y.ptr
    BY DEF Apart
  <2>1. x \in live /\ y \in live
    BY <1>6, <1>12, <1>13
  <2> QED
    BY <2>1 DEF IInv, Apart
<1>19. Marked'
  <2>1. p \notin lost
    BY DEF IInv, Marked
  <2> QED
    BY <1>2, <1>6, <1>12, <2>1 DEF IInv, Marked
<1>20. ListedRight'
  <2> SUFFICES ASSUME NEW c \in Descs
               PROVE  /\ NoDup(free_list'[c])
                      /\ \A x \in Elems(free_list'[c]) :
                           /\ Page(x) \in Arenas' /\ arena'[Page(x)].desc = c
                           /\ x \in BlockSet(Page(x), c)
                           /\ \A y \in live' : Small(y) => y.ptr # x
    BY DEF ListedRight, OnFreeList, Elems
  <2>1. CASE c = d
    <3>1. NoDup(free_list'[c])
      BY <1>4, <1>8, <2>1
    <3>2. ASSUME NEW x \in Elems(free_list'[c])
          PROVE  /\ Page(x) \in Arenas' /\ arena'[Page(x)].desc = c
                 /\ x \in BlockSet(Page(x), c)
                 /\ \A y \in live' : Small(y) => y.ptr # x
      <4>1. x \in BlockSet(p, d) /\ x # b /\ Page(x) = p
        BY <1>4, <1>5, <1>8, <2>1, <3>2
      <4> QED
        BY <1>6, <1>10, <1>11, <1>13, <1>14, <2>1, <4>1
    <3> QED
      BY <3>1, <3>2
  <2>2. CASE c # d
    <3>1. NoDup(free_list'[c]) /\ free_list'[c] = free_list[c]
      BY <1>8, <2>2 DEF IInv, ListedRight
    <3>2. ASSUME NEW x \in Elems(free_list'[c])
          PROVE  /\ Page(x) \in Arenas' /\ arena'[Page(x)].desc = c
                 /\ x \in BlockSet(Page(x), c)
                 /\ \A y \in live' : Small(y) => y.ptr # x
      <4>1. x \in OnFreeList(c)
        BY <1>15, <3>1, <3>2
      <4>2. /\ Page(x) \in Arenas /\ arena[Page(x)].desc = c /\ x \in BlockSet(Page(x), c)
            /\ \A y \in live : Small(y) => y.ptr # x
        BY <4>1, ListFacts
      <4>3. Page(x) # p /\ Page(x) \in 0..(PAGES - 1)
        BY <1>2, <1>14, <4>2, ArenaFacts
      <4> QED
        BY <1>5, <1>6, <1>10, <1>11, <1>14, <4>2, <4>3
    <3> QED
      BY <3>1, <3>2
  <2> QED
    BY <2>1, <2>2
<1>21. ArenasRight'
  <2> SUFFICES ASSUME NEW q \in Arenas'
               PROVE  /\ arena'[q].cnt =
                           Cardinality({x \in Elems(free_list'[arena'[q].desc]) : Page(x) = q})
                      /\ \A x \in BlockSet(q, arena'[q].desc) :
                           x \in Elems(free_list'[arena'[q].desc]) \/ \E y \in live' : Small(y) /\ y.ptr = x
    <3>1. \A c : OnFreeList(c)' = Elems(free_list'[c])
      BY DEF OnFreeList, Elems
    <3> QED
      BY <3>1 DEF ArenasRight, OnFreeList, Elems
  <2>1. CASE q = p
    <3>1. {x \in Elems(free_list'[d]) : Page(x) = p} = BlockSet(p, d) \ {b}
      BY <1>4, <1>5, <1>8
    <3>2. Cardinality(BlockSet(p, d) \ {b}) = blocks_each_arena(d) - 1
      <4>1. IsFiniteSet(BlockSet(p, d)) /\ Cardinality(BlockSet(p, d)) = blocks_each_arena(d)
        BY <1>2, BlockSetCount
      <4>2. Cardinality(BlockSet(p, d) \ {b}) = IF b \in BlockSet(p, d) THEN Cardinality(BlockSet(p, d)) - 1
                                                                        ELSE Cardinality(BlockSet(p, d))
        BY <4>1, FS_RemoveElement
      <4> QED
        BY <1>4, <4>1, <4>2
    <3>3. \A x \in BlockSet(p, d) : x \in Elems(free_list'[d]) \/ \E y \in live' : Small(y) /\ y.ptr = x
      BY <1>4, <1>6, <1>8, <1>11
    <3> QED
      BY <1>10, <2>1, <3>1, <3>2, <3>3
  <2>2. CASE q # p
    <3>1. q \in Arenas
      BY <1>14, <2>2
    <3>2. PICK c : c = arena[q].desc
      OBVIOUS
    <3>3. ArenaHolds(q, c)
      BY <3>1, <3>2, ArenaBlocks
    <3>4. arena'[q] = arena[q] /\ arena'[q].desc = c /\ c \in Descs /\ q \in Nat
      BY <1>10, <2>2, <3>2, <3>3 DEF ArenaHolds
    <3>5. {x \in Elems(free_list'[c]) : Page(x) = q} = FreeIn(q, c)
      <4>1. CASE c = d
        <5>1. OnFreeList(d) = {}
          BY <1>15 DEF Elems
        <5>2. \A x \in Elems(free_list'[d]) : Page(x) = p
          BY <1>4, <1>5, <1>8
        <5> QED
          BY <2>2, <4>1, <5>1, <5>2 DEF FreeIn
      <4>2. CASE c # d
        BY <1>8, <1>15, <3>4, <4>2 DEF FreeIn
      <4> QED
        BY <4>1, <4>2
    <3>6. ASSUME NEW x \in BlockSet(q, c)
          PROVE  x \in Elems(free_list'[c]) \/ \E y \in live' : Small(y) /\ y.ptr = x
      <4>1. Page(x) = q
        BY <3>4, BlockFacts
      <4>2. x \in FreeIn(q, c) \/ \E y \in live : Small(y) /\ y.ptr = x
        BY <3>3, <4>1 DEF ArenaHolds, FreeIn
      <4> QED
        BY <1>6, <3>5, <4>2
    <3> QED
      BY <3>3, <3>4, <3>5, <3>6 DEF ArenaHolds
  <2> QED
    BY <2>1, <2>2
<1>22. StopsAtEnd'
  BY DEF StopsAtEnd
<1> QED
  BY <1>16, <1>17, <1>18, <1>19, <1>20, <1>21, <1>22 DEF IInv

(* sys_malloc() of a small size takes a block from a free list or from a    *)
(* new arena.                                                               *)
LEMMA MallocBlockInv ==
  ASSUME IInv, NEW size \in Sizes, sys_malloc_block(size)
  PROVE  IInv'
<1>0. PICK d : d = desc_for(size)
  OBVIOUS
<1>1. PICK p : p = bitmap_apply(vm, PAGES, 1)
  OBVIOUS
<1>2. size \in Nat \ {0} /\ size <= Large /\ ~stopped
  BY RequestAssumption DEF sys_malloc_block
<1>3. d \in Descs /\ size <= block_size[d]
  BY <1>0, <1>2, DescFor
<1>4. CASE free_list[d] # <<>>
  <2>1. take_block(d, free_list[d], arena, size) /\ UNCHANGED <<vm, phys, lost, stopped>>
    BY <1>0, <1>4 DEF sys_malloc_block
  <2> QED
    BY <1>2, <1>3, <1>4, <2>1, PopInv
<1>5. CASE free_list[d] = <<>>
  <2>1. p # NONE
    BY <1>0, <1>1, <1>5 DEF sys_malloc_block
  <2>2. /\ p \in {STOP, SPIN} => PAGES - 2 \in vm
        /\ p \notin {STOP, SPIN} => /\ p \in Nat /\ p + 1 - 1 \in Nat /\ p \in p..(p + 1 - 1)
                                    /\ \A q \in p..(p + 1 - 1) : q \in 0..(PAGES - 2) /\ q \notin vm
    <3>1. 1 \in Nat \ {0}
      OBVIOUS
    <3> QED
      BY <1>1, <2>1, <3>1, Applied
  <2>3. CASE p \in {STOP, SPIN}
    <3>1. stop
      BY <1>0, <1>1, <1>5, <2>3 DEF sys_malloc_block
    <3> QED
      BY <2>2, <2>3, <3>1, StopInv
  <2>4. CASE p \notin {STOP, SPIN}
    <3>1. /\ page_alloc(p, 1) /\ UNCHANGED <<lost, stopped>>
          /\ take_block(d, BlocksOf(p, d),
                      [arena EXCEPT ![p] = [desc |-> d, cnt |-> blocks_each_arena(d)]], size)
      BY <1>0, <1>1, <1>5, <2>4 DEF sys_malloc_block
    <3>2. vm' = vm \union (p..(p + 1 - 1)) /\ phys' = phys \union {p}
      <4>1. 1 \in Nat \ {0}
        OBVIOUS
      <4> QED
        BY <3>1, <4>1, PageAlloc
    <3>3. p \in Nat /\ p..(p + 1 - 1) = {p} /\ p \in 0..(PAGES - 2) /\ p \notin vm
      BY <2>2, <2>4
    <3> QED
      BY <1>2, <1>3, <1>5, <3>1, <3>2, <3>3, NewArenaInv
  <2> QED
    BY <2>3, <2>4
<1> QED
  BY <1>4, <1>5

(* sys_free() puts a block back, gives back the page of an arena that is    *)
(* all free, or gives back pages.                                           *)
LEMMA FreeInv ==
  ASSUME IInv, NEW a \in live, sys_free(a)
  PROVE  IInv'
<1>0. PICK p : p = Page(a.ptr)
  OBVIOUS
<1>1. PICK d : d = arena[p].desc
  OBVIOUS
<1>2. ~stopped /\ a.kind = "malloc" /\ live' = live \ {a} /\ stopped' = stopped
  BY DEF sys_free
<1>3. p \in 0..(PAGES - 1) /\ arena \in [0..(PAGES - 1) -> [desc : 0..MEM_DESC_CNT, cnt : Nat]]
  <2>1. p \in 0..(PAGES - 2)
    BY <1>0, LiveFacts
  <2> QED
    BY <2>1, PageSizes DEF IInv, TypeOK
<1>4. CASE d = 0
  <2>1. /\ page_free(a.ptr, arena[p].cnt) /\ arena' = [arena EXCEPT ![p] = NoArena]
        /\ UNCHANGED free_list
    BY <1>0, <1>1, <1>4 DEF sys_free
  <2> QED
    BY <1>0, <1>1, <1>2, <1>4, <2>1, FreeBigInv
<1>5. CASE d # 0
  <2>1. Small(a)
    <3> SUFFICES ASSUME ~Small(a) PROVE FALSE
      OBVIOUS
    <3>1. BigAt(a)
      BY <1>2 DEF IInv, Placed
    <3>2. arena[p] = [desc |-> 0, cnt |-> page_cnt(a.size)]
      BY <1>0, <3>1 DEF BigAt
    <3> QED
      BY <1>1, <1>5, <3>2
  <2>2. recount(p)[p].cnt = arena[p].cnt + 1
    BY <1>3 DEF recount
  <2>3. CASE arena[p].cnt + 1 = blocks_each_arena(d)
    <3>1. /\ free_list' = [free_list EXCEPT
                             ![d] = del_blocks(Append(free_list[d], a.ptr), p, d, arena[p].cnt + 1)]
          /\ page_free(a.ptr, 1) /\ arena' = [arena EXCEPT ![p] = NoArena]
      BY <1>0, <1>1, <1>5, <2>2, <2>3 DEF sys_free
    <3> QED
      BY <1>0, <1>1, <1>2, <2>1, <2>3, <3>1, LastBlockInv
  <2>4. CASE arena[p].cnt + 1 # blocks_each_arena(d)
    <3>1. /\ free_list' = [free_list EXCEPT ![d] = Append(free_list[d], a.ptr)]
          /\ arena' = recount(p) /\ UNCHANGED <<vm, phys, lost>>
      BY <1>0, <1>1, <1>5, <2>2, <2>4 DEF sys_free
    <3> QED
      BY <1>0, <1>1, <1>2, <2>1, <2>4, <3>1, PushInv
  <2> QED
    BY <2>3, <2>4
<1> QED
  BY <1>4, <1>5

(* Nothing but the variables of the module matters to the invariant.        *)
LEMMA StutterInv == ASSUME IInv, UNCHANGED memVars PROVE IInv'
<1>1. TypeOK' /\ Placed' /\ Apart' /\ Marked' /\ StopsAtEnd'
  BY DEF IInv, memVars, TypeOK, Placed, PagesAt, BigAt, SmallAt, Apart, Marked, StopsAtEnd
<1>2. Arenas' = Arenas /\ (\A d : OnFreeList(d)' = OnFreeList(d))
  BY DEF memVars, OnFreeList, Arenas
<1>3. ListedRight'
  BY <1>2 DEF IInv, memVars, ListedRight
<1>4. ArenasRight'
  BY <1>2 DEF IInv, memVars, ArenasRight
<1> QED
  BY <1>1, <1>3, <1>4 DEF IInv

(* Every operation of the allocator keeps the invariant.                    *)
LEMMA StepInv == IInv /\ [Next]_memVars => IInv'
<1> SUFFICES ASSUME IInv, [Next]_memVars PROVE IInv'
  OBVIOUS
<1>1. CASE \E n \in PageCounts : get_kernel_pages(n)
  BY <1>1, GetKernelPagesInv
<1>2. CASE \E size \in Sizes : sys_malloc_pages(size)
  BY <1>2, MallocPagesInv
<1>3. CASE \E size \in Sizes : sys_malloc_block(size)
  BY <1>3, MallocBlockInv
<1>4. CASE \E a \in live : sys_free(a)
  BY <1>4, FreeInv
<1>5. CASE UNCHANGED memVars
  BY <1>5, StutterInv
<1> QED
  BY <1>1, <1>2, <1>3, <1>4, <1>5 DEF Next

(* After any sequence of calls of get_kernel_pages(), sys_malloc() and      *)
(* sys_free(), for any size of the pool, of pages and of blocks and any     *)
(* requests: every allocation is where its header says, pages and blocks    *)
(* are used once, a block of an arena is either free or in use, and the     *)
(* header counts the free ones.                                             *)
THEOREM MemoryInvariant == Spec => []IInv
BY InitInv, StepInv, PTL DEF Spec

(* The allocator of memory.c hands out no byte twice, whatever is freed in  *)
(* between: allocations share no byte with each other, with a block on a    *)
(* free list or with the header of their own page.                          *)
THEOREM NoOverlapHolds == Spec => []NoOverlap
BY MemoryInvariant, InvNoOverlap, PTL

(* The counts in the headers of arenas are right, so sys_free() gives a     *)
(* page back exactly when its last block is freed, and takes all its blocks *)
(* off the free list before it does.                                        *)
THEOREM ArenasCountHolds == Spec => []ArenasCount
BY MemoryInvariant, InvArenasCount, PTL

(* What the pool loses for good is exactly the pages after the first of     *)
(* each freed allocation of several pages, whose bits vaddr_free() does not *)
(* clear; no other page is lost and none is free while it is in use.        *)
THEOREM LosesOnlyTailsHolds == Spec => []LosesOnlyTails
BY MemoryInvariant, InvLosesOnlyTails, PTL

(* The kernel can stop in bitmap_apply(), at an ASSERT or in its loop, only *)
(* when the last page is free and the page before it is in use: any other   *)
(* shortage of memory is an error return.                                   *)
THEOREM StopsAtEndHolds == Spec => []StopsAtEnd
<1>1. IInv => StopsAtEnd
  BY DEF IInv
<1> QED
  BY <1>1, MemoryInvariant, PTL

-----------------------------------------------------------------------------
(* Neither subtraction of mem_pool_init() wraps around.                      *)
LEMMA SizesExact ==
  ASSUME NEW t \in Totals
  PROVE  /\ kernel_mem_size(t) \in Nat /\ user_mem_size(t) \in Nat
         /\ t \in Nat /\ t % 2 = 0
         /\ t < THRESHOLD => kernel_mem_size(t) = t \div 2 - HEAP
         /\ t >= THRESHOLD => kernel_mem_size(t) = KERNEL_MAX - HEAP
         /\ user_mem_size(t) = t - kernel_mem_size(t) - HEAP
         /\ kernel_mem_size(t) + HEAP <= KERNEL_MAX
<1>1. /\ t \in Nat /\ t % 2 = 0 /\ 2 * HEAP <= t /\ t < WRAP
  BY TotalsAssumption
<1>2. HEAP \in Nat /\ KERNEL_MAX \in Nat /\ WRAP \in Nat /\ HEAP < KERNEL_MAX /\ 0 < WRAP
      /\ 4 * KERNEL_MAX <= WRAP
  BY SizesAssumption
<1>3. \A x \in Nat : x < WRAP => x % WRAP = x
  BY <1>2
<1>4. CASE t >= THRESHOLD
  <2>1. kernel_mem_size(t) = KERNEL_MAX - HEAP
    BY <1>4 DEF kernel_mem_size
  <2>2. t - (KERNEL_MAX - HEAP) - HEAP \in Nat /\ t - (KERNEL_MAX - HEAP) - HEAP < WRAP
    BY <1>1, <1>2, <1>4 DEF THRESHOLD
  <2>3. user_mem_size(t) = t - (KERNEL_MAX - HEAP) - HEAP
    BY <2>1, <2>2, <1>3 DEF user_mem_size
  <2> QED BY <2>1, <2>2, <2>3, <1>1, <1>2, <1>4 DEF THRESHOLD
<1>5. CASE ~(t >= THRESHOLD)
  <2>1. t \div 2 - HEAP \in Nat /\ t \div 2 - HEAP < WRAP /\ t \div 2 <= KERNEL_MAX
    BY <1>1, <1>2, <1>5 DEF THRESHOLD
  <2>2. kernel_mem_size(t) = t \div 2 - HEAP
    BY <2>1, <1>3, <1>5 DEF kernel_mem_size
  <2>3. t - (t \div 2 - HEAP) - HEAP \in Nat /\ t - (t \div 2 - HEAP) - HEAP < WRAP
    BY <1>1, <1>2
  <2>4. user_mem_size(t) = t - (t \div 2 - HEAP) - HEAP
    BY <2>2, <2>3, <1>3 DEF user_mem_size
  <2> QED BY <2>1, <2>2, <2>3, <2>4, <1>1, <1>2, <1>5 DEF THRESHOLD
<1> QED BY <1>4, <1>5

-----------------------------------------------------------------------------
(* What the two steps have computed so far.                                  *)
Computed ==
  /\ total \in Totals
  /\ stage \in {"boot", "pools", "mapped"}
  /\ stage # "boot" =>
       /\ kernel_pool = Pool(HEAP \div 2, kernel_mem_size(total))
       /\ user_pool = Pool(kernel_mem_size(total) \div 2 + HEAP \div 2, user_mem_size(total))
  /\ stage = "mapped" =>
       /\ dirs = total_kernel_pages(total) \div ENTRIES
       /\ last = total_kernel_pages(total) % ENTRIES

(* Computed holds always: nothing changes a pool once it is set up.          *)
LEMMA ComputedAlways == LayoutSpec => []Computed
<1>1. LayoutInit => Computed
  BY DEF LayoutInit, Computed
<1>2. Computed /\ [LayoutNext]_layoutVars => Computed'
  BY DEF Computed, LayoutNext, mem_pool_init, page_table_init, layoutVars
<1> QED BY <1>1, <1>2, PTL DEF LayoutSpec

(* mem_pool_init() makes two pools that share nothing and are in memory, for *)
(* every TOTAL_MEM of at least 32 MB (twice what lies below the heap).       *)
THEOREM PoolsAlwaysFit == LayoutSpec => []PoolsFit
<1>1. Computed => PoolsFit
  <2> SUFFICES ASSUME Computed, stage # "boot"
               PROVE  /\ 2 * kernel_pool.start >= HEAP
                      /\ End(kernel_pool) <= user_pool.start
                      /\ 2 * End(user_pool) <= total
                      /\ 8 * kernel_pool.bytes <= kernel_pool.pages
                      /\ 8 * user_pool.bytes <= user_pool.pages
    BY DEF PoolsFit
  <2> DEFINE k == kernel_mem_size(total)
             u == user_mem_size(total)
  <2>1. /\ kernel_pool.start = HEAP \div 2 /\ kernel_pool.pages = k \div 2
        /\ kernel_pool.bytes = (k \div 2) \div 8
        /\ user_pool.start = k \div 2 + HEAP \div 2 /\ user_pool.pages = u \div 2
        /\ user_pool.bytes = (u \div 2) \div 8
    BY DEF Computed, Pool
  <2>2. k \in Nat /\ u \in Nat /\ total \in Nat /\ u = total - k - HEAP
        /\ HEAP \in Nat /\ HEAP % 2 = 0
    BY SizesExact, SizesAssumption DEF Computed
  <2> HIDE DEF k, u
  <2> QED BY <2>1, <2>2 DEF End
<1> QED BY <1>1, ComputedAlways, PTL

(* A number below E * d + l, with l < E, has a quotient below d or has       *)
(* quotient d and remainder below l.                                         *)
LEMMA Quotients ==
  ASSUME NEW E \in Nat \ {0}, NEW v \in Nat, NEW n \in Nat, v < n
  PROVE  /\ v = (v \div E) * E + (v % E)
         /\ v \div E \in Nat /\ v % E \in 0..(E - 1)
         /\ n \div E \in Nat
         /\ E <= n => n \div E # 0
         /\ \/ v \div E < n \div E
            \/ v \div E = n \div E /\ v % E < n % E
<1> DEFINE i == v \div E
           j == v % E
           d == n \div E
           l == n % E
<1>1. v = i * E + j /\ i \in Nat /\ j \in 0..(E - 1)
  BY SMTT(30)
<1>2. n = d * E + l /\ d \in Nat /\ l \in 0..(E - 1)
  BY SMTT(30)
<1> HIDE DEF i, j, d, l
<1>3. ASSUME i > d PROVE FALSE
  <2>1. i * E >= (d + 1) * E
    BY <1>1, <1>2, <1>3, SMTT(30)
  <2>2. (d + 1) * E = d * E + E
    BY <1>2, SMTT(30)
  <2> QED BY <2>1, <2>2, <1>1, <1>2, SMTT(30)
<1>4. i < d \/ (i = d /\ j < l)
  BY <1>1, <1>2, <1>3
<1>5. E <= n => d # 0
  BY <1>2
<1> QED BY <1>1, <1>2, <1>4, <1>5 DEF i, j, d, l

(* Every page of the kernel's pool below the last page table is mapped to    *)
(* the physical page that page_alloc() marks as used for it.                 *)
THEOREM HeapMappedBelowTop == LayoutSpec => []MappedBelowTop
<1>1. Computed => MappedBelowTop
  <2> SUFFICES ASSUME Computed, stage = "mapped",
                      NEW v \in kernel_pool.start..(End(kernel_pool) - 1),
                      v < (Dirs - 1) * ENTRIES
               PROVE  Frame(v) = v
    BY DEF MappedBelowTop
  <2> DEFINE n == total_kernel_pages(total)
             k == kernel_mem_size(total)
  <2>1. kernel_pool.start = HEAP \div 2 /\ kernel_pool.pages = k \div 2
        /\ dirs = n \div ENTRIES /\ last = n % ENTRIES
    BY DEF Computed, Pool
  <2>2. /\ HEAP \in Nat /\ HEAP % 2 = 0 /\ ENTRIES \in Nat \ {0} /\ 2 * ENTRIES <= HEAP
        /\ KERNEL_MAX \in Nat /\ HEAP < KERNEL_MAX
    BY SizesAssumption
  <2>3. k \in Nat /\ n \in Nat /\ n = (k + HEAP) \div 2
    <3>1. total \in Totals
      BY DEF Computed
    <3>2. /\ k \in Nat /\ total \in Nat
          /\ total < THRESHOLD => k = total \div 2 - HEAP
          /\ total >= THRESHOLD => k = KERNEL_MAX - HEAP
      BY <3>1, SizesExact
    <3> HIDE DEF k
    <3> QED BY <3>2, <2>2 DEF total_kernel_pages, THRESHOLD
  <2> HIDE DEF n, k
  <2>4. v \in Nat /\ v < n /\ ENTRIES <= n
    BY <2>1, <2>2, <2>3 DEF End
  <2> DEFINE i == v \div ENTRIES
             j == v % ENTRIES
  <2>5. /\ v = i * ENTRIES + j /\ i \in Nat /\ j \in 0..(ENTRIES - 1)
        /\ i < dirs \/ (i = dirs /\ j < last)
    BY <2>1, <2>2, <2>3, <2>4, Quotients, ZenonT(60)
  <2>6. dirs \in Nat /\ dirs # 0
    BY <2>1, <2>2, <2>3, <2>4, Quotients
  <2>7. i # Dirs - 1
    <3>1. Dirs \in Int
      BY <2>2 DEF Dirs
    <3>2. i * ENTRIES <= v
      BY <2>2, <2>5, SMTT(30)
    <3> HIDE DEF i, j
    <3> QED BY <3>1, <3>2, <2>2, <2>4, <2>5, SMTT(30)
  <2>8. CASE i < dirs
    BY <2>5, <2>7, <2>8 DEF Frame
  <2>9. CASE i = dirs /\ j < last
    <3>1. Frame(v) = dirs * ENTRIES + j
      BY <2>6, <2>7, <2>9 DEF Frame
    <3> QED BY <3>1, <2>5, <2>9
  <2> QED BY <2>5, <2>8, <2>9
<1> QED BY <1>1, ComputedAlways, PTL
=============================================================================
