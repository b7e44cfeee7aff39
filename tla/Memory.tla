------------------------------- MODULE Memory -------------------------------
(***************************************************************************)
(* The kernel's memory: the page allocator and the fine grained heap of    *)
(* mm/memory.c, for kernel threads (pde_addr is NULL in every PCB).        *)
(*                                                                         *)
(* Every operation runs under kernel_pool.lock, so it is one step: Sync    *)
(* shows that the lock excludes.  Addresses are offsets from               *)
(* KERNEL_HEAP_BASE; the kernel's linear mapping takes page i of the       *)
(* virtual pool to page i of the physical pool.                            *)
(***************************************************************************)
EXTENDS Integers, SequencesExt, Bitmap

CONSTANTS PAGES,          \* bits in the two bitmaps of the kernel pool
          PAGE_SIZE,      \* 4096
          ARENA,          \* sizeof(struct arena), 8
          MIN_BLOCK,      \* 16
          MEM_DESC_CNT,   \* 7
          Sizes,          \* the sizes sys_malloc() is called with
          PageCounts      \* what get_kernel_pages() is called with

Descs == 1..MEM_DESC_CNT

(* mem_block_desc_init(): the sizes of the blocks double.                   *)
block_size[d \in Descs] == IF d = 1 THEN MIN_BLOCK ELSE 2 * block_size[d - 1]
blocks_each_arena(d) == (PAGE_SIZE - ARENA) \div block_size[d]
Large == block_size[MEM_DESC_CNT]   \* 1024

ASSUME PagesAssumption == PAGES \in Nat \ {0, 1}
ASSUME DescAssumption == MEM_DESC_CNT \in Nat \ {0} /\ MIN_BLOCK \in Nat \ {0}
ASSUME ArenaAssumption ==
  /\ ARENA \in Nat /\ PAGE_SIZE \in Nat
  /\ Large <= PAGE_SIZE - ARENA
ASSUME RequestAssumption == Sizes \subseteq Nat \ {0} /\ PageCounts \subseteq Nat \ {0}

VARIABLES vm,          \* kernel_vm_pool.vm_bitmap
          phys,        \* kernel_pool.pool_bitmap
          arena,       \* the struct arena at the start of each page
          free_list,   \* the free blocks of each descriptor, by address
          live,        \* history: what is allocated, [ptr, size, kind]
          lost,        \* history: pages freed whose bit was not cleared
          stopped      \* an ASSERT failed

memVars == <<vm, phys, arena, free_list, live, lost, stopped>>

Page(addr) == addr \div PAGE_SIZE

arena_2_block(p, d, idx) == p * PAGE_SIZE + ARENA + idx * block_size[d]
BlocksOf(p, d) == [i \in 1..blocks_each_arena(d) |-> arena_2_block(p, d, i - 1)]

NoArena == [desc |-> 0, cnt |-> 0]   \* a zeroed header: desc is NULL

(* mem_init().                                                              *)
Init == /\ vm = bitmap_zero /\ phys = bitmap_zero
        /\ arena = [p \in 0..(PAGES - 1) |-> NoArena]
        /\ free_list = [d \in Descs |-> <<>>]
        /\ live = {} /\ lost = {}
        /\ stopped = FALSE

-----------------------------------------------------------------------------
(* The bits that vaddr_alloc() sets for n pages from p.                     *)
vaddr_alloc_First(p, n) == bitmap_set_bits(vm, p, n, TRUE)
vaddr_alloc(p, n) == vm \union (p..(p + n - 1))

(* page_alloc(PF_KERNEL, n) when bitmap_apply() has found page p.           *)
page_alloc(p, n) ==
  /\ vm' = vaddr_alloc(p, n)
  /\ phys' = bitmap_set_bits(phys, p, n, TRUE)

(* phy_free() of n pages from p, and vaddr_free() of them.                  *)
phy_free(p, n) == phys \ (p..(p + n - 1))
vaddr_free(p, n) == bitmap_set_bits(vm, p, n, FALSE)

(* page_free(PF_KERNEL, ptr, n).                                            *)
page_free(ptr, n) ==
  LET p == Page(ptr) IN
  /\ phys' = phy_free(p, n)
  /\ vm' = vaddr_free(p, n)
  /\ lost' = lost \union ((p + 1)..(p + n - 1))

stop == stopped' = TRUE /\ UNCHANGED <<vm, phys, arena, free_list, live, lost>>

get_kernel_pages(n) ==
  LET p == bitmap_apply(vm, PAGES, n)
  IN  /\ ~stopped
      /\ p # NONE
      /\ IF p \in {STOP, SPIN} THEN stop
         ELSE /\ page_alloc(p, n)
              /\ arena' = [q \in DOMAIN arena |->
                             IF q \in p..(p + n - 1) THEN NoArena ELSE arena[q]]
              /\ live' = live \union
                   {[ptr |-> p * PAGE_SIZE, size |-> n * PAGE_SIZE, kind |-> "pages"]}
              /\ UNCHANGED <<free_list, lost, stopped>>

(* sys_malloc() of more than 1024 bytes: whole pages behind a header.       *)
page_cnt(size) == (size + ARENA + PAGE_SIZE - 1) \div PAGE_SIZE

sys_malloc_pages(size) ==
  LET n == page_cnt(size)
      p == bitmap_apply(vm, PAGES, n)
  IN  /\ ~stopped
      /\ size > Large /\ size <= PAGES * PAGE_SIZE /\ p # NONE
      /\ IF p \in {STOP, SPIN} THEN stop
         ELSE /\ page_alloc(p, n)
              /\ arena' = [q \in DOMAIN arena |->
                             CASE q = p -> [desc |-> 0, cnt |-> n]
                               [] q \in (p + 1)..(p + n - 1) -> NoArena
                               [] OTHER -> arena[q]]
              /\ live' = live \union
                   {[ptr |-> p * PAGE_SIZE + ARENA, size |-> size, kind |-> "malloc"]}
              /\ UNCHANGED <<free_list, lost, stopped>>

(* The smallest block that is large enough.                                 *)
desc_for(size) == Least({d \in Descs : size <= block_size[d]})

(* The tail of sys_malloc(): pop the first of the blocks, count it.         *)
take_block(d, blocks, arenas, size) ==
  LET b == Head(blocks)
  IN  /\ free_list' = [free_list EXCEPT ![d] = Tail(blocks)]
      /\ arena' = [arenas EXCEPT ![Page(b)].cnt = @ - 1]
      /\ live' = live \union {[ptr |-> b, size |-> size, kind |-> "malloc"]}

(* sys_malloc() of at most 1024 bytes: from the free list, or from a new    *)
(* arena cut into blocks.                                                   *)
sys_malloc_block(size) ==
  LET d == desc_for(size)
      p == bitmap_apply(vm, PAGES, 1)
      new == [desc |-> d, cnt |-> blocks_each_arena(d)]
  IN  /\ ~stopped
      /\ size <= Large
      /\ IF free_list[d] # <<>>
           THEN take_block(d, free_list[d], arena, size) /\ UNCHANGED <<vm, phys, lost, stopped>>
           ELSE /\ p # NONE
                /\ IF p \in {STOP, SPIN} THEN stop
                   ELSE /\ page_alloc(p, 1)
                        /\ take_block(d, BlocksOf(p, d), [arena EXCEPT ![p] = new], size)
                        /\ UNCHANGED <<lost, stopped>>

(* sys_free(): ++(__arena->cnt), for the arena in page p.                   *)
recount(p) == [arena EXCEPT ![p].cnt = @ + 1]

(* sys_free(): list_del_safe() of the first n blocks of arena p.            *)
del_blocks_Short(q, p, d, n) ==
  LET del[i \in 0..n] ==
        IF i = 0 THEN q
        ELSE IF i = n THEN del[i - 1] ELSE RemoveFirst(del[i - 1], arena_2_block(p, d, i - 1))
  IN  del[n]
del_blocks(q, p, d, n) ==
  LET del[i \in 0..n] ==
        IF i = 0 THEN q ELSE RemoveFirst(del[i - 1], arena_2_block(p, d, i - 1))
  IN  del[n]

(* sys_free() of an allocation of sys_malloc().  The header of a page that  *)
(* is given back is dead memory; the model forgets it.                      *)
sys_free(a) ==
  LET p == Page(a.ptr)
      d == arena[p].desc
      freed == recount(p)
      back == Append(free_list[d], a.ptr)
  IN  /\ ~stopped /\ a \in live /\ a.kind = "malloc"
      /\ live' = live \ {a}
      /\ IF d = 0
           THEN /\ page_free(a.ptr, arena[p].cnt)
                /\ arena' = [arena EXCEPT ![p] = NoArena]
                /\ UNCHANGED free_list
           ELSE IF freed[p].cnt = blocks_each_arena(d)
             THEN /\ free_list' = [free_list EXCEPT ![d] = del_blocks(back, p, d, freed[p].cnt)]
                  /\ page_free(a.ptr, 1)
                  /\ arena' = [arena EXCEPT ![p] = NoArena]
             ELSE /\ free_list' = [free_list EXCEPT ![d] = back]
                  /\ arena' = freed
                  /\ UNCHANGED <<vm, phys, lost>>
      /\ UNCHANGED stopped

Next ==
  \/ \E n \in PageCounts : get_kernel_pages(n)
  \/ \E s \in Sizes : sys_malloc_pages(s) \/ sys_malloc_block(s)
  \/ \E a \in live : sys_free(a)

Spec == Init /\ [][Next]_memVars

-----------------------------------------------------------------------------
TypeOK ==
  /\ vm \subseteq 0..(PAGES - 1) /\ phys \subseteq 0..(PAGES - 1)
  /\ arena \in [0..(PAGES - 1) -> [desc : 0..MEM_DESC_CNT, cnt : Nat]]
  /\ free_list \in [Descs -> Seq(Nat)]
  /\ live \subseteq [ptr : Nat, size : Nat, kind : {"pages", "malloc"}]
  /\ lost \subseteq 0..(PAGES - 1)
  /\ stopped \in BOOLEAN

PagesOf(a) == Page(a.ptr)..Page(a.ptr + a.size - 1)
Bytes(a) == a.ptr..(a.ptr + a.size - 1)
OnFreeList(d) == {free_list[d][i] : i \in 1..Len(free_list[d])}

(* Memory is handed out once: two allocations share no byte, none covers    *)
(* the header of an arena or a block on a free list, and the virtual pool   *)
(* has every page of each marked as used.                                   *)
NoOverlap ==
  /\ \A a, b \in live : a # b => Bytes(a) \intersect Bytes(b) = {}
  /\ \A a \in live : PagesOf(a) \subseteq vm
  /\ \A a \in live, d \in Descs : Bytes(a) \intersect OnFreeList(d) = {}
  /\ \A a \in live : a.kind = "malloc" =>
       Bytes(a) \intersect {Page(a.ptr) * PAGE_SIZE + i : i \in 0..(ARENA - 1)} = {}

(* The pages that are cut into blocks.                                      *)
Arenas == {Page(a.ptr) : a \in {x \in live : x.kind = "malloc" /\ x.size <= Large}}

(* The counts of the arenas are right, and no free list keeps a block of a  *)
(* page that was given back: a block on a free list belongs to an arena of  *)
(* that size with a live block, and cnt is the number of its blocks there.  *)
ArenasCount ==
  /\ \A d \in Descs : \A b \in OnFreeList(d) :
       Page(b) \in Arenas /\ arena[Page(b)].desc = d
  /\ \A p \in Arenas :
       LET d == arena[p].desc
       IN  d # 0 /\ arena[p].cnt = Cardinality({b \in OnFreeList(d) : Page(b) = p})
  /\ \A d \in Descs : Cardinality(OnFreeList(d)) = Len(free_list[d])

(* Running out of memory is an error return, as get_kernel_pages() and      *)
(* bitmap_apply() promise: no request stops the kernel.                     *)
NeverStops == ~stopped

(* What is freed can be given out again: the pages marked as used in the    *)
(* virtual pool are those of what is allocated.                             *)
FreedPagesReturn == vm = UNION {PagesOf(a) : a \in live}
=============================================================================
