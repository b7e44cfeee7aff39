------------------------------ MODULE MemLayout ------------------------------
(***************************************************************************)
(* How mm/memory.c divides the memory at boot: mem_pool_init() cuts it     *)
(* into the kernel's and the users' pool, page_table_init() maps the       *)
(* kernel's.  The same split is computed twice, by mem_pool_init() and     *)
(* total_kernel_pages().                                                   *)
(*                                                                         *)
(* Sizes are in half pages of 2 KB, so that half of a whole number of      *)
(* pages is exact; pools and mappings are in pages.  Virtual pages count   *)
(* from 0xc0000000.                                                        *)
(***************************************************************************)
EXTENDS Integers

CONSTANTS Totals,       \* the values of TOTAL_MEM, whole pages
          HEAP,         \* KERNEL_HEAP_BASE - 0xc0000000, 16 MB
          KERNEL_MAX,   \* KERNEL_MAX_SIZE, 1 GB
          WRAP,         \* 4 GB, where a uint32_t wraps
          ENTRIES       \* entries of a page table, 1024

ASSUME SizesAssumption ==
  /\ HEAP \in Nat \ {0} /\ HEAP % 2 = 0
  /\ KERNEL_MAX \in Nat /\ KERNEL_MAX % 2 = 0 /\ HEAP < KERNEL_MAX
  /\ WRAP \in Nat /\ 4 * KERNEL_MAX <= WRAP
  /\ ENTRIES \in Nat \ {0} /\ 2 * ENTRIES <= HEAP
ASSUME TotalsAssumption ==
  \A total \in Totals : total \in Nat /\ total % 2 = 0 /\ 2 * HEAP <= total /\ total < WRAP

VARIABLES total,         \* TOTAL_MEM
          kernel_pool,   \* physical_mem_pool: first page, pages, bitmap bytes
          user_pool,
          dirs, last,    \* full page tables, and entries in one more
          stage          \* "boot", "pools", "mapped"

layoutVars == <<total, kernel_pool, user_pool, dirs, last, stage>>

THRESHOLD == 2 * KERNEL_MAX   \* KERNEL_THRESHOLD
Dirs == KERNEL_MAX \div (2 * ENTRIES)   \* entries 768..1023 of the page directory

-----------------------------------------------------------------------------
kernel_mem_size(t) ==
  IF t >= THRESHOLD THEN KERNEL_MAX - HEAP ELSE (t \div 2 - HEAP) % WRAP

user_mem_size_WithHeap(t) == (t - kernel_mem_size(t)) % WRAP
user_mem_size(t) == (t - kernel_mem_size(t) - HEAP) % WRAP

Pool(start, size) == [start |-> start, pages |-> size \div 2, bytes |-> (size \div 2) \div 8]

NoPool == Pool(0, 0)

LayoutInit ==
  /\ total \in Totals
  /\ kernel_pool = NoPool /\ user_pool = NoPool
  /\ dirs = 0 /\ last = 0
  /\ stage = "boot"

(* kernel_vm_pool has the pages of kernel_pool, from KERNEL_HEAP_BASE on.   *)
mem_pool_init ==
  /\ stage = "boot"
  /\ kernel_pool' = Pool(HEAP \div 2, kernel_mem_size(total))
  /\ user_pool' = Pool(kernel_mem_size(total) \div 2 + HEAP \div 2, user_mem_size(total))
  /\ stage' = "pools"
  /\ UNCHANGED <<total, dirs, last>>

total_kernel_pages_Pool(t) == kernel_mem_size(t) \div 2
total_kernel_pages(t) == (IF t >= THRESHOLD THEN KERNEL_MAX ELSE t \div 2) \div 2

page_table_init ==
  /\ stage = "pools"
  /\ dirs' = total_kernel_pages(total) \div ENTRIES
  /\ last' = total_kernel_pages(total) % ENTRIES
  /\ stage' = "mapped"
  /\ UNCHANGED <<total, kernel_pool, user_pool>>

LayoutNext == mem_pool_init \/ page_table_init

LayoutSpec == LayoutInit /\ [][LayoutNext]_layoutVars

(* The physical page of virtual page v: full tables from memory_addr        *)
(* i * 4 MB, then the table with last entries, 4 MB after the last full one *)
(* (or at 4 MB if there is none); then the last entry of the directory is   *)
(* made to point to the directory itself.  -1: not the memory of a page.    *)
Frame(v) ==
  LET i == v \div ENTRIES
      j == v % ENTRIES
      base == IF dirs = 0 THEN ENTRIES ELSE dirs * ENTRIES
  IN  CASE i = Dirs - 1 -> -1
        [] i # Dirs - 1 /\ i < dirs -> i * ENTRIES + j
        [] i # Dirs - 1 /\ i = dirs /\ j < last -> base + j
        [] OTHER -> -1

-----------------------------------------------------------------------------
End(pool) == pool.start + pool.pages

(* The pools share no page with each other or with what lies below the      *)
(* heap, and are memory that is there; each bitmap, rounded down to bytes,  *)
(* has no bit for a page outside its pool.                                  *)
PoolsFit ==
  stage # "boot" =>
    /\ 2 * kernel_pool.start >= HEAP
    /\ End(kernel_pool) <= user_pool.start
    /\ 2 * End(user_pool) <= total
    /\ 8 * kernel_pool.bytes <= kernel_pool.pages /\ 8 * user_pool.bytes <= user_pool.pages

(* Every page that the kernel pool hands out is mapped where page_alloc()   *)
(* takes it to be, __pa() of its address, except in the last table of the   *)
(* directory, which the directory's entry for itself replaces: with more    *)
(* than 2040 MB the pool reaches into the 4 MB that are not mapped.         *)
MappedBelowTop ==
  stage = "mapped" =>
    \A v \in kernel_pool.start..(End(kernel_pool) - 1) :
      v < (Dirs - 1) * ENTRIES => Frame(v) = v
=============================================================================
