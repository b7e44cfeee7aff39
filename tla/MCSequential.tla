---------------------------- MODULE MCSequential ----------------------------
(***************************************************************************)
(* The code that runs from its beginning to its end without being          *)
(* disturbed: at boot, with interrupts off, under a lock, or on data of    *)
(* its own.                                                                *)
(*                                                                         *)
(* mem_init() lays out a memory of any size.  Then there are the heap and  *)
(* the lists, under any calls, and the algorithms that keep no state, each *)
(* on all its inputs up to a bound and against a definition of what it     *)
(* should compute.  As they share no state, each is used while the others  *)
(* are as they were at the beginning.  Memories other than the smallest    *)
(* end with their layout, since the heap of the instance does not depend   *)
(* on it.                                                                  *)
(***************************************************************************)
EXTENDS Library, PartitionScan, Format, Memory, MemLayout, KernelList

CONSTANTS DISKS,         \* how many disks are scanned
          PLACES,        \* what the places of a disk's first table may hold
          CHAINS,        \* how many logical partitions a disk may have
          MAX_SLEEP,     \* the longest sleep, in milliseconds
          MAX_ITEMS,     \* the longest format, in items
          ROOM           \* the bytes of a buffer before its last, a NUL

ASSUME BoundsAssumption == {DISKS, MAX_SLEEP, MAX_ITEMS, ROOM} \subseteq Nat \ {0}
ASSUME PlacesAssumption == PLACES \subseteq {"free", "prim", "ext"}

Nothing == [kind |-> "none"]

-----------------------------------------------------------------------------
(* A disk as the user laid it out: the four places of its first table, with *)
(* primary and at most one extended partition, and the number of logical    *)
(* partitions in that.                                                      *)
Layouts == {l \in [1..4 -> PLACES] :
              Cardinality({i \in 1..4 : l[i] = "ext"}) <= 1}
HasExt(d) == \E i \in 1..4 : d.mbr[i] = "ext"
Prims(d) == SelectSeq(<<1, 2, 3, 4>>, LAMBDA i : d.mbr[i] = "prim")
DiskLayouts == {d \in [mbr : Layouts, logic : CHAINS] : HasExt(d) \/ d.logic = 0}

BASE == 100
Entry(type, start, cnt) == [fs_type |-> type, start_lba |-> start, sector_cnt |-> cnt]
Free == Entry(0, 0, 0)

(* External: the sectors that a partitioning tool writes for a layout.      *)
(* Every logical partition has a table of its own, which links to the next. *)
Sectors(d) ==
  LET table(k) == <<IF k <= d.logic THEN Entry(131, 1, k) ELSE Free,
                    IF k < d.logic THEN Entry(EXTENDED, 2 * k, 2) ELSE Free, Free, Free>>
      mbr == [i \in 1..4 |-> CASE d.mbr[i] = "prim" -> Entry(131, 10 * i, i)
                               [] d.mbr[i] = "ext" -> Entry(EXTENDED, BASE, 50)
                               [] OTHER -> Free]
      tables == IF HasExt(d) THEN IF d.logic = 0 THEN {1} ELSE 1..d.logic ELSE {}
  IN  [lba \in {0} \union {BASE + 2 * (k - 1) : k \in tables} |->
         IF lba = 0 THEN mbr ELSE table((lba - BASE) \div 2 + 1)]

(* What there is to list: where each partition is, and its number.          *)
Truth(d) ==
  [i \in 1..Len(Prims(d)) |-> [start_lba |-> 10 * Prims(d)[i], sector_cnt |-> Prims(d)[i], no |-> i]]
  \o [k \in 1..d.logic |-> [start_lba |-> BASE + 2 * k - 1, sector_cnt |-> k, no |-> 4 + k]]

Scanned == scan_disks([i \in 1..DISKS |-> Sectors(input.disks[i])], statics)

(* Disk i is scanned to the end and partition_info() shows what is on it.   *)
Listed(i) == LET s == Scanned
             IN  /\ Len(s) >= i /\ s[i].end = "ok"
                 /\ partition_info(s[i]) = Truth(input.disks[i])

(* partition_scan() of the first disk lists exactly the partitions that are *)
(* there, wherever in the table the extended one stands and however long    *)
(* its chain is, if there are at most three primary and eight logical ones; *)
(* and it lists nothing else whenever it returns in order.                  *)
ScanLists ==
  input.kind = "disks" =>
    LET d == input.disks[1]
    IN  (Len(Prims(d)) <= 3 /\ d.logic <= 8) \/ Scanned[1].end = "ok" => Listed(1)

(* A struct disk has room for four primary and eight logical partitions: a  *)
(* disk that has no more is listed.  The code does not keep to it: ASSERT   *)
(* (p_no < 4) comes after p_no was counted up for the fourth one.           *)
FullDiskListed ==
  input.kind = "disks" => LET d == input.disks[1]
                          IN  Len(Prims(d)) <= MAX_PRIM /\ d.logic <= MAX_LOGIC => Listed(1)

(* The same of the second disk, whatever is on the first, even if three     *)
(* primary partitions are the most.  The code does not keep to it: the      *)
(* static p_no, l_no and ext_lba_base go on from the disk before.           *)
SecondDiskListed ==
  input.kind = "disks" =>
    ((\A i \in 1..DISKS : Len(Prims(input.disks[i])) < MAX_PRIM /\ input.disks[i].logic <= MAX_LOGIC)
       => \A i \in 1..DISKS : Listed(i))

-----------------------------------------------------------------------------
(* The items of a format: an ordinary character, a conversion with its       *)
(* argument, or a % before a character that is no conversion.                *)
Directives == [conv : {"x"}, arg : {0, 10, 16, INTS - 1}]
              \union [conv : {"d"}, arg : {0, INTS \div 2 - 1, INTS \div 2, INTS - 1}]
              \union [conv : {"s"}, arg : {<<>>, <<"u", "v">>}]
              \union [conv : {"c"}, arg : {"w"}]
              \union [conv : {"q", "plain"}, arg : {"q"}]

Formats == UNION {[1..n -> Directives] : n \in 0..MAX_ITEMS}

Concat(seqs) == LET upto[i \in 0..Len(seqs)] == IF i = 0 THEN <<>> ELSE upto[i - 1] \o seqs[i]
                IN  upto[Len(seqs)]

FormatOf(items) == Concat([i \in 1..Len(items) |->
                             IF items[i].conv = "plain" THEN <<"q">> ELSE <<"%", items[i].conv>>])
ArgsOf(items) == LET args == SelectSeq(items, LAMBDA it : it.conv \in {"x", "d", "s", "c"})
                 IN  [i \in 1..Len(args) |-> args[i].arg]

(* The numeral of v, by its length and the weight of each place.             *)
Numeral(v, radix) ==
  LET n == CHOOSE n \in 1..20 : v < radix^n /\ (n = 1 \/ v >= radix^(n - 1))
  IN  [i \in 1..n |-> Digit((v \div radix^(n - i)) % radix)]

Shown(it) == CASE it.conv = "x" -> Numeral(it.arg, 16)
               [] it.conv = "d" /\ it.arg < INTS \div 2 -> Numeral(it.arg, 10)
               [] it.conv = "d" /\ it.arg >= INTS \div 2 -> <<"-">> \o Numeral(INTS - it.arg, 10)
               [] it.conv = "s" -> it.arg
               [] OTHER -> <<it.arg>>

Text == Concat([i \in 1..Len(input.items) |-> Shown(input.items[i])])
Formatted == vsprintf([i \in 1..ROOM |-> input.stale] \o <<NUL>>, FormatOf(input.items), ArgsOf(input.items))

(* vsprintf() stores the text that the format calls for, at the edges of the *)
(* integers too, and put_hex() shows the same digits as %x, although it      *)
(* finds them from the other end.                                            *)
FormatStores ==
  input.kind = "format" =>
    /\ LET text == Text IN SubSeq(Formatted, 1, Len(text)) = text
    /\ \A i \in DOMAIN input.items :
         LET it == input.items[i]
         IN  it.conv \in {"x", "d"} => put_hex(it.arg) = Numeral(it.arg, 16)

(* vsprintf() returns the length of the formatted string, so that a reader   *)
(* of the buffer finds the text and nothing behind it.  The code does not    *)
(* keep to it: no NUL is stored, and what stood in the buffer follows.       *)
(* printk() and printf() clear their buffers, ide_read() does not.           *)
TextEnds == input.kind = "format" => strlen(Formatted) = Len(Text)

-----------------------------------------------------------------------------
(* The sizes of the code divided by 128: page tables of 8 entries, 256 of   *)
(* them in kernel space, the heap after the fourth, and every size of       *)
(* memory from twice what lies below the heap up to where sizes wrap.       *)
EverySize == {t \in (2 * HEAP)..(WRAP - 1) : t % 2 = 0}
SmallestSize == {2 * HEAP}

seqVars == <<input, memVars, layoutVars, listVars>>

TakeMap == \E m \in SUBSET (0..(BITS - 1)) : input' = [kind |-> "map", map |-> m]
TakeDisks == \E d \in [1..DISKS -> DiskLayouts] : input' = [kind |-> "disks", disks |-> d]
TakeSleep == \E ms \in 0..MAX_SLEEP : input' = [kind |-> "sleep", ms |-> ms]
TakeFormat == \E f \in Formats, c \in {NUL, "z"} :
                input' = [kind |-> "format", items |-> f, stale |-> c]

Booted == stage = "mapped" /\ total = 2 * HEAP
HeapUnused == Init
ListsUnused == ListInit

UseHeap ==
  Booted /\ ListsUnused /\ input = Nothing /\ Next /\ UNCHANGED <<input, layoutVars, listVars>>
UseLists ==
  Booted /\ HeapUnused /\ input = Nothing /\ ListNext /\ UNCHANGED <<input, memVars, layoutVars>>
Call(take) == /\ Booted /\ HeapUnused /\ ListsUnused /\ input = Nothing
              /\ take
              /\ UNCHANGED <<memVars, layoutVars, listVars>>
Return ==
  input # Nothing /\ input' = Nothing /\ UNCHANGED <<memVars, layoutVars, listVars>>

SeqInit == Init /\ LayoutInit /\ ListInit /\ input = Nothing

SeqNext ==
  \/ LayoutNext /\ UNCHANGED <<input, memVars, listVars>>
  \/ UseHeap \/ UseLists
  \/ Call(TakeMap) \/ Call(TakeDisks) \/ Call(TakeSleep) \/ Call(TakeFormat)
  \/ Return

SeqSpec == SeqInit /\ [][SeqNext]_seqVars
=============================================================================
