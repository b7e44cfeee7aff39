# simos: a TLA+ model of the kernel

simos is a small x86 kernel: one CPU, kernel threads, interrupts. Nothing in it
runs in parallel, but an interrupt may come between any two instructions that
run with interrupts on, the clock interrupt switches threads, and a thread may
give up the CPU in the middle of an operation. Most of its correctness hangs on
which steps run with interrupts off, and on pairs of data structures that are
kept in step by hand. This directory models those parts, checks them with TLC,
and proves the scheduler, the locks, the I/O queue, the keyboard, the disk driver, the
console, the lists, the bitmap search, the sleep, the heap and the memory layout correct with TLAPS.

## 1. Inventory

| Component | State | Operations | Interacts with | Hard behaviour | What makes it correct |
|---|---|---|---|---|---|
| scheduler (`thread/thread.c`, `switch.S`) | `current_task`, PCB `status`, `ticks`, `thread_ready_queue`, saved stacks | `thread_start`, `schedule`, `thread_block`, `thread_unblock`, `thread_yield`, `cpu_idle` | called by sync, ioqueue, timer and interrupt handlers | a switch in the middle of every caller; woken threads go to the front | status words and queue agree; no ASSERT fails; ready threads run |
| timer (`device/timer.c`) | tick counter, time slices | `clock_service`, `mil_sleep`, `ticks_to_sleep`, `frequency_set` | preempts through `schedule` | polling sleep, 8-bit slice, a tick counter and products that wrap | sleeps end, and last as long as asked; slices do not wrap |
| interrupt state (`kernel/interrupt.c`, `interrupt_s.S`) | EFLAGS.IF, handler table | `local_irq_enable/disable`, `set_intr_status`, entry and exit | everybody | nested save and restore | a section that disables interrupts restores what it found |
| semaphores, locks (`thread/sync.c`) | `value`, `waiter_queue`, `holder`, `holder_repeat_cnt` | `sema_down/up`, `lock_acquire/release` | block and unblock threads | fields read and written without protection; woken waiters compete again | exclusion, re-entrance, no lost wake-up, one queue per PCB |
| I/O queue (`device/ioqueue.c`) | ring `buff`, `front`, `tail`, `producer`, `consumer`, lock | `ioq_getchar`, `ioq_putchar` | keyboard interrupt, reader threads | waits with its lock held; test before a call that may block | bounded FIFO; sleepers are registered and woken, and sleep for a reason |
| keyboard (`device/keyboard.c`) | `g_key_status` | `keyboard_service`, `key_output` | fills `kbd_buff`, echoes on the screen | keys spread over up to four interrupts, overlapping modifiers, fake shift codes | the right column of `keymap`; modifiers do not stick |
| lists and queues (`lib/kernel/list.c`) | `next`/`prev` pointers, `front`, length | `queue_in/push/out`, `list_add/del/pop/find` | scheduler, sync, heap | pointers; circular queues without a head node | they implement sequences |
| bitmap (`lib/kernel/bitmap.c`) | bits | set, find, `bitmap_apply` | page pools | cursors at the end of the map | first fit, never a used bit |
| kernel memory (`mm/memory.c`) | virtual and physical pool, arenas, free lists, page tables | `mem_init`, `get_kernel_pages`, `sys_malloc`, `sys_free` | bitmap, lists | two pools in step, arenas taken apart, uint32 arithmetic | memory is given out once; pools are disjoint and mapped |
| IDE driver (`device/ide.c`) | per channel: lock, `wait_intr`, `disk_ok`, the drive's registers; partitions | `ide_read/write`, `hard_disk_service`, `ide_init`, `partition_scan` | sync, timer | an interrupt before the wait, one left behind by an earlier command, polling with a limit, drives that fail or take their time, a device register that is written twice, boot with interrupts off, static counters | every read gets its own sectors, one wake-up per command, requests end |
| console (`device/console.c`, `lib/kernel/print.S`) | `console_lock`; the cursor, in two registers of the video controller behind one index | `console_str/char/hex`, `put_str`, `put_char`, `put_hex` | threads, cpu_idle, keyboard handler, exceptions | nine port accesses per character, some callers without the lock, a store through a cursor that may be wrong | the cursor moves as on a terminal; characters of threads are not torn; no store outside the screen's segment |
| system calls (`interrupt_s.S`, `userprog/syscall_init.c`) | the table | `write`, `malloc`, `free`, `getpid` | console, kernel memory | a call blocks with interrupts off | nothing comes between the characters of a `write` |
| formatting (`lib/stdio.c`, `lib/string.c`) | - | `vsprintf`, `itoa`, string functions | console, IDE driver | smallest integer, text without its end | the text the format calls for |
| user processes, kernel entry, boot | - | - | - | - | not modelled, see section 7 |

`PROJECT.json` lists every component with its sources, and under `hazards` the
lines where each hard behaviour bites.

## 2. Modules

`Thread` is the base. `Sync` extends it with locks, `IOQueue` extends `Sync` with
the ring and the keyboard interrupt, so a run of `IOQueue` interleaves the
scheduler, the locks and the queue. `Ide` extends `Sync` in the same way with the
disk driver and a drive, and `Console` with what prints and the video controller.
`Bitmap`, `PartitionScan`, `Timer` and `Format` are modules of operators; `Library` says what
those of the first and the third should compute. `Memory` uses `Bitmap`. `KernelList`, `Keyboard`
and `MemLayout` stand alone. `MCSequential` puts together what runs undisturbed from its beginning to its end: `Library`,
`PartitionScan`, `Format`, `Memory`, `MemLayout` and `KernelList`; `MCPromises` adds a case of `Keyboard`.

| Module | Models | Correspondence |
|---|---|---|
| `Thread` | scheduler, clock, sleep | Everything a kernel routine does with interrupts off up to the next context switch is one step. A thread that called `schedule()` keeps a `frame`, the routine in which it wakes up; `Resume` runs the rest of that routine. What a thread does between kernel calls is arbitrary: `Call`. |
| `Sync` | semaphores, locks | Every access to a lock's fields that runs with interrupts on is a step of its own (`at` is the program counter), so the clock may come between any two. `nest` is a history variable. |
| `Lock` | what a lock promises | abstract specification |
| `IOQueue` | I/O queue, `key_output` into it | The loops of `ioq_getchar` and `ioq_putchar` share `LoopLock`, `LoopAcquire`, `LoopWait`, `LoopRelease`; the call ends in `ioq_getchar` or `ioq_putchar`. |
| `Ide` | one IDE channel, its lock and interrupt | `call[t]` is the driver call of thread t: its next step, arguments and locals. `dev` and `regs` are the device, count and LBA registers as the driver writes them, the bits of each chunk ORed into `dev`, a count of 256 written as 0. The drive (`drive`, `irq`, external) takes a command at the address it finds in the registers, works as long as it likes, fails or has the first sector ready and interrupts; it has the next sector ready at once or, with `Gaps`, after more work, and its interrupt may be serviced when the chunk is long over. `boot` is the time before `ide_init()` returns, with interrupts off. |
| `Console` | console, `put_char`, `write` | Every `in` and `out` of `put_char()` is a step; `out[t]` is where thread t is in it, the rest of its string and its register bx. `key_echo` is the same character by character in an interrupt handler, which nothing interrupts. `harm` is a history variable. A character is ordinary, a new line, a backspace or NUL. |
| `Terminal` | what `put_char` promises of the cursor | abstract specification |
| `Fifo` | what the queue promises | abstract specification |
| `KernelList` | lists and queues | `mem` holds `next` and `prev` of every node; operations are the pointer assignments in their order. |
| `Deque` | what they promise | abstract specification; `list_del_safe()` is its `Delete` |
| `Bitmap` | bitmaps | A map is the set of its 1 bits. `STOP` stands for a failed ASSERT, `SPIN` for a loop without end. |
| `PartitionScan` | `partition_scan`, `partition_info`, the loop of `ide_init` | The static counters are part of the state that a scan takes and returns; a disk is a function from the sectors that are partition tables to their entries. |
| `Timer` | arithmetic of `timer.c` | Words wrap; `Pulses` is what the 8253 makes of the two bytes it is sent. |
| `Format` | `vsprintf`, `itoa`, `put_hex` | A string is the sequence of its characters, an integer its bit pattern. |
| `Library` | what `bitmap_apply` and `mil_sleep` should compute | `input` is what they are called with. |
| `Memory` | pages and heap | Addresses are numbers; `arena` is the header at the start of each page, `free_list` holds block addresses, `live` is a history of what callers have. |
| `MemLayout` | `mem_pool_init`, `page_table_init` | Numbers of half pages (so that halving the memory is exact) of a memory of any size. |
| `Keyboard` | `keyboard_service` | `wire` is the bytes the keyboard has sent and no interrupt has serviced; `held` and `caps` are what the user's hands do (external). Extended keys send 0xe0 first, and Print Screen and its like (`Fakes`) send fake shift codes around their own. `want` and `sure` are history: the column the keys called for, and whether no fake code was in force. |
| `MCSequential` | an instance of all that runs undisturbed | As the parts share no state, each is used while the others are as they were at the beginning: the states add up and do not multiply. |
| `MCPromises` | comments about sequential code | `broken` is the set of the promises that the calls so far have broken. |
| other `MC*` | instances for TLC | |
| `SyncProofs`, `IOQueueProofs`, `IdeProofs`, `ConsoleProofs`, `KeyboardProofs`, `KernelListProofs`, `LibraryProofs`, `MemoryProofs` | proofs | Each extends the module it is about. `SyncProofs` is about `Thread` first and then about `Sync`, and the proofs of `IOQueue`, `Ide` and `Console` extend it, as the modules do. `MemoryProofs` is about `Memory` and `MemLayout`; it and `KernelListProofs` extend `LibraryProofs` for its lemmas on induction, lists and division. |

Definitions keep the source's names. A definition with a suffix, such as
`sema_up_NoWake`, is the routine with a plausible bug; no specification uses it.
It serves to see that the property it is meant for notices the bug.

A failed ASSERT ends in `debug_out()`, which disables interrupts and spins:
`hung` in `Thread`, `stopped` in `Memory`. An exception ends in `ignore_intr_handler()`, which
prints and spins: `hung` as well.

Facts of the code that the models carry although they look like slips:

* `list_find_item()` does not look at the last item, so the ASSERTs that guard
  against a PCB being queued twice are weaker than they look. `Thread` and `Sync` use that meaning.
* `bitmap_set_bits()` sets its first bit over and over.
* `bitmap_apply()` never hands out the last bit, may call `find_next_bit()`
  beyond the map (an ASSERT fails), and its loop condition never ends the loop.
* `CMD_WRITE_SECTOR` is 0x10, `recalibrate` to a drive: no write gets past `busy_wait()`, and the
  rest of the loop of `ide_write()` is never reached.
* `kbd_buff` is never passed to `ioqueue_init()`.
* `frequency_set()` sends 0 as the high byte of the divisor: the cast binds tighter than the shift. The
  divisor is 155 in the place of 11931, and there are 7698 clock interrupts in a second; the factor of 100
  in `mil_sleep()`, which makes 10 ticks of a millisecond, makes up for it. The comment at the top of `timer.c` wonders.
* `vsprintf()` stores no NUL unless its text ends with a `%s`.
* `put_char()` in `key_output()` and `put_str()` in `cpu_idle()` do not take the console's lock.
* `partition_scan()` keeps its counters in static variables, also from one disk to the next.
* The case `ctrl_l_break` falls through to `alt_l_break`.
* The cases of the left shift key do not look at the prefix 0xe0, so fake shift codes count as that key.
* `disk_select_hd()` runs once per request, and `disk_select_sector()` ORs bits 24 to 27 of every chunk's first
  sector into the device register; one `insw()` takes all sectors of a chunk after one look at the status.
* The last entry of the page directory is overwritten after the kernel's pool
  got the whole of 1 GB. `bochs.log` shows a machine of 2048 MB, where it matters.

## 3. Runs

Eight runs pass:

| Run | Instance | Shows |
|---|---|---|
| `sched` | main (priority 1), thread A (2), cpu_idle (1), sleeps of 2 ticks; 35,914 states | `BooksAgree`: exactly the current task is RUNNING and the ready queue holds exactly the READY tasks. `NoAssertFails`. `ReadyRuns`, `SleepEnds`: ready threads run and sleeps begun with interrupts on end, unless threads are woken for ever, since a woken thread goes to the front. |
| `locks` | 3 threads and cpu_idle, 2 locks, held up to twice; 600,326 states up to symmetry of two threads | `ActsAsLock` (implements `Lock`), `NoLostWakeup`, `OneQueueEach`, and `ImplementsThread`: what `sync.c` does to threads is what `Thread` allows, which carries over what is proved of `Thread`: no ASSERT fails. |
| `queue_threads` | 2 readers, a writer thread and the keyboard, ring of 3, 2 characters; 1.4 million states | `ActsAsFifo` (implements `Fifo`) and `NoAssertFails` in every use of the queue. `SleeperRegistered`: whoever sleeps in `ioq_wait()` is in its slot, and nobody else is, so that the next put, get or key wakes it. |
| `sequential` | every size of memory at a scale of 1:128; 4 pages of 64 bytes with blocks of 16 and 32; 2 queues and a list that share 4 items; every map of 9 bits; every disk with up to four primary places and up to 9 logical partitions; sleeps up to 1700 ms with words of 16 bits; formats of up to 3 items with integers of 8 bits; 108,623 states | `PoolsFit`, `MappedBelowTop`: the pools are disjoint, and mapped below the last page table. `NoOverlap`: no byte given out twice. `ArenasCount`: the counts are right and no free list keeps a block of a page given back. `ActsAsDeque` (implements `Deque`): every pointer operation does what it should to a sequence; `WellLinked`. `ApplyGivesLowest`: what `bitmap_apply()` hands out is the lowest free run, and every run that leaves the last bit alone is found; `SpinsOnlyWhenLastUsed`. `ScanLists`: `partition_scan()` lists what is on the first disk, up to three primary and eight logical partitions, and nothing else if it returns in order. `SleepLasts`: a sleep lasts as long as asked and at most 1.3 times as long, unless the product wraps, also across a wrap of the tick counter. `FormatStores`: the stored text is right. |
| `keyboard` | a letter, a grey key, Print Screen, the six modifiers and caps lock, 3 down at a time, 4 bytes in flight; 1.3 million states | `PrefixPairs`: `ext_code` is set between the two interrupts of an extended code. `CtrlShiftTracked`: bits follow their codes, and no alt bit sticks. `RightColumn`: a key gives the column called for when it was pressed, unless a fake shift code was in force. |
| `disk` | 2 threads and cpu_idle, 2 disks, chunks of 2 sectors, blocks of 8, reads of 1 and 3, a write, 2 rounds of polling; 1.4 million states | `ReadsOwnSectors`: what is read is the data of the reader's own command, although the interrupt that woke it may be an old one, and of the sectors asked for if they lie within a block. `OneWakeupEach`: `disk_ok` and `wait_intr` are balanced between commands. `ReadStopsNeedFault`: unless a thread writes, the kernel stops only for a drive that fails or is busy too long. `BootNeverSleeps`: with interrupts off `busy_wait()` never has to sleep. |
| `disk_fair` | 2 threads and cpu_idle, 1 disk, reads of 2 sectors, a drive without gaps; 151,386 states | `ReadsOwnSectors` says more here: all sectors of the chunk are there when `insw()` begins. `RequestsServed`: as long as somebody has the channel or waits for it, it is taken and given back again and again, or the kernel stops. By somebody: a waiter may be overtaken for ever, as the woken thread competes again. |
| `console` | main, a thread and cpu_idle, keys and system calls, a screen of 2 by 4, three strings or keys; 3.7 million states | `ActsAsTerminal` (implements `Terminal`): until two characters are put at the same time the nine accesses of `put_char()` act as one. `LockersTakeTurns`: threads do not tear each other's characters, and nothing comes between those of a system call. `FaultNeedsSplit`: the kernel is stopped by a store outside the video segment only after somebody's character came between the selection of a register and its use, or by a backspace at the start of the screen. |

Four runs check what comments of the code say and find it violated; section 5 quotes the lines.
Three of them have a property of the form "one of these promises is kept", each alternative being the wording of a
comment. It is violated only by a single behaviour that breaks all of them.

| Run | Instance | Property | Violated by |
|---|---|---|---|
| `kbd_buff` | the queue as the code leaves it, not initialised, one reader | `GetReturns` | The reader finds the queue empty and waits for its lock for ever, though keys are typed. |
| `queue_waits` | an initialised queue, two readers, one of which also writes | `OneWaitPromiseKept`: `WaitsForReason` or `NoStandOff` | A reader sleeps on a queue with characters in it, as it looked before it waited for the lock; and a reader and a writer sleep at once, one in `ioq_wait()` with the lock, one on the lock. |
| `promises` | as `sequential`, with smaller bounds | `SomePromiseKept`: eight promises | One sequence of calls breaks them all. The last two are calls of the heap: two pages are freed and one does not come back, and a request that does not fit stops the kernel. |
| `disk_promises` | one thread, blocks of 4 sectors, a read that crosses them, a write | `OneDiskPromiseKept`: `AlwaysOwnSectors`, `SectorsReady` or `OnlyFaultsStop` | A second chunk is read from elsewhere, a sector is taken before it is there, and a write stops the kernel although the drive has no fault. |

The two halves of `OneWaitPromiseKept` are violated one by one as well. With one thread that only reads and
`Initialised = TRUE`, `WaitsForReason` and `GetReturns` hold: that is `kbd_buff` as it was meant. One more deviation shows
in the instance of `keyboard`: with Print Screen down a letter comes from the column of shift (`ShiftColumn`, which drops the proviso of `RightColumn`).

### Bounds

* Threads: three or four, one of them cpu_idle. Two ordinary threads suffice for
  every pair of steps, three for somebody to barge in between a release and
  the waiter it woke. The theorems of section 4 hold for any number of threads and locks.
* Priorities 1 and 2 are what `main.c` and `thread.c` pass. A slice that short
  lets the clock switch threads almost anywhere; longer slices allow fewer
  interleavings.
* `MaxRepeat = 2`: one nested acquisition. A third level takes the same branches.
* A ring of three slots holds two characters: empty, partly full, full and
  the wrap all occur. `QUEUE_BUFF_SIZE` is a constant in the code too.
* Chunks of 2 sectors for 256, a `uint8_t` of 2 values: a full chunk is written as 0 and taken for 2, a read of 3 has a full
  chunk and a rest, and a chunk of 2 leaves an interrupt behind. Blocks of 8 sectors (4 in `disk_promises`) for 2^24: requests lie in the
  first block, in the second, and across. Two rounds of polling for 2999: ready at once, ready
  after a sleep, and too late. `disk_fair` leaves out the second chunk, the second disk and the drive's gaps to
  keep the graph small; a chunk of the next request plays the part of the second chunk.
* A screen of 2 by 4 cells, "bytes" of 6 values and a segment of 12 cells, for 25 by 80, 256 and 16384: the cursor
  takes both values of the high register, a cursor made of halves of two others is within the segment,
  as 7 * 256 + 255 is, and two halves exchanged may not be, both in the code and in the instance. `MaxPuts = 3`: a thread, cpu_idle and a key, or
  two threads and a key; a split access takes two of them. The strings are `<<backspace, ordinary>>` and, of cpu_idle, a new line.
  The cursor starts at the first cell, where the high register changes, and at the last cell.
  The theorems about the console hold for every screen, register and string that the assumptions of section 4 admit.
* 16-bit words for sleeps: they wrap at 655 ms in the place of 42949 s. Integers of 8 bits have the same edges as those of 32: 0, largest, smallest, -1.
* 0, 1, 2, 7, 8 and 9 logical partitions: none, a chain, and both sides of the array's end.
* Maps of 9 bits: a run of every length before, between and behind used bits, and more than one round of the two cursors.
* 4 bytes in flight: all that Print Screen sends, or an extended key behind another one. Three keys down: a letter with the modifiers of both sides.
* Four items on two queues and a list: rings of every length from none to four, and items that move between containers.
* Pages of 64 bytes, two descriptors, in the place of 4096 bytes and seven: three blocks in the
  small arena so that it is empty, partly used and full; one in the other, so
  that an arena is made and taken apart by a single block; requests of 9, 32, 56
  and 57 bytes lie on both sides of every size limit.
* `MemLayout` has all sizes divided by 128: page tables of 8 entries, 256 of them, and every even
  size of memory up to where 32 bits wrap. The theorems hold for all sizes.

### Fairness

The threads' own code is arbitrary, so a thread need not call anything. Assumed is
only what the machine and the code guarantee:

* weak fairness of `Resume`: after a switch nothing else can run;
* strong fairness of a thread's steps in a kernel routine: a dispatched
  thread executes instructions between two interrupts, but it is not
  dispatched all the time;
* strong fairness of the clock: the 8259A keeps a request pending until the
  CPU accepts it, so it is enough that interrupts are on again and again;
* in `IOQueue`, that code which disables interrupts enables them again;
* in `Ide`, weak fairness of the drive, which ends what it begins (with data or with an error), and strong
  fairness of its interrupt, which the 8259A keeps pending as well. The driver
  relies on it: it waits for the interrupt without a limit, the 30 s of
  `busy_wait()` begin only after that.

No fairness is assumed of the keyboard. `Console` has no liveness property: the kernel may stop.

## 4. Proofs

Every theorem is about all values of the constants that the named ASSUMEs of the modules admit;
the run of section 3 with the same property shows it on an instance. Every safety invariant below rests on an inductive
one; the proof that a step keeps it has one lemma or step per action.

### Scheduler: first part of `SyncProofs`

For every set of threads, every priority and every sleep:

* `TypeCorrect`: `Spec => []TypeOK`, the byte-sized time slices included;
* `BooksAlwaysAgree`: `Spec => []BooksAgree`;
* `AssertsHold`: `Spec => []NoAssertFails`.

`BooksAgree` is not inductive alone: `schedule()` on an empty ready queue wakes cpu_idle, and
unless cpu_idle exists and is blocked then, an ASSERT fails and the step ends
half way. The inductive invariant is `Inv == TypeOK /\ BooksAgree /\ NoAssertFails /\
status[Idle] # "NONE"`. That cpu_idle is BLOCKED when the queue is empty follows from it: by
`BooksAgree` it is not READY, and if it were RUNNING it would be the one that calls
`thread_block()`, whose status is BLOCKED by then. Lemmas say what `queue_in`, `queue_push`
and `queue_out` do to the members of a queue without duplicates; one lemma about
`Schedule` covers its callers `thread_block`, `thread_yield` and the clock. Assumptions: main and cpu_idle are two different threads,
priorities are natural numbers, sleeps last at least one tick.

### Locks: second part of `SyncProofs`

For any number of threads and locks (at least one) and any depth of nesting (at least one):

* `SyncTypeCorrect` (`SyncTypeOK`), `OneQueueForEach` (`OneQueueEach`), `NoWakeupIsLost` (`NoLostWakeup`), `SyncAssertsHold` (`NoAssertFails`);
* `SyncImplementsThread`: every step of `sync.c` is one that `Thread` allows (`ImplementsThread`);
* `SyncActsAsLock`: the refinement of `Lock` (`ActsAsLock`).

`SyncInv` adds to `Inv` what one field says of the others: `Exclusion` (between `sema_down()` and
`sema_up()` there is one thread, and the value is 0), `HolderRight` (`holder`, which `lock_acquire()` reads
unprotected, names a thread exactly between that thread's two writes, so the comparison with oneself is never wrong although a
comparison with anybody else may be stale), `CountRight` (the count is the number of calls and none is left over) and `WaitersRight` (a waiter queue holds
exactly those that sleep in `sema_down()` of its lock). A caller of `sync.c` may block for
other reasons while it has a lock, so `SyncInv` is what every such caller keeps, and the proofs about the queue, the disk and the console start from it. With the locks alone `SyncFull` adds
`BlockedInDown` (whoever is BLOCKED sleeps in `sema_down()`, so that `OneQueueEach` follows) and `NoLostWakeup`, inductive next to it. `Accounted` (a value of 0 belongs to somebody) is kept apart
since an uninitialised queue breaks it; `IOQueue`, when initialised, and `Ide` need it.

### I/O queue: `IOQueueProofs`

For any ring of at least two slots, any characters, any readers and writers among the threads, with keys typed at any time:

* `QueueAssertsHold` (`NoAssertFails`), `SleepersStayRegistered` (`SleeperRegistered`) and `QueueActsAsFifo` (the refinement of `Fifo`), whether the queue was initialised or not;
* `RestsOnlyWithLock`, for an initialised queue that somebody uses: threads can be all asleep in one way only, one registered in `ioq_wait()`
  with the lock and all others waiting for it. The stand-off of the run `queue_waits` is of this kind.

`IOInv` relates the step of a thread in the loop to its step in `sync.c` (`Phase`), and says that whoever is BLOCKED sleeps for the lock or is in its slot
(`Sleeper`) and that whoever is in a slot sleeps in `ioq_wait()` with the lock (`InSlot`): that makes
`thread_unblock()` from the interrupt safe. The refinement is about `Contents`: a lemma says what a move of `front` or `tail` does to it, modulo the size of the ring.

### Keyboard: `KeyboardProofs`

For any non-empty set of letters, any grey keys and any that send fake shift codes (none of them the prefix byte or a modifier), and any number of bytes in flight: `PrefixesPair` (`PrefixPairs`), `NoModifierSticks`
(`CtrlShiftTracked`), `ColumnIsRight` (`RightColumn`). What the handler will make of the bytes in flight looks like an induction over
them. `KeyInv` avoids it: there is a sequence of status words, one after each byte
(`Path`), where each byte fits the word it meets and the last word agrees with the keys that are down and the last code of the left shift key (`Agrees`). A key
makes the sequence longer at its end, byte by byte, an interrupt takes its first word away.

### Disk driver: `IdeProofs`

For any threads and disks, any requests of at least one sector, any size of a chunk and of a block, any limit of polling of at least one, and a drive with gaps or without:

* `OwnSectorsRead` (`ReadsOwnSectors`): the sectors taken are those of the reader's own command, and they are the ones asked for
  if the request lies within one block (`OneBlock`; without it the run `disk_promises` has the counterexample);
* `WakeupsPair` (`OneWakeupEach`), `NoSleepAtBoot` (`BootNeverSleeps`);
* `ReadStopsForFaults` (`ReadStopsNeedFault`): as long as nobody writes, the driver stops the kernel only for a drive that
  reports an error or is busy beyond the limit.

`IdeInv` is about the thread that uses the drive, and lemma `OneUser` says there is one: main during boot, the owner
of the lock afterwards. `CallPhase` ties the step of a call to that in `sync.c`. `DriveRight` says for each step of the user what the drive and the channel are like: until the wait
for `disk_ok` is over, `wait_intr` is set exactly while `disk_ok` is 0 (`Expected`), so an interrupt of an earlier sector is either this
command's one wake-up or none at all. `AddressRight` follows the address from the request through the device and LBA registers to the
drive; that bits which are the same in every chunk of a block may be ORed again is what `OneBlock` is for. `DriveQuiet` says that nothing is left over without a user, `OkWaiters` and `Sleepers` who may be BLOCKED, `BootRight` that main
runs boot with interrupts off. The driver may stop the kernel: `IdeFull` is `IdeInv` or a stopped kernel that has the properties.

### Console: `ConsoleProofs`

For any threads, any non-empty strings of the four kinds of characters, and any screen, register width and segment such that
every cursor with the high byte of a cell lies within the segment, and the segment and one more line below half a 16-bit register (2048 <= 16384 and 16464 < 32768 in the code):

* `LockersTakeTheirTurns` (`LockersTakeTurns`), `FaultsNeedASplit` (`FaultNeedsSplit`);
* `ConsoleActsAsTerminal`: the refinement of `Terminal` (`ActsAsTerminal`).

There are three layers. `ConInv` is control: where in `sync.c` a thread is that prints, that it has something left to
print, and that a system call has interrupts off or sleeps and will find them off. `Within` bounds the registers and everybody's
`bx` as long as no access was split: whatever characters were torn, a cursor put together from halves of two others has the high byte of a cell, and stays within the
segment. `Agreed` says, until two characters are put at the same time, what `bx` and the two registers
have to do with the terminal's cursor in each of the nine steps. Lemmas on division (`Divide`, `DivideUnique`, `DivideMonotone`, `Products`) reduce
both to linear arithmetic. `ConFull` adds that the kernel may stop, with the properties.

The proof found a flaw of the model: `harm` was chosen by a CASE whose guards overlapped, which leaves the choice open in TLA+ and is
decided by the order of the arms in TLC. It is an IF now.

### Bitmap search and sleep: `LibraryProofs`

For bitmaps of any size of at least one bit, any contents and any number of bits asked for:

* `ApplyFindsFirstFit` (`ApplyGivesLowest`): what is handed out is the lowest free run, and the lowest free run is handed out unless it reaches the last bit; `ApplySpinsOnlyWhenLastUsed` (`SpinsOnlyWhenLastUsed`).

For the frequencies of the code (hypothesis `Frequencies`), any time and words of any width from 256 values on, 2^32 included (the run has words of 16 bits):

* `SleepLastsEnough` (`SleepLasts`).

The induction theorems of the library take an operator as a parameter, which the provers cannot instantiate. The proofs do without: that a
non-empty set of natural numbers has a least element follows from the well-foundedness of `<` (`LeastNat`), and with sets in the place of predicates it gives
induction up to a bound (`Upwards`) and the existence of functions defined by recursion (`RecursionExists`). So the `loop` of `bitmap_apply` has
the value that its definition says, place by place, and an invariant of it can be proved. `RoundFrom` is that invariant: below the bit from which a round starts nothing
fits, and the bit is clear or, at -1, nothing fits at all. `RoundKeeps` says that a round returns what it should (`Returns`) or starts the next one from a later bit; since there are `bits` bits, `bits + 1` rounds are enough, and
what is not done by then never is. The sleep needs that a sum which wraps once loses the width of the word (`WrapsOnce`); the rest is linear arithmetic.

### Lists and queues: `KernelListProofs`

For any finite set of items, any queues and any lists:

* `ListInvariant`, `WellLinkedHolds` (`WellLinked`); `FindMissesLastHolds`: what `list_find_item()` does not find is exactly the last item;
* `ListsActAsDeques`: the refinement of `Deque` (`ActsAsDeque`), operation by operation.

`WellLinked` is not inductive: what an insertion leaves depends on where all pointers of the ring lead. `IInv` says that there are sequences `s`, one for each
container, with which the memory agrees (`Linked`): along `next` and `prev` each ring leads from place to place of its sequence and from the last to the first (`Ring`), no item is in two places (`Once`), and
`front` and `queue_len` fit (`QueueIs`). Reachability is not needed, since the sequences are there to be named. What the code reads by walking is related to them once: `Walk`, by induction on the
number of hops, and then `ContentsAre`: the sequences that `QueueItems` and `ListItems` read are `s`. `RingInsert` and `RingDelete` are the arguments about `__list_add()` and
`__list_del()` anywhere in a ring, with a head node or without; `RingsApart` keeps the other rings out of it. Assumption: heads are no items, no
container is both a queue and a list, and NULL is none of them.

### Heap: `MemoryProofs`

For a pool of at least two pages, any size of a page, of the header and of the smallest block, any number of descriptors such that the largest block fits in a page behind the header, and
requests of any sizes:

* `MemoryInvariant`; `NoOverlapHolds` (`NoOverlap`), `ArenasCountHolds` (`ArenasCount`);
* `LosesOnlyTailsHolds`, `StopsAtEndHolds`: how far the two failures of the heap in the run `promises` go. Pages that stay marked for ever
  are exactly those after the first of a freed allocation, and the kernel stops only when the last page is free and the page before it in use.

`NoOverlap` needs all of `IInv`: `Placed` (an allocation is whole pages, pages behind a header that counts them, or a block of an arena), `Apart` (two allocations on one page are two
blocks of one arena), `Marked` (the bitmap has exactly the pages of allocations and the lost ones, and never the last), `ListedRight` (a free list has each of its blocks once, and
they are blocks of arenas of its size), `ArenasRight` (each block of an arena is free or in use, and `cnt` is the number of the free ones). `ArenasCount` is part of the reason for `NoOverlap`: were the count wrong, `sys_free()` would give back
a page with a block in use, or leave a block of a page given back on a free list. What the pages are that `bitmap_apply()` finds comes from `ApplyFinds` of `LibraryProofs`, which says also that it stops only at the end of
the map; that the blocks of an arena do not overlap is a lemma on products (`BlocksApart`), and that `sys_free()` takes all blocks of an arena off the list is the induction `DelBlocks`. The proof needs no assumption on the sizes beyond the module's.

### Memory layout: `MemoryProofs`

For every size of memory of at least twice the heap's start (32 MB). Below that the subtraction in `mem_pool_init()` wraps and
the split of memory is nonsense, which the assumption on `Totals` leaves out:

* `PoolsAlwaysFit` (`PoolsFit`) and `HeapMappedBelowTop` (`MappedBelowTop`).

The invariant `Computed` says that the variables hold what the two routines compute from `total`;
the lemmas `SizesExact` (the sizes without `%`) and `Quotients` (the quotient and
remainder of a page below a bound) reduce the rest to linear arithmetic.

### Only model-checked

* `ReadyRuns`, `SleepEnds`, `RequestsServed`: liveness under fairness is beyond the prover.
* `ScanLists` and `FormatStores`: `partition_scan()`, `itoa()` and `vsprintf()` call themselves or build their result from the
  rest of a string; they are RECURSIVE operators, which the prover's SMT backend does not accept.

## 5. Findings

What comments say and the runs find violated. `PROJECT.json` has the same list under `findings`.

Run `kbd_buff`:

* `kbd_buff` (`keyboard.c:15`) is never passed to `ioqueue_init()`, so its lock is taken from the start. `ioqueue.c:69` says
  that `ioq_getchar()` gets a character from the buffer; the first reader that finds it empty never returns.

Run `queue_waits`, where `ioqueue.c:74` and `98` say that the caller registers and blocks if the buffer is empty, or full:

* The test of the loop comes before `lock_acquire()` (`ioqueue.c:75-77`), which may block. The second of two readers goes on
  to sleep although characters have come meanwhile.
* `ioq_wait()` sleeps with `ioq->lock` held, so a writer that found the queue full and waits for the lock
  is not registered and stays there when the reader has emptied the queue, taken the lock again and gone to sleep. The keyboard, the only
  writer at this commit, drops keys and never waits.

Run `promises`:

* `list_find_item()` does not find the last item, nor the only one (`list.c:124`: TRUE if the element is in the list).
* Letting go of ctrl clears the bit of the alt key of its side, for want of a break statement (`keyboard.c:143`: the state of the keys; `203`: a break code clears its flag).
* `bitmap_apply()` does not give a run that reaches the last bit, and fails an ASSERT or loops where none is left (`bitmap.c:67, 70`: applies for n consecutive bits, -1 on failure).
* The fourth primary partition stops the kernel (`ide.h:27`: at most 4).
* The counters of the first disk go on for the second one, whose partitions are lost (`ide.h:27-28`: every disk has an array of its own).
* `vsprintf()` stores no end, so its result is not the length of the text (`stdio.c:34`), and the message of a failed read (`ide.c:211`), put together in an array that nobody cleared, does not end where it should.
* `vaddr_free()` clears the bit of the first page only (`bitmap.c:106`: n consecutive bits; `memory.c:443`: clears the bits).
* `get_kernel_pages()` stops the kernel where nothing is left (`memory.c:468`: NULL on failure).

Run `disk_promises`:

* A second chunk in another block of 2^24 sectors is addressed with the bits of both (`ide.c:110`: bits 24 to 27 are in the low 4 bits of the device register).
* Sectors after the first of a chunk are taken without a look at the status (`ide.c:74-75`: data can be taken out when the status says so).
* 0x10 is sent for a write, to which a drive never answers with data (`ide.c:73`: write sector is 0x30).

Deviations that the passing properties describe: a key typed while a character is on its way to the screen can stop the kernel
(`FaultNeedsSplit`); `timer.c:14` has 100 interrupts a second and the 8253 gives 7698 (`SleepLasts`); fake shift codes
count as the left shift key (`RightColumn` and its proviso `sure`); a sleep with interrupts off, as `busy_wait()` would make at boot, never ends
(the condition of `SleepEnds`), but `BootNeverSleeps` shows that it does not come to that. That the last page table's 4 MB are not
mapped (`MappedBelowTop`) is no deviation: `memory.c:274` says so.

Not a property: `put_int_buffer` (`print.S:16`) has 4 bytes, `put_hex()` stores 8; what follows it in the data
section is overwritten.

## 6. Plan

1. Done: `Thread`, `Sync`/`Lock`, `IOQueue`/`Fifo`, `Ide`, `Console`/`Terminal`, `Keyboard`, `KernelList`/`Deque`, `Bitmap`, `Timer`, `Memory` and `MemLayout`, all with
   proofs of every safety property that a run checks; `PartitionScan` and `Format`, model-checked.
2. Left to prove: `ScanLists` and `FormatStores`, once their operators are recursive functions like the loop of `bitmap_apply`.
3. An abstract specification of a disk (requests served one at a time, each with its own sectors) that `Ide` implements.

## 7. Not modelled

* The contents of the screen: what is stored in which cell, and what rolls out of it.
* A second IDE channel: the 8259A masks its interrupt (`interrupt.c:147`), so a thread that waited for it would sleep for ever. A disk
  that is not there: `ide_init()` identifies two disks on each channel whatever the BIOS counted, and a drive that does not answer stops the kernel.
* Of the drive: a new command ends what it was doing, it leaves the device register as the driver wrote it, and every address exists. Sectors from
  2^28 on, whose bits would reach the bit that chooses the disk, count as outside one block.
* Fake shift codes come in the form they have with Print Screen and, under Num Lock, with the grey keys; the form with a shift key held is left out.
* What `keymap` holds: `key_output()` takes any make code up to 0x7f as an index, and the array ends at 0x53, so that F11 and F12 put out whatever lies behind it.
* The functions of `string.c` other than `strcpy()` and `strlen()`: loops over bytes.
* `getpid`, which only reads.
* User processes: `process.c` has no caller at this commit and every PCB has a NULL page
  directory; hence the `PF_USER` paths of `memory.c` are left out too, among them `page_alloc()`, which gives nothing back when
  it runs out half way. `alloc_pid()` reads `next_pid` after it has released its lock, which matters once threads are started by threads. The TSS is written once.
* Kernel entry: the order of initialisation is in the `Init` of each module; the threads of `main.c` are test
  loops, represented by arbitrary callers.
* Boot loader, descriptor tables, 8259A set-up: sequential hardware set-up.
