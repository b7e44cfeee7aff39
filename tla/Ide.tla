-------------------------------- MODULE Ide --------------------------------
(***************************************************************************)
(* The disk driver, device/ide.c: one channel with its disks, its lock,    *)
(* wait_intr and disk_ok, on the threads and locks of Sync.                *)
(*                                                                         *)
(* A request selects a disk once and then sends one command for every      *)
(* chunk of at most 256 sectors.  While main is in ide_init(), with        *)
(* interrupts off, it identifies disks and reads single sectors for        *)
(* partition_scan(); afterwards any thread may read and write, with        *)
(* interrupts on.                                                          *)
(*                                                                         *)
(* The drive is external.  It works for a while, then has the first sector *)
(* ready, or reports an error, and interrupts; whenever a sector is taken  *)
(* it has the next one of the chunk ready, at once or after more work, and *)
(* interrupts again.  A new command ends what it was doing.  The 8259A     *)
(* keeps one request pending, so an interrupt may be serviced when its     *)
(* command is long over.  CMD_WRITE_SECTOR is 0x10, which a drive takes    *)
(* for `recalibrate': it interrupts, but never asks for data.              *)
(***************************************************************************)
EXTENDS Sync

CONSTANTS Disks,        \* the disks of the channel by dev_no
          Requests,     \* the calls of ide_read and ide_write: kind, disk, lba_base, sec_cnt
          Tables,       \* the sectors with partition tables
          CHUNK,        \* 256, the values of a uint8_t
          LOW,          \* 2^24, the sectors that the three LBA registers tell apart
          Gaps,         \* the drive may need time between two sectors of a chunk
          MAX_POLLS,    \* rounds of busy_wait(), 30 s in steps of 10 ms
          channel       \* channel->_lock

ASSUME RequestsAssumption ==
  \A r \in Requests : /\ r.kind \in {"read", "write"} /\ r.disk \in Disks
                       /\ r.lba \in Nat /\ r.cnt \in Nat \ {0}
ASSUME DisksAssumption == Disks \subseteq {0, 1} /\ Tables \subseteq Nat
ASSUME ChunkAssumption == CHUNK \in Nat \ {0} /\ LOW \in Nat \ {0} /\ MAX_POLLS \in Nat \ {0}
ASSUME GapsAssumption == Gaps \in BOOLEAN
ASSUME ChannelAssumption == Locks = {channel}

VARIABLES wait_intr, disk_ok, ok_waiters,   \* channel->wait_intr, channel->disk_ok
          dev,      \* the bits that are set in the device register
          regs,     \* the sector count register and the three LBA registers
          drive,    \* what the drive is doing, at which address, and how
                    \* many sectors it still has for the driver
          irq,      \* a disk interrupt is pending in the 8259A
          call,     \* the driver call of each thread: its next step, its
                    \* arguments, sector_done, sector_once, the sectors that
                    \* insw() and the rounds that busy_wait() have left, the
                    \* interrupt state of sema_down()
          boot      \* main is in ide_init()

chan == <<wait_intr, disk_ok, ok_waiters>>
hardware == <<dev, regs, drive, irq>>
locks == <<sema, owner, at, lk, saved>>
ideVars == <<syncVars, chan, hardware, call, boot>>

Steps == {"out", "lock", "select", "command", "down", "test", "poll", "move", "unlock"}

(* Sector lba of disk d is addressed by the disk, by the bits of the device *)
(* register from lba's bit 24 on, and by the LBA registers.                 *)
HighBits(h) == {i \in 0..7 : (h \div 2^i) % 2 = 1}
Address(d, lba) == [disk |-> d, high |-> HighBits(lba \div LOW), low |-> lba % LOW]
NoAddress == [disk |-> 0, high |-> {}, low |-> 0]

Idling == [st |-> "idle", at |-> NoAddress, left |-> 0]
NoRegs == [cnt |-> 0, low |-> 0]

(* ide_init() of the channel.                                               *)
NoCall == [step |-> "out", kind |-> "read", disk |-> 0, lba |-> 0, cnt |-> 0,
           done |-> 0, once |-> 0, left |-> 0, polls |-> 0, intr |-> FALSE]

ide_init_Ready ==
  /\ SyncInit
  /\ wait_intr = FALSE /\ disk_ok = 1 /\ ok_waiters = <<>>
  /\ dev = {} /\ regs = NoRegs /\ drive = Idling
  /\ irq = FALSE
  /\ call = [t \in Threads |-> NoCall]
  /\ boot = TRUE

ide_init ==
  /\ SyncInit
  /\ wait_intr = FALSE /\ disk_ok = 0 /\ ok_waiters = <<>>
  /\ dev = {} /\ regs = NoRegs /\ drive = Idling
  /\ irq = FALSE
  /\ call = [t \in Threads |-> NoCall]
  /\ boot = TRUE

(* A call for request r, about to take step p.                              *)
Enter(r, p) == [NoCall EXCEPT !.step = p, !.kind = r.kind, !.disk = r.disk,
                              !.lba = r.lba, !.cnt = r.cnt]

In(t, p) == At(t, "run") /\ call[t].step = p
Goto(t, p) == call' = [call EXCEPT ![t].step = p]

-----------------------------------------------------------------------------
(* partition_scan() reads one sector.                                       *)
ScanRead(d, lba) == [kind |-> "read", disk |-> d, lba |-> lba, cnt |-> 1]
Scans == {ScanRead(d, lba) : d \in Disks, lba \in Tables}

(* ide_read(), ide_write(): take the channel's lock, ...                    *)
ide_request(t, r) ==
  /\ In(t, "out") /\ at[t] = "out"
  /\ IF boot THEN t = Main /\ r \in Scans ELSE r \in Requests /\ intr
  /\ lock_acquire(t, channel)
  /\ call' = [call EXCEPT ![t] = Enter(r, "lock")]
  /\ UNCHANGED <<chan, hardware, boot>>

ide_acquire(t) ==
  /\ call[t].step = "lock"
  /\ AcquireStep(t)
  /\ UNCHANGED <<chan, hardware, call, boot>>

(* ... disk_select_hd(), once for all chunks: BIT_DEV_MBS, BIT_DEV_LBA and, *)
(* for the second disk, BIT_DEV_DEV, ...                                    *)
DEV == 4
reg_device(d) == {5, 6, 7} \union (IF d = 1 THEN {DEV} ELSE {})

disk_select_hd(t) ==
  /\ In(t, "lock") /\ at[t] = "in"
  /\ dev' = reg_device(call[t].disk)
  /\ Goto(t, "select")
  /\ UNCHANGED <<syncVars, chan, regs, drive, irq, boot>>

(* disk_identify(), which ide_init() calls without the lock.                *)
disk_identify(d) ==
  /\ In(Main, "out") /\ boot
  /\ call' = [call EXCEPT ![Main] =
                Enter([kind |-> "identify", disk |-> d, lba |-> 0, cnt |-> 1], "select")]
  /\ dev' = reg_device(d)
  /\ UNCHANGED <<syncVars, chan, regs, drive, irq, boot>>

(* ... then, while there is more to do, the size of the next chunk ...      *)
sector_once(c) == IF c.cnt - c.done >= CHUNK THEN CHUNK ELSE c.cnt - c.done

(* ... as a uint8_t, in which 0 stands for 256 ...                          *)
uint8(n) == n % CHUNK
sectors_Literal(n) == n
sectors(n) == IF n = 0 THEN CHUNK ELSE n

(* ... and its address to the drive, the bits from 24 on in addition to     *)
(* what is in the device register; identify has neither.  wait_intr = TRUE. *)
disk_select_sector(t) ==
  LET once == sector_once(call[t])
      lba == call[t].lba + call[t].done IN
  /\ In(t, "select") /\ call[t].done < call[t].cnt
  /\ IF call[t].kind = "identify"
       THEN UNCHANGED <<regs, dev>>
       ELSE /\ regs' = [cnt |-> uint8(once), low |-> lba % LOW]
            /\ dev' = dev \union HighBits(lba \div LOW)
  /\ wait_intr' = TRUE
  /\ call' = [call EXCEPT ![t].once = once, ![t].step = "command"]
  /\ UNCHANGED <<syncVars, disk_ok, ok_waiters, drive, irq, boot>>

(* What the command words make the drive do.                                *)
CMD(kind) == IF kind = "write" THEN "recalibrate" ELSE "busy"

(* ide_write() polls first and would wait for disk_ok after the transfer,   *)
(* which it never comes to; the others wait for disk_ok and then poll.      *)
after_cmd(kind) == IF kind = "write" THEN "poll" ELSE "down"

(* How the drive reads its registers; identify is one sector.  It leaves    *)
(* the device register as it is and uses up the others.                     *)
Addressed(kind) == [disk |-> IF DEV \in dev THEN 1 ELSE 0, high |-> dev \intersect (0..3),
                    low |-> IF kind = "identify" THEN 0 ELSE regs.low]
Count(kind) == IF kind = "identify" THEN 1 ELSE sectors(regs.cnt)

(* outb(reg_cmd).                                                           *)
channel_control_cmd(t) ==
  /\ In(t, "command")
  /\ drive' = [st |-> CMD(call[t].kind), at |-> Addressed(call[t].kind),
                left |-> Count(call[t].kind)]
  /\ regs' = NoRegs
  /\ call' = [call EXCEPT ![t].polls = MAX_POLLS, ![t].step = after_cmd(call[t].kind)]
  /\ UNCHANGED <<syncVars, chan, dev, irq, boot>>

-----------------------------------------------------------------------------
(* sema_down(disk_ok): interrupts off, ...                                  *)
sema_down_ok(t) ==
  /\ In(t, "down")
  /\ call' = [call EXCEPT ![t].intr = intr, ![t].step = "test"]
  /\ intr' = FALSE
  /\ UNCHANGED <<sched, pid, next_pid, old_status, pc, left, locks, chan, hardware, boot>>

(* ... wait while it is 0 ...                                               *)
sema_wait_ok(t) ==
  /\ In(t, "test") /\ disk_ok = 0
  /\ IF list_find_item(ok_waiters, t)
       THEN AssertFailed /\ UNCHANGED <<at, ok_waiters>>
       ELSE ok_waiters' = queue_in(ok_waiters, t) /\ Block(t) /\ UNCHANGED locks
  /\ UNCHANGED <<wait_intr, disk_ok, hardware, call, boot>>

(* ... and take it.                                                         *)
sema_take_ok(t) ==
  /\ In(t, "test") /\ disk_ok # 0
  /\ disk_ok' = disk_ok - 1
  /\ intr' = call[t].intr
  /\ call' = [call EXCEPT ![t].intr = FALSE, ![t].step = "poll"]
  /\ UNCHANGED <<sched, pid, next_pid, old_status, pc, left, locks, wait_intr,
                 ok_waiters, hardware, boot>>

(* Reading the status register takes the drive's interrupt request back;    *)
(* whether that reaches the 8259A in time is up to the machine.             *)
read_status == irq' \in {irq, FALSE}

(* busy_wait(): while the drive is busy, sleep 10 ms ...                    *)
Busy == drive.st \in {"busy", "recalibrate"}

busy_wait(t, n) ==
  /\ In(t, "poll") /\ Busy /\ call[t].polls > 0
  /\ mil_sleep(t, n)
  /\ call' = [call EXCEPT ![t].polls = @ - 1]
  /\ read_status
  /\ UNCHANGED <<locks, chan, dev, regs, drive, boot>>

disk_ready_Unchecked(t) ==
  /\ In(t, "poll")
  /\ call' = [call EXCEPT ![t].left = sectors(uint8(call[t].once)), ![t].step = "move"]
  /\ UNCHANGED <<syncVars, chan, hardware, boot>>

(* ... and return whether it has data: TRUE ...                             *)
disk_ready(t) ==
  /\ In(t, "poll") /\ drive.st = "ready" /\ call[t].polls > 0
  /\ read_status
  /\ call' = [call EXCEPT ![t].polls = 0, ![t].left = sectors(uint8(call[t].once)),
                           ![t].step = "move"]
  /\ UNCHANGED <<syncVars, chan, dev, regs, drive, boot>>

(* ... or FALSE, also after 30 s: ASSERT_FAILED.                            *)
disk_failed(t) ==
  /\ In(t, "poll") /\ (drive.st \in {"idle", "failed"} \/ call[t].polls = 0)
  /\ AssertFailed
  /\ UNCHANGED <<at, chan, hardware, call, boot>>

(* External: a sector is taken from the data register.  The drive goes on   *)
(* to the next one if it has this one ready, and notices nothing otherwise. *)
sector_taken ==
  IF drive.st # "ready"
    THEN UNCHANGED <<drive, irq>>
    ELSE IF drive.left <= 1
    THEN drive' = Idling /\ UNCHANGED irq
    ELSE \E st \in {"ready"} \union (IF Gaps THEN {"busy"} ELSE {}) :
           /\ drive' = [drive EXCEPT !.left = @ - 1, !.st = st]
           /\ irq' = (irq \/ st = "ready")

(* disk_sector_to_buf(), one sector of its insw(), which does not look at   *)
(* the status; after the last one sector_done += sector_once.               *)
disk_sector_to_buf(t) ==
  /\ In(t, "move")
  /\ sector_taken
  /\ call' = IF call[t].left > 1
               THEN [call EXCEPT ![t].left = @ - 1]
               ELSE [call EXCEPT ![t].done = @ + call[t].once, ![t].once = 0, ![t].left = 0,
                                 ![t].step = "select"]
  /\ UNCHANGED <<syncVars, chan, dev, regs, boot>>

(* The request is complete: give the lock back, disk_identify() has none.   *)
Complete(t) == In(t, "select") /\ call[t].done >= call[t].cnt

ide_release(t) ==
  /\ Complete(t) /\ call[t].kind # "identify"
  /\ lock_release(t)
  /\ Goto(t, "unlock")
  /\ UNCHANGED <<chan, hardware, boot>>

ide_unlock(t) ==
  /\ call[t].step = "unlock"
  /\ \/ lock_release_count(t) /\ UNCHANGED call
     \/ sema_up(t) /\ call' = [call EXCEPT ![t] = NoCall]
  /\ UNCHANGED <<chan, hardware, boot>>

identified(t) ==
  /\ Complete(t) /\ call[t].kind = "identify"
  /\ call' = [call EXCEPT ![t] = NoCall]
  /\ UNCHANGED <<syncVars, chan, hardware, boot>>

-----------------------------------------------------------------------------
(* External: the drive ends its work, with data or with an error, and       *)
(* interrupts.                                                              *)
drive_finish ==
  /\ ~hung
  /\ \/ drive.st = "busy" /\ drive' = [drive EXCEPT !.st = "ready"]
     \/ drive.st = "busy" /\ drive' = [drive EXCEPT !.st = "failed"]
     \/ drive.st = "recalibrate" /\ drive' = Idling
  /\ irq' = TRUE
  /\ UNCHANGED <<syncVars, chan, dev, regs, call, boot>>

(* hard_disk_service(): an interrupt somebody waits for wakes him.          *)
awaited_Always == TRUE
awaited_Never == FALSE
awaited == wait_intr

hard_disk_service ==
  /\ ~hung /\ intr /\ frame[current_task] = "none" /\ irq
  /\ irq' = FALSE
  /\ wait_intr' = FALSE
  /\ IF awaited /\ disk_ok # 0
       THEN AssertFailed /\ UNCHANGED <<at, disk_ok, ok_waiters>>
       ELSE /\ disk_ok' = IF awaited THEN disk_ok + 1 ELSE disk_ok
            /\ WakeCpu
            /\ IF awaited /\ ok_waiters # <<>>
                 THEN /\ ok_waiters' = Tail(ok_waiters)
                      /\ thread_unblock(Head(ok_waiters))
                 ELSE UNCHANGED <<ok_waiters, sched, intr>>
            /\ UNCHANGED <<pid, next_pid, old_status, left, locks>>
  /\ UNCHANGED <<dev, regs, drive, call, boot>>

(* ide_init() returns; main starts threads and then enables interrupts.     *)
ide_init_done ==
  /\ In(Main, "out") /\ boot
  /\ boot' = FALSE
  /\ UNCHANGED <<syncVars, chan, hardware, call>>

Elsewhere(step) == Outside(step) /\ UNCHANGED <<chan, hardware, call, boot>>

-----------------------------------------------------------------------------
DriverStep(t) ==
  \/ ide_acquire(t) \/ disk_select_hd(t)
  \/ disk_select_sector(t) \/ channel_control_cmd(t)
  \/ sema_down_ok(t) \/ sema_wait_ok(t) \/ sema_take_ok(t)
  \/ \E n \in SleepTicks : busy_wait(t, n)
  \/ disk_ready(t) \/ disk_failed(t) \/ disk_sector_to_buf(t)
  \/ ide_release(t) \/ ide_unlock(t) \/ identified(t)

SleepStep(t) == Elsewhere(ticks_to_sleep(t)) \/ Elsewhere(SleepYield(t))
IdleStep == Elsewhere(cpu_idle) \/ Elsewhere(cpu_halt)
MainStep == ~boot /\ Elsewhere(local_irq_enable(Main)) /\ call[Main].step = "out"

IdeNext ==
  \/ \E t \in Threads \ {Idle} :
       \/ \E r \in Requests \union Scans : ide_request(t, r)
       \/ DriverStep(t)
       \/ SleepStep(t)
  \/ \E d \in Disks : disk_identify(d)
  \/ ide_init_done
  \/ \E t \in Threads : ~boot /\ Elsewhere(thread_start(t))
  \/ MainStep
  \/ drive_finish
  \/ hard_disk_service
  \/ \E t \in Threads : Elsewhere(Resume(t))
  \/ Elsewhere(clock_service)
  \/ IdleStep

IdeSpec == ide_init /\ [][IdeNext]_ideVars

(* Threads make progress as in Thread; the drive ends what it begins, and   *)
(* the 8259A keeps its interrupt until the CPU accepts it.                  *)
IdeFairness ==
  /\ WF_ideVars(\E t \in Threads : Elsewhere(Resume(t)))
  /\ \A t \in Threads \ {Idle} : SF_ideVars(DriverStep(t) \/ SleepStep(t))
  /\ WF_ideVars(drive_finish)
  /\ SF_ideVars(hard_disk_service)
  /\ SF_ideVars(Elsewhere(clock_service))
  /\ SF_ideVars(IdleStep)

FairIdeSpec == IdeSpec /\ IdeFairness

-----------------------------------------------------------------------------
(* t is using the drive.                                                    *)
Active(t) == call[t].step \in Steps \ {"out", "lock", "unlock"}

(* The address that the chunk of call c is meant for.                       *)
Wanted(c) == IF c.kind = "identify" THEN [NoAddress EXCEPT !.disk = c.disk]
                                    ELSE Address(c.disk, c.lba + c.done)

(* All sectors of the request agree in the bits from 24 on, and these are   *)
(* no more than the four that an address has.                               *)
OneBlock(c) ==
  /\ HighBits(c.lba \div LOW) \subseteq 0..3
  /\ \A n \in 0..(c.cnt - 1) : HighBits((c.lba + n) \div LOW) = HighBits(c.lba \div LOW)

(* What disk_sector_to_buf() reads is the data of the reader's own command. *)
(* The drive has at least as many sectors for it as it takes; it has the    *)
(* first one ready, and all of them if it needs no time in between; and     *)
(* they are from where the request wants them, if that is one block of 2^24 *)
(* sectors.  The interrupt that woke the reader may be a late one of the    *)
(* chunk before: busy_wait() has to make up for it.                         *)
ReadsOwnSectors ==
  \A t \in Threads :
    LET c == call[t] IN
    c.step = "move"
      => /\ c.kind # "write" /\ c.left \in 1..c.once /\ drive.left >= c.left
         /\ c.left = c.once \/ ~Gaps => drive.st = "ready" /\ drive.left = c.left
         /\ OneBlock(c) => drive.at = Wanted(c)

(* The same without the proviso: `LBA bits 24 to 27 are in the low four     *)
(* bits of the device register, write them again' (ide.c:110).              *)
AlwaysOwnSectors == \A t \in Threads : call[t].step = "move" => drive.at = Wanted(call[t])

(* Data is taken out when the status says that it is there (ide.c:74-75).   *)
SectorsReady == \A t \in Threads : call[t].step = "move" => drive.st = "ready"

(* One wake-up per command: when a command is about to be set up, and while *)
(* nobody uses the drive, disk_ok is 0, nobody waits for it and no          *)
(* interrupt is expected.  A late interrupt is not counted, and the one     *)
(* that it was mistaken for is not counted again.                           *)
OneWakeupEach ==
  (\E t \in Threads : call[t].step = "select") \/ (\A t \in Threads : ~Active(t))
    => ~wait_intr /\ disk_ok = 0 /\ ok_waiters = <<>>

(* The running thread is in busy_wait() for a drive that reports an error   *)
(* or has been busy for 30 s.                                               *)
DriveFault ==
  \E t \in Threads : /\ current_task = t /\ call[t].step = "poll"
                     /\ call[t].polls = 0 \/ drive.st = "failed"

Writing == \E t \in Threads : Active(t) /\ call[t].kind = "write"

(* Identifying and reading stop the kernel for a fault of the drive and for *)
(* nothing else: no late interrupt makes busy_wait() return FALSE, and no   *)
(* assertion of sync.c or thread.c fails.                                   *)
ReadStopsNeedFault == hung => Writing \/ DriveFault

(* Writing, too, stops the kernel only for a fault of the drive: `write     *)
(* sector: 0x30' (ide.c:73).                                                *)
OnlyFaultsStop == hung => DriveFault

(* One of the three is kept, as the comments have it of each.  A violation  *)
(* is a behaviour that reads from elsewhere, takes sectors that are not     *)
(* ready, and stops for a write.                                            *)
OneDiskPromiseKept == []AlwaysOwnSectors \/ []SectorsReady \/ []OnlyFaultsStop

(* While ide_init() runs, with interrupts off, busy_wait() never sleeps: it *)
(* would for ever, as the tick counter stands still.                        *)
BootNeverSleeps == boot => pc[Main] = "run"

(* As long as somebody has the channel or waits for it, it is given back    *)
(* again and again, or the kernel stops: no interrupt is lost between the   *)
(* command and sema_down(), busy_wait() ends, and of the threads that wait  *)
(* for the lock one gets it.                                                *)
RequestsServed ==
  (\E t \in Threads : at[t] # "out") ~> ((\E t \in Threads : at[t] = "up") \/ hung)
=============================================================================
