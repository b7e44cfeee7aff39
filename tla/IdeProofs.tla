----------------------------- MODULE IdeProofs -----------------------------
(***************************************************************************)
(* The disk driver of ide.c, for any number of threads and disks, any      *)
(* requests, any size of a chunk and of a block and any patience of        *)
(* busy_wait(): what is read is what was asked for, as far as that holds,  *)
(* one wake-up belongs to one command, and reading stops the kernel for a  *)
(* fault of the drive only.                                                *)
(*                                                                         *)
(* The argument: one thread at a time uses the drive (Alone in boot, by    *)
(* the lock afterwards), and for that thread's step the state of the drive *)
(* and of the channel is what DriveRight and AddressRight say.  Interrupts *)
(* that come late are harmless since wait_intr and disk_ok together count  *)
(* to one.                                                                 *)
(***************************************************************************)
EXTENDS Ide, SyncProofs

CallType == [step : Steps, kind : {"identify", "read", "write"}, disk : {0, 1},
             lba : Nat, cnt : Nat, done : Nat, once : Nat, left : Nat, polls : Nat, intr : BOOLEAN]
AddressType == [disk : {0, 1}, high : SUBSET (0..3), low : Nat]
RegsType == [cnt : Nat, low : Nat]
DriveType == [st : {"idle", "busy", "recalibrate", "ready", "failed"}, at : AddressType, left : Nat]

Types ==
  /\ call \in [Threads -> CallType]
  /\ drive \in DriveType /\ regs \in RegsType
  /\ wait_intr \in BOOLEAN /\ irq \in BOOLEAN /\ boot \in BOOLEAN
  /\ disk_ok \in 0..1

(* Where a thread in a step of the driver is in sync.c.  disk_identify(),   *)
(* without the lock, and whatever else happens during boot is main's.       *)
CallPhase(t) ==
  /\ call[t].step = "out" => at[t] = "out"
  /\ call[t].step = "lock" => at[t] \in {"down", "test", "got", "own", "in"}
  /\ call[t].step = "unlock" => at[t] \in {"rel", "up"}
  /\ Active(t) => at[t] = IF call[t].kind = "identify" THEN "out" ELSE "in"
  /\ at[t] = "in" => nest[t] = 1
  /\ call[t].kind = "identify" => boot /\ t = Main /\ Active(t)
  /\ boot /\ call[t].step # "out" => t = Main

(* The interrupt of the command is to come, or it came and was counted.     *)
Expected == wait_intr <=> disk_ok = 0

(* t has sent its command and will read what the drive answers.             *)
Reading(t) ==
  call[t].step \in {"down", "test", "move"} \/ (call[t].step = "poll" /\ call[t].kind # "write")

(* t is in a command: it is about to send it, waits for it or has its data. *)
Commanding(t) == call[t].step \in {"command", "down", "test", "poll", "move"}

(* What the drive and the channel are like in each step of their user.      *)
DriveRight(t) ==
  /\ Commanding(t) => call[t].once \in 1..CHUNK /\ call[t].done < call[t].cnt
  /\ call[t].step \in {"command", "down", "test"} => Expected
  /\ call[t].step = "poll" /\ call[t].kind = "write"
       => drive.st \in {"recalibrate", "idle"} /\ Expected
  /\ call[t].step \in {"select", "move"} \/ (call[t].step = "poll" /\ call[t].kind # "write")
       => ~wait_intr /\ disk_ok = 0
  /\ Active(t) /\ call[t].step # "poll" => drive.st # "recalibrate"
  /\ Reading(t) => call[t].kind # "write" /\ drive.st \in {"busy", "ready", "failed"}
  /\ Reading(t) /\ call[t].step # "move" => drive.left = call[t].once
  /\ call[t].step = "move"
       => /\ call[t].left \in 1..call[t].once /\ drive.left >= call[t].left
          /\ call[t].left = call[t].once \/ ~Gaps
               => drive.st = "ready" /\ drive.left = call[t].left

(* What its registers hold and which sectors it is at.  The OR into the     *)
(* device register does no harm within one block.                           *)
High(t) == HighBits(call[t].lba \div LOW)

AddressRight(t) ==
  /\ Active(t) /\ call[t].kind = "identify" => dev = reg_device(call[t].disk)
  /\ Active(t) /\ OneBlock(call[t])
       => dev \union High(t) = reg_device(call[t].disk) \union High(t)
  /\ call[t].step = "command" /\ call[t].kind # "identify"
       => /\ regs = [cnt |-> uint8(call[t].once), low |-> (call[t].lba + call[t].done) % LOW]
          /\ OneBlock(call[t]) => dev = reg_device(call[t].disk) \union High(t)
  /\ Reading(t) /\ OneBlock(call[t]) => drive.at = Wanted(call[t])

(* ... and while it has no user.                                            *)
DriveQuiet ==
  (\A t \in Threads : ~Active(t)) => drive.st # "recalibrate" /\ ~wait_intr /\ disk_ok = 0

(* At most one thread waits for disk_ok, and it has to.                     *)
OkWaiters ==
  \/ ok_waiters = <<>>
  \/ /\ disk_ok = 0
     /\ \E t \in Threads \ {Idle} :
          ok_waiters = <<t>> /\ call[t].step = "test" /\ status[t] = "BLOCKED"

(* Threads sleep for the lock or for disk_ok.                               *)
Sleepers == \A t \in Threads \ {Idle} : status[t] = "BLOCKED" => at[t] = "test" \/ ok_waiters = <<t>>

(* During boot main has the CPU with interrupts off, or it sleeps for       *)
(* disk_ok.  Its commands are for one sector, so no interrupt is late.      *)
BootRight ==
  boot =>
    /\ \A t \in Threads \ {Main, Idle} : status[t] = "NONE"
    /\ \/ current_task = Main /\ frame[Main] = "none" /\ ~intr
       \/ frame[Main] = "block" /\ ~old_status[Main] /\ call[Main].step = "test"
    /\ pc[Main] = "run"
    /\ call[Main].step = "test" => ~call[Main].intr
    /\ at[Main] = "test" => ~saved[Main]
    /\ call[Main].step # "out" => call[Main].kind # "write" /\ call[Main].cnt = 1
    /\ Commanding(Main) => call[Main].once = 1
    /\ call[Main].step \in {"down", "test", "poll", "move"} => drive.left = 1
    /\ call[Main].step \notin {"down", "test", "poll", "move"} => drive.st = "idle"
    /\ call[Main].step \notin {"down", "test"} => ~irq
    /\ irq \/ disk_ok = 1 => drive.st \in {"ready", "failed"}
    /\ ~(irq /\ disk_ok = 1)
    /\ call[Main].step = "poll" => drive.st \in {"ready", "failed"}
    /\ call[Main].step \in {"down", "test", "poll"} => call[Main].polls > 0

(* The inductive invariant of the running kernel, ...                       *)
IdeInv ==
  /\ SyncInv /\ Accounted
  /\ Types
  /\ \A t \in Threads : CallPhase(t)
  /\ \A t \in Threads : DriveRight(t)
  /\ \A t \in Threads : AddressRight(t)
  /\ DriveQuiet /\ OkWaiters /\ Sleepers /\ BootRight
  /\ pc[Idle] # "run" /\ call[Idle].step = "out"

(* ... which may come to a stop.                                            *)
IdeFull ==
  \/ IdeInv
  \/ hung /\ ReadStopsNeedFault /\ ReadsOwnSectors /\ OneWakeupEach /\ BootNeverSleeps

(* The size of a chunk: at least one sector, at most 256, and all that is   *)
(* left if it is one.                                                       *)
LEMMA ChunkSize ==
  ASSUME NEW c \in CallType, c.done < c.cnt
  PROVE  sector_once(c) \in 1..CHUNK /\ (c.cnt = 1 => sector_once(c) = 1)
BY ChunkAssumption DEF CallType, sector_once

(* Written as a uint8_t and read back, it is the same.                      *)
LEMMA ByteIsCount ==
  ASSUME NEW n \in 1..CHUNK
  PROVE  uint8(n) \in Nat /\ sectors(uint8(n)) = n
<1>1. CASE n = CHUNK
  BY <1>1, ChunkAssumption DEF uint8, sectors
<1>2. CASE n < CHUNK
  BY <1>2, ChunkAssumption DEF uint8, sectors
<1> QED
  BY <1>1, <1>2, ChunkAssumption

(* t's step leaves its request, and how far it has come, as they were.      *)
SameRequest(t) ==
  /\ call'[t].kind = call[t].kind /\ call'[t].disk = call[t].disk /\ call'[t].lba = call[t].lba
  /\ call'[t].cnt = call[t].cnt /\ call'[t].done = call[t].done

LEMMA SameAddress ==
  ASSUME NEW t \in Threads, SameRequest(t)
  PROVE  /\ OneBlock(call[t])' <=> OneBlock(call[t])
         /\ Wanted(call[t])' = Wanted(call[t]) /\ High(t)' = High(t)
BY DEF SameRequest, OneBlock, Wanted, High, Address

(* Then the registers and the drive are still right.                        *)
LEMMA AddressKeeps ==
  ASSUME NEW t \in Threads, AddressRight(t), SameRequest(t), UNCHANGED dev,
         Active(t)' => Active(t), call'[t].step # "command",
         Reading(t)' => Reading(t) /\ drive'.at = drive.at
  PROVE  AddressRight(t)'
BY SameAddress DEF AddressRight, SameRequest

(* They also are if nothing of them changes.                                *)
LEMMA FrozenRight ==
  ASSUME NEW t \in Threads, DriveRight(t), AddressRight(t), call'[t] = call[t],
         UNCHANGED <<wait_intr, disk_ok, dev, regs, drive>>
  PROVE  DriveRight(t)' /\ AddressRight(t)'
<1>1. DriveRight(t)'
  BY DEF DriveRight, Active, Reading, Expected, Commanding
<1>2. AddressRight(t)'
  BY SameAddress DEF AddressRight, SameRequest, Active, Reading
<1> QED
  BY <1>1, <1>2

(* A thread that does not use the drive expects nothing of it.              *)
LEMMA InactiveRight ==
  ASSUME NEW t \in Threads, ~Active(t)'
  PROVE  DriveRight(t)' /\ AddressRight(t)'
BY DEF DriveRight, AddressRight, Active, Reading, Commanding, Steps

(* The invariant holds after ide_init().                                    *)
LEMMA IdeInitInv == ide_init => IdeInv
<1> SUFFICES ASSUME ide_init PROVE IdeInv
  OBVIOUS
<1>1. SyncInv
  BY SyncInitInv DEF ide_init, SyncInit, lock_init
<1>2. Main \in Threads /\ Idle \in Threads
  BY ThreadsAssumption
<1>3. NoCall \in CallType /\ NoCall.step = "out" /\ NoCall.kind = "read"
  BY DEF NoCall, CallType, Steps
<1>4. \A t \in Threads : call[t] = NoCall /\ at[t] = "out"
  BY DEF ide_init, SyncInit, Unlocked
<1>5. Idling \in DriveType /\ Idling.st = "idle" /\ NoRegs \in RegsType
  BY DEF Idling, DriveType, NoAddress, AddressType, NoRegs, RegsType
<1>6. Types
  <2>1. wait_intr \in BOOLEAN /\ irq \in BOOLEAN /\ boot \in BOOLEAN
    BY Zenon DEF ide_init
  <2>2. call \in [Threads -> CallType] /\ drive \in DriveType /\ regs \in RegsType /\ disk_ok \in 0..1
    BY <1>3, <1>5 DEF ide_init
  <2> QED
    BY <2>1, <2>2 DEF Types
<1>7. \A t \in Threads : CallPhase(t) /\ DriveRight(t) /\ AddressRight(t)
  BY <1>3, <1>4 DEF CallPhase, DriveRight, AddressRight, Active, Reading, Commanding, Steps
<1>8. DriveQuiet /\ OkWaiters
  BY <1>5 DEF ide_init, DriveQuiet, OkWaiters
<1>9. Sleepers
  BY DEF ide_init, SyncInit, Init, Sleepers
<1>10. BootRight
  BY <1>2, <1>3, <1>4, <1>5, ThreadsAssumption DEF ide_init, SyncInit, Init, BootRight, Commanding
<1>11. Accounted
  BY DEF ide_init, SyncInit, lock_init, sema_init, Accounted
<1>12. pc[Idle] # "run"
  BY <1>2 DEF ide_init, SyncInit, Init
<1> QED
  BY <1>1, <1>2, <1>3, <1>4, <1>6, <1>7, <1>8, <1>9, <1>10, <1>11, <1>12 DEF IdeInv

(* Only one thread may use the drive: main during boot, afterwards the one  *)
(* that has the lock.                                                       *)
MayUse(t) == at[t] = "in" \/ Active(t) \/ (boot /\ t = Main)

(* Whoever may use the drive is the only one in a call.                     *)
LEMMA OneUser ==
  IdeInv => \A t, u \in Threads : MayUse(t) /\ Active(u) => t = u
<1> SUFFICES ASSUME IdeInv, NEW t \in Threads, NEW u \in Threads, MayUse(t), Active(u) PROVE t = u
  OBVIOUS
<1>1. lk[t] = channel /\ lk[u] = channel
  BY ChannelAssumption DEF IdeInv, SyncInv, SyncTypeOK
<1>2. CASE boot
  BY <1>2 DEF IdeInv, CallPhase, Active, MayUse, Types, CallType, Steps
<1>3. CASE ~boot
  <2>1. at[t] = "in" /\ at[u] = "in"
    BY <1>3 DEF IdeInv, CallPhase, MayUse
  <2> QED
    BY <1>1, <2>1 DEF IdeInv, SyncInv, Exclusion, Holding
<1> QED
  BY <1>2, <1>3

(* The user of the drive takes a step, or the drive does: the others stay   *)
(* where they were.                                                         *)
LEMMA UserKeeps ==
  ASSUME IdeInv, NEW t \in Threads \ {Idle}, MayUse(t),
         \A u \in Threads \ {t} : call'[u] = call[u],
         [Next]_vars, UNCHANGED <<locks, status, boot>>, pc'[Idle] # "run",
         UNCHANGED ok_waiters, OkWaiters',
         Types', CallPhase(t)', DriveRight(t)', AddressRight(t)', DriveQuiet', BootRight'
  PROVE  IdeInv'
<1>1. UNCHANGED <<sema, owner, at, lk, saved, nest>>
  BY DEF locks, owner
<1>2. SyncInv' /\ Accounted'
  BY <1>1, OutsideKeeps, OutsideWakes DEF IdeInv
<1>3. ASSUME NEW u \in Threads \ {t} PROVE CallPhase(u)' /\ DriveRight(u)' /\ AddressRight(u)'
  <2>1. CallPhase(u) /\ ~Active(u)
    BY OneUser DEF IdeInv
  <2>2. CallPhase(u)'
    BY <1>1, <2>1 DEF CallPhase, Active
  <2>3. DriveRight(u)' /\ AddressRight(u)'
    BY <2>1, InactiveRight DEF Active
  <2> QED
    BY <2>2, <2>3
<1>4. Sleepers'
  BY <1>1 DEF IdeInv, Sleepers
<1>5. call'[Idle].step = "out" /\ Idle \in Threads
  BY ThreadsAssumption DEF IdeInv
<1> QED
  BY <1>2, <1>3, <1>4, <1>5 DEF IdeInv

(* Whoever takes a step of the driver during boot is main.                  *)
LEMMA BootIsMain ==
  ASSUME IdeInv, boot, NEW t \in Threads \ {Idle}, ~hung, current_task = t
  PROVE  /\ t = Main /\ current_task = Main /\ pc[Main] = "run"
         /\ status[Main] # "BLOCKED"
<1>1. status[t] = "RUNNING"
  BY DEF IdeInv, SyncInv, Inv, BooksAgree
<1> QED
  BY <1>1 DEF IdeInv, BootRight

(* A thread that uses the drive and runs is not asleep for disk_ok, and     *)
(* nobody else is.                                                          *)
LEMMA NobodyWaits ==
  ASSUME IdeInv, NEW t \in Threads, MayUse(t), At(t, "run")
  PROVE  ok_waiters = <<>>
<1>1. status[t] = "RUNNING"
  BY RunningIsNotBlocked DEF IdeInv, SyncInv
<1>2. ASSUME NEW u \in Threads, ok_waiters = <<u>>, call[u].step = "test", status[u] = "BLOCKED"
      PROVE  FALSE
  <2>1. Active(u)
    BY <1>2 DEF Active, Steps
  <2> QED
    BY <1>1, <1>2, <2>1, OneUser
<1> QED
  BY <1>2 DEF IdeInv, OkWaiters

-----------------------------------------------------------------------------
(* A step of the scheduler that wakes and blocks nobody but cpu_idle.       *)
LEMMA ElsewhereKeeps ==
  ASSUME IdeInv, [Next]_vars, UNCHANGED <<locks, chan, hardware, call, boot>>,
         \A t \in Threads \ {Idle} : status'[t] = "BLOCKED" <=> status[t] = "BLOCKED",
         pc'[Idle] # "run", BootRight'
  PROVE  IdeInv'
<1>1. UNCHANGED <<sema, owner, at, lk, saved, nest>>
  BY DEF locks, owner
<1>2. SyncInv' /\ Accounted'
  BY <1>1, OutsideKeeps, OutsideWakes DEF IdeInv, SyncInv
<1>3. UNCHANGED <<wait_intr, disk_ok, ok_waiters, dev, regs, drive, irq>>
  BY DEF chan, hardware
<1>4. \A t \in Threads : CallPhase(t)'
  BY <1>1 DEF IdeInv, CallPhase, Active
<1>5. \A t \in Threads : DriveRight(t)' /\ AddressRight(t)'
  BY <1>3, FrozenRight DEF IdeInv
<1>6. Types' /\ DriveQuiet'
  BY <1>3 DEF IdeInv, Types, DriveQuiet, Active
<1>7. OkWaiters' /\ Sleepers'
  BY <1>1, <1>3 DEF IdeInv, OkWaiters, Sleepers
<1> QED
  BY <1>2, <1>4, <1>5, <1>6, <1>7 DEF IdeInv

(* During boot such a step leaves main where it sleeps.                     *)
LEMMA BootAsleep ==
  ASSUME IdeInv, boot => pc'[Main] = "run", UNCHANGED <<locks, chan, hardware, call, boot>>,
         boot => \A t \in Threads : status[t] = "NONE" => status'[t] = "NONE",
         boot => \/ current_task' = Main /\ frame'[Main] = "none" /\ ~intr'
                 \/ /\ frame[Main] = "block" /\ frame'[Main] = "block"
                    /\ old_status'[Main] = old_status[Main] /\ call[Main].step = "test"
  PROVE  BootRight'
<1>1. UNCHANGED <<at, saved, disk_ok, drive, irq>>
  BY DEF locks, chan, hardware
<1>2. SUFFICES ASSUME boot PROVE BootRight'
  BY DEF BootRight
<1>3. \/ current_task' = Main /\ frame'[Main] = "none" /\ ~intr'
      \/ frame'[Main] = "block" /\ ~old_status'[Main] /\ call'[Main].step = "test"
  BY <1>2 DEF IdeInv, BootRight
<1> QED
  BY <1>1, <1>2, <1>3 DEF IdeInv, BootRight, Commanding

(* A thread that is switched to changes nothing of the driver.              *)
LEMMA ResumeKeeps ==
  ASSUME IdeInv, NEW t \in Threads, Elsewhere(Resume(t))
  PROVE  IdeInv'
<1>1. /\ [Next]_vars /\ UNCHANGED <<locks, chan, hardware, call, boot>> /\ UNCHANGED status
      /\ ~hung /\ current_task = t /\ frame[t] # "none"
      /\ frame' = [frame EXCEPT ![t] = "none"] /\ UNCHANGED <<current_task, old_status>>
      /\ intr' = IF frame[t] \in {"new", "clock"} THEN TRUE ELSE old_status[t]
      /\ pc' = IF t = Idle /\ frame[t] = "block" THEN [pc EXCEPT ![t] = "print"] ELSE pc
  BY DEF Elsewhere, Outside, Resume, Next, locks, sema, owner
<1>2. /\ pc \in [Threads -> Pc] /\ frame \in [Threads -> Frame] /\ Main # Idle
      /\ Main \in Threads /\ Idle \in Threads /\ pc[Idle] # "run"
  BY ThreadsAssumption DEF IdeInv, SyncInv, Inv, TypeOK
<1>3. pc'[Idle] # "run" /\ pc'[Main] = pc[Main]
  BY <1>1, <1>2
<1>4. ASSUME boot
      PROVE \/ current_task' = Main /\ frame'[Main] = "none" /\ ~intr'
            \/ /\ frame[Main] = "block" /\ frame'[Main] = "block"
               /\ old_status'[Main] = old_status[Main] /\ call[Main].step = "test"
  <2>1. frame[Main] = "block" /\ ~old_status[Main] /\ call[Main].step = "test"
    BY <1>1, <1>4 DEF IdeInv, BootRight
  <2> QED
    BY <1>1, <1>2, <2>1
<1>5. boot => pc'[Main] = "run"
  BY <1>3 DEF IdeInv, BootRight
<1>6. BootRight'
  BY <1>1, <1>4, <1>5, BootAsleep
<1> QED
  BY <1>1, <1>3, <1>6, ElsewhereKeeps

(* Nor does the clock.                                                      *)
LEMMA ClockKeeps ==
  ASSUME IdeInv, Elsewhere(clock_service)
  PROVE  IdeInv'
<1>1. /\ [Next]_vars /\ UNCHANGED <<locks, chan, hardware, call, boot>>
      /\ ~hung /\ intr /\ frame[current_task] = "none" /\ clock_service
      /\ UNCHANGED old_status
      /\ pc' = IF current_task = Idle /\ pc[Idle] = "hlt" THEN [pc EXCEPT ![Idle] = "loop"] ELSE pc
  BY DEF Elsewhere, Outside, clock_service, WakeCpu, Next, locks, sema, owner
<1>2. /\ pc \in [Threads -> Pc] /\ frame \in [Threads -> Frame] /\ Main # Idle
      /\ Main \in Threads /\ Idle \in Threads /\ pc[Idle] # "run" /\ current_task \in Threads
  BY ThreadsAssumption DEF IdeInv, SyncInv, Inv, TypeOK
<1>3. pc'[Idle] # "run" /\ pc'[Main] = pc[Main]
  BY <1>1, <1>2
<1>4. /\ \A t \in Threads \ {Idle} : status'[t] = "BLOCKED" <=> status[t] = "BLOCKED"
      /\ \A t \in Threads : status[t] = "NONE" => status'[t] = "NONE"
      /\ frame' = [frame EXCEPT ![current_task] = "clock"] \/ UNCHANGED frame
  BY <1>1, ClockBlocks DEF IdeInv, SyncInv
<1>5. ASSUME boot
      PROVE  /\ frame[Main] = "block" /\ frame'[Main] = "block"
             /\ old_status'[Main] = old_status[Main] /\ call[Main].step = "test"
  <2>1. frame[Main] = "block" /\ call[Main].step = "test"
    BY <1>1, <1>5 DEF IdeInv, BootRight
  <2> QED
    BY <1>1, <1>2, <1>4, <2>1
<1>6. boot => pc'[Main] = "run"
  BY <1>3 DEF IdeInv, BootRight
<1>7. BootRight'
  BY <1>1, <1>4, <1>5, <1>6, BootAsleep
<1> QED
  BY <1>1, <1>3, <1>4, <1>7, ElsewhereKeeps

(* Nor do the steps of the idle thread.                                     *)
LEMMA IdleKeeps ==
  ASSUME IdeInv, IdleStep
  PROVE  IdeInv'
<1>1. /\ [Next]_vars /\ UNCHANGED <<locks, chan, hardware, call, boot>>
      /\ ~hung /\ current_task = Idle /\ frame[Idle] = "none"
  BY ThreadsAssumption DEF IdleStep, Elsewhere, Outside, cpu_idle, cpu_halt, At, Next, Step,
                           locks, sema, owner
<1>2. /\ pc \in [Threads -> Pc] /\ frame \in [Threads -> Frame] /\ Main # Idle
      /\ old_status \in [Threads -> BOOLEAN]
      /\ Main \in Threads /\ Idle \in Threads /\ pc[Idle] # "run"
  BY ThreadsAssumption DEF IdeInv, SyncInv, Inv, TypeOK
<1>3. pc'[Idle] # "run" /\ pc'[Main] = pc[Main]
  BY <1>2 DEF IdleStep, Elsewhere, Outside, cpu_idle, cpu_halt
<1>4. /\ \A t \in Threads \ {Idle} : status'[t] = "BLOCKED" <=> status[t] = "BLOCKED"
      /\ \A t \in Threads : status[t] = "NONE" => status'[t] = "NONE"
      /\ frame'[Main] = frame[Main] /\ old_status'[Main] = old_status[Main]
  <2>1. CASE cpu_halt
    BY <2>1 DEF cpu_halt, sched
  <2>2. CASE cpu_idle
    <3>1. thread_block /\ old_status' = [old_status EXCEPT ![Idle] = intr]
      BY <1>1, <2>2 DEF cpu_idle, thread_block
    <3>2. /\ \A t \in Threads \ {Idle} : status'[t] = "BLOCKED" <=> status[t] = "BLOCKED"
          /\ \A t \in Threads : status[t] = "NONE" => status'[t] = "NONE"
          /\ frame' = [frame EXCEPT ![Idle] = "block"]
      BY <1>1, <3>1, BlockBooks DEF IdeInv, SyncInv
    <3> QED
      BY <1>2, <3>1, <3>2
  <2> QED
    BY <2>1, <2>2 DEF IdleStep, Elsewhere, Outside
<1>5. boot => frame[Main] = "block" /\ frame'[Main] = "block" /\ call[Main].step = "test"
  BY <1>1, <1>2, <1>4 DEF IdeInv, BootRight
<1>6. boot => pc'[Main] = "run"
  BY <1>3 DEF IdeInv, BootRight
<1>7. BootRight'
  BY <1>1, <1>4, <1>5, <1>6, BootAsleep
<1> QED
  BY <1>1, <1>3, <1>4, <1>7, ElsewhereKeeps

(* What does not happen during boot: sleeping in busy_wait(), starting      *)
(* threads, enabling interrupts.                                            *)
LEMMA LaterKeeps ==
  ASSUME IdeInv,
         \/ \E t \in Threads \ {Idle} : SleepStep(t)
         \/ \E t \in Threads : ~boot /\ Elsewhere(thread_start(t))
         \/ MainStep
  PROVE  IdeInv'
<1>1. /\ pc \in [Threads -> Pc] /\ status \in [Threads -> Status]
      /\ Idle \in Threads /\ Main \in Threads /\ pc[Idle] # "run" /\ Inv
  BY ThreadsAssumption DEF IdeInv, SyncInv, Inv, TypeOK
<1>2. ASSUME NEW t \in Threads \ {Idle}, SleepStep(t)
      PROVE  IdeInv'
  <2>1. /\ [Next]_vars /\ UNCHANGED <<locks, chan, hardware, call, boot>>
        /\ ~hung /\ current_task = t /\ pc[t] # "run"
    BY <1>2 DEF SleepStep, Elsewhere, Outside, ticks_to_sleep, SleepYield, At, Next, Step,
                locks, sema, owner
  <2>2. ~boot
    BY <2>1, BootIsMain
  <2>3. pc'[Idle] # "run"
    BY <1>1, <1>2 DEF SleepStep, Elsewhere, Outside, ticks_to_sleep, SleepYield
  <2>4. \A u \in Threads \ {Idle} : status'[u] = "BLOCKED" <=> status[u] = "BLOCKED"
    <3>1. CASE ticks_to_sleep(t)
      BY <3>1 DEF ticks_to_sleep, sched
    <3>2. CASE SleepYield(t)
      BY <1>1, <3>2, YieldBooks DEF SleepYield
    <3> QED
      BY <1>2, <3>1, <3>2 DEF SleepStep, Elsewhere, Outside
  <2> QED
    BY <2>1, <2>2, <2>3, <2>4, ElsewhereKeeps DEF BootRight
<1>3. ASSUME NEW t \in Threads, ~boot, Elsewhere(thread_start(t))
      PROVE  IdeInv'
  <2>1. /\ [Next]_vars /\ UNCHANGED <<locks, chan, hardware, call, boot, pc>>
        /\ status[t] = "NONE" /\ status' = [status EXCEPT ![t] = "READY"]
    BY <1>3 DEF Elsewhere, Outside, thread_start, Next, locks, sema, owner
  <2> QED
    BY <1>1, <1>3, <2>1, ElsewhereKeeps DEF BootRight
<1>4. CASE MainStep
  <2>1. /\ [Next]_vars /\ UNCHANGED <<locks, chan, hardware, call, boot, pc, status>> /\ ~boot
    BY <1>1, <1>4 DEF MainStep, Elsewhere, Outside, local_irq_enable, Next, Step, sched,
                      locks, sema, owner
  <2> QED
    BY <1>1, <2>1, ElsewhereKeeps DEF BootRight
<1> QED
  BY <1>2, <1>3, <1>4

-----------------------------------------------------------------------------
(* A step of sync.c in a call that does not use the drive yet, or no more.  *)
LEMMA LockCallKeeps ==
  ASSUME IdeInv, NEW t \in Threads \ {Idle},
         (\E l \in Locks : lock_acquire(t, l)) \/ LockStep(t),
         UNCHANGED <<chan, hardware, boot>>,
         call' \in [Threads -> CallType], \A u \in Threads \ {t} : call'[u] = call[u],
         Active(t) => call[t].step = "select",
         ~Active(t)', CallPhase(t)', BootRight'
  PROVE  IdeInv'
<1>1. /\ SyncInv' /\ [Next]_vars /\ status[t] # "BLOCKED" /\ UNCHANGED pc /\ Accounted'
      /\ \A u \in Threads \ {t} : at'[u] = at[u] /\ nest'[u] = nest[u]
      /\ \A u \in Threads \ {Idle} :
           /\ status'[u] = "BLOCKED" => status[u] = "BLOCKED" \/ (u = t /\ at'[u] = "test")
           /\ status[u] = "BLOCKED" /\ at[u] # "test" => status'[u] = "BLOCKED"
  BY LockStepKeeps DEF IdeInv
<1>2. UNCHANGED <<wait_intr, disk_ok, ok_waiters, dev, regs, drive, irq>>
  BY DEF chan, hardware
<1>3. ASSUME NEW u \in Threads \ {t} PROVE CallPhase(u)' /\ DriveRight(u)' /\ AddressRight(u)'
  <2>1. CallPhase(u) /\ DriveRight(u) /\ AddressRight(u)
    BY DEF IdeInv
  <2>2. CallPhase(u)'
    BY <1>1, <2>1 DEF CallPhase, Active
  <2>3. DriveRight(u)' /\ AddressRight(u)'
    BY <1>2, <2>1, FrozenRight
  <2> QED
    BY <2>2, <2>3
<1>4. DriveRight(t)' /\ AddressRight(t)'
  BY InactiveRight
<1>5. Types'
  BY <1>2 DEF IdeInv, Types
<1>6. DriveQuiet'
  <2>1. CASE Active(t)
    BY <1>2, <2>1 DEF IdeInv, DriveRight, DriveQuiet
  <2>2. CASE ~Active(t)
    BY <1>2, <2>2 DEF IdeInv, DriveQuiet, Active
  <2> QED
    BY <2>1, <2>2
<1>7. OkWaiters'
  <2>1. ASSUME NEW u \in Threads \ {Idle}, call[u].step = "test", status[u] = "BLOCKED"
        PROVE  call'[u].step = "test" /\ status'[u] = "BLOCKED"
    <3>1. at[u] # "test" /\ u # t
      BY <1>1, <2>1 DEF IdeInv, CallPhase, Active, Steps
    <3> QED
      BY <1>1, <2>1, <3>1
  <2> QED
    BY <1>2, <2>1 DEF IdeInv, OkWaiters
<1>8. Sleepers'
  BY <1>1, <1>2 DEF IdeInv, Sleepers
<1>9. pc'[Idle] # "run" /\ call'[Idle].step = "out"
  BY <1>1, ThreadsAssumption DEF IdeInv
<1> QED
  BY <1>1, <1>3, <1>4, <1>5, <1>6, <1>7, <1>8, <1>9 DEF IdeInv

(* During boot nobody else has the lock, so main neither waits for it nor   *)
(* wakes anybody, and interrupts stay off.                                  *)
LEMMA BootLockStep ==
  ASSUME IdeInv, boot, NEW t \in Threads \ {Idle},
         (\E l \in Locks : lock_acquire(t, l)) \/ LockStep(t)
  PROVE  /\ t = Main /\ UNCHANGED <<status, pc>>
         /\ current_task' = Main /\ frame'[Main] = "none" /\ ~intr'
         /\ at'[Main] = "test" => ~saved'[Main]
<1>1. ~hung /\ current_task = t /\ frame[t] = "none"
  BY DEF At, lock_acquire, LockStep, AcquireStep, sema_down_enter, sema_down_wait,
         sema_down_take, lock_acquire_hold, lock_acquire_count, lock_release,
         lock_release_count, sema_up, Goes
<1>2. t = Main /\ pc[Main] = "run" /\ current_task = Main /\ status[Main] # "BLOCKED"
  BY <1>1, BootIsMain
<1>3. ~intr /\ frame[Main] = "none"
  BY <1>1, <1>2 DEF IdeInv, BootRight
<1>4. /\ SyncInv /\ Accounted /\ at \in [Threads -> LockPc] /\ saved \in [Threads -> BOOLEAN]
      /\ lk \in [Threads -> Locks] /\ t \in Threads
  BY DEF IdeInv, SyncInv, SyncTypeOK
<1>5. \A u \in Threads : at[u] # "out" => u = Main
  BY DEF IdeInv, CallPhase
<1>6. CASE (\E l \in Locks : lock_acquire(t, l))
  <2>1. UNCHANGED <<vars, saved>> /\ (at'[t] = "down" \/ UNCHANGED at)
    BY <1>4, <1>6 DEF lock_acquire
  <2>2. at[Main] = "test" => ~saved[Main]
    BY DEF IdeInv, BootRight
  <2> QED
    BY <1>2, <1>3, <2>1, <2>2 DEF vars
<1>7. CASE sema_down_enter(t)
  <2>1. /\ UNCHANGED <<current_task, frame, status, pc>>
        /\ intr' = FALSE /\ saved' = [saved EXCEPT ![t] = intr]
    BY <1>7 DEF sema_down_enter, sched
  <2>2. ~intr' /\ ~saved'[t]
    <3>1. intr = FALSE
      BY <1>3, Zenon DEF IdeInv, SyncInv, Inv, TypeOK
    <3> QED
      BY <1>4, <2>1, <3>1, Zenon
  <2> QED
    BY <1>2, <1>3, <2>1, <2>2
<1>8. CASE sema_down_wait(t)
  <2>1. at[t] = "test" /\ value[lk[t]] = 0
    BY <1>8 DEF sema_down_wait
  <2>2. PICK u \in Threads : lk[u] = lk[t] /\ at[u] \in Holding
    BY <1>4, <2>1 DEF Accounted
  <2> QED
    BY <1>2, <1>5, <2>1, <2>2 DEF Holding
<1>9. CASE sema_down_take(t)
  <2>1. at[t] = "test" /\ value[lk[t]] = 1 /\ UNCHANGED status /\ at' = [at EXCEPT ![t] = "got"]
    BY <1>4, <1>9, TakeKeeps
  <2>2. UNCHANGED <<current_task, frame, pc>> /\ intr' = saved[t]
    BY <1>9, <2>1 DEF sema_down_take, sched
  <2>3. ~saved[t]
    BY <1>2, <2>1 DEF IdeInv, BootRight
  <2>4. ~intr'
    BY <2>2, <2>3, Zenon
  <2> QED
    BY <1>2, <1>3, <1>4, <2>1, <2>2, <2>4
<1>10. CASE lock_acquire_hold(t) \/ lock_acquire_count(t) \/ lock_release(t) \/ lock_release_count(t)
  <2>1. UNCHANGED vars /\ at'[t] # "test"
    <3>1. CASE lock_acquire_hold(t)
      BY <1>4, <3>1, HoldKeeps
    <3>2. CASE lock_acquire_count(t)
      BY <1>4, <3>2, CountKeeps
    <3>3. CASE lock_release(t)
      <4>1. UNCHANGED vars /\ at[t] = "in" /\ at' \in {at, [at EXCEPT ![t] = "rel"]}
        BY <1>4, <3>3, ReleaseKeeps
      <4> QED
        BY <1>4, <4>1
    <3>4. CASE lock_release_count(t)
      BY <1>4, <3>4, UncountKeeps
    <3> QED
      BY <1>10, <3>1, <3>2, <3>3, <3>4
  <2> QED
    BY <1>2, <1>3, <2>1 DEF vars
<1>11. CASE sema_up(t)
  <2>1. /\ UNCHANGED <<current_task, frame, intr, pc>> /\ at' = [at EXCEPT ![t] = "out"]
        /\ \/ UNCHANGED status
           \/ \E w \in Threads \ {Idle, t} : at[w] = "test"
    BY <1>4, <1>11, UpKeeps
  <2> QED
    BY <1>2, <1>3, <1>4, <1>5, <2>1
<1> QED
  BY <1>6, <1>7, <1>8, <1>9, <1>10, <1>11 DEF LockStep, AcquireStep

(* ide_read() and ide_write() begin.                                        *)
LEMMA RequestKeeps ==
  ASSUME IdeInv, NEW t \in Threads \ {Idle},
         NEW r \in Requests \union Scans, ide_request(t, r)
  PROVE  IdeInv'
<1>1. /\ r.kind \in {"read", "write"} /\ r.disk \in {0, 1} /\ r.lba \in Nat /\ r.cnt \in Nat
      /\ boot => t = Main /\ r.kind = "read" /\ r.cnt = 1
  <2>1. ASSUME r \in Scans
        PROVE  r.kind = "read" /\ r.disk \in {0, 1} /\ r.lba \in Nat /\ r.cnt = 1
    <3>1. PICK d \in Disks, lba \in Tables : r = ScanRead(d, lba)
      BY <2>1 DEF Scans
    <3> QED
      BY <3>1, DisksAssumption DEF ScanRead
  <2>2. r \in Requests => /\ r.kind \in {"read", "write"} /\ r.disk \in {0, 1}
                          /\ r.lba \in Nat /\ r.cnt \in Nat
    BY RequestsAssumption, DisksAssumption
  <2>3. boot => t = Main /\ r \in Scans
    BY DEF ide_request
  <2> QED
    BY <2>1, <2>2, <2>3
<1> DEFINE c == Enter(r, "lock")
<1>2. /\ c \in CallType /\ c.step = "lock" /\ c.kind = r.kind /\ c.cnt = r.cnt
  BY <1>1 DEF Enter, NoCall, CallType, Steps
<1> HIDE DEF c
<1>3. /\ call \in [Threads -> CallType] /\ channel \in Locks
      /\ at \in [Threads -> LockPc] /\ SyncInv
  BY ChannelAssumption DEF IdeInv, Types, SyncInv, SyncTypeOK
<1>4. /\ lock_acquire(t, channel) /\ at[t] = "out" /\ call[t].step = "out"
      /\ call' = [call EXCEPT ![t] = c] /\ UNCHANGED <<chan, hardware, boot>>
  BY DEF ide_request, In, c
<1>5. at' = [at EXCEPT ![t] = "down"]
  BY <1>3, <1>4 DEF lock_acquire, SyncInv, HolderRight
<1>6. call'[t] = c /\ at'[t] = "down" /\ \A u \in Threads \ {t} : call'[u] = call[u]
  BY <1>3, <1>4, <1>5
<1>7. CallPhase(t)' /\ ~Active(t)'
  BY <1>1, <1>2, <1>4, <1>6 DEF CallPhase, Active
<1>8. BootRight'
  <2> SUFFICES ASSUME boot PROVE BootRight'
    BY <1>4 DEF BootRight
  <2>1. /\ t = Main /\ UNCHANGED <<status, pc>>
        /\ current_task' = Main /\ frame'[Main] = "none" /\ ~intr'
        /\ at'[Main] = "test" => ~saved'[Main]
    BY <1>3, <1>4, BootLockStep
  <2>2. UNCHANGED <<disk_ok, drive, irq>>
    BY <1>4 DEF chan, hardware
  <2> QED
    BY <1>1, <1>2, <1>4, <1>6, <2>1, <2>2 DEF IdeInv, BootRight, Commanding
<1>9. call' \in [Threads -> CallType] /\ ~Active(t)
  BY <1>2, <1>3, <1>4 DEF Active
<1> QED
  BY <1>3, <1>4, <1>6, <1>7, <1>8, <1>9, LockCallKeeps

(* lock_acquire() goes on.                                                  *)
LEMMA DriverAcquireKeeps ==
  ASSUME IdeInv, NEW t \in Threads \ {Idle}, ide_acquire(t)
  PROVE  IdeInv'
<1>1. AcquireStep(t) /\ call[t].step = "lock" /\ UNCHANGED <<chan, hardware, call, boot>>
  BY DEF ide_acquire
<1>2. SyncInv /\ at \in [Threads -> LockPc] /\ nest \in [Threads -> 0..MaxRepeat] /\ CallPhase(t)
  BY DEF IdeInv, SyncInv, SyncTypeOK
<1>3. at'[t] \in {"test", "got", "own", "in"} /\ (at'[t] = "in" => nest'[t] = 1)
  <2>1. CASE sema_down_enter(t)
    BY <1>2, <2>1 DEF sema_down_enter, Goes
  <2>2. CASE sema_down_wait(t)
    BY <1>2, <2>2, WaitKeeps
  <2>3. CASE sema_down_take(t)
    BY <1>2, <2>3, TakeKeeps
  <2>4. CASE lock_acquire_hold(t)
    BY <1>2, <2>4, HoldKeeps
  <2>5. CASE lock_acquire_count(t)
    BY <1>2, <2>5, CountKeeps
  <2> QED
    BY <1>1, <2>1, <2>2, <2>3, <2>4, <2>5 DEF AcquireStep
<1>4. CallPhase(t)' /\ ~Active(t)' /\ ~Active(t)
  BY <1>1, <1>2, <1>3 DEF CallPhase, Active
<1>5. LockStep(t)
  BY <1>1 DEF LockStep
<1>6. BootRight'
  <2> SUFFICES ASSUME boot PROVE BootRight'
    BY <1>1 DEF BootRight
  <2>1. /\ t = Main /\ UNCHANGED <<status, pc>>
        /\ current_task' = Main /\ frame'[Main] = "none" /\ ~intr'
        /\ at'[Main] = "test" => ~saved'[Main]
    BY <1>5, BootLockStep
  <2>2. UNCHANGED <<disk_ok, drive, irq>>
    BY <1>1 DEF chan, hardware
  <2> QED
    BY <1>1, <2>1, <2>2 DEF IdeInv, BootRight, Commanding
<1>7. call' \in [Threads -> CallType]
  BY <1>1 DEF IdeInv, Types
<1> QED
  BY <1>1, <1>4, <1>5, <1>6, <1>7, LockCallKeeps

(* lock_release() is called ...                                             *)
LEMMA DriverReleaseKeeps ==
  ASSUME IdeInv, NEW t \in Threads \ {Idle}, ide_release(t)
  PROVE  IdeInv'
<1>1. /\ lock_release(t) /\ call[t].step = "select" /\ call[t].kind # "identify"
      /\ call' = [call EXCEPT ![t].step = "unlock"] /\ UNCHANGED <<chan, hardware, boot>>
  BY DEF ide_release, Complete, In, Goto
<1>2. /\ SyncInv /\ at \in [Threads -> LockPc] /\ nest \in [Threads -> 0..MaxRepeat]
      /\ call \in [Threads -> CallType] /\ CallPhase(t) /\ DriveRight(t)
  BY DEF IdeInv, SyncInv, SyncTypeOK, Types
<1>3. at'[t] = "rel"
  <2>1. /\ at[t] = "in"
        /\ (nest[t] > 1 /\ UNCHANGED at) \/ (nest[t] = 1 /\ at' = [at EXCEPT ![t] = "rel"])
    BY <1>1, <1>2, ReleaseKeeps
  <2>2. nest[t] = 1
    BY <1>2, <2>1 DEF CallPhase
  <2> QED
    BY <1>2, <2>1, <2>2
<1>4. /\ call' \in [Threads -> CallType] /\ call'[t].step = "unlock"
      /\ call'[t].kind = call[t].kind /\ call'[t].cnt = call[t].cnt
      /\ \A u \in Threads \ {t} : call'[u] = call[u]
  BY <1>1, <1>2 DEF CallType, Steps
<1>5. CallPhase(t)' /\ ~Active(t)'
  BY <1>1, <1>2, <1>3, <1>4 DEF CallPhase, Active
<1>6. LockStep(t)
  BY <1>1 DEF LockStep
<1>7. BootRight'
  <2> SUFFICES ASSUME boot PROVE BootRight'
    BY <1>1 DEF BootRight
  <2>1. /\ t = Main /\ UNCHANGED <<status, pc>>
        /\ current_task' = Main /\ frame'[Main] = "none" /\ ~intr'
        /\ at'[Main] = "test" => ~saved'[Main]
    BY <1>6, BootLockStep
  <2>2. UNCHANGED <<disk_ok, drive, irq>>
    BY <1>1 DEF chan, hardware
  <2> QED
    BY <1>1, <1>4, <2>1, <2>2 DEF IdeInv, BootRight, Commanding
<1> QED
  BY <1>1, <1>4, <1>5, <1>6, <1>7, LockCallKeeps

(* ... and completes.                                                       *)
LEMMA DriverUnlockKeeps ==
  ASSUME IdeInv, NEW t \in Threads \ {Idle}, ide_unlock(t)
  PROVE  IdeInv'
<1>1. /\ call[t].step = "unlock" /\ UNCHANGED <<chan, hardware, boot>>
      /\ \/ lock_release_count(t) /\ UNCHANGED call
         \/ sema_up(t) /\ call' = [call EXCEPT ![t] = NoCall]
  BY DEF ide_unlock
<1>2. /\ SyncInv /\ at \in [Threads -> LockPc] /\ nest \in [Threads -> 0..MaxRepeat]
      /\ call \in [Threads -> CallType] /\ CallPhase(t)
  BY DEF IdeInv, SyncInv, SyncTypeOK, Types
<1>3. NoCall \in CallType /\ NoCall.step = "out" /\ NoCall.kind = "read"
  BY DEF NoCall, CallType, Steps
<1>4. /\ call' \in [Threads -> CallType] /\ \A u \in Threads \ {t} : call'[u] = call[u]
      /\ \/ at'[t] = "up" /\ call'[t] = call[t]
         \/ at'[t] = "out" /\ call'[t] = NoCall
  <2>1. CASE lock_release_count(t) /\ UNCHANGED call
    BY <1>2, <2>1, UncountKeeps
  <2>2. CASE sema_up(t) /\ call' = [call EXCEPT ![t] = NoCall]
    BY <1>2, <1>3, <2>2 DEF sema_up, Goes
  <2> QED
    BY <1>1, <2>1, <2>2
<1>5. CallPhase(t)' /\ ~Active(t)' /\ ~Active(t)
  BY <1>1, <1>2, <1>3, <1>4 DEF CallPhase, Active
<1>6. LockStep(t)
  BY <1>1 DEF LockStep
<1>7. BootRight'
  <2> SUFFICES ASSUME boot PROVE BootRight'
    BY <1>1 DEF BootRight
  <2>1. /\ t = Main /\ UNCHANGED <<status, pc>>
        /\ current_task' = Main /\ frame'[Main] = "none" /\ ~intr'
        /\ at'[Main] = "test" => ~saved'[Main]
    BY <1>6, BootLockStep
  <2>2. UNCHANGED <<disk_ok, drive, irq>>
    BY <1>1 DEF chan, hardware
  <2> QED
    BY <1>1, <1>3, <1>4, <2>1, <2>2 DEF IdeInv, BootRight, Commanding
<1> QED
  BY <1>1, <1>4, <1>5, <1>6, <1>7, LockCallKeeps

-----------------------------------------------------------------------------
(* The user of the drive takes a step that changes nothing of Sync.         *)
LEMMA QuietKeeps ==
  ASSUME IdeInv, NEW t \in Threads \ {Idle}, MayUse(t), At(t, "run"),
         UNCHANGED <<syncVars, ok_waiters, boot>>,
         call' \in [Threads -> CallType], \A u \in Threads \ {t} : call'[u] = call[u],
         drive' \in DriveType, regs' \in RegsType, wait_intr' \in BOOLEAN, irq' \in BOOLEAN, UNCHANGED disk_ok,
         CallPhase(t)', DriveRight(t)', AddressRight(t)', DriveQuiet',
         boot /\ t = Main =>
           /\ call'[Main].step = "test" => ~call'[Main].intr
           /\ call'[Main].step # "out" => call'[Main].kind # "write" /\ call'[Main].cnt = 1
           /\ call'[Main].step \in {"command", "down", "test", "poll", "move"}
                => call'[Main].once = 1
           /\ call'[Main].step \in {"down", "test", "poll", "move"} => drive'.left = 1
           /\ call'[Main].step \notin {"down", "test", "poll", "move"} => drive'.st = "idle"
           /\ call'[Main].step \notin {"down", "test"} => ~irq'
           /\ irq' \/ disk_ok = 1 => drive'.st \in {"ready", "failed"}
           /\ ~(irq' /\ disk_ok = 1)
           /\ call'[Main].step = "poll" => drive'.st \in {"ready", "failed"}
           /\ call'[Main].step \in {"down", "test", "poll"} => call'[Main].polls > 0
  PROVE  IdeInv'
<1>1. UNCHANGED <<vars, locks, status, current_task, frame, intr, pc, at, saved>>
  BY DEF syncVars, locks, vars
<1>2. [Next]_vars /\ pc'[Idle] # "run"
  BY <1>1 DEF IdeInv
<1>3. ok_waiters = <<>> /\ OkWaiters'
  BY NobodyWaits DEF OkWaiters
<1>4. Types'
  <2>1. wait_intr' \in BOOLEAN /\ irq' \in BOOLEAN /\ boot' \in BOOLEAN
    BY Zenon DEF IdeInv, Types
  <2> QED
    BY <2>1 DEF IdeInv, Types
<1>5. BootRight'
  <2> SUFFICES ASSUME boot PROVE BootRight'
    BY DEF BootRight
  <2>1. t = Main /\ current_task = Main /\ pc[Main] = "run" /\ frame[Main] = "none"
    BY BootIsMain DEF At
  <2>2. ~intr
    BY <2>1 DEF IdeInv, BootRight
  <2> QED
    BY <1>1, <2>1, <2>2 DEF IdeInv, BootRight, Commanding
<1> QED
  BY <1>1, <1>2, <1>3, <1>4, <1>5, UserKeeps

(* What is known when a thread comes to use the drive, ...                  *)
LEMMA NewUser ==
  ASSUME IdeInv, NEW t \in Threads, MayUse(t), ~Active(t)
  PROVE  drive.st # "recalibrate" /\ ~wait_intr /\ disk_ok = 0
BY OneUser DEF IdeInv, DriveQuiet

(* disk_select_hd().                                                        *)
LEMMA SelectKeeps ==
  ASSUME IdeInv, NEW t \in Threads \ {Idle}, disk_select_hd(t)
  PROVE  IdeInv'
<1>1. /\ At(t, "run") /\ call[t].step = "lock" /\ at[t] = "in" /\ dev' = reg_device(call[t].disk)
      /\ call' = [call EXCEPT ![t].step = "select"]
      /\ UNCHANGED <<syncVars, wait_intr, disk_ok, ok_waiters, regs, drive, irq, boot>>
  BY DEF disk_select_hd, In, Goto, chan
<1>2. /\ call \in [Threads -> CallType] /\ drive \in DriveType /\ regs \in RegsType /\ CallPhase(t) /\ t \in Threads
  BY DEF IdeInv, Types
<1>3. MayUse(t) /\ ~Active(t)
  BY <1>1 DEF MayUse, Active
<1>4. drive.st # "recalibrate" /\ ~wait_intr /\ disk_ok = 0
  BY <1>3, NewUser
<1>5. /\ call' \in [Threads -> CallType] /\ \A u \in Threads \ {t} : call'[u] = call[u]
      /\ call'[t] = [call[t] EXCEPT !.step = "select"]
  BY <1>1, <1>2 DEF CallType, Steps
<1>6. call'[t].step = "select" /\ SameRequest(t)
  BY <1>2, <1>5 DEF CallType, SameRequest
<1>7. UNCHANGED <<at, nest>>
  BY <1>1 DEF syncVars, owner
<1>8. CallPhase(t)' /\ Active(t)'
  BY <1>1, <1>2, <1>6, <1>7 DEF CallPhase, Active, Steps, SameRequest
<1>9. DriveRight(t)' /\ AddressRight(t)'
  <2>1. DriveRight(t)'
    BY <1>1, <1>4, <1>6 DEF DriveRight, Reading, Commanding
  <2>2. AddressRight(t)'
    BY <1>1, <1>6 DEF AddressRight, Reading, SameRequest
  <2> QED
    BY <2>1, <2>2
<1>10. DriveQuiet'
  BY <1>2, <1>8 DEF DriveQuiet
<1>11. wait_intr' \in BOOLEAN /\ irq' \in BOOLEAN
  BY <1>1, Zenon DEF IdeInv, Types
<1>12. boot /\ t = Main => call[t].kind # "write" /\ call[t].cnt = 1 /\ ~irq /\ drive.st = "idle"
  BY <1>1 DEF IdeInv, BootRight
<1> QED
  BY <1>1, <1>2, <1>3, <1>4, <1>5, <1>6, <1>8, <1>9, <1>10, <1>11, <1>12, QuietKeeps DEF SameRequest

(* disk_identify().                                                         *)
LEMMA IdentifyKeeps ==
  ASSUME IdeInv, NEW d \in Disks, disk_identify(d)
  PROVE  IdeInv'
<1> DEFINE c == Enter([kind |-> "identify", disk |-> d, lba |-> 0, cnt |-> 1], "select")
<1>1. /\ At(Main, "run") /\ call[Main].step = "out" /\ boot /\ dev' = reg_device(d)
      /\ call' = [call EXCEPT ![Main] = c]
      /\ UNCHANGED <<syncVars, wait_intr, disk_ok, ok_waiters, regs, drive, irq, boot>>
  BY DEF disk_identify, In, chan
<1>2. /\ c \in CallType /\ c.step = "select" /\ c.kind = "identify" /\ c.cnt = 1 /\ c.disk = d
  BY DisksAssumption DEF Enter, NoCall, CallType, Steps
<1> HIDE DEF c
<1>3. /\ call \in [Threads -> CallType] /\ drive \in DriveType /\ regs \in RegsType /\ CallPhase(Main)
      /\ Main \in Threads \ {Idle}
  BY ThreadsAssumption DEF IdeInv, Types
<1>4. MayUse(Main) /\ ~Active(Main)
  BY <1>1 DEF MayUse, Active
<1>5. drive.st # "recalibrate" /\ ~wait_intr /\ disk_ok = 0
  BY <1>3, <1>4, NewUser
<1>6. call' \in [Threads -> CallType] /\ call'[Main] = c /\ \A u \in Threads \ {Main} : call'[u] = call[u]
  BY <1>1, <1>2, <1>3
<1>7. UNCHANGED <<at, nest>>
  BY <1>1 DEF syncVars, owner
<1>8. CallPhase(Main)' /\ Active(Main)'
  BY <1>1, <1>2, <1>3, <1>6, <1>7 DEF CallPhase, Active, Steps
<1>9. DriveRight(Main)' /\ AddressRight(Main)'
  <2>1. DriveRight(Main)'
    BY <1>1, <1>2, <1>5, <1>6 DEF DriveRight, Reading, Commanding
  <2>2. AddressRight(Main)'
    BY <1>1, <1>2, <1>6 DEF AddressRight, Reading
  <2> QED
    BY <2>1, <2>2
<1>10. DriveQuiet'
  BY <1>3, <1>8 DEF DriveQuiet
<1>11. wait_intr' \in BOOLEAN /\ irq' \in BOOLEAN
  BY <1>1, Zenon DEF IdeInv, Types
<1>12. ~irq /\ drive.st = "idle"
  BY <1>1 DEF IdeInv, BootRight
<1> QED
  BY <1>1, <1>2, <1>3, <1>4, <1>5, <1>6, <1>8, <1>9, <1>10, <1>11, <1>12, QuietKeeps

(* disk_select_sector().                                                    *)
LEMMA SectorKeeps ==
  ASSUME IdeInv, NEW t \in Threads \ {Idle}, disk_select_sector(t)
  PROVE  IdeInv'
<1> DEFINE n == sector_once(call[t])
           lba == call[t].lba + call[t].done
<1>1. /\ At(t, "run") /\ call[t].step = "select" /\ call[t].done < call[t].cnt
      /\ wait_intr' = TRUE /\ call' = [call EXCEPT ![t].once = n, ![t].step = "command"]
      /\ IF call[t].kind = "identify"
           THEN UNCHANGED <<regs, dev>>
           ELSE regs' = [cnt |-> uint8(n), low |-> lba % LOW] /\ dev' = dev \union HighBits(lba \div LOW)
      /\ UNCHANGED <<syncVars, disk_ok, ok_waiters, drive, irq, boot>>
  BY DEF disk_select_sector, In
<1>2. /\ call \in [Threads -> CallType] /\ drive \in DriveType /\ regs \in RegsType /\ t \in Threads
      /\ CallPhase(t) /\ DriveRight(t) /\ AddressRight(t)
  BY DEF IdeInv, Types
<1>3. n \in 1..CHUNK /\ (call[t].cnt = 1 => n = 1) /\ uint8(n) \in Nat
  <2>1. n \in 1..CHUNK /\ (call[t].cnt = 1 => n = 1)
    BY <1>1, <1>2, ChunkSize
  <2> QED
    BY <2>1, ByteIsCount
<1> HIDE DEF n
<1>4. Active(t) /\ MayUse(t)
  BY <1>1 DEF Active, MayUse, Steps
<1>5. regs' \in RegsType
  <2>1. lba \in Nat /\ lba % LOW \in Nat
    BY <1>2, ChunkAssumption DEF CallType
  <2> QED
    BY <1>1, <1>2, <1>3, <2>1 DEF RegsType
<1>6. /\ call' \in [Threads -> CallType] /\ \A u \in Threads \ {t} : call'[u] = call[u]
      /\ call'[t] = [call[t] EXCEPT !.once = n, !.step = "command"]
  BY <1>1, <1>2, <1>3, ChunkAssumption DEF CallType, Steps
<1>7. call'[t].step = "command" /\ call'[t].once = n /\ SameRequest(t)
  BY <1>2, <1>6 DEF CallType, SameRequest
<1>8. UNCHANGED <<at, nest>>
  BY <1>1 DEF syncVars, owner
<1>9. CallPhase(t)' /\ Active(t)'
  BY <1>1, <1>2, <1>4, <1>7, <1>8 DEF CallPhase, Active, Steps, SameRequest
<1>10. DriveRight(t)' /\ AddressRight(t)'
  <2>1. DriveRight(t)'
    BY <1>1, <1>2, <1>3, <1>4, <1>7 DEF DriveRight, Reading, Expected, Commanding, SameRequest
  <2>2. ASSUME call[t].kind = "identify" PROVE AddressRight(t)'
    BY <1>1, <1>2, <1>4, <1>7, <2>2, SameAddress DEF AddressRight, Reading, SameRequest
  <2>3. ASSUME call[t].kind # "identify" PROVE AddressRight(t)'
    <3>1. OneBlock(call[t]) => HighBits(lba \div LOW) = High(t)
      BY <1>1, <1>2 DEF OneBlock, High, CallType
    <3>2. OneBlock(call[t]) => dev' = reg_device(call[t].disk) \union High(t)
      BY <1>1, <1>2, <1>4, <2>3, <3>1 DEF AddressRight
    <3> QED
      BY <1>1, <1>2, <1>4, <1>7, <2>3, <3>2, SameAddress DEF AddressRight, Reading, SameRequest
  <2> QED
    BY <2>1, <2>2, <2>3
<1>11. DriveQuiet'
  BY <1>2, <1>9 DEF DriveQuiet
<1>12. wait_intr' \in BOOLEAN /\ irq' \in BOOLEAN
  BY <1>1, Zenon DEF IdeInv, Types
<1>13. boot /\ t = Main => call[t].kind # "write" /\ call[t].cnt = 1 /\ ~irq /\ drive.st = "idle"
  BY <1>1 DEF IdeInv, BootRight
<1>14. disk_ok = 0
  BY <1>1, <1>2 DEF DriveRight
<1> QED
  BY <1>1, <1>2, <1>3, <1>4, <1>5, <1>6, <1>7, <1>9, <1>10, <1>11, <1>12, <1>13, <1>14, QuietKeeps DEF SameRequest

(* The registers say what the request wants: in one block the bits from 24  *)
(* on were not mixed up, and they are not those that select the disk.       *)
LEMMA CommandAddress ==
  ASSUME NEW t \in Threads, call[t] \in CallType, call[t].step = "command", Active(t),
         call[t].done < call[t].cnt, AddressRight(t), OneBlock(call[t])
  PROVE  Addressed(call[t].kind) = Wanted(call[t])
<1>1. call[t].disk \in {0, 1}
  BY DEF CallType
<1>2. CASE call[t].kind = "identify"
  <2>1. dev = reg_device(call[t].disk)
    BY <1>2 DEF AddressRight
  <2> QED
    BY <1>1, <1>2, <2>1 DEF Addressed, Wanted, NoAddress, reg_device, DEV
<1>3. CASE call[t].kind # "identify"
  <2>1. /\ dev = reg_device(call[t].disk) \union High(t)
        /\ regs.low = (call[t].lba + call[t].done) % LOW
    BY <1>3 DEF AddressRight
  <2>2. High(t) \subseteq 0..3 /\ HighBits((call[t].lba + call[t].done) \div LOW) = High(t)
    BY DEF OneBlock, High, CallType
  <2>3. (DEV \in dev <=> call[t].disk = 1) /\ dev \intersect (0..3) = High(t)
    BY <1>1, <2>1, <2>2 DEF reg_device, DEV
  <2> QED
    BY <1>1, <1>3, <2>1, <2>2, <2>3 DEF Addressed, Wanted, Address
<1> QED
  BY <1>2, <1>3

(* The command goes to the drive.                                           *)
LEMMA CommandKeeps ==
  ASSUME IdeInv, NEW t \in Threads \ {Idle}, channel_control_cmd(t)
  PROVE  IdeInv'
<1>1. /\ At(t, "run") /\ call[t].step = "command"
      /\ drive' = [st |-> CMD(call[t].kind), at |-> Addressed(call[t].kind),
                   left |-> Count(call[t].kind)]
      /\ regs' = NoRegs
      /\ call' = [call EXCEPT ![t].polls = MAX_POLLS, ![t].step = after_cmd(call[t].kind)]
      /\ UNCHANGED <<syncVars, wait_intr, disk_ok, ok_waiters, dev, irq, boot>>
  BY DEF channel_control_cmd, In, chan
<1>2. /\ call \in [Threads -> CallType] /\ drive \in DriveType /\ regs \in RegsType /\ t \in Threads
      /\ CallPhase(t) /\ DriveRight(t) /\ AddressRight(t) /\ MAX_POLLS \in Nat /\ MAX_POLLS > 0
  BY ChunkAssumption DEF IdeInv, Types
<1>3. Active(t) /\ MayUse(t)
  BY <1>1 DEF Active, MayUse, Steps
<1>4. call[t].once \in 1..CHUNK /\ call[t].done < call[t].cnt /\ Expected
  BY <1>1, <1>2, <1>3 DEF DriveRight, Commanding
<1>5. /\ call' \in [Threads -> CallType] /\ \A u \in Threads \ {t} : call'[u] = call[u]
      /\ call'[t] = [call[t] EXCEPT !.polls = MAX_POLLS, !.step = after_cmd(call[t].kind)]
  BY <1>1, <1>2 DEF CallType, Steps, after_cmd
<1>6. /\ call'[t].step = after_cmd(call[t].kind) /\ SameRequest(t)
      /\ call'[t].once = call[t].once /\ call'[t].polls = MAX_POLLS
  BY <1>2, <1>5 DEF CallType, SameRequest
<1>7. Count(call[t].kind) = IF call[t].kind = "identify" THEN 1 ELSE call[t].once
  <2>1. call[t].kind # "identify" => regs.cnt = uint8(call[t].once)
    BY <1>1, <1>2 DEF AddressRight
  <2> QED
    BY <1>4, <2>1, ByteIsCount DEF Count
<1>8. Addressed(call[t].kind) \in AddressType
  BY <1>2 DEF Addressed, AddressType, RegsType
<1>9. /\ drive' \in DriveType /\ drive'.st = CMD(call[t].kind)
      /\ drive'.at = Addressed(call[t].kind)
      /\ drive'.left = IF call[t].kind = "identify" THEN 1 ELSE call[t].once
  BY <1>1, <1>2, <1>4, <1>7, <1>8 DEF DriveType, CMD
<1>10. regs' \in RegsType
  BY <1>1 DEF NoRegs, RegsType
<1>11. call[t].kind = "identify" => call[t].once = 1
  BY <1>1, <1>2 DEF IdeInv, CallPhase, BootRight, Commanding
<1>12. UNCHANGED <<at, nest>>
  BY <1>1 DEF syncVars, owner
<1>13. CallPhase(t)' /\ Active(t)'
  BY <1>1, <1>2, <1>3, <1>6, <1>12 DEF CallPhase, Active, Steps, after_cmd, SameRequest
<1>14. DriveRight(t)' /\ AddressRight(t)'
  <2>1. Expected' /\ call[t].once \in Nat
    BY <1>1, <1>2, <1>4 DEF Expected, CallType
  <2>2. DriveRight(t)'
    BY <1>1, <1>2, <1>4, <1>6, <1>9, <1>11, <2>1
       DEF DriveRight, Reading, Commanding, Active, Steps, after_cmd, CMD, SameRequest
  <2>3. OneBlock(call[t]) => Addressed(call[t].kind) = Wanted(call[t])
    BY <1>1, <1>2, <1>3, <1>4, CommandAddress
  <2>4. AddressRight(t)'
    BY <1>1, <1>2, <1>3, <1>6, <1>9, <2>3, SameAddress
       DEF AddressRight, Reading, SameRequest, after_cmd
  <2> QED
    BY <2>2, <2>4
<1>15. DriveQuiet'
  BY <1>2, <1>13 DEF DriveQuiet
<1>16. wait_intr' \in BOOLEAN /\ irq' \in BOOLEAN
  BY <1>1, Zenon DEF IdeInv, Types
<1>17. boot /\ t = Main => /\ call[t].kind # "write" /\ call[t].cnt = 1 /\ call[t].once = 1
                          /\ ~irq /\ disk_ok # 1
  BY <1>1, <1>4 DEF IdeInv, BootRight, Commanding
<1>18. call[t].kind # "write" => call'[t].step = "down"
  BY <1>6 DEF after_cmd
<1> QED
  BY <1>1, <1>2, <1>3, <1>5, <1>6, <1>9, <1>10, <1>13, <1>14, <1>15, <1>16, <1>17, <1>18, QuietKeeps DEF SameRequest

(* busy_wait() sees data.                                                   *)
LEMMA ReadyKeeps ==
  ASSUME IdeInv, NEW t \in Threads \ {Idle}, disk_ready(t)
  PROVE  IdeInv'
<1>1. /\ At(t, "run") /\ call[t].step = "poll" /\ drive.st = "ready" /\ irq' \in {irq, FALSE}
      /\ call' = [call EXCEPT ![t].polls = 0, ![t].left = sectors(uint8(call[t].once)),
                              ![t].step = "move"]
      /\ UNCHANGED <<syncVars, wait_intr, disk_ok, ok_waiters, dev, regs, drive, boot>>
  BY DEF disk_ready, In, chan, read_status
<1>2. /\ call \in [Threads -> CallType] /\ drive \in DriveType /\ regs \in RegsType /\ t \in Threads
      /\ CallPhase(t) /\ DriveRight(t) /\ AddressRight(t)
  BY DEF IdeInv, Types
<1>3. Active(t) /\ MayUse(t)
  BY <1>1 DEF Active, MayUse, Steps
<1>4. call[t].once \in 1..CHUNK /\ sectors(uint8(call[t].once)) = call[t].once
  BY <1>1, <1>2, ByteIsCount DEF DriveRight, Commanding
<1>5. /\ call' \in [Threads -> CallType] /\ \A u \in Threads \ {t} : call'[u] = call[u]
      /\ call'[t] = [call[t] EXCEPT !.polls = 0, !.left = call[t].once, !.step = "move"]
  BY <1>1, <1>2, <1>4 DEF CallType, Steps
<1>6. /\ call'[t].step = "move" /\ call'[t].once = call[t].once /\ call'[t].left = call[t].once
      /\ SameRequest(t)
  BY <1>2, <1>5 DEF CallType, SameRequest
<1>7. UNCHANGED <<at, nest>>
  BY <1>1 DEF syncVars, owner
<1>8. CallPhase(t)' /\ Active(t)'
  BY <1>1, <1>2, <1>3, <1>6, <1>7 DEF CallPhase, Active, Steps, SameRequest
<1>9. call[t].kind # "write"
  BY <1>1, <1>2 DEF DriveRight
<1>10. DriveRight(t)' /\ AddressRight(t)'
  <2>1. DriveRight(t)'
    BY <1>1, <1>2, <1>3, <1>4, <1>6, <1>9 DEF DriveRight, Reading, Commanding, SameRequest
  <2>2. AddressRight(t)'
    BY <1>1, <1>2, <1>3, <1>6, <1>9, AddressKeeps DEF Reading
  <2> QED
    BY <2>1, <2>2
<1>11. DriveQuiet'
  BY <1>2, <1>8 DEF DriveQuiet
<1>12. wait_intr' \in BOOLEAN /\ irq' \in BOOLEAN
  BY <1>1, Zenon DEF IdeInv, Types
<1>13. boot /\ t = Main => call[t].cnt = 1 /\ call[t].once = 1 /\ ~irq /\ ~irq' /\ drive.left = 1
  <2>1. boot /\ t = Main => call[t].cnt = 1 /\ call[t].once = 1 /\ ~irq /\ drive.left = 1
    BY <1>1 DEF IdeInv, BootRight, Commanding
  <2>2. ~irq => ~irq'
    BY <1>1, Zenon
  <2> QED
    BY <2>1, <2>2
<1> QED
  BY <1>1, <1>2, <1>3, <1>5, <1>6, <1>8, <1>9, <1>10, <1>11, <1>12, <1>13, QuietKeeps DEF SameRequest

(* disk_identify() is done.                                                 *)
LEMMA IdentifiedKeeps ==
  ASSUME IdeInv, NEW t \in Threads \ {Idle}, identified(t)
  PROVE  IdeInv'
<1>1. /\ At(t, "run") /\ call[t].step = "select" /\ call[t].kind = "identify"
      /\ call' = [call EXCEPT ![t] = NoCall]
      /\ UNCHANGED <<syncVars, wait_intr, disk_ok, ok_waiters, dev, regs, drive, irq, boot>>
  BY DEF identified, Complete, In, chan, hardware
<1>2. /\ call \in [Threads -> CallType] /\ drive \in DriveType /\ regs \in RegsType /\ t \in Threads
      /\ CallPhase(t) /\ DriveRight(t)
  BY DEF IdeInv, Types
<1>3. NoCall \in CallType /\ NoCall.step = "out" /\ NoCall.kind = "read"
  BY DEF NoCall, CallType, Steps
<1>4. Active(t) /\ MayUse(t)
  BY <1>1 DEF Active, MayUse, Steps
<1>5. /\ call' \in [Threads -> CallType] /\ \A u \in Threads \ {t} : call'[u] = call[u]
      /\ call'[t] = NoCall
  BY <1>1, <1>2, <1>3
<1>6. UNCHANGED <<at, nest>>
  BY <1>1 DEF syncVars, owner
<1>7. CallPhase(t)'
  BY <1>1, <1>2, <1>3, <1>4, <1>5, <1>6 DEF CallPhase, Active
<1>8. DriveRight(t)' /\ AddressRight(t)'
  BY <1>2, <1>3, <1>5, InactiveRight DEF Active
<1>9. drive.st # "recalibrate" /\ ~wait_intr /\ disk_ok = 0
  BY <1>1, <1>2, <1>4 DEF DriveRight
<1>10. DriveQuiet'
  BY <1>1, <1>9 DEF DriveQuiet
<1>11. wait_intr' \in BOOLEAN /\ irq' \in BOOLEAN
  BY <1>1, Zenon DEF IdeInv, Types
<1>12. boot /\ t = Main => ~irq /\ drive.st = "idle"
  BY <1>1 DEF IdeInv, BootRight
<1> QED
  BY <1>1, <1>2, <1>3, <1>4, <1>5, <1>7, <1>8, <1>9, <1>10, <1>11, <1>12, QuietKeeps

(* A sector is taken: what becomes of the drive.                            *)
LEMMA TakenSector ==
  ASSUME drive \in DriveType, drive.left > 0, irq \in BOOLEAN, sector_taken
  PROVE  /\ drive' \in DriveType /\ irq' \in BOOLEAN
         /\ \/ drive.st # "ready" /\ UNCHANGED <<drive, irq>>
            \/ drive.st = "ready" /\ drive.left = 1 /\ drive' = Idling /\ UNCHANGED irq
            \/ /\ drive.st = "ready" /\ drive.left > 1 /\ drive'.left = drive.left - 1
               /\ drive'.at = drive.at /\ drive'.st \in {"ready", "busy"}
               /\ ~Gaps => drive'.st = "ready"
<1>1. Idling \in DriveType
  BY DEF Idling, DriveType, NoAddress, AddressType
<1>2. CASE drive.st # "ready"
  BY <1>2 DEF sector_taken
<1>3. CASE drive.st = "ready" /\ drive.left <= 1
  BY <1>1, <1>3 DEF sector_taken, DriveType
<1>4. CASE drive.st = "ready" /\ drive.left > 1
  <2>1. PICK st \in {"ready"} \union (IF Gaps THEN {"busy"} ELSE {}) :
          drive' = [drive EXCEPT !.left = @ - 1, !.st = st] /\ irq' = (irq \/ st = "ready")
    <3>1. ~(drive.left <= 1) /\ drive.st = "ready"
      BY <1>4 DEF DriveType
    <3> QED
      BY <3>1, Zenon DEF sector_taken
  <2>2. irq' \in BOOLEAN
    BY <2>1, Zenon
  <2>3. st \in {"ready", "busy"} /\ (~Gaps => st = "ready")
    BY <2>1
  <2>4. /\ drive' \in DriveType /\ drive'.left = drive.left - 1
        /\ drive'.at = drive.at /\ drive'.st = st
    <3> DEFINE m == drive.left - 1
    <3>1. m \in Nat /\ drive' = [drive EXCEPT !.left = m, !.st = st]
      BY <1>4, <2>1 DEF DriveType
    <3> HIDE DEF m
    <3>2. drive' \in DriveType /\ drive'.left = m /\ drive'.at = drive.at /\ drive'.st = st
      BY <2>3, <3>1 DEF DriveType
    <3> QED
      BY <3>2 DEF m
  <2> QED
    BY <1>4, <2>2, <2>3, <2>4
<1> QED
  BY <1>2, <1>3, <1>4 DEF DriveType

(* ... and of the reader: the chunk goes on, or it is done.                 *)
LEMMA MoveKeeps ==
  ASSUME IdeInv, NEW t \in Threads \ {Idle}, disk_sector_to_buf(t)
  PROVE  IdeInv'
<1>1. /\ At(t, "run") /\ call[t].step = "move" /\ sector_taken
      /\ UNCHANGED <<syncVars, wait_intr, disk_ok, ok_waiters, dev, regs, boot>>
  BY DEF disk_sector_to_buf, In, chan
<1>2. /\ call \in [Threads -> CallType] /\ drive \in DriveType /\ regs \in RegsType
      /\ t \in Threads /\ CallPhase(t) /\ DriveRight(t) /\ AddressRight(t)
      /\ irq \in BOOLEAN /\ wait_intr \in BOOLEAN
  BY DEF IdeInv, Types
<1>3. Active(t) /\ MayUse(t)
  BY <1>1 DEF Active, MayUse, Steps
<1>4. /\ ~wait_intr /\ disk_ok = 0 /\ call[t].kind # "write" /\ drive.st \in {"busy", "ready", "failed"}
      /\ call[t].left \in 1..call[t].once /\ drive.left >= call[t].left
      /\ call[t].left = call[t].once \/ ~Gaps => drive.st = "ready" /\ drive.left = call[t].left
      /\ call[t].once \in 1..CHUNK /\ call[t].done < call[t].cnt /\ drive.left \in Nat
      /\ call[t].left \in Nat /\ call[t].once \in Nat /\ call[t].done \in Nat
  BY <1>1, <1>2, <1>3 DEF DriveRight, Reading, Commanding, CallType, DriveType
<1>5. boot /\ t = Main => call[t].cnt = 1 /\ call[t].once = 1 /\ ~irq /\ drive.left = 1
  BY <1>1 DEF IdeInv, BootRight, Commanding
<1>6. UNCHANGED <<at, nest>>
  BY <1>1 DEF syncVars, owner
<1>7. wait_intr' \in BOOLEAN
  BY <1>1, <1>2, Zenon
<1>8. /\ drive' \in DriveType /\ irq' \in BOOLEAN
      /\ \/ drive.st # "ready" /\ UNCHANGED <<drive, irq>>
         \/ drive.st = "ready" /\ drive.left = 1 /\ drive' = Idling /\ UNCHANGED irq
         \/ /\ drive.st = "ready" /\ drive.left > 1 /\ drive'.left = drive.left - 1
            /\ drive'.at = drive.at /\ drive'.st \in {"ready", "busy"}
            /\ ~Gaps => drive'.st = "ready"
  BY <1>1, <1>2, <1>4, TakenSector
<1>9. Idling.st = "idle"
  BY DEF Idling
<1>10. CASE call[t].left > 1
  <2>1. call' = [call EXCEPT ![t].left = @ - 1]
    BY <1>10 DEF disk_sector_to_buf
  <2>2. /\ call' \in [Threads -> CallType] /\ \A u \in Threads \ {t} : call'[u] = call[u]
        /\ call'[t].step = "move" /\ call'[t].once = call[t].once
        /\ call'[t].left = call[t].left - 1 /\ SameRequest(t)
    <3> DEFINE n == call[t].left - 1
               c == [call[t] EXCEPT !.left = n]
    <3>1. n \in Nat /\ call[t] \in CallType
      BY <1>2, <1>4, <1>10
    <3>2. call' = [call EXCEPT ![t] = c]
      BY <1>2, <2>1
    <3> HIDE DEF n
    <3>3. /\ c \in CallType /\ c.step = "move" /\ c.once = call[t].once /\ c.left = n
          /\ c.kind = call[t].kind /\ c.disk = call[t].disk /\ c.lba = call[t].lba
          /\ c.cnt = call[t].cnt /\ c.done = call[t].done
      BY <1>1, <3>1 DEF CallType
    <3> HIDE DEF c
    <3>4. call'[t] = c /\ call' \in [Threads -> CallType] /\ \A u \in Threads \ {t} : call'[u] = call[u]
      BY <1>2, <3>2, <3>3
    <3> QED
      BY <3>3, <3>4 DEF n, SameRequest
  <2>3. CallPhase(t)' /\ Active(t)'
    BY <1>1, <1>2, <1>3, <1>6, <2>2 DEF CallPhase, Active, Steps, SameRequest
  <2>4. /\ drive'.st \in {"busy", "ready", "failed"} /\ drive'.at = drive.at
        /\ drive'.left \in Nat /\ drive'.left >= call'[t].left
        /\ ~Gaps => drive'.st = "ready" /\ drive'.left = call'[t].left
    BY <1>4, <1>8, <1>10, <2>2
  <2>5. DriveRight(t)'
    BY <1>1, <1>4, <1>10, <2>2, <2>4 DEF DriveRight, Reading, Commanding, Active, SameRequest
  <2>6. AddressRight(t)'
    BY <1>1, <1>2, <1>3, <2>2, <2>4, AddressKeeps DEF Reading
  <2>7. DriveQuiet'
    BY <1>2, <2>3 DEF DriveQuiet
  <2>8. ~(boot /\ t = Main)
    BY <1>4, <1>5, <1>10
  <2> QED
    BY <1>1, <1>2, <1>3, <1>7, <1>8, <2>2, <2>3, <2>5, <2>6, <2>7, <2>8, QuietKeeps
<1>11. CASE ~(call[t].left > 1)
  <2>1. call' = [call EXCEPT ![t].done = @ + call[t].once, ![t].once = 0, ![t].left = 0,
                             ![t].step = "select"]
    BY <1>11 DEF disk_sector_to_buf
  <2>2. /\ call' \in [Threads -> CallType] /\ \A u \in Threads \ {t} : call'[u] = call[u]
        /\ call'[t].step = "select" /\ call'[t].kind = call[t].kind /\ call'[t].disk = call[t].disk
        /\ call'[t].lba = call[t].lba /\ call'[t].cnt = call[t].cnt
    <3> DEFINE n == call[t].done + call[t].once
               c == [call[t] EXCEPT !.done = n, !.once = 0, !.left = 0, !.step = "select"]
    <3>1. n \in Nat /\ call[t] \in CallType
      BY <1>2, <1>4
    <3>2. call' = [call EXCEPT ![t] = c]
      BY <1>2, <2>1
    <3> HIDE DEF n
    <3>3. /\ c \in CallType /\ c.step = "select" /\ c.kind = call[t].kind
          /\ c.disk = call[t].disk /\ c.lba = call[t].lba /\ c.cnt = call[t].cnt
      BY <3>1 DEF CallType, Steps
    <3> HIDE DEF c
    <3> QED
      BY <1>2, <3>2, <3>3
  <2>3. CallPhase(t)' /\ Active(t)'
    BY <1>1, <1>2, <1>3, <1>6, <2>2 DEF CallPhase, Active, Steps
  <2>4. drive'.st # "recalibrate"
    BY <1>4, <1>8, <1>9
  <2>5. DriveRight(t)'
    BY <1>1, <1>4, <2>2, <2>4 DEF DriveRight, Reading, Commanding
  <2>6. AddressRight(t)'
    <3>1. OneBlock(call[t])' <=> OneBlock(call[t])
      BY <2>2 DEF OneBlock
    <3>2. High(t)' = High(t)
      BY <2>2 DEF High
    <3> QED
      BY <1>1, <1>2, <1>3, <2>2, <3>1, <3>2 DEF AddressRight, Reading
  <2>7. DriveQuiet'
    BY <1>2, <2>3 DEF DriveQuiet
  <2>8. boot /\ t = Main => drive'.st = "idle" /\ ~irq'
    <3>1. boot /\ t = Main => drive.st = "ready" /\ drive.left = 1 /\ ~irq
      BY <1>4, <1>5
    <3>2. boot /\ t = Main => drive' = Idling /\ irq' = irq
      BY <1>8, <3>1
    <3>3. boot /\ t = Main => ~irq'
      BY <3>1, <3>2, Zenon
    <3> QED
      BY <1>9, <3>2, <3>3
  <2> QED
    BY <1>1, <1>2, <1>3, <1>4, <1>5, <1>7, <1>8, <2>2, <2>3, <2>5, <2>6, <2>7, <2>8, QuietKeeps
<1> QED
  BY <1>10, <1>11

-----------------------------------------------------------------------------
(* sema_down() of disk_ok disables interrupts, ...                          *)
LEMMA DownKeeps ==
  ASSUME IdeInv, NEW t \in Threads \ {Idle}, sema_down_ok(t)
  PROVE  IdeInv'
<1>1. /\ At(t, "run") /\ call[t].step = "down" /\ intr' = FALSE
      /\ call' = [call EXCEPT ![t].intr = intr, ![t].step = "test"]
      /\ UNCHANGED <<sched, pid, next_pid, old_status, pc, left, locks>>
      /\ UNCHANGED <<wait_intr, disk_ok, ok_waiters, dev, regs, drive, irq, boot>>
  BY DEF sema_down_ok, In, chan, hardware
<1>2. /\ call \in [Threads -> CallType] /\ drive \in DriveType /\ t \in Threads /\ Inv
      /\ CallPhase(t) /\ DriveRight(t) /\ AddressRight(t) /\ intr \in BOOLEAN
  BY DEF IdeInv, SyncInv, Inv, TypeOK, Types
<1>3. Active(t) /\ MayUse(t)
  BY <1>1 DEF Active, MayUse, Steps
<1>4. intr' \in BOOLEAN
  BY <1>1, Zenon
<1>5. [Next]_vars /\ UNCHANGED <<status, current_task, frame>>
  BY <1>1, <1>2, <1>4, SwitchKeeps DEF sched
<1>6. /\ call' \in [Threads -> CallType] /\ \A u \in Threads \ {t} : call'[u] = call[u]
      /\ call'[t].step = "test" /\ call'[t].once = call[t].once
      /\ call'[t].polls = call[t].polls /\ call'[t].intr = intr /\ SameRequest(t)
  <2> DEFINE c == [call[t] EXCEPT !.intr = intr, !.step = "test"]
  <2>1. call[t] \in CallType
    BY <1>2
  <2>2. call' = [call EXCEPT ![t] = c]
    BY <1>1, <1>2
  <2>3. /\ c \in CallType /\ c.step = "test" /\ c.kind = call[t].kind /\ c.once = call[t].once
        /\ c.polls = call[t].polls /\ c.intr = intr /\ c.cnt = call[t].cnt /\ c.disk = call[t].disk
        /\ c.lba = call[t].lba /\ c.done = call[t].done
    BY <1>2, <2>1 DEF CallType, Steps
  <2> HIDE DEF c
  <2> QED
    BY <1>2, <2>2, <2>3 DEF SameRequest
<1>7. UNCHANGED <<at, nest, saved>>
  BY <1>1 DEF locks, owner
<1>8. CallPhase(t)' /\ Active(t)'
  BY <1>1, <1>2, <1>3, <1>6, <1>7 DEF CallPhase, Active, Steps, SameRequest
<1>9. DriveRight(t)' /\ AddressRight(t)'
  <2>1. DriveRight(t)'
    BY <1>1, <1>2, <1>3, <1>6 DEF DriveRight, Reading, Expected, Commanding, SameRequest
  <2>2. AddressRight(t)'
    BY <1>1, <1>2, <1>3, <1>6, AddressKeeps DEF Reading
  <2> QED
    BY <2>1, <2>2
<1>10. DriveQuiet'
  BY <1>2, <1>8 DEF DriveQuiet
<1>11. OkWaiters'
  BY <1>1, <1>3, NobodyWaits DEF OkWaiters
<1>12. Types'
  BY <1>1, <1>6 DEF IdeInv, Types
<1>13. BootRight'
  <2> SUFFICES ASSUME boot PROVE BootRight'
    BY <1>1 DEF BootRight
  <2>1. t = Main /\ current_task = Main /\ pc[Main] = "run" /\ frame[Main] = "none"
    BY <1>1, BootIsMain DEF At
  <2>2. ~intr /\ ~intr' /\ ~call'[Main].intr
    <3>1. ~intr
      BY <2>1 DEF IdeInv, BootRight
    <3> QED
      BY <1>1, <1>6, <2>1, <3>1
  <2> QED
    BY <1>1, <1>5, <1>6, <1>7, <2>1, <2>2 DEF IdeInv, BootRight, Commanding, SameRequest
<1>14. pc'[Idle] # "run"
  BY <1>1 DEF IdeInv
<1> QED
  BY <1>1, <1>3, <1>5, <1>6, <1>8, <1>9, <1>10, <1>11, <1>12, <1>13, <1>14, UserKeeps

(* ... and takes disk_ok: the interrupt is used up.                         *)
LEMMA TakeOkKeeps ==
  ASSUME IdeInv, NEW t \in Threads \ {Idle}, sema_take_ok(t)
  PROVE  IdeInv'
<1>1. /\ At(t, "run") /\ call[t].step = "test" /\ intr' = call[t].intr
      /\ disk_ok # 0 /\ disk_ok' = disk_ok - 1
      /\ call' = [call EXCEPT ![t].intr = FALSE, ![t].step = "poll"]
      /\ UNCHANGED <<sched, pid, next_pid, old_status, pc, left, locks>>
      /\ UNCHANGED <<wait_intr, ok_waiters, dev, regs, drive, irq, boot>>
  BY DEF sema_take_ok, In, hardware
<1>2. /\ call \in [Threads -> CallType] /\ drive \in DriveType /\ t \in Threads /\ Inv
      /\ CallPhase(t) /\ DriveRight(t) /\ AddressRight(t) /\ disk_ok \in 0..1
  BY DEF IdeInv, SyncInv, Types
<1>3. Active(t) /\ MayUse(t)
  BY <1>1 DEF Active, MayUse, Steps
<1>4. intr' \in BOOLEAN
  <2>1. call[t] \in CallType
    BY <1>2
  <2>2. call[t].intr \in BOOLEAN
    BY <2>1 DEF CallType
  <2> QED
    BY <1>1, <2>2, Zenon
<1>5. [Next]_vars /\ UNCHANGED <<status, current_task, frame>>
  BY <1>1, <1>2, <1>4, SwitchKeeps DEF sched
<1>6. /\ call' \in [Threads -> CallType] /\ \A u \in Threads \ {t} : call'[u] = call[u]
      /\ call'[t].step = "poll" /\ call'[t].once = call[t].once
      /\ call'[t].polls = call[t].polls /\ SameRequest(t)
  <2> DEFINE c == [call[t] EXCEPT !.intr = FALSE, !.step = "poll"]
  <2>1. call[t] \in CallType
    BY <1>2
  <2>2. call' = [call EXCEPT ![t] = c]
    BY <1>1, <1>2
  <2>3. /\ c \in CallType /\ c.step = "poll" /\ c.kind = call[t].kind /\ c.once = call[t].once
        /\ c.polls = call[t].polls /\ c.cnt = call[t].cnt /\ c.disk = call[t].disk
        /\ c.lba = call[t].lba /\ c.done = call[t].done
    BY <1>2, <2>1 DEF CallType, Steps
  <2> HIDE DEF c
  <2> QED
    BY <1>2, <2>2, <2>3 DEF SameRequest
<1>7. UNCHANGED <<at, nest, saved>>
  BY <1>1 DEF locks, owner
<1>8. CallPhase(t)' /\ Active(t)'
  BY <1>1, <1>2, <1>3, <1>6, <1>7 DEF CallPhase, Active, Steps, SameRequest
<1>9. disk_ok = 1 /\ disk_ok' = 0 /\ ~wait_intr /\ call[t].kind # "write"
  BY <1>1, <1>2 DEF DriveRight, Expected, Reading
<1>10. DriveRight(t)' /\ AddressRight(t)'
  <2>1. DriveRight(t)'
    BY <1>1, <1>2, <1>3, <1>6, <1>9 DEF DriveRight, Reading, Commanding, SameRequest
  <2>2. AddressRight(t)'
    BY <1>1, <1>2, <1>3, <1>6, AddressKeeps DEF Reading
  <2> QED
    BY <2>1, <2>2
<1>11. DriveQuiet'
  BY <1>2, <1>8 DEF DriveQuiet
<1>12. OkWaiters'
  BY <1>1, <1>3, NobodyWaits DEF OkWaiters
<1>13. Types'
  BY <1>1, <1>6, <1>9 DEF IdeInv, Types
<1>14. BootRight'
  <2> SUFFICES ASSUME boot PROVE BootRight'
    BY <1>1 DEF BootRight
  <2>1. t = Main /\ current_task = Main /\ pc[Main] = "run" /\ frame[Main] = "none"
    BY <1>1, BootIsMain DEF At
  <2>2. ~intr'
    BY <1>1, <2>1 DEF IdeInv, BootRight
  <2>3. drive.st \in {"ready", "failed"} /\ ~irq
    BY <1>9 DEF IdeInv, BootRight
  <2> QED
    BY <1>1, <1>5, <1>6, <1>7, <1>9, <2>1, <2>2, <2>3
       DEF IdeInv, BootRight, Commanding, SameRequest
<1>15. pc'[Idle] # "run"
  BY <1>1 DEF IdeInv
<1> QED
  BY <1>1, <1>3, <1>5, <1>6, <1>8, <1>10, <1>11, <1>12, <1>13, <1>14, <1>15, UserKeeps

(* busy_wait() sleeps, but not during boot.                                 *)
LEMMA PollKeeps ==
  ASSUME IdeInv, NEW t \in Threads \ {Idle}, NEW n \in SleepTicks, busy_wait(t, n)
  PROVE  IdeInv'
<1>1. /\ At(t, "run") /\ call[t].step = "poll" /\ Busy /\ call[t].polls > 0
      /\ mil_sleep(t, n) /\ irq' \in {irq, FALSE}
      /\ call' = [call EXCEPT ![t].polls = @ - 1]
      /\ UNCHANGED <<wait_intr, disk_ok, ok_waiters, dev, regs, drive, boot, locks>>
  BY DEF busy_wait, In, chan, read_status
<1>2. /\ call \in [Threads -> CallType] /\ drive \in DriveType /\ t \in Threads
      /\ CallPhase(t) /\ DriveRight(t) /\ AddressRight(t) /\ Idle \in Threads
      /\ pc \in [Threads -> Pc] /\ pc[Idle] # "run"
  BY ThreadsAssumption DEF IdeInv, SyncInv, Inv, TypeOK, Types
<1>3. Active(t) /\ MayUse(t)
  BY <1>1 DEF Active, MayUse, Steps
<1>4. [Next]_vars /\ UNCHANGED status /\ pc'[Idle] # "run"
  BY <1>1, <1>2 DEF mil_sleep, sched, Next, Call
<1>5. ~boot
  <2> SUFFICES ASSUME boot PROVE FALSE
    OBVIOUS
  <2>1. t = Main
    BY <1>1, BootIsMain DEF At
  <2> QED
    BY <1>1, <2>1 DEF IdeInv, BootRight, Busy
<1>6. /\ call' \in [Threads -> CallType] /\ \A u \in Threads \ {t} : call'[u] = call[u]
      /\ call'[t].step = "poll" /\ call'[t].once = call[t].once /\ SameRequest(t)
  <2> DEFINE m == call[t].polls - 1
             c == [call[t] EXCEPT !.polls = m]
  <2>1. call[t] \in CallType /\ m \in Nat
    BY <1>1, <1>2 DEF CallType
  <2>2. call' = [call EXCEPT ![t] = c]
    BY <1>1, <1>2
  <2> HIDE DEF m
  <2>3. /\ c \in CallType /\ c.step = "poll" /\ c.kind = call[t].kind /\ c.once = call[t].once
        /\ c.disk = call[t].disk /\ c.lba = call[t].lba /\ c.cnt = call[t].cnt
        /\ c.done = call[t].done
    BY <1>1, <2>1 DEF CallType, Steps
  <2> HIDE DEF c
  <2> QED
    BY <1>2, <2>2, <2>3 DEF SameRequest
<1>7. UNCHANGED <<at, nest>>
  BY <1>1 DEF locks, owner
<1>8. CallPhase(t)' /\ Active(t)'
  BY <1>1, <1>2, <1>3, <1>6, <1>7 DEF CallPhase, Active, Steps, SameRequest
<1>9. DriveRight(t)' /\ AddressRight(t)'
  <2>1. DriveRight(t)'
    BY <1>1, <1>2, <1>3, <1>6 DEF DriveRight, Reading, Expected, Commanding, SameRequest
  <2>2. AddressRight(t)'
    BY <1>1, <1>2, <1>3, <1>6, AddressKeeps DEF Reading, SameRequest
  <2> QED
    BY <2>1, <2>2
<1>10. DriveQuiet'
  BY <1>2, <1>8 DEF DriveQuiet
<1>11. OkWaiters'
  BY <1>1, <1>3, NobodyWaits DEF OkWaiters
<1>12. Types'
  <2>1. irq' \in BOOLEAN
    BY <1>1, Zenon DEF IdeInv, Types
  <2> QED
    BY <1>1, <1>6, <2>1 DEF IdeInv, Types
<1>13. BootRight'
  BY <1>1, <1>5 DEF BootRight
<1> QED
  BY <1>1, <1>3, <1>4, <1>6, <1>8, <1>9, <1>10, <1>11, <1>12, <1>13, UserKeeps

(* The drive ends its work.                                                 *)
LEMMA FinishKeeps ==
  ASSUME IdeInv, drive_finish
  PROVE  IdeInv'
<1>1. /\ irq' = TRUE
      /\ \/ drive.st = "busy" /\ drive' = [drive EXCEPT !.st = "ready"]
         \/ drive.st = "busy" /\ drive' = [drive EXCEPT !.st = "failed"]
         \/ drive.st = "recalibrate" /\ drive' = Idling
      /\ UNCHANGED <<syncVars, wait_intr, disk_ok, ok_waiters, dev, regs, call, boot>>
  BY DEF drive_finish, chan
<1>2. drive \in DriveType /\ call \in [Threads -> CallType]
  BY DEF IdeInv, Types
<1>3. UNCHANGED <<vars, locks, status, current_task, frame, intr, old_status, pc, at, nest, saved>>
  BY <1>1 DEF syncVars, locks, vars, owner
<1>4. [Next]_vars /\ pc'[Idle] # "run"
  BY <1>3 DEF IdeInv
<1>5. Idling \in DriveType /\ Idling.st = "idle"
  BY DEF Idling, DriveType, NoAddress, AddressType
<1>6. /\ drive' \in DriveType /\ drive.st \in {"busy", "recalibrate"}
      /\ drive.st = "busy" => /\ drive'.st \in {"ready", "failed"} /\ drive'.left = drive.left
                              /\ drive'.at = drive.at
      /\ drive.st = "recalibrate" => drive'.st = "idle"
  BY <1>1, <1>2, <1>5 DEF DriveType
<1>7. OkWaiters'
  BY <1>1, <1>3 DEF IdeInv, OkWaiters
<1>8. Types'
  <2>1. irq' \in BOOLEAN
    BY <1>1, Zenon
  <2> QED
    BY <1>1, <1>6, <2>1 DEF IdeInv, Types
<1>9. ASSUME NEW t \in Threads, Active(t) PROVE IdeInv'
  <2>1. /\ t \in Threads \ {Idle} /\ MayUse(t) /\ CallPhase(t) /\ DriveRight(t) /\ AddressRight(t)
    BY <1>9 DEF IdeInv, Active, MayUse
  <2>2. CallPhase(t)' /\ Active(t)'
    BY <1>1, <1>3, <1>9, <2>1 DEF CallPhase, Active
  <2>3. DriveRight(t)'
    BY <1>1, <1>6, <2>1 DEF DriveRight, Reading, Expected, Active, Commanding
  <2>4. AddressRight(t)'
    <3>1. Reading(t) => drive'.at = drive.at
      BY <1>6, <2>1 DEF DriveRight
    <3>2. SameRequest(t)
      BY <1>1 DEF SameRequest
    <3> QED
      BY <1>1, <2>1, <3>1, <3>2, SameAddress DEF AddressRight, Reading, Active
  <2>5. DriveQuiet'
    BY <2>2 DEF DriveQuiet
  <2>6. BootRight'
    <3> SUFFICES ASSUME boot PROVE BootRight'
      BY <1>1 DEF BootRight
    <3>1. t = Main /\ call[t].kind # "write"
      BY <1>9, <2>1 DEF IdeInv, CallPhase, Active, BootRight
    <3>2. call[t].step \in {"down", "test", "poll", "move"}
      BY <1>6, <3>1 DEF IdeInv, BootRight
    <3>3. call[t].step # "move"
      BY <1>6, <2>1, <3>1 DEF DriveRight, IdeInv, BootRight, Commanding
    <3>4. call[t].step \in {"down", "test"} /\ drive.st = "busy" /\ disk_ok # 1
      BY <1>6, <2>1, <3>1, <3>2, <3>3 DEF DriveRight, Reading, IdeInv, BootRight
    <3> QED
      BY <1>1, <1>3, <1>6, <3>1, <3>4 DEF IdeInv, BootRight, Commanding
  <2> QED
    BY <1>1, <1>3, <1>4, <1>7, <1>8, <2>1, <2>2, <2>3, <2>4, <2>5, <2>6, UserKeeps
<1>10. ASSUME \A t \in Threads : ~Active(t) PROVE IdeInv'
  <2>1. ~boot
    BY <1>6, <1>10, ThreadsAssumption DEF IdeInv, BootRight, Active, Steps
  <2>2. \A t \in Threads : CallPhase(t)' /\ ~Active(t)'
    BY <1>1, <1>3, <1>10 DEF IdeInv, CallPhase, Active
  <2>3. \A t \in Threads : DriveRight(t)' /\ AddressRight(t)'
    BY <2>2, InactiveRight
  <2>4. DriveQuiet'
    BY <1>1, <1>6, <1>10 DEF IdeInv, DriveQuiet
  <2>5. BootRight'
    BY <1>1, <2>1 DEF BootRight
  <2>6. UNCHANGED <<sema, owner, at, lk, saved, nest>>
    BY <1>3 DEF locks, owner
  <2>7. SyncInv' /\ Accounted'
    BY <1>3, <1>4, <2>6, OutsideKeeps, OutsideWakes DEF IdeInv
  <2>8. Sleepers'
    BY <1>1, <1>3 DEF IdeInv, Sleepers
  <2> QED
    BY <1>1, <1>4, <1>7, <1>8, <2>2, <2>3, <2>4, <2>5, <2>7, <2>8 DEF IdeInv
<1> QED
  BY <1>9, <1>10

(* The user of the drive waits for disk_ok.                                 *)
LEMMA WaitOkKeeps ==
  ASSUME IdeInv, NEW t \in Threads \ {Idle}, sema_wait_ok(t)
  PROVE  IdeInv'
<1>1. /\ At(t, "run") /\ call[t].step = "test" /\ disk_ok = 0
      /\ UNCHANGED <<wait_intr, disk_ok, dev, regs, drive, irq, call, boot>>
  BY DEF sema_wait_ok, In, hardware
<1>2. Active(t) /\ MayUse(t) /\ t \in Threads
  BY <1>1 DEF Active, MayUse, Steps
<1>3. ok_waiters = <<>>
  BY <1>1, <1>2, NobodyWaits
<1>4. ok_waiters' = <<t>> /\ Block(t) /\ UNCHANGED locks
  <2>1. ~list_find_item(ok_waiters, t)
    BY <1>3 DEF list_find_item
  <2>2. queue_in(ok_waiters, t) = <<t>>
    BY <1>3 DEF queue_in
  <2> QED
    BY <2>1, <2>2 DEF sema_wait_ok
<1>5. Inv /\ current_task = t /\ thread_block /\ UNCHANGED pc /\ [Next]_vars
  BY <1>2, <1>4 DEF IdeInv, SyncInv, Block, At, Next, Call
<1>6. /\ \A u \in Threads \ {Idle} : status'[u] = "BLOCKED" <=> status[u] = "BLOCKED" \/ u = t
      /\ \A u \in Threads : status[u] = "NONE" => status'[u] = "NONE"
      /\ frame' = [frame EXCEPT ![t] = "block"]
  BY <1>5, BlockBooks
<1>7. old_status' = [old_status EXCEPT ![t] = intr]
  BY <1>5 DEF thread_block
<1>8. UNCHANGED <<sema, owner, at, lk, saved, nest>>
  BY <1>4 DEF locks, owner
<1>9. at[t] # "test"
  BY <1>2 DEF IdeInv, CallPhase
<1>10. SyncInv' /\ Accounted'
  BY <1>5, <1>6, <1>8, <1>9, OutsideKeeps, OutsideWakes DEF IdeInv, SyncInv
<1>11. \A u \in Threads : CallPhase(u)'
  BY <1>1, <1>8 DEF IdeInv, CallPhase, Active
<1>12. \A u \in Threads : DriveRight(u)' /\ AddressRight(u)'
  BY <1>1, FrozenRight DEF IdeInv
<1>13. Types' /\ DriveQuiet'
  BY <1>1 DEF IdeInv, Types, DriveQuiet, Active
<1>14. OkWaiters'
  BY <1>1, <1>4, <1>6 DEF OkWaiters
<1>15. Sleepers'
  BY <1>3, <1>4, <1>6, <1>8 DEF IdeInv, Sleepers
<1>16. BootRight'
  <2> SUFFICES ASSUME boot PROVE BootRight'
    BY <1>1 DEF BootRight
  <2>1. t = Main /\ pc[Main] = "run" /\ frame[Main] = "none"
    BY <1>1, BootIsMain DEF At
  <2>2. frame'[Main] = "block" /\ ~old_status'[Main]
    <3>1. ~intr
      BY <2>1 DEF IdeInv, BootRight
    <3>2. frame \in [Threads -> Frame] /\ old_status \in [Threads -> BOOLEAN] /\ Main \in Threads
      BY <1>5, <2>1 DEF Inv, TypeOK
    <3>3. frame'[Main] = "block"
      BY <1>6, <2>1, <3>2
    <3>4. ~old_status'[Main]
      BY <1>7, <2>1, <3>1, <3>2
    <3> QED
      BY <3>3, <3>4
  <2> QED
    BY <1>1, <1>5, <1>6, <1>8, <2>1, <2>2 DEF IdeInv, BootRight, Commanding
<1> QED
  BY <1>1, <1>5, <1>10, <1>11, <1>12, <1>13, <1>14, <1>15, <1>16 DEF IdeInv

(* The disk interrupt.  Its ASSERT holds: an interrupt that is awaited has  *)
(* not been counted.                                                        *)
LEMMA ServiceKeeps ==
  ASSUME IdeInv, hard_disk_service
  PROVE  IdeInv'
<1>1. /\ ~hung /\ intr /\ frame[current_task] = "none" /\ irq /\ irq' = FALSE
      /\ wait_intr' = FALSE /\ UNCHANGED <<dev, regs, drive, call, boot>>
  BY DEF hard_disk_service
<1>2. /\ wait_intr \in BOOLEAN /\ disk_ok \in 0..1 /\ Inv /\ call \in [Threads -> CallType]
      /\ pc \in [Threads -> Pc] /\ Idle \in Threads /\ Main \in Threads \ {Idle}
      /\ frame \in [Threads -> Frame] /\ current_task \in Threads
      /\ status \in [Threads -> Status]
  BY ThreadsAssumption DEF IdeInv, SyncInv, Inv, TypeOK, Types
<1>3. wait_intr => disk_ok = 0
  <2> SUFFICES ASSUME wait_intr PROVE disk_ok = 0
    OBVIOUS
  <2>1. PICK u \in Threads : Active(u)
    BY DEF IdeInv, DriveQuiet
  <2> QED
    BY <2>1 DEF IdeInv, DriveRight, Active, Steps, Expected
<1>4. /\ disk_ok' = IF wait_intr THEN disk_ok + 1 ELSE disk_ok
      /\ WakeCpu
      /\ IF wait_intr /\ ok_waiters # <<>>
           THEN ok_waiters' = Tail(ok_waiters) /\ thread_unblock(Head(ok_waiters))
           ELSE UNCHANGED <<ok_waiters, sched, intr>>
      /\ UNCHANGED <<pid, next_pid, old_status, left, locks>>
  BY <1>3 DEF hard_disk_service, awaited
<1>5. pc'[Idle] # "run" /\ pc'[Main] = pc[Main]
  BY <1>2, <1>4 DEF IdeInv, WakeCpu
<1>6. UNCHANGED <<sema, owner, at, lk, saved, nest>>
  BY <1>4 DEF locks, owner
<1>7. \A u \in Threads : CallPhase(u)'
  BY <1>1, <1>6 DEF IdeInv, CallPhase, Active
<1>8. \A u \in Threads : DriveRight(u)' /\ AddressRight(u)'
  <2> SUFFICES ASSUME NEW u \in Threads PROVE DriveRight(u)' /\ AddressRight(u)'
    OBVIOUS
  <2>1. DriveRight(u) /\ AddressRight(u)
    BY DEF IdeInv
  <2>2. Expected => Expected'
    BY <1>1, <1>2, <1>3, <1>4 DEF Expected
  <2>3. DriveRight(u)'
    BY <1>1, <1>4, <2>1, <2>2 DEF DriveRight, Active, Reading, Commanding
  <2>4. SameRequest(u)
    BY <1>1 DEF SameRequest
  <2>5. AddressRight(u)'
    BY <1>1, <2>1, <2>4, SameAddress DEF AddressRight, Active, Reading
  <2> QED
    BY <2>3, <2>5
<1>9. DriveQuiet'
  BY <1>1, <1>4 DEF IdeInv, DriveQuiet, Active
<1>10. Types'
  <2>1. wait_intr' \in BOOLEAN /\ irq' \in BOOLEAN
    BY <1>1, Zenon
  <2>2. disk_ok' \in 0..1
    BY <1>2, <1>3, <1>4
  <2> QED
    BY <1>1, <2>1, <2>2 DEF IdeInv, Types
<1>11. /\ [Next]_vars /\ OkWaiters' /\ Sleepers'
       /\ \A u \in Threads : at[u] = "test" => (status'[u] = "BLOCKED" <=> status[u] = "BLOCKED")
       /\ \A u \in Threads : status[u] = "NONE" => status'[u] = "NONE"
       /\ UNCHANGED <<current_task, frame, intr>>
  <2>1. CASE wait_intr /\ ok_waiters # <<>>
    <3>1. PICK w \in Threads \ {Idle} :
            ok_waiters = <<w>> /\ call[w].step = "test" /\ status[w] = "BLOCKED"
      BY <2>1 DEF IdeInv, OkWaiters
    <3>2. Tail(ok_waiters) = <<>> /\ Head(ok_waiters) = w
      BY <3>1
    <3>3. ok_waiters' = <<>> /\ thread_unblock(w)
      BY <1>4, <2>1, <3>2
    <3>4. DeviceInterrupt(w)
      BY <1>1, <1>4, <3>1, <3>3 DEF DeviceInterrupt
    <3>5. [Next]_vars
      BY <3>4 DEF Next
    <3>6. status' = [status EXCEPT ![w] = "READY"] /\ UNCHANGED <<current_task, frame, intr>>
      BY <1>2, <3>1, <3>3, UnblockBooks
    <3>7. at[w] # "test"
      BY <3>1 DEF IdeInv, CallPhase, Active, Steps
    <3>8. \A u \in Threads : u # w => ok_waiters # <<u>>
      BY <3>1
    <3>9. Sleepers'
      BY <1>2, <1>6, <3>6, <3>8 DEF IdeInv, Sleepers
    <3> QED
      BY <1>2, <3>1, <3>3, <3>5, <3>6, <3>7, <3>9 DEF OkWaiters
  <2>2. CASE ~(wait_intr /\ ok_waiters # <<>>)
    <3>1. UNCHANGED <<ok_waiters, sched, intr>>
      BY <1>4, <2>2
    <3>2. UNCHANGED <<status, current_task, frame, ready, ticks, hung>>
      BY <3>1 DEF sched
    <3>3. [Next]_vars
      <4>1. CASE current_task = Idle /\ pc[Idle] = "hlt"
        BY <1>1, <1>4, <3>1, <4>1 DEF OtherInterrupt, Next
      <4>2. CASE ~(current_task = Idle /\ pc[Idle] = "hlt")
        BY <1>4, <3>1, <3>2, <4>2 DEF WakeCpu, vars
      <4> QED
        BY <4>1, <4>2
    <3>4. OkWaiters'
      <4>1. CASE ok_waiters = <<>>
        BY <3>1, <4>1 DEF OkWaiters
      <4>2. CASE ok_waiters # <<>>
        BY <1>1, <1>4, <2>2, <3>1, <3>2, <4>2 DEF IdeInv, OkWaiters
      <4> QED
        BY <4>1, <4>2
    <3>5. Sleepers'
      BY <1>6, <3>1, <3>2 DEF IdeInv, Sleepers
    <3> QED
      BY <3>1, <3>2, <3>3, <3>4, <3>5
  <2> QED
    BY <2>1, <2>2
<1>12. SyncInv' /\ Accounted'
  BY <1>6, <1>11, OutsideKeeps, OutsideWakes DEF IdeInv
<1>13. BootRight'
  <2> SUFFICES ASSUME boot PROVE BootRight'
    BY <1>1 DEF BootRight
  <2>1. drive.st \in {"ready", "failed"} /\ disk_ok # 1 /\ frame[Main] = "block"
    BY <1>1 DEF IdeInv, BootRight
  <2> QED
    BY <1>1, <1>4, <1>5, <1>6, <1>11, <2>1 DEF IdeInv, BootRight, Commanding
<1>14. call'[Idle].step = "out"
  BY <1>1 DEF IdeInv
<1> QED
  BY <1>5, <1>7, <1>8, <1>9, <1>10, <1>11, <1>12, <1>13, <1>14 DEF IdeInv

(* ide_init() returns.                                                      *)
LEMMA DoneKeeps ==
  ASSUME IdeInv, ide_init_done
  PROVE  IdeInv'
<1>1. /\ call[Main].step = "out" /\ boot /\ boot' = FALSE
      /\ UNCHANGED <<syncVars, wait_intr, disk_ok, ok_waiters, dev, regs, drive, irq, call>>
  BY DEF ide_init_done, In, chan, hardware
<1>2. UNCHANGED <<vars, sema, owner, at, lk, saved, nest, status, pc>>
  BY <1>1 DEF syncVars, owner, vars
<1>3. SyncInv' /\ Accounted'
  BY <1>2, OutsideKeeps, OutsideWakes DEF IdeInv
<1>4. \A t \in Threads : call[t].step = "out" /\ ~Active(t)
  BY <1>1 DEF IdeInv, CallPhase, Active
<1>5. \A t \in Threads : CallPhase(t)'
  BY <1>1, <1>2, <1>4 DEF IdeInv, CallPhase, Active
<1>6. \A t \in Threads : DriveRight(t)' /\ AddressRight(t)'
  BY <1>1, <1>4, InactiveRight DEF Active
<1>7. DriveQuiet' /\ OkWaiters' /\ Sleepers'
  BY <1>1, <1>2 DEF IdeInv, DriveQuiet, OkWaiters, Sleepers, Active
<1>8. Types'
  <2>1. boot' \in BOOLEAN
    BY <1>1, Zenon
  <2> QED
    BY <1>1, <2>1 DEF IdeInv, Types
<1>9. BootRight'
  BY <1>1 DEF BootRight
<1> QED
  BY <1>1, <1>2, <1>3, <1>5, <1>6, <1>7, <1>8, <1>9 DEF IdeInv

-----------------------------------------------------------------------------
(* What the invariant says of the running kernel.                           *)
LEMMA IdeInvImplies ==
  IdeInv => ReadsOwnSectors /\ OneWakeupEach /\ ReadStopsNeedFault /\ BootNeverSleeps
<1> SUFFICES ASSUME IdeInv
             PROVE  ReadsOwnSectors /\ OneWakeupEach /\ ReadStopsNeedFault /\ BootNeverSleeps
  OBVIOUS
<1>1. ReadsOwnSectors
  BY DEF IdeInv, DriveRight, AddressRight, Reading, ReadsOwnSectors
<1>2. ASSUME NEW t \in Threads, call[t].step = "select"
      PROVE  ~wait_intr /\ disk_ok = 0 /\ ok_waiters = <<>>
  <2>1. ~wait_intr /\ disk_ok = 0
    BY <1>2 DEF IdeInv, DriveRight
  <2>2. \A u \in Threads : call[u].step # "test"
    BY <1>2, OneUser DEF Active, Steps, MayUse
  <2> QED
    BY <2>1, <2>2 DEF IdeInv, OkWaiters
<1>3. ASSUME \A t \in Threads : ~Active(t)
      PROVE  ~wait_intr /\ disk_ok = 0 /\ ok_waiters = <<>>
  BY <1>3 DEF IdeInv, DriveQuiet, OkWaiters, Active, Steps
<1>4. OneWakeupEach
  BY <1>2, <1>3 DEF OneWakeupEach
<1>5. ReadStopsNeedFault
  BY DEF ReadStopsNeedFault, IdeInv, SyncInv, Inv, NoAssertFails
<1>6. BootNeverSleeps
  BY DEF BootNeverSleeps, IdeInv, BootRight
<1> QED
  BY <1>1, <1>4, <1>5, <1>6

(* The drive did not become ready in time: this is where the kernel stops.  *)
LEMMA FailedStops ==
  ASSUME IdeInv, NEW t \in Threads \ {Idle}, disk_failed(t)
  PROVE  IdeFull'
<1>1. /\ At(t, "run") /\ call[t].step = "poll" /\ (drive.st \in {"idle", "failed"} \/ call[t].polls = 0)
      /\ hung' = TRUE
      /\ UNCHANGED <<current_task, pc, wait_intr, disk_ok, ok_waiters, drive, call, boot>>
  BY DEF disk_failed, In, AssertFailed, debug_out, chan, hardware
<1>2. ReadsOwnSectors' /\ OneWakeupEach' /\ BootNeverSleeps'
  BY <1>1, IdeInvImplies DEF ReadsOwnSectors, OneWakeupEach, BootNeverSleeps, Active, OneBlock, Wanted
<1>3. call[t].polls = 0 \/ drive.st = "failed" \/ call[t].kind = "write"
  BY <1>1 DEF IdeInv, DriveRight, Reading
<1>4. ReadStopsNeedFault'
  BY <1>1, <1>3 DEF ReadStopsNeedFault, DriveFault, Writing, Active, Steps, At
<1> QED
  BY <1>1, <1>2, <1>4 DEF IdeFull

(* Once it has stopped, nothing happens any more.                           *)
LEMMA StoppedStays == hung => ~IdeNext
<1> SUFFICES ASSUME hung, IdeNext PROVE FALSE
  OBVIOUS
<1>1. \A t, p : ~At(t, p)
  BY DEF At
<1>2. \A t, p : ~In(t, p)
  BY <1>1 DEF In
<1>3. ASSUME NEW t \in Threads PROVE ~DriverStep(t) /\ ~SleepStep(t)
  <2>1. ~AcquireStep(t) /\ ~lock_release(t) /\ ~lock_release_count(t) /\ ~sema_up(t)
    BY <1>1 DEF AcquireStep, sema_down_enter, sema_down_wait, sema_down_take,
                lock_acquire_hold, lock_acquire_count, lock_release, lock_release_count,
                sema_up, Goes
  <2>2. ~DriverStep(t)
    BY <1>2, <2>1 DEF DriverStep, ide_acquire, disk_select_hd, disk_select_sector,
                      channel_control_cmd, sema_down_ok, sema_wait_ok, sema_take_ok, busy_wait,
                      disk_ready, disk_failed, disk_sector_to_buf, ide_release, ide_unlock,
                      identified, Complete
  <2>3. ~SleepStep(t)
    BY <1>1 DEF SleepStep, Elsewhere, Outside, ticks_to_sleep, SleepYield
  <2> QED
    BY <2>2, <2>3
<1>4. \A t, r : ~ide_request(t, r)
  BY <1>2 DEF ide_request
<1>5. (\A d : ~disk_identify(d)) /\ ~ide_init_done
  BY <1>2 DEF disk_identify, ide_init_done
<1>6. /\ \A t : ~Elsewhere(thread_start(t)) /\ ~Elsewhere(Resume(t))
      /\ ~MainStep /\ ~IdleStep /\ ~Elsewhere(clock_service)
  BY <1>1 DEF Elsewhere, Outside, thread_start, Resume, MainStep, IdleStep, local_irq_enable,
              cpu_idle, cpu_halt, clock_service
<1>7. ~drive_finish /\ ~hard_disk_service
  BY DEF drive_finish, hard_disk_service
<1> QED
  BY <1>3, <1>4, <1>5, <1>6, <1>7 DEF IdeNext

(* Every step keeps the invariant.                                          *)
LEMMA IdeNextFull == IdeFull /\ [IdeNext]_ideVars => IdeFull'
<1> SUFFICES ASSUME IdeFull, [IdeNext]_ideVars PROVE IdeFull'
  OBVIOUS
<1>1. CASE UNCHANGED ideVars
  <2>1. /\ UNCHANGED <<syncVars, wait_intr, disk_ok, ok_waiters, dev, regs, drive, irq, call, boot>>
        /\ UNCHANGED <<vars, locks, chan, hardware>>
    BY <1>1 DEF ideVars, chan, hardware, syncVars, locks
  <2>2. UNCHANGED <<hung, current_task, status, frame, intr, old_status, pc>>
    BY <2>1 DEF vars
  <2>3. CASE IdeInv
    <3>1. BootRight'
      BY <2>1, <2>2, <2>3 DEF IdeInv, BootRight, Commanding, locks
    <3>2. pc'[Idle] # "run"
      BY <2>2, <2>3 DEF IdeInv
    <3> QED
      BY <2>1, <2>2, <2>3, <3>1, <3>2, ElsewhereKeeps DEF IdeFull
  <2>4. CASE ~IdeInv
    BY <2>1, <2>2, <2>4
       DEF IdeFull, ReadStopsNeedFault, DriveFault, Writing, ReadsOwnSectors, OneWakeupEach,
           BootNeverSleeps, Active, OneBlock, Wanted
  <2> QED
    BY <2>3, <2>4
<1>2. CASE IdeNext
  <2>1. IdeInv
    BY <1>2, StoppedStays DEF IdeFull
  <2>2. ASSUME NEW t \in Threads \ {Idle}, DriverStep(t) PROVE IdeFull'
    <3>1. CASE disk_failed(t)
      BY <2>1, <3>1, FailedStops
    <3>2. CASE ~disk_failed(t)
      BY <2>1, <2>2, <3>2, DriverAcquireKeeps, SelectKeeps, SectorKeeps, CommandKeeps, DownKeeps,
         WaitOkKeeps, TakeOkKeeps, PollKeeps, ReadyKeeps, MoveKeeps, DriverReleaseKeeps,
         DriverUnlockKeeps, IdentifiedKeeps DEF DriverStep, IdeFull
    <3> QED
      BY <3>1, <3>2
  <2>3. ASSUME NEW t \in Threads \ {Idle},
               NEW r \in Requests \union Scans, ide_request(t, r)
        PROVE  IdeFull'
    BY <2>1, <2>3, RequestKeeps DEF IdeFull
  <2>4. ASSUME \/ \E t \in Threads \ {Idle} : SleepStep(t)
               \/ \E t \in Threads : ~boot /\ Elsewhere(thread_start(t))
               \/ MainStep
        PROVE  IdeFull'
    BY <2>1, <2>4, LaterKeeps DEF IdeFull
  <2>5. ASSUME \/ \E d \in Disks : disk_identify(d)
               \/ ide_init_done
               \/ drive_finish
               \/ hard_disk_service
        PROVE  IdeFull'
    BY <2>1, <2>5, IdentifyKeeps, DoneKeeps, FinishKeeps, ServiceKeeps DEF IdeFull
  <2>6. ASSUME (\E t \in Threads : Elsewhere(Resume(t))) \/ Elsewhere(clock_service) \/ IdleStep
        PROVE  IdeFull'
    BY <2>1, <2>6, ResumeKeeps, ClockKeeps, IdleKeeps DEF IdeFull
  <2> QED
    BY <1>2, <2>2, <2>3, <2>4, <2>5, <2>6 DEF IdeNext
<1> QED
  BY <1>1, <1>2

(* The invariant of the disk driver.                                        *)
THEOREM IdeInvariant == IdeSpec => []IdeFull
<1>1. ide_init => IdeFull
  BY IdeInitInv DEF IdeFull
<1> QED
  BY <1>1, IdeNextFull, PTL DEF IdeSpec

(* disk_sector_to_buf() reads the sectors of the reader's own command,      *)
(* whatever interrupt woke the reader and whoever else waits for the        *)
(* channel: as many as the chunk has, though 256 of them were written as 0; *)
(* the first and, if the drive needs no time in between, every one when it  *)
(* is ready; and from the right address if the request lies in one block of *)
(* 2^24 sectors, though the device register is only ever added to.          *)
THEOREM OwnSectorsRead == IdeSpec => []ReadsOwnSectors
<1>1. IdeFull => ReadsOwnSectors
  BY IdeInvImplies DEF IdeFull
<1> QED
  BY <1>1, IdeInvariant, PTL

(* hard_disk_service() wakes once for one command: no wake-up is left over  *)
(* for the next command, and no late interrupt is counted.                  *)
THEOREM WakeupsPair == IdeSpec => []OneWakeupEach
<1>1. IdeFull => OneWakeupEach
  BY IdeInvImplies DEF IdeFull
<1> QED
  BY <1>1, IdeInvariant, PTL

(* Unless a write is on its way, the kernel stops only in busy_wait() and   *)
(* only for a drive that reports an error or stays busy: no interrupt of an *)
(* earlier command makes ide_read() or disk_identify() give up, and all     *)
(* assertions of sync.c and thread.c hold.                                  *)
THEOREM ReadsStopForFaults == IdeSpec => []ReadStopsNeedFault
<1>1. IdeFull => ReadStopsNeedFault
  BY IdeInvImplies DEF IdeFull
<1> QED
  BY <1>1, IdeInvariant, PTL

(* ide_init() never comes to sleep in busy_wait(), where it would stay.     *)
THEOREM NoSleepAtBoot == IdeSpec => []BootNeverSleeps
<1>1. IdeFull => BootNeverSleeps
  BY IdeInvImplies DEF IdeFull
<1> QED
  BY <1>1, IdeInvariant, PTL
=============================================================================
