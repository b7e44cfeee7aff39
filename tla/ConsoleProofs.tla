--------------------------- MODULE ConsoleProofs ---------------------------
(***************************************************************************)
(* The console, for any number of threads, any strings and any size of     *)
(* screen: threads do not tear each other's characters, stale cursors stay *)
(* within the video segment, and as long as nobody else's character comes  *)
(* between, put_char() moves the cursor as a terminal does.                *)
(*                                                                         *)
(* There are three layers.  ConInv says where in sync.c a thread is that   *)
(* prints, and that a system call has interrupts off; nothing that the     *)
(* registers of the video controller hold matters to it.  Within bounds    *)
(* the registers and the copies of them that threads keep in bx; Agreed    *)
(* says more of them until two characters are put at the same time.        *)
(***************************************************************************)
EXTENDS Console, SyncProofs

(* The steps of put_char(), and those around it.                            *)
PutSteps == Selects \union Reads \union Writes \union {"store"}
OutSteps == PutSteps \union {"none", "write", "lock", "end", "iret"}

OutType == [step : OutSteps, rest : Seq(Chars), bx : Nat, trap : BOOLEAN]

(* Where a thread that prints is in sync.c.                                 *)
OutPhase(t) ==
  /\ out[t].step \in {"none", "write", "iret"} => at[t] = "out"
  /\ out[t].step = "lock" => at[t] \in {"down", "test", "got", "own"}
  /\ out[t].step \in PutSteps => at[t] = "in"
  /\ out[t].step = "end" => at[t] \in {"in", "rel", "up"}
  /\ at[t] = "in" => nest[t] = 1
  /\ out[t].step = "none" => ~out[t].trap

(* There is something left to print.                                        *)
RestRight(t) == out[t].step \in PutSteps \union {"write", "lock"} => out[t].rest # <<>>

(* A thread in a system call runs with interrupts off, or it has blocked in *)
(* sema_down() and will find them off again.                                *)
TrapRight(t) ==
  out[t].trap =>
    /\ \/ current_task = t /\ frame[t] = "none" /\ ~intr
       \/ /\ out[t].step = "lock" /\ at[t] = "test"
          /\ frame[t] = "block" /\ ~old_status[t]
    /\ at[t] = "test" => ~saved[t]

ConInv ==
  /\ SyncInv
  /\ out \in [Threads -> OutType]
  /\ \A t \in Threads \ {Idle} : OutPhase(t) /\ TrapRight(t)
  /\ \A t \in Threads : RestRight(t)
  /\ out[Idle].step \in PutSteps \union {"none", "end"} /\ ~out[Idle].trap

(* The invariant holds at boot.                                             *)
LEMMA ConInitInv == ConsoleInit => ConInv
<1> SUFFICES ASSUME ConsoleInit PROVE ConInv
  OBVIOUS
<1>1. SyncInv
  BY SyncInitInv DEF ConsoleInit, SyncInit, lock_init
<1>2. Silent \in OutType /\ Silent.step = "none" /\ ~Silent.trap
  BY DEF Silent, OutType, OutSteps
<1>3. \A t \in Threads : out[t] = Silent /\ at[t] = "out"
  BY DEF ConsoleInit, SyncInit, Unlocked
<1>4. out \in [Threads -> OutType] /\ Idle \in Threads
  BY <1>2, ThreadsAssumption DEF ConsoleInit
<1>5. \A t \in Threads : OutPhase(t) /\ TrapRight(t) /\ RestRight(t)
  BY <1>2, <1>3 DEF OutPhase, TrapRight, RestRight, PutSteps, Selects, Reads, Writes
<1> QED
  BY <1>1, <1>2, <1>3, <1>4, <1>5 DEF ConInv

(* Any step: only the current thread moves in sync.c and in put_str(), only *)
(* it can leave the CPU.  A thread that is in a system call and does not    *)
(* run has blocked, and stays so.                                           *)
LEMMA CurrentKeeps ==
  ASSUME ConInv, SyncInv', NEW t \in Threads, t = current_task,
         NEW o \in OutType, out' = [out EXCEPT ![t] = o],
         \A u \in Threads \ {t} : /\ at'[u] = at[u] /\ nest'[u] = nest[u] /\ saved'[u] = saved[u]
                                  /\ frame'[u] = frame[u] /\ old_status'[u] = old_status[u],
         t # Idle => OutPhase(t)' /\ TrapRight(t)',
         t = Idle => o.step \in PutSteps \union {"none", "end"} /\ ~o.trap,
         RestRight(t)'
  PROVE  ConInv'
<1>1. out \in [Threads -> OutType]
  BY DEF ConInv
<1>2. out' \in [Threads -> OutType] /\ out'[t] = o /\ \A u \in Threads \ {t} : out'[u] = out[u]
  BY <1>1
<1>3. ASSUME NEW u \in Threads \ {Idle} PROVE OutPhase(u)' /\ TrapRight(u)'
  <2>1. CASE u = t
    BY <2>1
  <2>2. CASE u # t
    <3>1. OutPhase(u) /\ TrapRight(u)
      BY DEF ConInv
    <3>2. OutPhase(u)'
      BY <1>2, <2>2, <3>1 DEF OutPhase
    <3>3. TrapRight(u)'
      BY <1>2, <2>2, <3>1 DEF TrapRight
    <3> QED
      BY <3>2, <3>3
  <2> QED
    BY <2>1, <2>2
<1>4. ASSUME NEW u \in Threads PROVE RestRight(u)'
  BY <1>2 DEF ConInv, RestRight
<1>5. out'[Idle].step \in PutSteps \union {"none", "end"} /\ ~out'[Idle].trap
  BY <1>2, ThreadsAssumption DEF ConInv
<1> QED
  BY <1>2, <1>3, <1>4, <1>5 DEF ConInv

(* A step in put_char(), or the first of cpu_idle()'s.                      *)
LEMMA PutKeeps ==
  ASSUME ConInv, NEW t \in Threads, t = current_task, UNCHANGED syncVars,
         NEW o \in OutType, out' = [out EXCEPT ![t] = o],
         o.step \in PutSteps \union {"end"}, o.step \in PutSteps => o.rest # <<>>,
         out[t].step \in PutSteps \/ t = Idle, o.trap = out[t].trap
  PROVE  ConInv'
<1>1. UNCHANGED <<vars, sema, owner, at, lk, saved, nest, current_task, frame, intr, old_status, status>>
  BY DEF syncVars, owner, vars
<1>2. SyncInv'
  BY <1>1, OutsideKeeps DEF ConInv
<1>3. out'[t] = o
  BY DEF ConInv
<1>4. ASSUME t # Idle PROVE OutPhase(t)' /\ TrapRight(t)'
  <2>1. OutPhase(t) /\ TrapRight(t)
    BY <1>4 DEF ConInv
  <2>2. OutPhase(t)'
    BY <1>1, <1>3, <1>4, <2>1 DEF OutPhase, PutSteps, Selects, Reads, Writes
  <2>3. TrapRight(t)'
    BY <1>1, <1>3, <1>4, <2>1 DEF TrapRight, PutSteps, Selects, Reads, Writes
  <2> QED
    BY <2>2, <2>3
<1>5. RestRight(t)'
  BY <1>3 DEF RestRight, PutSteps, Selects, Reads, Writes
<1>6. t = Idle => o.step \in PutSteps \union {"none", "end"} /\ ~o.trap
  BY DEF ConInv
<1> QED
  BY <1>1, <1>2, <1>4, <1>5, <1>6, CurrentKeeps

(* A step of the scheduler, or of a thread outside the console.  When it    *)
(* is one of a thread that begins or ends a call, o is where that leaves it. *)
LEMMA ElsewhereKeeps ==
  ASSUME ConInv, [Next]_vars, UNCHANGED <<sema, owner, at, lk, saved>>,
         \A u \in Threads : at[u] = "test" => (status'[u] = "BLOCKED" <=> status[u] = "BLOCKED"),
         NEW t \in Threads, t = current_task,
         NEW o \in OutType, out' = [out EXCEPT ![t] = o],
         \/ o = out[t]
         \/ at[t] = "out" /\ o.step = "none" /\ ~o.trap
         \/ at[t] = "out" /\ o.step = "write" /\ o.rest # <<>> /\ t # Idle,
         o.trap => current_task' = t /\ frame'[t] = "none" /\ ~intr',
         \A u \in Threads \ {t} : frame'[u] = frame[u] /\ old_status'[u] = old_status[u]
  PROVE  ConInv'
<1>1. out \in [Threads -> OutType]
  BY DEF ConInv
<1>2. SyncInv'
  BY OutsideKeeps DEF ConInv
<1>3. UNCHANGED <<at, nest, saved>>
  BY DEF owner
<1>4. out'[t] = o
  BY <1>1
<1>5. ASSUME t # Idle PROVE OutPhase(t)' /\ TrapRight(t)'
  <2>1. OutPhase(t) /\ TrapRight(t)
    BY <1>5 DEF ConInv
  <2>2. at[t] = "in" => nest[t] = 1
    BY <2>1 DEF OutPhase
  <2>3. OutPhase(t)'
    BY <1>3, <1>4, <2>1, <2>2 DEF OutPhase, PutSteps, Selects, Reads, Writes
  <2>4. TrapRight(t)'
    BY <1>3, <1>4, <2>1 DEF TrapRight
  <2> QED
    BY <2>3, <2>4
<1>6. RestRight(t)'
  BY <1>1, <1>4 DEF ConInv, RestRight, PutSteps, Selects, Reads, Writes
<1>7. t = Idle => o.step \in PutSteps \union {"none", "end"} /\ ~o.trap
  BY DEF ConInv
<1> QED
  BY <1>2, <1>3, <1>5, <1>6, <1>7, CurrentKeeps

(* The types that the steps below rely on.                                  *)
LEMMA ConTypes ==
  ASSUME ConInv
  PROVE  /\ current_task \in Threads /\ frame \in [Threads -> Frame]
         /\ old_status \in [Threads -> BOOLEAN] /\ status \in [Threads -> Status]
         /\ saved \in [Threads -> BOOLEAN] /\ at \in [Threads -> LockPc]
         /\ nest \in [Threads -> 0..MaxRepeat] /\ lk \in [Threads -> Locks]
         /\ out \in [Threads -> OutType] /\ Inv /\ at[Idle] = "out"
         /\ Idle \in Threads /\ Main \in Threads /\ Main # Idle
BY ThreadsAssumption DEF ConInv, SyncInv, SyncTypeOK, TypeOK

(* Steps that leave the console alone and that block or wake nobody in      *)
(* sema_down().                                                             *)
LEMMA SilentKeeps ==
  ASSUME ConInv, [Next]_vars, UNCHANGED <<sema, owner, at, lk, saved, out>>,
         \A u \in Threads : at[u] = "test" => (status'[u] = "BLOCKED" <=> status[u] = "BLOCKED"),
         NEW t \in Threads, t = current_task,
         out[t].trap => current_task' = t /\ frame'[t] = "none" /\ ~intr',
         \A u \in Threads \ {t} : frame'[u] = frame[u] /\ old_status'[u] = old_status[u]
  PROVE  ConInv'
<1>1. out[t] \in OutType /\ out' = [out EXCEPT ![t] = out[t]]
  BY ConTypes
<1> QED
  BY <1>1, ElsewhereKeeps

(* While interrupts are on, the thread that runs is in no system call; nor  *)
(* is one that has nothing to print.                                        *)
LEMMA NotTrapped ==
  ASSUME ConInv, NEW t \in Threads, t = current_task,
         (frame[t] = "none" /\ intr) \/ out[t].step = "none"
  PROVE  ~out[t].trap
<1>1. CASE t = Idle
  BY <1>1 DEF ConInv
<1>2. CASE t # Idle
  <2>1. TrapRight(t) /\ OutPhase(t)
    BY <1>2 DEF ConInv
  <2> QED
    BY <2>1 DEF TrapRight, OutPhase
<1> QED
  BY <1>1, <1>2

(* The scheduler: the thread switched to runs on ...                        *)
LEMMA ResumeKeeps ==
  ASSUME ConInv, NEW t \in Threads, Elsewhere(Resume(t))
  PROVE  ConInv'
<1>1. /\ [Next]_vars /\ UNCHANGED <<sema, owner, at, lk, saved, out, status>>
      /\ current_task = t /\ frame[t] # "none"
      /\ frame' = [frame EXCEPT ![t] = "none"] /\ UNCHANGED <<current_task, old_status>>
      /\ intr' = IF frame[t] \in {"new", "clock"} THEN TRUE ELSE old_status[t]
  BY DEF Elsewhere, Outside, Resume, Next
<1>2. ASSUME out[t].trap PROVE current_task' = t /\ frame'[t] = "none" /\ ~intr'
  <2>1. t # Idle
    BY <1>2 DEF ConInv
  <2>2. TrapRight(t)
    BY <2>1 DEF ConInv
  <2>3. frame[t] = "block" /\ ~old_status[t]
    BY <1>1, <1>2, <2>2 DEF TrapRight
  <2> QED
    BY <1>1, <2>3, ConTypes
<1>3. \A u \in Threads \ {t} : frame'[u] = frame[u] /\ old_status'[u] = old_status[u]
  BY <1>1, ConTypes
<1> QED
  BY <1>1, <1>2, <1>3, SilentKeeps

(* ... the clock comes ...                                                  *)
LEMMA ClockKeeps ==
  ASSUME ConInv, Elsewhere(clock_service)
  PROVE  ConInv'
<1>1. /\ [Next]_vars /\ UNCHANGED <<sema, owner, at, lk, saved, out, old_status>>
      /\ intr /\ frame[current_task] = "none" /\ clock_service
  BY DEF Elsewhere, Outside, clock_service, Next
<1>2. PICK t \in Threads : t = current_task
  BY ConTypes
<1>3. ~out[t].trap
  BY <1>1, <1>2, NotTrapped
<1>4. /\ \A u \in Threads \ {Idle} : status'[u] = "BLOCKED" <=> status[u] = "BLOCKED"
      /\ frame' = [frame EXCEPT ![t] = "clock"] \/ UNCHANGED frame
  BY <1>1, <1>2, ClockBlocks, ConTypes
<1>5. \A u \in Threads : at[u] = "test" => (status'[u] = "BLOCKED" <=> status[u] = "BLOCKED")
  BY <1>4, ConTypes
<1>6. \A u \in Threads \ {t} : frame'[u] = frame[u] /\ old_status'[u] = old_status[u]
  BY <1>1, <1>4, ConTypes
<1> QED
  BY <1>1, <1>2, <1>3, <1>5, <1>6, SilentKeeps

(* ... cpu_idle() or a thread that waits for a disk blocks ...              *)
LEMMA BlockKeeps ==
  ASSUME ConInv, NEW t \in Threads, t = current_task, thread_block, [Next]_vars,
         UNCHANGED <<sema, owner, at, lk, saved, out>>, at[t] = "out", ~out[t].trap
  PROVE  ConInv'
<1>1. old_status' = [old_status EXCEPT ![t] = intr]
  BY DEF thread_block
<1>2. /\ \A u \in Threads \ {Idle} :
              status'[u] = "BLOCKED" <=> status[u] = "BLOCKED" \/ u = t
      /\ frame' = [frame EXCEPT ![t] = "block"]
  BY BlockBooks, ConTypes
<1>3. \A u \in Threads : at[u] = "test" => (status'[u] = "BLOCKED" <=> status[u] = "BLOCKED")
  BY <1>2, ConTypes
<1>4. \A u \in Threads \ {t} : frame'[u] = frame[u] /\ old_status'[u] = old_status[u]
  BY <1>1, <1>2, ConTypes
<1> QED
  BY <1>3, <1>4, SilentKeeps

(* ... the disk wakes a thread, main starts one or enables interrupts.      *)
LEMMA SchedulerKeeps ==
  ASSUME ConInv,
         \/ \E t \in Threads : Elsewhere(Resume(t))
         \/ Elsewhere(clock_service)
         \/ Elsewhere(cpu_idle)
         \/ \E t \in Threads \ {Idle} : WaitForDisk(t) \/ DiskInterrupt(t)
         \/ \E t \in Threads : Away(Main) /\ Elsewhere(thread_start(t))
         \/ Away(Main) /\ Elsewhere(local_irq_enable(Main))
  PROVE  ConInv'
<1>1. ASSUME Elsewhere(cpu_idle) PROVE ConInv'
  <2>1. /\ Idle = current_task /\ thread_block /\ [Next]_vars
        /\ UNCHANGED <<sema, owner, at, lk, saved, out>>
    BY <1>1, ThreadsAssumption DEF Elsewhere, Outside, cpu_idle, At, Next, Step
  <2>2. ~out[Idle].trap
    BY DEF ConInv
  <2> QED
    BY <2>1, <2>2, BlockKeeps, ConTypes
<1>2. ASSUME NEW t \in Threads \ {Idle}, WaitForDisk(t) PROVE ConInv'
  <2>1. /\ t = current_task /\ thread_block /\ [Next]_vars /\ at[t] = "out" /\ out[t].step = "none"
        /\ UNCHANGED <<sema, owner, at, lk, saved, out>>
    BY <1>2 DEF WaitForDisk, Away, Elsewhere, Outside, Block, At, Next, Call
  <2>2. ~out[t].trap
    BY <2>1, NotTrapped
  <2> QED
    BY <2>1, <2>2, BlockKeeps
<1>3. ASSUME NEW w \in Threads \ {Idle}, DiskInterrupt(w) PROVE ConInv'
  <2>1. /\ [Next]_vars /\ UNCHANGED <<sema, owner, at, lk, saved, out, old_status>>
        /\ intr /\ frame[current_task] = "none" /\ thread_unblock(w) /\ at[w] = "out"
        /\ status[w] = "BLOCKED"
    BY <1>3 DEF DiskInterrupt, Away, Elsewhere, Outside, DeviceInterrupt, Next
  <2>2. PICK t \in Threads : t = current_task
    BY ConTypes
  <2>3. ~out[t].trap
    BY <2>1, <2>2, NotTrapped
  <2>4. UNCHANGED frame /\ status' = [status EXCEPT ![w] = "READY"]
    BY <2>1, UnblockBooks, ConTypes
  <2>5. \A u \in Threads : at[u] = "test" => (status'[u] = "BLOCKED" <=> status[u] = "BLOCKED")
    BY <2>1, <2>4, ConTypes
  <2> QED
    BY <2>1, <2>2, <2>3, <2>4, <2>5, SilentKeeps
<1>4. ASSUME Away(Main), \/ \E t \in Threads : Elsewhere(thread_start(t))
                         \/ Elsewhere(local_irq_enable(Main))
      PROVE  ConInv'
  <2>1. /\ UNCHANGED <<sema, owner, at, lk, saved, out, old_status, frame>>
        /\ Main = current_task /\ out[Main].step = "none"
    BY <1>4 DEF Away, Elsewhere, Outside, thread_start, local_irq_enable, At, sched
  <2>2. ~out[Main].trap
    BY <2>1, NotTrapped, ConTypes
  <2>3. /\ [Next]_vars
        /\ \A t \in Threads \ {Idle} : status'[t] = "BLOCKED" <=> status[t] = "BLOCKED"
    BY <1>4, SchedulerBlocks, ConTypes DEF Elsewhere, Outside
  <2>4. \A u \in Threads : at[u] = "test" => (status'[u] = "BLOCKED" <=> status[u] = "BLOCKED")
    BY <2>3, ConTypes
  <2> QED
    BY <2>1, <2>2, <2>3, <2>4, ConTypes, SilentKeeps
<1> QED
  BY <1>1, <1>2, <1>3, <1>4, ResumeKeeps, ClockKeeps

(* int 0x80, and its iret.                                                  *)
LEMMA SyscallKeeps ==
  ASSUME ConInv, NEW t \in Threads \ {Idle},
         (\E s \in Strings : syscall_enter(t, s)) \/ syscall_exit(t)
  PROVE  ConInv'
<1>1. /\ t = current_task /\ frame[t] = "none" /\ UNCHANGED <<sema, owner, at, lk, saved>>
      /\ UNCHANGED <<frame, old_status, status, current_task>> /\ [Next]_vars
  BY DEF syscall_enter, syscall_exit, Outside, On, Running, At, local_irq_disable,
         local_irq_enable, sched, Next, Call, Step
<1>2. out[t] \in OutType /\ OutPhase(t)
  BY ConTypes DEF ConInv
<1>3. ASSUME NEW s \in Strings, syscall_enter(t, s) PROVE ConInv'
  <2> DEFINE o == [out[t] EXCEPT !.step = "write", !.rest = s, !.trap = TRUE]
  <2>1. out' = [out EXCEPT ![t] = o] /\ at[t] = "out" /\ ~intr'
    BY <1>3, ConTypes DEF syscall_enter, Outside, local_irq_disable
  <2>2. s \in Seq(Chars) /\ s # <<>>
    BY StringsAssumption
  <2>3. o \in OutType /\ o.step = "write" /\ o.rest = s
    BY <1>2, <2>2 DEF OutType, OutSteps
  <2> HIDE DEF o
  <2> QED
    BY <1>1, <2>1, <2>2, <2>3, ElsewhereKeeps
<1>4. ASSUME syscall_exit(t) PROVE ConInv'
  <2>1. out' = [out EXCEPT ![t] = Silent] /\ at[t] = "out"
    BY <1>2, <1>4 DEF syscall_exit, On, OutPhase
  <2>2. Silent \in OutType /\ Silent.step = "none" /\ ~Silent.trap
    BY DEF Silent, OutType, OutSteps
  <2> HIDE DEF Silent
  <2> QED
    BY <1>1, <2>1, <2>2, ElsewhereKeeps
<1> QED
  BY <1>3, <1>4

(* cpu_idle() prints, then halts.                                           *)
LEMMA IdleKeeps ==
  ASSUME ConInv, cpu_idle_print \/ cpu_idle_halt
  PROVE  ConInv'
<1>1. Idle = current_task /\ Idle \in Threads /\ at[Idle] = "out" /\ out[Idle] \in OutType
  BY ConTypes DEF cpu_idle_print, cpu_idle_halt, On, Running, At
<1>2. ASSUME cpu_idle_print PROVE ConInv'
  <2> DEFINE o == [out[Idle] EXCEPT !.step = "sel_rh", !.rest = IdleString]
  <2>1. out' = [out EXCEPT ![Idle] = o] /\ UNCHANGED syncVars
    BY <1>2, ConTypes DEF cpu_idle_print
  <2>2. IdleString \in Seq(Chars) /\ IdleString # <<>>
    BY StringsAssumption
  <2>3. /\ o \in OutType /\ o.step = "sel_rh" /\ o.rest = IdleString /\ o.trap = out[Idle].trap
        /\ o.step \in PutSteps
    BY <1>1, <2>2 DEF OutType, OutSteps, PutSteps, Selects
  <2> HIDE DEF o
  <2> QED
    BY <1>1, <2>1, <2>2, <2>3, PutKeeps
<1>3. ASSUME cpu_idle_halt PROVE ConInv'
  <2>1. /\ out' = [out EXCEPT ![Idle] = Silent] /\ [Next]_vars
        /\ UNCHANGED <<sema, owner, at, lk, saved, status, frame, old_status>>
    BY <1>1, <1>3 DEF cpu_idle_halt, Outside, cpu_halt, Next, Step, sched
  <2>2. Silent \in OutType /\ Silent.step = "none" /\ ~Silent.trap
    BY DEF Silent, OutType, OutSteps
  <2> HIDE DEF Silent
  <2> QED
    BY <1>1, <2>1, <2>2, ElsewhereKeeps
<1> QED
  BY <1>2, <1>3

(* The keyboard's handler changes nothing of threads, but the hlt of        *)
(* cpu_idle() ends.                                                         *)
LEMMA EchoKeeps ==
  ASSUME ConInv, NEW c \in Typed, key_echo(c), ~hung'
  PROVE  ConInv'
<1>1. ~faults(c, Cursor)
  BY DEF key_echo, ignore_intr_handler, debug_out
<1>2. /\ intr /\ frame[current_task] = "none" /\ ~hung /\ WakeCpu
      /\ UNCHANGED <<sched, intr, pid, next_pid, old_status, left, locks, out>>
  BY <1>1 DEF key_echo
<1>3. UNCHANGED <<sema, owner, at, lk, saved, status, frame>>
  BY <1>2 DEF locks, sched
<1>4. [Next]_vars
  <2>1. CASE current_task = Idle /\ pc[Idle] = "hlt"
    BY <1>2, <2>1 DEF Next, OtherInterrupt
  <2>2. CASE ~(current_task = Idle /\ pc[Idle] = "hlt")
    BY <1>2, <2>2 DEF WakeCpu, vars, sched
  <2> QED
    BY <2>1, <2>2
<1>5. PICK t \in Threads : t = current_task
  BY ConTypes
<1>6. ~out[t].trap
  BY <1>2, <1>5, NotTrapped
<1> QED
  BY <1>2, <1>3, <1>4, <1>5, <1>6, SilentKeeps

(* What a step in lock_acquire() or lock_release() does to interrupts and   *)
(* to the places where threads resume.                                      *)
LEMMA LockStepFrames ==
  ASSUME ConInv, NEW t \in Threads \ {Idle},
         (\E l \in Locks : lock_acquire(t, l)) \/ LockStep(t)
  PROVE  /\ t = current_task /\ frame[t] = "none"
         /\ \A u \in Threads \ {t} : /\ frame'[u] = frame[u] /\ old_status'[u] = old_status[u]
                                     /\ saved'[u] = saved[u]
         /\ ~intr /\ (at[t] = "test" => ~saved[t]) =>
              /\ \/ current_task' = t /\ frame'[t] = "none" /\ ~intr'
                 \/ at'[t] = "test" /\ frame'[t] = "block" /\ ~old_status'[t]
              /\ at'[t] = "test" => ~saved'[t]
<1>0. SyncInv
  BY DEF ConInv
<1>1. t = current_task /\ frame[t] = "none"
  BY DEF lock_acquire, LockStep, AcquireStep, sema_down_enter, sema_down_wait,
         sema_down_take, lock_acquire_hold, lock_acquire_count, lock_release,
         lock_release_count, sema_up, Goes, At
<1> DEFINE Others == \A u \in Threads \ {t} : /\ frame'[u] = frame[u] /\ old_status'[u] = old_status[u]
                                              /\ saved'[u] = saved[u]
           Own == ~intr /\ (at[t] = "test" => ~saved[t]) =>
                    /\ \/ current_task' = t /\ frame'[t] = "none" /\ ~intr'
                       \/ at'[t] = "test" /\ frame'[t] = "block" /\ ~old_status'[t]
                    /\ at'[t] = "test" => ~saved'[t]
<1>2. ASSUME UNCHANGED <<vars, saved>>, at'[t] = "test" => at[t] = "test" PROVE Others /\ Own
  BY <1>1, <1>2 DEF vars
<1>3. ASSUME NEW l \in Locks, lock_acquire(t, l) PROVE Others /\ Own
  <2>1. UNCHANGED <<vars, saved>> /\ (at' = [at EXCEPT ![t] = "down"] \/ UNCHANGED at)
    BY <1>3 DEF lock_acquire
  <2> QED
    BY <1>2, <2>1, ConTypes
<1>4. ASSUME sema_down_enter(t) PROVE Others /\ Own
  <2>1. /\ intr' = FALSE /\ UNCHANGED <<current_task, frame, old_status>>
        /\ saved' = [saved EXCEPT ![t] = intr]
    BY <1>4 DEF sema_down_enter, sched
  <2> QED
    BY <1>1, <2>1, ConTypes
<1>5. ASSUME sema_down_wait(t) PROVE Others /\ Own
  <2>1. SyncInv' /\ at[t] = "test" /\ UNCHANGED at
    BY <1>0, <1>5, WaitKeeps
  <2>2. ~hung'
    BY <2>1 DEF SyncInv, Inv, NoAssertFails
  <2>3. thread_block /\ UNCHANGED saved
    BY <1>5, <2>2 DEF sema_down_wait, Block, AssertFailed, debug_out
  <2>4. old_status' = [old_status EXCEPT ![t] = intr] /\ frame' = [frame EXCEPT ![t] = "block"]
    BY <1>1, <2>3, BlockBooks, ConTypes DEF thread_block
  <2> QED
    BY <2>1, <2>3, <2>4, ConTypes
<1>6. ASSUME sema_down_take(t) PROVE Others /\ Own
  <2>1. SyncInv' /\ at[t] = "test" /\ at' = [at EXCEPT ![t] = "got"] /\ value[lk[t]] = 1
    BY <1>0, <1>6, TakeKeeps
  <2>2. /\ intr' = saved[t] /\ saved' = [saved EXCEPT ![t] = FALSE]
        /\ UNCHANGED <<current_task, frame, old_status>>
    BY <1>6, <2>1 DEF sema_down_take, sched
  <2> QED
    BY <1>1, <2>1, <2>2, ConTypes
<1>7. ASSUME lock_acquire_hold(t) \/ lock_acquire_count(t) \/ lock_release(t) \/ lock_release_count(t)
      PROVE  Others /\ Own
  <2>1. UNCHANGED vars
    BY <1>0, <1>7, HoldKeeps, CountKeeps, ReleaseKeeps, UncountKeeps
  <2>2. UNCHANGED saved /\ at[t] # "test"
    BY <1>7 DEF lock_acquire_hold, lock_acquire_count, lock_release, lock_release_count,
                Goes, AssertFailed
  <2>3. at'[t] # "test"
    <3>1. \/ at' = [at EXCEPT ![t] = "own"] \/ at' = [at EXCEPT ![t] = "in"]
          \/ at' = [at EXCEPT ![t] = "rel"] \/ at' = [at EXCEPT ![t] = "up"] \/ UNCHANGED at
      BY <1>0, <1>7, HoldKeeps, CountKeeps, ReleaseKeeps, UncountKeeps
    <3> QED
      BY <2>2, <3>1, ConTypes
  <2> QED
    BY <1>2, <2>1, <2>2, <2>3
<1>8. ASSUME sema_up(t) PROVE Others /\ Own
  <2>1. /\ UNCHANGED <<saved, current_task, frame, intr>> /\ value[lk[t]] = 0
        /\ at' = [at EXCEPT ![t] = "out"]
    <3>1. /\ UNCHANGED <<saved, current_task, frame, intr>> /\ at[t] = "up"
          /\ at' = [at EXCEPT ![t] = "out"]
      BY <1>0, <1>8, UpKeeps
    <3>2. value[lk[t]] = 0
      BY <1>0, <3>1 DEF SyncInv, Exclusion, Holding
    <3> QED
      BY <3>1, <3>2
  <2>2. UNCHANGED old_status
    BY <1>8, <2>1 DEF sema_up, vars
  <2> QED
    BY <1>1, <2>1, <2>2, ConTypes
<1> HIDE DEF Others, Own
<1>9. Others /\ Own
  BY <1>3, <1>4, <1>5, <1>6, <1>7, <1>8 DEF LockStep, AcquireStep
<1> QED
  BY <1>1, <1>9 DEF Others, Own

(* A step in lock_acquire() or lock_release() that leaves the thread where  *)
(* it should be in put_str().                                               *)
LEMMA LockKeeps ==
  ASSUME ConInv, NEW t \in Threads \ {Idle},
         (\E l \in Locks : lock_acquire(t, l)) \/ LockStep(t),
         NEW o \in OutType, out' = [out EXCEPT ![t] = o], o.trap => out[t].trap,
         OutPhase(t)', RestRight(t)'
  PROVE  ConInv'
<1>1. SyncInv' /\ \A u \in Threads \ {t} : at'[u] = at[u] /\ nest'[u] = nest[u]
  BY LockStepKeeps DEF ConInv
<1>2. t = current_task /\ frame[t] = "none" /\ out'[t] = o
  BY LockStepFrames, ConTypes
<1>3. \A u \in Threads \ {t} : /\ frame'[u] = frame[u] /\ old_status'[u] = old_status[u]
                               /\ saved'[u] = saved[u]
  BY LockStepFrames
<1>4. TrapRight(t)'
  <2> SUFFICES ASSUME o.trap PROVE TrapRight(t)'
    BY <1>2 DEF TrapRight
  <2>1. ~intr /\ (at[t] = "test" => ~saved[t])
    <3>1. TrapRight(t)
      BY DEF ConInv
    <3> QED
      BY <1>2, <3>1 DEF TrapRight
  <2>2. /\ \/ current_task' = t /\ frame'[t] = "none" /\ ~intr'
           \/ at'[t] = "test" /\ frame'[t] = "block" /\ ~old_status'[t]
        /\ at'[t] = "test" => ~saved'[t]
    BY <2>1, LockStepFrames
  <2>3. at'[t] = "test" => o.step = "lock"
    <3>1. o.step \in PutSteps \union {"none", "write", "lock", "end", "iret"}
      BY DEF OutType, OutSteps
    <3> QED
      BY <1>2, <3>1 DEF OutPhase
  <2> QED
    BY <1>2, <2>2, <2>3 DEF TrapRight
<1> QED
  BY <1>1, <1>2, <1>3, <1>4, CurrentKeeps

(* A thread asks for console_lock.                                          *)
LEMMA AskKeeps ==
  ASSUME ConInv, NEW t \in Threads \ {Idle},
         (\E s \in Strings : console_str(t, s)) \/ sys_write(t)
  PROVE  ConInv'
<1>1. /\ lock_acquire(t, console_lock) /\ at[t] = "out" /\ out[t] \in OutType
      /\ console_lock \in Locks
  BY ConTypes, ConsoleAssumption DEF ConInv, console_str, sys_write, On, OutPhase
<1>2. holder[console_lock] # t
  BY <1>1 DEF ConInv, SyncInv, HolderRight
<1>3. at'[t] = "down"
  BY <1>1, <1>2, ConTypes DEF lock_acquire
<1>4. \E s \in Seq(Chars) \ {<<>>} :
        out' = [out EXCEPT ![t] = [out[t] EXCEPT !.step = "lock", !.rest = s]]
  <2>1. ASSUME NEW s \in Strings, console_str(t, s)
        PROVE  \E r \in Seq(Chars) \ {<<>>} :
                 out' = [out EXCEPT ![t] = [out[t] EXCEPT !.step = "lock", !.rest = r]]
    <3>1. s \in Seq(Chars) \ {<<>>}
      BY StringsAssumption
    <3>2. out' = [out EXCEPT ![t] = [out[t] EXCEPT !.step = "lock", !.rest = s]]
      BY <2>1, ConTypes DEF console_str
    <3> QED
      BY <3>1, <3>2
  <2>2. ASSUME sys_write(t)
        PROVE  \E r \in Seq(Chars) \ {<<>>} :
                 out' = [out EXCEPT ![t] = [out[t] EXCEPT !.step = "lock", !.rest = r]]
    <3>1. out[t].step = "write" /\ RestRight(t) /\ out[t].rest \in Seq(Chars)
      BY <1>1, <2>2 DEF sys_write, On, ConInv, OutType
    <3>2. out[t].rest # <<>>
      BY <3>1 DEF RestRight
    <3>3. [out[t] EXCEPT !.step = "lock", !.rest = out[t].rest] = [out[t] EXCEPT !.step = "lock"]
      BY <1>1 DEF OutType
    <3>4. out' = [out EXCEPT ![t] = [out[t] EXCEPT !.step = "lock"]]
      BY <2>2, ConTypes DEF sys_write
    <3> QED
      BY <3>1, <3>2, <3>3, <3>4
  <2> QED
    BY <2>1, <2>2
<1>5. PICK s \in Seq(Chars) \ {<<>>} :
        out' = [out EXCEPT ![t] = [out[t] EXCEPT !.step = "lock", !.rest = s]]
  BY <1>4
<1> DEFINE o == [out[t] EXCEPT !.step = "lock", !.rest = s]
<1>6. o \in OutType /\ o.step = "lock" /\ o.rest = s /\ o.trap = out[t].trap
  BY <1>1 DEF OutType, OutSteps
<1>7. out' = [out EXCEPT ![t] = o] /\ out'[t] = o
  BY <1>5, ConTypes
<1> HIDE DEF o
<1>8. OutPhase(t)' /\ RestRight(t)'
  BY <1>3, <1>6, <1>7 DEF OutPhase, RestRight, PutSteps, Selects, Reads, Writes
<1> QED
  BY <1>1, <1>6, <1>7, <1>8, LockKeeps

(* It comes to have it.                                                     *)
LEMMA AcquireStepKeeps ==
  ASSUME ConInv, NEW t \in Threads \ {Idle}, console_acquire(t)
  PROVE  ConInv'
<1>1. /\ out[t].step = "lock" /\ AcquireStep(t) /\ out[t] \in OutType /\ OutPhase(t) /\ RestRight(t)
      /\ out' = IF at'[t] = "in" THEN [out EXCEPT ![t].step = "sel_rh"] ELSE out
  BY ConTypes DEF ConInv, console_acquire
<1>2. \/ at'[t] \in {"test", "got", "own"}
      \/ at'[t] = "in" /\ nest'[t] = 1
  BY <1>1, ConTypes, EnterKeeps, WaitKeeps, TakeKeeps, HoldKeeps, CountKeeps
     DEF ConInv, AcquireStep, sema_down_enter, Goes
<1>3. CASE at'[t] # "in"
  <2>1. out' = [out EXCEPT ![t] = out[t]] /\ out'[t] = out[t]
    BY <1>1, <1>3, ConTypes
  <2>2. OutPhase(t)' /\ RestRight(t)'
    BY <1>1, <1>2, <1>3, <2>1 DEF OutPhase, RestRight, PutSteps, Selects, Reads, Writes
  <2> QED
    BY <1>1, <2>1, <2>2, LockKeeps DEF LockStep
<1>4. CASE at'[t] = "in"
  <2> DEFINE o == [out[t] EXCEPT !.step = "sel_rh"]
  <2>1. o \in OutType /\ o.step = "sel_rh" /\ o.rest = out[t].rest /\ o.trap = out[t].trap
    BY <1>1 DEF OutType, OutSteps, PutSteps, Selects
  <2>2. out' = [out EXCEPT ![t] = o] /\ out'[t] = o
    BY <1>1, <1>4, ConTypes
  <2> HIDE DEF o
  <2>3. OutPhase(t)' /\ RestRight(t)'
    BY <1>1, <1>2, <1>4, <2>1, <2>2 DEF OutPhase, RestRight, PutSteps, Selects, Reads, Writes
  <2> QED
    BY <1>1, <2>1, <2>2, <2>3, LockKeeps DEF LockStep
<1> QED
  BY <1>3, <1>4

(* It gives the lock back.                                                  *)
LEMMA ReleaseStepKeeps ==
  ASSUME ConInv, NEW t \in Threads \ {Idle}, console_release(t)
  PROVE  ConInv'
<1>1. /\ out[t].step = "end" /\ (lock_release(t) \/ lock_release_count(t) \/ sema_up(t))
      /\ out[t] \in OutType /\ OutPhase(t) /\ RestRight(t)
      /\ out' = IF at'[t] # "out" THEN out
                ELSE [out EXCEPT ![t] = IF @.trap THEN [@ EXCEPT !.step = "iret"] ELSE Silent]
  BY ConTypes DEF ConInv, console_release
<1>2. at'[t] \in {"rel", "up", "out"}
  <2>1. at[t] = "in" => nest[t] = 1
    BY <1>1 DEF OutPhase
  <2> QED
    BY <1>1, <2>1, ConTypes, ReleaseKeeps, UncountKeeps, UpKeeps DEF ConInv
<1>3. LockStep(t)
  BY <1>1 DEF LockStep
<1>4. CASE at'[t] # "out"
  <2>1. out' = [out EXCEPT ![t] = out[t]] /\ out'[t] = out[t]
    BY <1>1, <1>4, ConTypes
  <2>2. OutPhase(t)' /\ RestRight(t)'
    BY <1>1, <1>2, <1>4, <2>1 DEF OutPhase, RestRight, PutSteps, Selects, Reads, Writes
  <2> QED
    BY <1>1, <1>3, <2>1, <2>2, LockKeeps
<1>5. CASE at'[t] = "out"
  <2> DEFINE o == IF out[t].trap THEN [out[t] EXCEPT !.step = "iret"] ELSE Silent
  <2>1. /\ o \in OutType /\ (o.trap => out[t].trap) /\ o.step \in {"iret", "none"}
        /\ o.step = "none" => ~o.trap
    BY <1>1 DEF OutType, OutSteps, Silent
  <2>2. out' = [out EXCEPT ![t] = o] /\ out'[t] = o
    BY <1>1, <1>5, ConTypes
  <2> HIDE DEF o
  <2>3. OutPhase(t)' /\ RestRight(t)'
    BY <1>5, <2>1, <2>2 DEF OutPhase, RestRight, PutSteps, Selects, Reads, Writes
  <2> QED
    BY <1>1, <1>3, <2>1, <2>2, <2>3, LockKeeps
<1> QED
  BY <1>4, <1>5

-----------------------------------------------------------------------------
(* The largest high half of a cursor on the screen, and the largest cursor  *)
(* that can be put together with it.                                        *)
HIGH == (CELLS - 1) \div BYTE
TOP == HIGH * BYTE + BYTE - 1

(* Products of natural numbers.                                             *)
LEMMA Products ==
  ASSUME NEW a \in Nat, NEW b \in Nat, NEW c \in Nat
  PROVE  /\ a * c \in Nat /\ b * c \in Nat
         /\ (a + 1) * c = a * c + c
         /\ a <= b => a * c <= b * c
         /\ a < b => a * c + c <= b * c
<1>1. a * c \in Nat /\ b * c \in Nat
  BY SMTT(30)
<1>2. (a + 1) * c = a * c + c
  BY SMTT(30)
<1>3. a <= b => a * c <= b * c
  BY SMTT(30)
<1>4. a + 1 <= b => (a + 1) * c <= b * c
  BY SMTT(30)
<1> QED
  BY <1>1, <1>2, <1>3, <1>4

(* Quotient and remainder.                                                  *)
LEMMA Divide ==
  ASSUME NEW n \in Nat, NEW b \in Nat \ {0}
  PROVE  /\ n \div b \in Nat /\ n % b \in 0..(b - 1)
         /\ (n \div b) * b \in Nat
         /\ (n \div b) * b + (n % b) = n
<1>1. n = (n \div b) * b + (n % b) /\ n \div b \in Nat /\ n % b \in 0..(b - 1)
  BY SMTT(30)
<1>2. (n \div b) * b \in Nat
  BY <1>1, Products
<1> QED
  BY <1>1, <1>2

(* Quotients are monotone.                                                  *)
LEMMA DivideMonotone ==
  ASSUME NEW q \in Nat, NEW b \in Nat \ {0}, NEW n \in Nat
  PROVE  /\ n < q * b + b => n \div b <= q
         /\ n >= q * b => n \div b >= q
<1> DEFINE d == n \div b
<1>1. d \in Nat /\ n % b \in 0..(b - 1) /\ d * b + (n % b) = n /\ d * b \in Nat
  BY Divide
<1> HIDE DEF d
<1>2. q * b \in Nat /\ (q < d => q * b + b <= d * b) /\ (d < q => d * b + b <= q * b)
  BY <1>1, Products
<1>3. (n < q * b + b => d <= q) /\ (n >= q * b => d >= q)
  BY <1>1, <1>2
<1> QED
  BY <1>3 DEF d

(* A number determines its quotient and remainder.                          *)
LEMMA DivideUnique ==
  ASSUME NEW q \in Nat, NEW b \in Nat \ {0}, NEW r \in 0..(b - 1)
  PROVE  (q * b + r) \div b = q /\ (q * b + r) % b = r
<1> DEFINE n == q * b + r
<1>1. q * b \in Nat /\ n \in Nat
  BY Products
<1>2. n \div b <= q /\ n \div b >= q
  <2>1. n < q * b + b /\ n >= q * b
    BY <1>1
  <2> HIDE DEF n
  <2> QED
    BY <1>1, <2>1, DivideMonotone
<1>3. n \div b \in Nat /\ (n \div b) * b + (n % b) = n /\ n % b \in 0..(b - 1)
  <2> HIDE DEF n
  <2> QED
    BY <1>1, Divide
<1>4. n \div b = q
  BY <1>2, <1>3
<1> QED
  BY <1>1, <1>3, <1>4

(* What the sizes of screen, registers and segment amount to.               *)
LEMMA Sizes ==
  /\ CELLS \in Nat /\ COLS \in Nat \ {0} /\ COLS <= CELLS /\ ROWS \in Nat \ {0}
  /\ CELLS - COLS = (ROWS - 1) * COLS /\ CELLS = ROWS * COLS /\ (ROWS - 1) * COLS \in Nat
  /\ BYTE \in Nat \ {0} /\ HIGH \in Nat /\ TOP \in Nat /\ CELLS - 1 <= TOP /\ TOP < LIMIT
  /\ LIMIT \in Nat /\ REG \in Nat /\ REG \div 2 \in Nat /\ LIMIT + COLS < REG \div 2
  /\ REG = 2 * (REG \div 2) /\ REG \div 2 < REG
<1>1. ROWS \in Nat \ {0} /\ COLS \in Nat \ {0} /\ BYTE \in Nat \ {0} /\ LIMIT \in Nat
  BY ScreenAssumption
<1>2. (ROWS - 1) * COLS \in Nat /\ ROWS * COLS = (ROWS - 1) * COLS + COLS
  <2>1. ROWS - 1 \in Nat /\ (ROWS - 1) + 1 = ROWS
    BY <1>1
  <2>2. \A a \in Nat : a * COLS \in Nat /\ (a + 1) * COLS = a * COLS + COLS
    BY <1>1, Products
  <2> QED
    BY <2>1, <2>2
<1>3. /\ CELLS \in Nat /\ COLS <= CELLS /\ CELLS - 1 \in Nat /\ CELLS = ROWS * COLS
      /\ CELLS - COLS = (ROWS - 1) * COLS
  BY <1>1, <1>2 DEF CELLS
<1>4. /\ HIGH \in Nat /\ HIGH * BYTE \in Nat
      /\ (CELLS - 1) % BYTE <= BYTE - 1 /\ (CELLS - 1) % BYTE \in Nat
      /\ HIGH * BYTE + ((CELLS - 1) % BYTE) = CELLS - 1
  <2>1. \A n \in Nat : /\ n \div BYTE \in Nat /\ (n \div BYTE) * BYTE \in Nat
                       /\ n % BYTE \in 0..(BYTE - 1)
                       /\ (n \div BYTE) * BYTE + (n % BYTE) = n
    BY <1>1, Divide
  <2> QED
    BY <1>1, <1>3, <2>1 DEF HIGH
<1>5. (HIGH + 1) * BYTE = HIGH * BYTE + BYTE
  BY <1>1, <1>4, Products
<1>6. HIGH * BYTE + BYTE <= LIMIT
  BY <1>5, ScreenAssumption DEF HIGH
<1>7. TOP \in Nat /\ CELLS - 1 <= TOP /\ TOP < LIMIT
  BY <1>1, <1>3, <1>4, <1>6 DEF TOP
<1>8. REG \in Nat
  BY <1>1, Products DEF REG
<1>9. REG \div 2 \in Nat /\ REG = 2 * (REG \div 2) + (REG % 2)
  BY <1>8
<1>10. REG % 2 = 0 /\ LIMIT + COLS < REG \div 2
  BY ScreenAssumption
<1> QED
  BY <1>1, <1>2, <1>3, <1>4, <1>7, <1>8, <1>9, <1>10

(* Where put_char() stores a character: at the cursor, or before it; and a  *)
(* backspace at the start of the screen is outside the video segment.       *)
LEMMA Targets ==
  ASSUME NEW p \in Nat, p <= LIMIT
  PROVE  /\ target("c", p) = p
         /\ p > 0 => target("b", p) = p - 1
         /\ p = 0 => target("b", p) >= LIMIT
<1> DEFINE K == REG \div 2
<1>1. K \in Nat \ {0} /\ REG = 2 * K /\ REG \in Nat \ {0} /\ LIMIT \in Nat /\ LIMIT < K /\ K < REG
      /\ LIMIT + 1 < K
  BY Sizes
<1> HIDE DEF K
<1>2. \A x \in Nat : x < K => x % K = x
  BY <1>1
<1>3. target("c", p) = p
  BY <1>1, <1>2 DEF target, K
<1>4. ASSUME p > 0 PROVE target("b", p) = p - 1
  <2>1. p - 1 \in 0..(REG - 1) /\ 1 * REG + (p - 1) = p + REG - 1
    BY <1>1, <1>4
  <2>2. (1 * REG + (p - 1)) % REG = p - 1
    BY <1>1, <2>1, DivideUnique
  <2>3. (p + REG - 1) % REG = p - 1 /\ p - 1 \in Nat /\ p - 1 < K
    BY <1>1, <1>4, <2>1, <2>2
  <2> QED
    BY <1>2, <2>3 DEF target, K
<1>5. ASSUME p = 0 PROVE target("b", p) >= LIMIT
  <2>1. p + REG - 1 = REG - 1 /\ REG - 1 \in 0..(REG - 1) /\ 0 * REG + (REG - 1) = REG - 1
    BY <1>1, <1>5
  <2>2. (p + REG - 1) % REG = REG - 1
    BY <1>1, <2>1, DivideUnique
  <2>3. K - 1 \in 0..(K - 1) /\ 1 * K + (K - 1) = REG - 1
    BY <1>1
  <2>4. (REG - 1) % K = K - 1
    BY <1>1, <2>3, DivideUnique
  <2> QED
    BY <1>1, <2>2, <2>4 DEF target, K
<1> QED
  BY <1>3, <1>4, <1>5

(* new_line() goes to the start of the next line, or rolls.                 *)
LEMMA NewLines ==
  ASSUME NEW p \in Nat, p <= LIMIT
  PROVE  LET s == (p \div COLS) * COLS + COLS
         IN  /\ new_line(p) = IF s < CELLS THEN s ELSE CELLS - COLS
             /\ s = p - (p % COLS) + COLS /\ (p \div COLS) * COLS <= p /\ s \in Nat
<1> DEFINE s == (p \div COLS) * COLS + COLS
<1>1. /\ (p \div COLS) * COLS \in Nat /\ p % COLS \in 0..(COLS - 1)
      /\ (p \div COLS) * COLS + (p % COLS) = p
  BY Divide, Sizes
<1>2. s = p - (p % COLS) + COLS /\ (p \div COLS) * COLS <= p /\ s \in Nat /\ s <= LIMIT + COLS
  BY <1>1, Sizes
<1> HIDE DEF s
<1>3. s < REG \div 2 /\ s < REG /\ s % REG = s
  BY <1>2, Sizes
<1>4. new_line(p) = IF s < CELLS THEN s ELSE CELLS - COLS
  BY <1>2, <1>3, Sizes DEF new_line
<1> QED
  BY <1>2, <1>4 DEF s

(* A cursor within the segment stays there.                                 *)
LEMMA MoveBound ==
  ASSUME NEW c \in Chars, NEW p \in 0..TOP, ~(c = "b" /\ p = 0)
  PROVE  move(c, p) \in 0..TOP /\ ~faults(c, p)
<1>1. /\ p \in Nat /\ p + 1 \in Nat /\ p <= LIMIT /\ p + 1 <= LIMIT /\ p < LIMIT
      /\ CELLS \in Nat /\ COLS \in Nat \ {0} /\ COLS <= CELLS /\ CELLS - 1 <= TOP /\ TOP \in Nat
  BY Sizes
<1>2. ASSUME NEW n \in Nat, n <= LIMIT PROVE new_line(n) \in 0..TOP
  <2> DEFINE s == (n \div COLS) * COLS + COLS
  <2>1. new_line(n) = (IF s < CELLS THEN s ELSE CELLS - COLS) /\ s \in Nat
    BY <1>2, NewLines
  <2> HIDE DEF s
  <2> QED
    BY <1>1, <2>1
<1>3. CASE c = "b"
  <2>1. target("b", p) = p - 1 /\ p - 1 \in 0..TOP
    BY <1>1, <1>3, Targets
  <2> QED
    BY <1>1, <1>3, <2>1, Sizes DEF move, faults
<1>4. CASE c = "n"
  BY <1>1, <1>2, <1>4 DEF move, faults
<1>5. CASE c = "c"
  <2>1. target("c", p) = p
    BY <1>1, Targets
  <2> QED
    BY <1>1, <1>2, <1>5, <2>1, Sizes DEF move, faults
<1>6. CASE c = "0"
  BY <1>6 DEF move, faults
<1> QED
  BY <1>3, <1>4, <1>5, <1>6 DEF Chars

(* What Terminal lets a character do to a cursor.                           *)
Moved(p, q) ==
  \/ q = IF p + 1 = CELLS THEN CELLS - COLS ELSE p + 1
  \/ q = IF p >= CELLS - COLS THEN CELLS - COLS ELSE p - (p % COLS) + COLS
  \/ p > 0 /\ q = p - 1

(* On the screen, that is what put_char() does.                             *)
LEMMA MoveTerminal ==
  ASSUME NEW c \in Chars \ {"0"}, NEW p \in 0..(CELLS - 1), ~faults(c, p)
  PROVE  move(c, p) \in 0..(CELLS - 1) /\ Moved(p, move(c, p))
<1> USE DEF Moved
<1> DEFINE Last == CELLS - COLS
           m == move(c, p)
<1>1. /\ p \in Nat /\ p + 1 \in Nat /\ p <= LIMIT /\ p + 1 <= LIMIT /\ p < LIMIT
      /\ CELLS \in Nat /\ COLS \in Nat \ {0} /\ COLS <= CELLS /\ CELLS - 1 <= TOP /\ TOP \in Nat
      /\ CELLS \in Nat \ {0} /\ CELLS <= LIMIT
  BY Sizes
<1>2. CASE c = "b"
  <2>1. p > 0
    BY <1>1, <1>2, Targets DEF faults
  <2>2. m = p - 1
    BY <1>1, <1>2, <2>1, Targets DEF move
  <2> QED
    BY <1>1, <2>1, <2>2
<1>3. CASE c = "n"
  <2> DEFINE s == (p \div COLS) * COLS + COLS
             q == (p \div COLS) * COLS
  <2>1. /\ m = IF s < CELLS THEN s ELSE Last
        /\ s = p - (p % COLS) + COLS /\ s = q + COLS /\ q <= p /\ s \in Nat
    BY <1>1, <1>3, NewLines DEF move
  <2>2. p >= Last => s >= CELLS
    <3> SUFFICES ASSUME p >= Last PROVE s >= CELLS
      OBVIOUS
    <3>1. Last = (ROWS - 1) * COLS /\ ROWS - 1 \in Nat /\ Last + COLS = CELLS /\ Last \in Nat
      BY Sizes
    <3>2. p \div COLS >= ROWS - 1 /\ p \div COLS \in Nat
      BY <1>1, <3>1, DivideMonotone, Divide
    <3>3. (ROWS - 1) * COLS <= (p \div COLS) * COLS
      BY <1>1, <3>1, <3>2, Products
    <3>4. q \in Nat /\ Last <= q
      BY <3>1, <3>3, <1>1, Divide
    <3> HIDE DEF Last, q, s
    <3> QED
      BY <3>1, <3>4, <2>1, <1>1
  <2>3. p < Last => s < CELLS
    <3> HIDE DEF q, s
    <3> QED
      BY <1>1, <2>1
  <2> HIDE DEF s, q
  <2>4. m = IF p >= Last THEN Last ELSE p - (p % COLS) + COLS
    <3>1. Last \in Nat
      BY <1>1
    <3> HIDE DEF m, Last
    <3> QED
      BY <1>1, <2>1, <2>2, <2>3, <3>1
  <2>5. m \in 0..(CELLS - 1)
    <3>1. Last \in 0..(CELLS - 1)
      BY <1>1
    <3> HIDE DEF m, Last
    <3> QED
      BY <1>1, <2>1, <3>1
  <2> QED
    BY <2>4, <2>5
<1>4. CASE c = "c"
  <2>1. target("c", p) = p
    BY <1>1, Targets
  <2>2. CASE p + 1 < CELLS
    <3>1. m = p + 1
      BY <1>4, <2>1, <2>2 DEF move
    <3> QED
      BY <1>1, <2>2, <3>1
  <2>3. CASE p + 1 = CELLS
    <3>1. m = new_line(CELLS)
      BY <1>1, <1>4, <2>1, <2>3 DEF move
    <3>2. CELLS \div COLS = ROWS
      <4>1. 0 \in 0..(COLS - 1) /\ ROWS * COLS + 0 = CELLS
        BY Sizes
      <4> QED
        BY <4>1, Sizes, DivideUnique
    <3>3. m = Last
      <4> DEFINE s == (CELLS \div COLS) * COLS + COLS
      <4>1. new_line(CELLS) = (IF s < CELLS THEN s ELSE CELLS - COLS) /\ s = CELLS + COLS
        BY <1>1, <3>2, NewLines, Sizes
      <4> HIDE DEF s
      <4> QED
        BY <1>1, <3>1, <4>1
    <3> QED
      BY <1>1, <2>3, <3>3
  <2> QED
    BY <1>1, <2>2, <2>3
<1> QED
  BY <1>2, <1>3, <1>4 DEF Chars

(* Where a character moves the cursor is a position, however far down.      *)
LEMMA MoveNat ==
  ASSUME NEW c \in Chars, NEW p \in Nat
  PROVE  move(c, p) \in Nat
<1>1. /\ REG \in Nat \ {0} /\ REG \div 2 \in Nat \ {0} /\ COLS \in Nat \ {0} /\ CELLS \in Nat
      /\ COLS <= CELLS
  BY Sizes
<1>2. \A n \in Nat, b \in Nat \ {0} : n % b \in Nat
  BY Divide
<1>3. ASSUME NEW n \in Nat PROVE new_line(n) \in Nat
  <2>1. n % COLS \in Nat /\ n - (n % COLS) \in Nat
    <3>1. /\ (n \div COLS) * COLS \in Nat /\ n % COLS \in 0..(COLS - 1)
          /\ (n \div COLS) * COLS + (n % COLS) = n
      BY <1>1, Divide
    <3> QED
      BY <1>1, <3>1
  <2>2. n - (n % COLS) + COLS \in Nat
    BY <1>1, <2>1
  <2>3. (n - (n % COLS) + COLS) % REG \in Nat
    BY <1>1, <1>2, <2>2
  <2> QED
    BY <1>1, <2>3 DEF new_line
<1>4. target(c, p) \in Nat
  <2>1. p + REG - 1 \in Nat
    BY <1>1
  <2> QED
    BY <1>1, <1>2, <2>1 DEF target
<1> QED
  BY <1>1, <1>3, <1>4 DEF move, Chars

-----------------------------------------------------------------------------
CrtcType == /\ crtc \in [index : {"hi", "lo"}, hi : Nat, lo : Nat]
            /\ harm \in {"none", "torn", "split"}

(* What comes after an access.                                              *)
LEMMA ThenSteps ==
  /\ \A p \in Selects \union Reads : Then[p] \in PutSteps
  /\ Then["sel_rh"] = "rd_h" /\ Then["rd_h"] = "sel_rl" /\ Then["sel_rl"] = "rd_l"
  /\ Then["rd_l"] = "store" /\ Then["sel_wh"] = "wr_h" /\ Then["wr_h"] = "sel_wl"
  /\ Then["sel_wl"] = "wr_l"
BY DEF Then, PutSteps, Selects, Reads, Writes

(* The next character, or the end of the string.                            *)
LEMMA NextChar ==
  ASSUME NEW o \in OutType, o.rest # <<>>
  PROVE  /\ next_char(o) \in OutType /\ next_char(o).trap = o.trap
         /\ next_char(o).step \in {"sel_rh", "end"}
         /\ next_char(o).step = "sel_rh" => next_char(o).rest # <<>>
<1>1. o.rest \in Seq(Chars)
  BY DEF OutType
<1>2. Tail(o.rest) \in Seq(Chars) /\ Len(Tail(o.rest)) = Len(o.rest) - 1 /\ Len(o.rest) \in Nat
  BY <1>1
<1> DEFINE r == Tail(o.rest)
           s == IF Len(o.rest) > 1 THEN "sel_rh" ELSE "end"
<1>3. next_char(o) = [o EXCEPT !.bx = 0, !.rest = r, !.step = s]
  BY DEF next_char
<1>4. s = "sel_rh" => r # <<>>
  <2>1. Len(<<>>) = 0
    OBVIOUS
  <2>2. s = "sel_rh" => Len(o.rest) > 1
    OBVIOUS
  <2> DEFINE k == Len(o.rest)
  <2>3. Len(r) = k - 1 /\ k \in Nat /\ (s = "sel_rh" => k > 1)
    BY <1>2, <2>2, Zenon
  <2> HIDE DEF r, s, k
  <2>4. s = "sel_rh" => Len(r) # 0
    BY <2>3
  <2> QED
    BY <2>1, <2>4, Zenon
<1>5. s \in {"sel_rh", "end"} /\ s \in OutSteps /\ r \in Seq(Chars)
  BY <1>2 DEF OutSteps, PutSteps, Selects
<1> HIDE DEF r, s
<1> DEFINE n == next_char(o)
<1>6. n = [o EXCEPT !.bx = 0, !.rest = r, !.step = s]
  BY <1>3
<1> HIDE DEF n
<1>7. n \in OutType
  BY <1>5, <1>6 DEF OutType
<1>8. n.trap = o.trap
  BY <1>6 DEF OutType
<1>9. n.step = s /\ n.rest = r
  BY <1>6 DEF OutType
<1> QED
  BY <1>4, <1>5, <1>7, <1>8, <1>9, Zenon DEF n

(* What every access has in common.                                         *)
LEMMA PrintsMeans ==
  ASSUME ConInv, CrtcType, NEW t \in Threads, NEW o \in OutType, Prints(t, o)
  PROVE  /\ t = current_task /\ UNCHANGED <<locks, puts>> /\ ~hung
         /\ out' = [out EXCEPT ![t] = o] /\ out'[t] = o
         /\ \A u \in Threads \ {t} : out'[u] = out[u]
         /\ harm' \in {"none", "torn", "split"}
         /\ harm' # "split" =>
              /\ harm # "split"
              /\ out[t].step \in Reads \union Writes => crtc.index = Half(out[t].step)
         /\ harm' = "none" => harm = "none" /\ \A u \in Threads \ {t} : ~MidChar(u)
         /\ harm # "none" => harm' # "none"
<1>1. /\ t = current_task /\ UNCHANGED <<locks, puts>> /\ ~hung /\ out' = [out EXCEPT ![t] = o]
  BY DEF Prints, Running, At
<1>2. out'[t] = o /\ \A u \in Threads \ {t} : out'[u] = out[u]
  BY <1>1, ConTypes
<1>3. harm' = IF out[t].step \in Reads \union Writes /\ crtc.index # Half(out[t].step) THEN "split"
              ELSE IF harm = "none" /\ \E u \in Threads \ {t} : MidChar(u) THEN "torn"
              ELSE harm
  BY DEF Prints
<1>4. CASE out[t].step \in Reads \union Writes /\ crtc.index # Half(out[t].step)
  <2>1. harm' = "split"
    BY <1>3, <1>4
  <2> QED
    BY <1>1, <1>2, <2>1
<1>5. CASE ~(out[t].step \in Reads \union Writes /\ crtc.index # Half(out[t].step))
  <2>1. CASE harm = "none" /\ \E u \in Threads \ {t} : MidChar(u)
    <3>1. harm' = "torn"
      BY <1>3, <1>5, <2>1
    <3> QED
      BY <1>1, <1>2, <1>5, <2>1, <3>1
  <2>2. CASE ~(harm = "none" /\ \E u \in Threads \ {t} : MidChar(u))
    <3>1. harm' = harm
      BY <1>3, <1>5, <2>2
    <3> QED
      BY <1>1, <1>2, <1>5, <2>2, <3>1 DEF CrtcType
  <2> QED
    BY <2>1, <2>2
<1> QED
  BY <1>4, <1>5

-----------------------------------------------------------------------------
(* The steps of put_char() after the character is stored.                   *)
Later == Writes \union {"sel_wh", "sel_wl"}

(* As long as nobody took one register for the other, the registers and the *)
(* copies that threads have of them are within bounds, stale or not.        *)
BxWithin(t) ==
  /\ out[t].step \in {"sel_rl", "rd_l"} => \E h \in 0..HIGH : out[t].bx = h * BYTE
  /\ out[t].step \in {"store"} \union Later => out[t].bx \in 0..TOP

Within ==
  harm # "split" => /\ crtc.hi \in 0..HIGH /\ crtc.lo \in 0..(BYTE - 1)
                    /\ \A t \in Threads : BxWithin(t)

(* As long as characters were put one at a time, the copies are right, and  *)
(* the cursor is on the screen, or will be when the character is through.   *)
BxAgrees(t) ==
  /\ out[t].step \in Reads \union Writes => crtc.index = Half(out[t].step)
  /\ out[t].step \in {"sel_rl", "rd_l"} => out[t].bx = crtc.hi * BYTE
  /\ out[t].step = "store" => out[t].bx = Cursor
  /\ out[t].step \in Later => out[t].bx \in 0..(CELLS - 1)
  /\ out[t].step \in {"sel_wl", "wr_l"} => crtc.hi = out[t].bx \div BYTE

Agreed ==
  harm = "none" =>
    /\ \A t, u \in Threads : MidChar(t) /\ MidChar(u) => t = u
    /\ \A t \in Threads : BxAgrees(t)
    /\ (\A t \in Threads : out[t].step \notin Later) => Cursor \in 0..(CELLS - 1)

DataInv == CrtcType /\ Within /\ Agreed

(* Where a thread is that is not in the midst of a character.               *)
LEMMA NotMid ==
  ASSUME NEW t \in Threads, ~MidChar(t)
  PROVE  BxWithin(t) /\ BxAgrees(t) /\ out[t].step \notin Later
BY DEF MidChar, BxWithin, BxAgrees, Later, Selects, Reads, Writes

(* The same after a step.                                                   *)
LEMMA NotMidNext ==
  ASSUME NEW t \in Threads, ~MidChar(t)'
  PROVE  BxWithin(t)' /\ BxAgrees(t)' /\ out'[t].step \notin Later
BY DEF MidChar, BxWithin, BxAgrees, Later, Selects, Reads, Writes

(* While characters are put one at a time, at most one thread counts.       *)
LEMMA OneMid ==
  ASSUME Agreed, harm = "none"
  PROVE  \E t \in Threads : \A u \in Threads \ {t} : ~MidChar(u)
<1>1. CASE \E t \in Threads : MidChar(t)
  BY <1>1 DEF Agreed
<1>2. CASE ~\E t \in Threads : MidChar(t)
  BY <1>2, ThreadsAssumption
<1> QED
  BY <1>1, <1>2

(* The cursor that is to be shown is where the only character in progress   *)
(* has it.                                                                  *)
LEMMA ShownIs ==
  ASSUME NEW t \in Threads, ~hung, harm = "none", \A u \in Threads \ {t} : ~MidChar(u)
  PROVE  Shown = IF out[t].step \in Later THEN out[t].bx ELSE Cursor
<1>1. \A u \in Threads : out[u].step \in Later => MidChar(u)
  BY DEF MidChar, Later, Selects
<1>2. CASE out[t].step \in Later
  <2>1. t = CHOOSE u \in Threads : out[u].step \in Later
    BY <1>1, <1>2
  <2> QED
    BY <1>1, <1>2, <2>1 DEF Shown, Later
<1>3. CASE out[t].step \notin Later
  <2>1. \A u \in Threads : out[u].step \notin Later
    BY <1>1, <1>3
  <2>2. Shown = Cursor
    BY <2>1 DEF Shown, Later
  <2> QED
    BY <1>3, <2>2
<1> QED
  BY <1>2, <1>3

(* The same after a step.                                                   *)
LEMMA ShownNext ==
  ASSUME NEW t \in Threads, ~hung', harm' = "none", \A u \in Threads \ {t} : ~MidChar(u)'
  PROVE  Shown' = IF out'[t].step \in Later THEN out'[t].bx ELSE Cursor'
<1>1. \A u \in Threads : out'[u].step \in Later => MidChar(u)'
  BY DEF MidChar, Later, Selects
<1>2. CASE out'[t].step \in Later
  <2>1. t = CHOOSE u \in Threads : out'[u].step \in Later
    BY <1>1, <1>2
  <2> QED
    BY <1>1, <1>2, <2>1 DEF Shown, Later
<1>3. CASE out'[t].step \notin Later
  <2>1. \A u \in Threads : out'[u].step \notin Later
    BY <1>1, <1>3
  <2>2. Shown' = Cursor'
    BY <2>1 DEF Shown, Later
  <2> QED
    BY <1>3, <2>2
<1> QED
  BY <1>2, <1>3

(* A step that leaves the controller and the characters under way alone.    *)
LEMMA RegistersKeep ==
  ASSUME DataInv, UNCHANGED <<crtc, harm>>, ~hung, ~hung',
         \A u \in Threads : out'[u] = out[u] \/ (~MidChar(u) /\ ~MidChar(u)')
  PROVE  DataInv' /\ Shown' = Shown
<1>1. CrtcType' /\ UNCHANGED Cursor
  BY DEF DataInv, CrtcType, Cursor
<1>2. \A u \in Threads : MidChar(u)' <=> MidChar(u)
  BY DEF MidChar
<1>3. Within'
  <2> SUFFICES ASSUME harm # "split", NEW u \in Threads PROVE BxWithin(u)'
    BY DEF DataInv, Within
  <2>1. BxWithin(u)
    BY DEF DataInv, Within
  <2> QED
    BY <2>1, NotMidNext DEF BxWithin
<1>4. ASSUME harm = "none" PROVE Agreed'
  <2>1. /\ \A t, u \in Threads : MidChar(t) /\ MidChar(u) => t = u
        /\ \A t \in Threads : BxAgrees(t)
        /\ (\A t \in Threads : out[t].step \notin Later) => Cursor \in 0..(CELLS - 1)
    BY <1>4 DEF DataInv, Agreed
  <2>2. \A t, u \in Threads : MidChar(t)' /\ MidChar(u)' => t = u
    BY <1>2, <2>1
  <2>3. \A u \in Threads : BxAgrees(u)'
    BY <1>1, <2>1, NotMidNext DEF BxAgrees
  <2>4. \A u \in Threads : out'[u].step \in Later <=> out[u].step \in Later
    BY NotMid, NotMidNext
  <2> QED
    BY <1>1, <2>1, <2>2, <2>3, <2>4 DEF Agreed
<1>5. Agreed'
  BY <1>4 DEF Agreed
<1>6. ASSUME harm = "none" PROVE Shown' = Shown
  <2>1. PICK t \in Threads : \A u \in Threads \ {t} : ~MidChar(u)
    BY <1>6, OneMid DEF DataInv
  <2>2. Shown = IF out[t].step \in Later THEN out[t].bx ELSE Cursor
    BY <1>6, <2>1, ShownIs
  <2>3. Shown' = IF out'[t].step \in Later THEN out'[t].bx ELSE Cursor'
    BY <1>2, <1>6, <2>1, ShownNext
  <2> QED
    BY <1>1, <2>2, <2>3, NotMid, NotMidNext
<1>7. Shown' = Shown
  BY <1>6 DEF Shown
<1> QED
  BY <1>1, <1>3, <1>5, <1>7 DEF DataInv

(* Until then Shown is on the screen.                                       *)
LEMMA ShownOnScreen ==
  ASSUME DataInv, ~hung, harm = "none"
  PROVE  Shown \in 0..(CELLS - 1)
<1>1. PICK t \in Threads : \A u \in Threads \ {t} : ~MidChar(u)
  BY OneMid DEF DataInv
<1>2. Shown = IF out[t].step \in Later THEN out[t].bx ELSE Cursor
  BY <1>1, ShownIs
<1>3. out[t].step \notin Later => \A u \in Threads : out[u].step \notin Later
  BY <1>1, NotMid
<1> QED
  BY <1>2, <1>3 DEF DataInv, Agreed, BxAgrees

(* A step of put_char() in thread t.                                        *)
LEMMA PutData ==
  ASSUME ConInv, DataInv, NEW t \in Threads, NEW o \in OutType, Prints(t, o), CrtcType',
         harm' # "split" => crtc'.hi \in 0..HIGH /\ crtc'.lo \in 0..(BYTE - 1) /\ BxWithin(t)',
         harm' = "none" => BxAgrees(t)' /\ (o.step \notin Later => Cursor' \in 0..(CELLS - 1))
  PROVE  DataInv'
<1>1. /\ out'[t] = o /\ \A u \in Threads \ {t} : out'[u] = out[u]
      /\ harm' # "split" => harm # "split"
      /\ harm' = "none" => harm = "none" /\ \A u \in Threads \ {t} : ~MidChar(u)
  BY PrintsMeans DEF DataInv
<1>2. Within'
  <2> SUFFICES ASSUME harm' # "split", NEW u \in Threads \ {t} PROVE BxWithin(u)'
    BY DEF Within
  <2>1. BxWithin(u)
    BY <1>1 DEF DataInv, Within
  <2> QED
    BY <1>1, <2>1 DEF BxWithin
<1>3. Agreed'
  <2> SUFFICES ASSUME harm' = "none" PROVE Agreed'
    BY DEF Agreed
  <2>1. \A u \in Threads \ {t} : ~MidChar(u)'
    BY <1>1 DEF MidChar
  <2>2. \A u \in Threads : BxAgrees(u)'
    BY <2>1, NotMidNext
  <2>3. (\A u \in Threads : out'[u].step \notin Later) => Cursor' \in 0..(CELLS - 1)
    BY <1>1
  <2> QED
    BY <2>1, <2>2, <2>3 DEF Agreed
<1> QED
  BY <1>2, <1>3 DEF DataInv

-----------------------------------------------------------------------------
(* When two characters come together, or the kernel stops, Terminal's       *)
(* cursor is lost.                                                          *)
LEMMA LoseStep ==
  ASSUME DataInv, ~hung, harm # "none" => harm' # "none", harm' # "none" \/ hung'
  PROVE  [T!Next]_Shown
<1>1. Shown' = -1
  BY DEF Shown
<1>2. CASE harm # "none"
  <2>1. Shown = -1
    BY <1>2 DEF Shown
  <2> QED
    BY <1>1, <2>1
<1>3. CASE harm = "none"
  <2>1. Shown \in 0..(CELLS - 1) /\ CELLS \in Nat
    BY <1>3, ShownOnScreen, Sizes
  <2>2. Shown # -1
    BY <2>1
  <2> QED
    BY <1>1, <2>2 DEF T!Next, T!Lose, T!Lost
<1> QED
  BY <1>2, <1>3

(* A cursor that moves as a character moves it takes a step of the          *)
(* terminal.                                                                *)
LEMMA MovedStep ==
  ASSUME DataInv, ~hung, harm = "none", Moved(Shown, Shown')
  PROVE  [T!Next]_Shown
<1>1. Shown \in 0..(CELLS - 1) /\ CELLS \in Nat
  BY ShownOnScreen, Sizes
<1>2. Shown # -1
  BY <1>1
<1>3. T!Advance \/ T!NewLine \/ T!Back
  BY DEF Moved, CELLS, T!Advance, T!NewLine, T!Back, T!Last
<1> QED
  BY <1>2, <1>3 DEF T!Next, T!Lost

(* Where thread t's character, which is the only one, has the cursor.       *)
Place(t) == IF out[t].step \in Later THEN out[t].bx ELSE Cursor

(* A step of put_char() that moves the cursor as its character should, or   *)
(* leaves it, is a step of the terminal.                                    *)
LEMMA PutShown ==
  ASSUME ConInv, DataInv, NEW t \in Threads, NEW o \in OutType, Prints(t, o), ~hung',
         harm' = "none" => Place(t)' = Place(t) \/ Moved(Place(t), Place(t)')
  PROVE  [T!Next]_Shown
<1>1. /\ ~hung /\ \A u \in Threads \ {t} : out'[u] = out[u]
      /\ harm' = "none" => harm = "none" /\ \A u \in Threads \ {t} : ~MidChar(u)
      /\ harm # "none" => harm' # "none"
  BY PrintsMeans DEF DataInv
<1>2. CASE harm' # "none"
  BY <1>1, <1>2, LoseStep
<1>3. CASE harm' = "none"
  <2>1. Shown = Place(t)
    BY <1>1, <1>3, ShownIs DEF Place
  <2>2. \A u \in Threads \ {t} : ~MidChar(u)'
    BY <1>1, <1>3 DEF MidChar
  <2>3. Shown' = Place(t)'
    BY <1>3, <2>2, ShownNext DEF Place
  <2>4. CASE Place(t)' = Place(t)
    BY <2>1, <2>3, <2>4
  <2>5. CASE Moved(Place(t), Place(t)')
    BY <1>1, <1>3, <2>1, <2>3, <2>5, MovedStep
  <2> QED
    BY <1>3, <2>4, <2>5
<1> QED
  BY <1>2, <1>3

(* What thread t finds.                                                     *)
LEMMA PutBefore ==
  ASSUME ConInv, DataInv, NEW t \in Threads, NEW o \in OutType, Prints(t, o)
  PROVE  /\ harm' # "split" =>
              /\ crtc.hi \in 0..HIGH /\ crtc.lo \in 0..(BYTE - 1) /\ BxWithin(t)
              /\ out[t].step \in Reads \union Writes => crtc.index = Half(out[t].step)
         /\ harm' = "none" =>
              BxAgrees(t) /\ (out[t].step \notin Later => Cursor \in 0..(CELLS - 1))
<1>1. /\ harm' # "split" =>
              /\ harm # "split"
              /\ out[t].step \in Reads \union Writes => crtc.index = Half(out[t].step)
      /\ harm' = "none" => harm = "none" /\ \A u \in Threads \ {t} : ~MidChar(u)
  BY PrintsMeans DEF DataInv
<1>2. ASSUME harm' = "none"
      PROVE  BxAgrees(t) /\ (out[t].step \notin Later => Cursor \in 0..(CELLS - 1))
  <2>1. \A u \in Threads \ {t} : out[u].step \notin Later
    BY <1>1, <1>2, NotMid
  <2> QED
    BY <1>1, <1>2, <2>1 DEF DataInv, Agreed
<1> QED
  BY <1>1, <1>2 DEF DataInv, Within

(* What it leaves, when nothing but the controller and out change.          *)
LEMMA PutControl ==
  ASSUME ConInv, DataInv, NEW t \in Threads, NEW o \in OutType, Prints(t, o), UNCHANGED vars,
         out[t].step \in PutSteps, o.step \in PutSteps \union {"end"},
         o.step \in PutSteps => o.rest # <<>>, o.trap = out[t].trap
  PROVE  ConInv' /\ ~hung'
<1>1. t = current_task /\ UNCHANGED locks /\ out' = [out EXCEPT ![t] = o] /\ ~hung
  BY PrintsMeans DEF DataInv
<1>2. UNCHANGED syncVars /\ ~hung'
  BY <1>1 DEF syncVars, locks, vars
<1> QED
  BY <1>1, <1>2, PutKeeps

(* The register is selected.                                                *)
LEMMA SelectKeeps ==
  ASSUME ConInv, DataInv, NEW t \in Threads, put_char_select(t)
  PROVE  ConInv' /\ DataInv' /\ [T!Next]_Shown
<1> DEFINE o == [out[t] EXCEPT !.step = Then[@]]
<1>1. out[t] \in OutType /\ out[t].step \in Selects /\ RestRight(t)
  BY ConTypes DEF put_char_select, ConInv
<1>2. /\ o \in OutType /\ o.step = Then[out[t].step] /\ o.bx = out[t].bx
      /\ o.rest = out[t].rest /\ o.trap = out[t].trap /\ o.step \in PutSteps
  <2>1. Then[out[t].step] \in PutSteps /\ Then[out[t].step] \in OutSteps
    BY <1>1, ThenSteps DEF OutSteps
  <2> QED
    BY <1>1, <2>1 DEF OutType
<1>3. /\ Prints(t, o) /\ UNCHANGED vars
      /\ crtc' = [crtc EXCEPT !.index = Half(out[t].step)]
  BY DEF put_char_select
<1> HIDE DEF o
<1>4. out[t].step \in PutSteps /\ o.rest # <<>>
  BY <1>1, <1>2 DEF RestRight, PutSteps
<1>5. ConInv' /\ ~hung'
  BY <1>2, <1>3, <1>4, PutControl
<1>6. /\ crtc' \in [index : {"hi", "lo"}, hi : Nat, lo : Nat]
      /\ crtc'.index = Half(out[t].step) /\ crtc'.hi = crtc.hi /\ crtc'.lo = crtc.lo
  BY <1>3 DEF DataInv, CrtcType, Half
<1>7. CrtcType' /\ Cursor' = Cursor /\ out'[t] = o
  BY <1>2, <1>3, <1>6, PrintsMeans DEF CrtcType, Cursor, DataInv
<1>8. o.step \in Later <=> out[t].step \in Later
  BY <1>1, <1>2, ThenSteps DEF Selects, Later, Writes
<1>9. harm' # "split" => crtc'.hi \in 0..HIGH /\ crtc'.lo \in 0..(BYTE - 1) /\ BxWithin(t)'
  <2> SUFFICES ASSUME harm' # "split"
               PROVE  crtc'.hi \in 0..HIGH /\ crtc'.lo \in 0..(BYTE - 1) /\ BxWithin(t)'
    OBVIOUS
  <2>1. crtc.hi \in 0..HIGH /\ crtc.lo \in 0..(BYTE - 1) /\ BxWithin(t)
    BY <1>2, <1>3, PutBefore
  <2>2. BxWithin(t)'
    BY <1>1, <1>2, <1>7, <2>1, ThenSteps DEF BxWithin, Selects, Later, Writes
  <2> QED
    BY <1>6, <2>1, <2>2
<1>10. harm' = "none" => BxAgrees(t)' /\ (o.step \notin Later => Cursor' \in 0..(CELLS - 1))
  <2> SUFFICES ASSUME harm' = "none"
               PROVE  BxAgrees(t)' /\ (o.step \notin Later => Cursor' \in 0..(CELLS - 1))
    OBVIOUS
  <2>1. BxAgrees(t) /\ (out[t].step \notin Later => Cursor \in 0..(CELLS - 1))
    BY <1>2, <1>3, PutBefore
  <2>2. BxAgrees(t)'
    BY <1>1, <1>2, <1>6, <1>7, <2>1, ThenSteps DEF BxAgrees, Selects, Reads, Later, Writes, Half
  <2> QED
    BY <1>7, <1>8, <2>1, <2>2
<1>11. DataInv'
  BY <1>2, <1>3, <1>7, <1>9, <1>10, PutData
<1>12. Place(t)' = Place(t)
  BY <1>2, <1>7, <1>8 DEF Place
<1>13. [T!Next]_Shown
  BY <1>2, <1>3, <1>5, <1>12, PutShown
<1> QED
  BY <1>5, <1>11, <1>13

(* A half of the cursor is read.                                            *)
LEMMA ReadKeeps ==
  ASSUME ConInv, DataInv, NEW t \in Threads, put_char_read(t)
  PROVE  ConInv' /\ DataInv' /\ [T!Next]_Shown
<1> DEFINE r == crtc[crtc.index]
           b == IF out[t].step = "rd_h" THEN r * BYTE ELSE out[t].bx + r
           o == [out[t] EXCEPT !.step = Then[@], !.bx = b]
<1>1. /\ out[t] \in OutType /\ out[t].step \in Reads /\ RestRight(t)
      /\ BYTE \in Nat \ {0} /\ HIGH \in Nat
  BY ConTypes, Sizes DEF put_char_read, ConInv
<1>2. r \in Nat /\ crtc.hi \in Nat /\ crtc.lo \in Nat
  BY DEF DataInv, CrtcType
<1>3. b \in Nat
  <2>1. r * BYTE \in Nat
    BY <1>1, <1>2, Products
  <2>2. out[t].bx + r \in Nat
    BY <1>1, <1>2 DEF OutType
  <2> HIDE DEF r
  <2> QED
    BY <2>1, <2>2
<1>4. Prints(t, o) /\ UNCHANGED <<vars, crtc>>
  BY DEF put_char_read
<1>5. /\ crtc.index = "hi" => r = crtc.hi
      /\ crtc.index = "lo" => r = crtc.lo
  OBVIOUS
<1>6. b = IF out[t].step = "rd_h" THEN r * BYTE ELSE out[t].bx + r
  OBVIOUS
<1> HIDE DEF r, b
<1>7. /\ o \in OutType /\ o.step = Then[out[t].step] /\ o.bx = b
      /\ o.rest = out[t].rest /\ o.trap = out[t].trap /\ o.step \in PutSteps
  <2>1. Then[out[t].step] \in PutSteps /\ Then[out[t].step] \in OutSteps
    BY <1>1, ThenSteps DEF OutSteps
  <2> QED
    BY <1>1, <1>3, <2>1 DEF OutType
<1> HIDE DEF o
<1>8. out[t].step \in PutSteps /\ o.rest # <<>>
  BY <1>1, <1>7 DEF RestRight, PutSteps
<1>9. ConInv' /\ ~hung'
  BY <1>4, <1>7, <1>8, PutControl
<1>10. CrtcType' /\ Cursor' = Cursor /\ out'[t] = o
  BY <1>4, <1>7, PrintsMeans DEF CrtcType, Cursor, DataInv
<1>11. o.step \notin Later /\ out[t].step \notin Later
  BY <1>1, <1>7, ThenSteps DEF Reads, Later, Writes
<1>12. ASSUME harm' # "split"
       PROVE  /\ crtc.hi \in 0..HIGH /\ crtc.lo \in 0..(BYTE - 1) /\ BxWithin(t)
              /\ out[t].step = "rd_h" => b = crtc.hi * BYTE
              /\ out[t].step = "rd_l" => b = out[t].bx + crtc.lo
  <2>1. /\ crtc.hi \in 0..HIGH /\ crtc.lo \in 0..(BYTE - 1) /\ BxWithin(t)
        /\ crtc.index = Half(out[t].step)
    BY <1>1, <1>4, <1>7, <1>12, PutBefore
  <2>2. /\ out[t].step = "rd_h" => r = crtc.hi
        /\ out[t].step = "rd_l" => r = crtc.lo
    BY <1>5, <2>1 DEF Half
  <2> QED
    BY <1>6, <2>1, <2>2
<1>13. harm' # "split" => crtc'.hi \in 0..HIGH /\ crtc'.lo \in 0..(BYTE - 1) /\ BxWithin(t)'
  <2> SUFFICES ASSUME harm' # "split" PROVE BxWithin(t)'
    BY <1>4, <1>12
  <2>1. CASE out[t].step = "rd_h"
    <3>1. o.step = "sel_rl" /\ o.bx = crtc.hi * BYTE /\ crtc.hi \in 0..HIGH
      BY <1>7, <1>12, <2>1, ThenSteps
    <3> QED
      BY <1>10, <3>1 DEF BxWithin, Later, Writes
  <2>2. CASE out[t].step = "rd_l"
    <3>1. PICK h \in 0..HIGH : out[t].bx = h * BYTE
      BY <1>12, <2>2 DEF BxWithin
    <3>2. o.step = "store" /\ o.bx = h * BYTE + crtc.lo /\ crtc.lo \in 0..(BYTE - 1)
      BY <1>7, <1>12, <2>2, <3>1, ThenSteps
    <3>3. h * BYTE <= HIGH * BYTE /\ h * BYTE \in Nat /\ HIGH * BYTE \in Nat
      BY <1>1, Products
    <3>4. o.bx \in 0..TOP
      BY <1>1, <3>2, <3>3 DEF TOP
    <3> QED
      BY <1>10, <3>2, <3>4 DEF BxWithin
  <2> QED
    BY <1>1, <2>1, <2>2 DEF Reads
<1>14. harm' = "none" => BxAgrees(t)' /\ (o.step \notin Later => Cursor' \in 0..(CELLS - 1))
  <2> SUFFICES ASSUME harm' = "none" PROVE BxAgrees(t)' /\ Cursor' \in 0..(CELLS - 1)
    OBVIOUS
  <2>1. BxAgrees(t) /\ Cursor \in 0..(CELLS - 1)
    BY <1>4, <1>7, <1>11, PutBefore
  <2>2. CASE out[t].step = "rd_h"
    <3>1. o.step = "sel_rl" /\ o.bx = crtc.hi * BYTE
      BY <1>7, <1>12, <2>2, ThenSteps
    <3>2. BxAgrees(t)'
      BY <1>4, <1>10, <3>1 DEF BxAgrees, Reads, Writes, Later
    <3> QED
      BY <1>10, <2>1, <3>2
  <2>3. CASE out[t].step = "rd_l"
    <3>1. o.step = "store" /\ o.bx = Cursor
      BY <1>7, <1>12, <2>1, <2>3, ThenSteps DEF BxAgrees, Cursor
    <3>2. BxAgrees(t)'
      BY <1>4, <1>10, <3>1 DEF BxAgrees, Reads, Writes, Later
    <3> QED
      BY <1>10, <2>1, <3>2
  <2> QED
    BY <1>1, <2>2, <2>3 DEF Reads
<1>15. DataInv'
  BY <1>4, <1>7, <1>10, <1>13, <1>14, PutData
<1>16. Place(t)' = Place(t)
  BY <1>10, <1>11 DEF Place
<1>17. [T!Next]_Shown
  BY <1>4, <1>7, <1>9, <1>16, PutShown
<1> QED
  BY <1>9, <1>15, <1>17

(* The character is stored.                                                 *)
LEMMA StoreKeeps ==
  ASSUME ConInv, DataInv, NEW t \in Threads, put_char_store(t), ~hung'
  PROVE  ConInv' /\ DataInv' /\ [T!Next]_Shown
<1> DEFINE c == Head(out[t].rest)
           p == out[t].bx
           o == IF c = "0" THEN next_char(out[t])
                ELSE [out[t] EXCEPT !.step = "sel_wh", !.bx = move(c, p)]
<1>1. /\ out[t] \in OutType /\ out[t].step = "store" /\ RestRight(t) /\ p \in Nat
      /\ out[t].rest \in Seq(Chars)
  BY ConTypes DEF put_char_store, ConInv, OutType
<1>2. out[t].rest # <<>> /\ c \in Chars
  BY <1>1 DEF RestRight, PutSteps
<1>3. ~faults(c, p) /\ Prints(t, o) /\ UNCHANGED <<vars, crtc>>
  BY DEF put_char_store, ignore_intr_handler, debug_out
<1> HIDE DEF c
<1>4. /\ o \in OutType /\ o.trap = out[t].trap
      /\ c = "0" => o.step \in {"sel_rh", "end"} /\ (o.step = "sel_rh" => o.rest # <<>>)
      /\ c # "0" => o.step = "sel_wh" /\ o.rest # <<>> /\ o.bx = move(c, p)
  <2>1. CASE c = "0"
    BY <1>1, <1>2, <2>1, NextChar
  <2>2. CASE c # "0"
    <3> DEFINE m == move(c, p)
    <3>1. m \in Nat
      BY <1>1, <1>2, MoveNat
    <3> HIDE DEF m
    <3>2. o = [out[t] EXCEPT !.step = "sel_wh", !.bx = m]
      BY <2>2 DEF m
    <3>3. "sel_wh" \in OutSteps
      BY DEF OutSteps, PutSteps, Selects
    <3> HIDE DEF o
    <3>4. /\ o \in OutType /\ o.trap = out[t].trap /\ o.step = "sel_wh"
          /\ o.rest = out[t].rest /\ o.bx = m
      BY <1>1, <3>1, <3>2, <3>3 DEF OutType
    <3> QED
      BY <1>2, <2>2, <3>4 DEF m
  <2> QED
    BY <2>1, <2>2
<1> HIDE DEF o
<1>5. out[t].step \in PutSteps /\ o.step \in PutSteps \union {"end"} /\ (o.step \in PutSteps => o.rest # <<>>)
  BY <1>1, <1>4 DEF PutSteps, Selects, Reads, Writes
<1>6. ConInv'
  BY <1>3, <1>4, <1>5, PutControl
<1>7. CrtcType' /\ Cursor' = Cursor /\ out'[t] = o
  BY <1>3, <1>4, PrintsMeans DEF CrtcType, Cursor, DataInv
<1>8. harm' # "split" =>
        crtc.hi \in 0..HIGH /\ crtc.lo \in 0..(BYTE - 1) /\ p \in 0..TOP
  BY <1>1, <1>3, <1>4, PutBefore DEF BxWithin
<1>9. harm' = "none" => p = Cursor /\ Cursor \in 0..(CELLS - 1)
  BY <1>1, <1>3, <1>4, PutBefore DEF BxAgrees, Later, Writes
<1>10. CASE c = "0"
  <2>1. ~MidChar(t)' /\ o.step \notin Later
    BY <1>4, <1>7, <1>10 DEF MidChar, Selects, Reads, Writes, Later
  <2>2. BxWithin(t)' /\ BxAgrees(t)'
    BY <2>1, NotMidNext
  <2>3. DataInv'
    BY <1>3, <1>4, <1>7, <1>8, <1>9, <2>2, PutData
  <2>4. Place(t)' = Place(t)
    BY <1>1, <1>7, <2>1 DEF Place, Later, Writes
  <2>5. [T!Next]_Shown
    BY <1>3, <1>4, <2>4, PutShown
  <2> QED
    BY <1>6, <2>3, <2>5
<1>11. CASE c # "0"
  <2>1. o.step = "sel_wh" /\ o.bx = move(c, p) /\ o.step \in Later /\ out[t].step \notin Later
    BY <1>1, <1>4, <1>11 DEF Later, Writes
  <2>2. ASSUME harm' # "split" PROVE BxWithin(t)'
    <3>1. p \in 0..TOP
      BY <1>8, <2>2
    <3>2. ~(c = "b" /\ p = 0)
      <4>1. 0 <= LIMIT
        BY Sizes
      <4> QED
        BY <1>3, <4>1, Targets DEF faults
    <3>3. o.bx \in 0..TOP
      BY <1>2, <2>1, <3>1, <3>2, MoveBound
    <3> QED
      BY <1>7, <2>1, <3>3 DEF BxWithin
  <2>3. ASSUME harm' = "none" PROVE BxAgrees(t)' /\ Moved(Place(t), Place(t)')
    <3>1. o.bx \in 0..(CELLS - 1) /\ Moved(p, o.bx)
      BY <1>2, <1>3, <1>9, <1>11, <2>1, <2>3, MoveTerminal
    <3>2. Place(t) = p /\ Place(t)' = o.bx
      BY <1>7, <1>9, <2>1, <2>3 DEF Place
    <3>3. BxAgrees(t)'
      BY <1>7, <2>1, <3>1 DEF BxAgrees, Reads, Writes
    <3> QED
      BY <3>1, <3>2, <3>3
  <2>4. DataInv'
    BY <1>3, <1>4, <1>7, <1>8, <2>1, <2>2, <2>3, PutData
  <2>5. [T!Next]_Shown
    BY <1>3, <1>4, <2>3, PutShown
  <2> QED
    BY <1>6, <2>4, <2>5
<1> QED
  BY <1>10, <1>11

(* A half of the new cursor is written.                                     *)
LEMMA WriteKeeps ==
  ASSUME ConInv, DataInv, NEW t \in Threads, put_char_write(t)
  PROVE  ConInv' /\ DataInv' /\ [T!Next]_Shown
<1> DEFINE p == out[t].bx
           v == IF out[t].step = "wr_h" THEN p \div BYTE ELSE p % BYTE
           o == IF out[t].step = "wr_l" THEN next_char(out[t]) ELSE [out[t] EXCEPT !.step = Then[@]]
<1>1. /\ out[t] \in OutType /\ out[t].step \in Writes /\ RestRight(t) /\ p \in Nat
      /\ BYTE \in Nat \ {0} /\ HIGH \in Nat
  BY ConTypes, Sizes DEF put_char_write, ConInv, OutType
<1>2. out[t].rest # <<>> /\ out[t].step \in PutSteps
  BY <1>1 DEF RestRight, PutSteps
<1>3. Prints(t, o) /\ UNCHANGED vars /\ crtc' = [crtc EXCEPT ![crtc.index] = v]
  BY DEF put_char_write
<1>4. /\ p \div BYTE \in Nat /\ p % BYTE \in 0..(BYTE - 1) /\ p % BYTE \in Nat
      /\ (p \div BYTE) * BYTE + (p % BYTE) = p
  <2>1. \A n \in Nat, b \in Nat \ {0} : /\ n \div b \in Nat /\ n % b \in 0..(b - 1)
                                       /\ (n \div b) * b + (n % b) = n
    BY Divide
  <2>2. \A n \in Nat, b \in Nat \ {0} : n % b \in Nat
    BY Divide
  <2> QED
    BY <1>1, <2>1, <2>2, Zenon
<1>5. /\ out[t].step = "wr_h" => v = p \div BYTE
      /\ out[t].step = "wr_l" => v = p % BYTE
  OBVIOUS
<1> HIDE DEF v
<1>6. v \in Nat
  <2>1. out[t].step \in {"wr_h", "wr_l"}
    BY <1>1 DEF Writes
  <2> QED
    BY <1>4, <1>5, <2>1, Zenon
<1>7. /\ o \in OutType /\ o.trap = out[t].trap
      /\ out[t].step = "wr_l" => o.step \in {"sel_rh", "end"} /\ (o.step = "sel_rh" => o.rest # <<>>)
      /\ out[t].step = "wr_h" => o.step = "sel_wl" /\ o.rest # <<>> /\ o.bx = p
  <2>1. CASE out[t].step = "wr_l"
    BY <1>1, <1>2, <2>1, NextChar
  <2>2. CASE out[t].step = "wr_h"
    <3>1. o = [out[t] EXCEPT !.step = "sel_wl"]
      BY <2>2, ThenSteps
    <3>2. "sel_wl" \in OutSteps
      BY DEF OutSteps, PutSteps, Selects
    <3> HIDE DEF o
    <3>3. /\ o \in OutType /\ o.trap = out[t].trap /\ o.step = "sel_wl"
          /\ o.rest = out[t].rest /\ o.bx = p
      BY <1>1, <3>1, <3>2 DEF OutType
    <3> QED
      BY <1>2, <2>2, <3>3
  <2> QED
    BY <1>1, <2>1, <2>2 DEF Writes
<1> HIDE DEF o
<1>8. o.step \in PutSteps \union {"end"} /\ (o.step \in PutSteps => o.rest # <<>>)
  BY <1>1, <1>7 DEF PutSteps, Selects, Reads, Writes
<1>9. ConInv' /\ ~hung'
  BY <1>2, <1>3, <1>7, <1>8, PutControl
<1>10. /\ crtc \in [index : {"hi", "lo"}, hi : Nat, lo : Nat]
       /\ crtc' \in [index : {"hi", "lo"}, hi : Nat, lo : Nat]
       /\ crtc.index = "hi" => crtc'.hi = v /\ crtc'.lo = crtc.lo
       /\ crtc.index = "lo" => crtc'.lo = v /\ crtc'.hi = crtc.hi
  <2>1. crtc \in [index : {"hi", "lo"}, hi : Nat, lo : Nat]
    BY DEF DataInv, CrtcType
  <2>2. CASE crtc.index = "hi"
    <3>1. crtc' = [crtc EXCEPT !.hi = v]
      BY <1>3, <2>2
    <3> QED
      BY <1>6, <2>1, <2>2, <3>1
  <2>3. CASE crtc.index = "lo"
    <3>1. crtc' = [crtc EXCEPT !.lo = v]
      BY <1>3, <2>3
    <3> QED
      BY <1>6, <2>1, <2>3, <3>1
  <2> QED
    BY <2>1, <2>2, <2>3
<1>11. CrtcType' /\ out'[t] = o
  BY <1>3, <1>7, <1>10, PrintsMeans DEF CrtcType, DataInv
<1>12. out[t].step \in Later
  BY <1>1 DEF Later
<1>13. ASSUME harm' # "split"
       PROVE  /\ crtc.hi \in 0..HIGH /\ crtc.lo \in 0..(BYTE - 1) /\ p \in 0..TOP
              /\ out[t].step = "wr_h" => crtc'.hi = p \div BYTE /\ crtc'.lo = crtc.lo
              /\ out[t].step = "wr_l" => crtc'.lo = p % BYTE /\ crtc'.hi = crtc.hi
  <2>1. /\ crtc.hi \in 0..HIGH /\ crtc.lo \in 0..(BYTE - 1) /\ BxWithin(t)
        /\ crtc.index = Half(out[t].step)
    BY <1>1, <1>3, <1>7, <1>13, PutBefore
  <2>2. /\ out[t].step = "wr_h" => crtc.index = "hi"
        /\ out[t].step = "wr_l" => crtc.index = "lo"
    BY <2>1 DEF Half
  <2>3. p \in 0..TOP
    BY <1>12, <2>1 DEF BxWithin
  <2> QED
    BY <1>5, <1>10, <2>1, <2>2, <2>3
<1>14. p \in 0..TOP => p \div BYTE \in 0..HIGH
  <2>1. HIGH * BYTE \in Nat
    BY <1>1, Products
  <2>2. p \in 0..TOP => p < HIGH * BYTE + BYTE
    BY <1>1, <2>1 DEF TOP
  <2>3. p \in 0..TOP => p \div BYTE <= HIGH
    BY <1>1, <2>2, DivideMonotone
  <2> QED
    BY <1>1, <1>4, <2>3
<1>15. CASE out[t].step = "wr_h"
  <2>1. o.step = "sel_wl" /\ o.bx = p /\ o.step \in Later
    BY <1>7, <1>15 DEF Later
  <2>2. ASSUME harm' # "split"
        PROVE  crtc'.hi \in 0..HIGH /\ crtc'.lo \in 0..(BYTE - 1) /\ BxWithin(t)'
    <3>1. BxWithin(t)'
      BY <1>11, <1>13, <2>1, <2>2 DEF BxWithin
    <3> QED
      BY <1>13, <1>14, <1>15, <2>2, <3>1
  <2>3. ASSUME harm' = "none" PROVE BxAgrees(t)'
    <3>1. p \in 0..(CELLS - 1)
      BY <1>3, <1>7, <1>12, <2>3, PutBefore DEF BxAgrees
    <3> QED
      BY <1>11, <1>13, <1>15, <2>1, <2>3, <3>1 DEF BxAgrees, Reads, Writes
  <2>4. DataInv'
    BY <1>3, <1>7, <1>11, <2>1, <2>2, <2>3, PutData
  <2>5. Place(t)' = Place(t)
    BY <1>11, <1>12, <2>1 DEF Place
  <2>6. [T!Next]_Shown
    BY <1>3, <1>7, <1>9, <2>5, PutShown
  <2> QED
    BY <1>9, <2>4, <2>6
<1>16. CASE out[t].step = "wr_l"
  <2>1. ~MidChar(t)' /\ o.step \notin Later
    BY <1>7, <1>11, <1>16 DEF MidChar, Selects, Reads, Writes, Later
  <2>2. BxWithin(t)' /\ BxAgrees(t)'
    BY <2>1, NotMidNext
  <2>3. ASSUME harm' # "split"
        PROVE  crtc'.hi \in 0..HIGH /\ crtc'.lo \in 0..(BYTE - 1)
    BY <1>4, <1>13, <1>16, <2>3
  <2>4. ASSUME harm' = "none" PROVE Cursor' = p /\ p \in 0..(CELLS - 1)
    <3>1. p \in 0..(CELLS - 1) /\ crtc.hi = p \div BYTE
      BY <1>3, <1>7, <1>12, <1>16, <2>4, PutBefore DEF BxAgrees
    <3>2. crtc'.hi = p \div BYTE /\ crtc'.lo = p % BYTE
      BY <1>13, <1>16, <2>4, <3>1
    <3> QED
      BY <1>4, <3>1, <3>2 DEF Cursor
  <2>5. DataInv'
    BY <1>3, <1>7, <1>11, <2>2, <2>3, <2>4, PutData
  <2>6. harm' = "none" => Place(t)' = Place(t)
    BY <1>11, <1>12, <2>1, <2>4 DEF Place
  <2>7. [T!Next]_Shown
    BY <1>3, <1>7, <1>9, <2>6, PutShown
  <2> QED
    BY <1>9, <2>5, <2>7
<1> QED
  BY <1>1, <1>15, <1>16 DEF Writes

(* The keyboard's handler puts a character from first to last.              *)
LEMMA KeyKeeps ==
  ASSUME ConInv, DataInv, NEW c \in Typed, key_echo(c), ~hung'
  PROVE  ConInv' /\ DataInv' /\ [T!Next]_Shown
<1> DEFINE p == Cursor
           m == move(c, p)
<1>1. c \in Chars /\ BYTE \in Nat \ {0} /\ HIGH \in Nat /\ HIGH * BYTE \in Nat
  BY StringsAssumption, Sizes, Products
<1>2. ~faults(c, p) /\ ~hung
  BY DEF key_echo, ignore_intr_handler, debug_out
<1>3. /\ crtc' = [index |-> "lo", hi |-> m \div BYTE, lo |-> m % BYTE]
      /\ UNCHANGED out
      /\ harm' = IF harm = "none" /\ \E t \in Threads : MidChar(t) THEN "torn" ELSE harm
  BY <1>2 DEF key_echo
<1>4. ConInv'
  BY EchoKeeps
<1>5. p \in Nat
  <2>1. crtc.hi \in Nat /\ crtc.lo \in Nat
    BY DEF DataInv, CrtcType
  <2>2. crtc.hi * BYTE \in Nat
    BY <1>1, <2>1, Products
  <2> QED
    BY <2>1, <2>2 DEF Cursor
<1> HIDE DEF p
<1>6. m \in Nat
  BY <1>1, <1>5, MoveNat
<1> HIDE DEF m
<1>7. /\ m \div BYTE \in Nat /\ m % BYTE \in 0..(BYTE - 1)
      /\ (m \div BYTE) * BYTE + (m % BYTE) = m
  BY <1>1, <1>6, Divide
<1>8. crtc'.index = "lo" /\ crtc'.hi = m \div BYTE /\ crtc'.lo = m % BYTE /\ Cursor' = m
  BY <1>3, <1>7 DEF Cursor
<1>9. CrtcType'
  <2>1. crtc' \in [index : {"hi", "lo"}, hi : Nat, lo : Nat]
    <3>1. \A n \in Nat, b \in Nat \ {0} : n % b \in Nat
      BY Divide
    <3> QED
      BY <1>1, <1>3, <1>6, <1>7, <3>1
  <2>2. harm' \in {"none", "torn", "split"}
    BY <1>3 DEF DataInv, CrtcType
  <2> QED
    BY <2>1, <2>2 DEF CrtcType
<1>10. Within'
  <2> SUFFICES ASSUME harm' # "split" PROVE Within'
    BY DEF Within
  <2>1. crtc.hi \in 0..HIGH /\ crtc.lo \in 0..(BYTE - 1) /\ \A t \in Threads : BxWithin(t)
    BY <1>3 DEF DataInv, Within
  <2>2. p \in 0..TOP
    <3>1. crtc.hi * BYTE <= HIGH * BYTE /\ crtc.hi * BYTE \in Nat
      BY <1>1, <2>1, Products
    <3> QED
      BY <1>1, <2>1, <3>1 DEF p, Cursor, TOP
  <2>3. ~(c = "b" /\ p = 0)
    <3>1. 0 <= LIMIT
      BY Sizes
    <3> QED
      BY <1>2, <3>1, Targets DEF faults
  <2>4. m \in 0..TOP
    BY <1>1, <2>2, <2>3, MoveBound DEF m
  <2>5. m \div BYTE <= HIGH
    <3>1. m < HIGH * BYTE + BYTE
      BY <1>1, <2>4 DEF TOP
    <3> QED
      BY <1>1, <1>6, <3>1, DivideMonotone
  <2>6. \A t \in Threads : BxWithin(t)'
    BY <1>3, <2>1 DEF BxWithin
  <2> QED
    BY <1>1, <1>7, <1>8, <2>5, <2>6 DEF Within
<1>11. CASE harm' # "none"
  <2>1. harm # "none" => harm' # "none"
    BY <1>3
  <2>2. [T!Next]_Shown
    BY <1>2, <1>11, <2>1, LoseStep
  <2> QED
    BY <1>4, <1>9, <1>10, <1>11, <2>2 DEF DataInv, Agreed
<1>12. CASE harm' = "none"
  <2>1. harm = "none" /\ \A t \in Threads : ~MidChar(t)
    BY <1>3, <1>12
  <2>2. \A t \in Threads : ~MidChar(t)'
    BY <1>3, <2>1 DEF MidChar
  <2>3. p \in 0..(CELLS - 1)
    BY <2>1, NotMid DEF DataInv, Agreed, p
  <2>4. m \in 0..(CELLS - 1) /\ (m = p \/ Moved(p, m))
    <3>1. CASE c = "0"
      <4>1. m = p
        BY <3>1 DEF m, move
      <4> QED
        BY <2>3, <4>1
    <3>2. CASE c # "0"
      BY <1>1, <1>2, <2>3, <3>2, MoveTerminal DEF m
    <3> QED
      BY <3>1, <3>2
  <2>5. Agreed'
    BY <1>8, <2>2, <2>4, NotMidNext DEF Agreed
  <2>6. Main \in Threads /\ out[Main].step \notin Later /\ out'[Main].step \notin Later
    BY <2>1, <2>2, NotMid, NotMidNext, ThreadsAssumption
  <2>7. Shown = p
    BY <1>2, <2>1, <2>6, ShownIs DEF p
  <2>8. Shown' = m
    BY <1>8, <1>12, <2>2, <2>6, ShownNext
  <2>9. [T!Next]_Shown
    BY <1>2, <2>1, <2>4, <2>7, <2>8, MovedStep
  <2> QED
    BY <1>4, <1>9, <1>10, <2>5, <2>9 DEF DataInv
<1> QED
  BY <1>11, <1>12

-----------------------------------------------------------------------------
(* What the invariant says of the lock.                                     *)
LEMMA ConTurns == ConInv => LockersTakeTurns
<1> SUFFICES ASSUME ConInv, NEW t \in Threads \ {Idle}, MidChar(t)
             PROVE  /\ \A u \in Threads \ {Idle, t} : out[u].step \in {"none", "write", "lock", "iret"}
                    /\ out[t].trap /\ ~hung => current_task = t /\ ~intr
  BY DEF LockersTakeTurns
<1>1. OutPhase(t) /\ TrapRight(t) /\ out[t].step \in PutSteps
  BY DEF ConInv, MidChar, PutSteps, Selects
<1>2. at[t] = "in" /\ (out[t].trap => current_task = t /\ ~intr)
  BY <1>1 DEF OutPhase, TrapRight, PutSteps, Selects, Reads, Writes
<1>3. ASSUME NEW u \in Threads \ {Idle, t},
             out[u].step \notin {"none", "write", "lock", "iret"}
      PROVE  FALSE
  <2>1. OutPhase(u) /\ out[u].step \in PutSteps \union {"end"}
    BY <1>3, ConTypes DEF ConInv, OutType, OutSteps
  <2>2. at[u] \in Holding /\ at[t] \in Holding
    BY <1>2, <2>1 DEF OutPhase, Holding
  <2>3. lk[u] = lk[t]
    BY ConTypes, ConsoleAssumption
  <2> QED
    BY <2>2, <2>3 DEF ConInv, SyncInv, Exclusion
<1> QED
  BY <1>2, <1>3

(* The kernel stops.                                                        *)
LEMMA StopStep ==
  ASSUME ConInv, DataInv, hung', UNCHANGED <<current_task, out, Cursor>>, harm = "split" => harm' = "split",
         harm' # "split" =>
           \/ LET o == out[current_task] IN o.step = "store" /\ Head(o.rest) = "b" /\ o.bx = 0
           \/ "b" \in Typed /\ Cursor = 0,
         harm # "none" => harm' # "none"
  PROVE  LockersTakeTurns' /\ FaultNeedsSplit' /\ [T!Next]_Shown
<1>1. LockersTakeTurns
  BY ConTurns
<1>2. LockersTakeTurns'
  BY <1>1 DEF LockersTakeTurns, MidChar
<1>3. FaultNeedsSplit'
  BY DEF FaultNeedsSplit
<1>4. [T!Next]_Shown
  BY LoseStep DEF ConInv, SyncInv, Inv, NoAssertFails
<1> QED
  BY <1>2, <1>3, <1>4

(* A store that faults, with registers within bounds, is a backspace at 0.  *)
LEMMA FaultAtZero ==
  ASSUME NEW c \in Chars, NEW p \in 0..TOP, faults(c, p)
  PROVE  c = "b" /\ p = 0
BY MoveBound

(* A store outside the screen faults in put_char() only at a backspace in   *)
(* the first cell, unless a cursor was put together from two.               *)
LEMMA StoreStops ==
  ASSUME ConInv, DataInv, NEW t \in Threads, put_char_store(t), hung'
  PROVE  LockersTakeTurns' /\ FaultNeedsSplit' /\ [T!Next]_Shown
<1> DEFINE c == Head(out[t].rest)
<1>1. /\ out[t] \in OutType /\ out[t].step = "store" /\ RestRight(t)
      /\ out[t].rest \in Seq(Chars) /\ ~hung
  BY ConTypes DEF put_char_store, ConInv, OutType, SyncInv, Inv, NoAssertFails
<1>2. c \in Chars
  BY <1>1 DEF RestRight, PutSteps
<1>3. faults(c, out[t].bx) /\ Prints(t, out[t]) /\ ignore_intr_handler /\ UNCHANGED crtc
  BY <1>1 DEF put_char_store, vars
<1>4. t = current_task /\ out' = out /\ UNCHANGED <<current_task, Cursor>>
  BY <1>1, <1>3, PrintsMeans, ConTypes DEF DataInv, ignore_intr_handler, debug_out, Cursor
<1>5. (harm = "split" => harm' = "split") /\ (harm # "none" => harm' # "none")
  BY <1>1, <1>3, PrintsMeans DEF DataInv
<1>6. harm' # "split" => out[t].bx \in 0..TOP
  BY <1>1, <1>3, PutBefore DEF BxWithin
<1>7. harm' # "split" => c = "b" /\ out[t].bx = 0
  BY <1>2, <1>3, <1>6, FaultAtZero
<1> QED
  BY <1>1, <1>4, <1>5, <1>7, StopStep

(* The same for the echo of a key.                                          *)
LEMMA KeyStops ==
  ASSUME ConInv, DataInv, NEW c \in Typed, key_echo(c), hung'
  PROVE  LockersTakeTurns' /\ FaultNeedsSplit' /\ [T!Next]_Shown
<1>1. c \in Chars /\ ~hung /\ BYTE \in Nat \ {0} /\ HIGH \in Nat /\ HIGH * BYTE \in Nat
  BY StringsAssumption, Sizes, Products DEF key_echo
<1>2. /\ faults(c, Cursor) /\ UNCHANGED <<out, current_task>>
      /\ crtc' = [crtc EXCEPT !.index = "lo"]
      /\ harm' = IF harm = "none" /\ \E t \in Threads : MidChar(t) THEN "torn" ELSE harm
  BY <1>1 DEF key_echo, ignore_intr_handler, debug_out, sched
<1>3. UNCHANGED Cursor
  BY <1>2 DEF DataInv, CrtcType, Cursor
<1>4. harm' # "split" => Cursor \in 0..TOP
  <2> SUFFICES ASSUME harm' # "split" PROVE Cursor \in 0..TOP
    OBVIOUS
  <2>1. crtc.hi \in 0..HIGH /\ crtc.lo \in 0..(BYTE - 1)
    BY <1>2 DEF DataInv, Within
  <2>2. crtc.hi * BYTE <= HIGH * BYTE /\ crtc.hi * BYTE \in Nat
    BY <1>1, <2>1, Products
  <2> QED
    BY <1>1, <2>1, <2>2 DEF Cursor, TOP
<1>5. harm' # "split" => c = "b" /\ Cursor = 0
  BY <1>1, <1>2, <1>4, FaultAtZero
<1>6. (harm = "split" => harm' = "split") /\ (harm # "none" => harm' # "none")
  BY <1>2
<1> QED
  BY <1>2, <1>3, <1>5, <1>6, StopStep

-----------------------------------------------------------------------------
(* The invariant: ConInv and DataInv until the kernel stops, and then what  *)
(* is to be shown.                                                          *)
ConFull ==
  \/ ~hung /\ ConInv /\ DataInv
  \/ hung /\ LockersTakeTurns /\ FaultNeedsSplit

(* At boot the console is whole and the terminal is at its start.           *)
LEMMA ConInitFull == ConsoleInit => ConFull /\ T!Init
<1> SUFFICES ASSUME ConsoleInit PROVE ConFull /\ T!Init
  OBVIOUS
<1>1. ConInv /\ ~hung
  BY ConInitInv DEF ConInv, SyncInv, Inv, NoAssertFails
<1>2. PICK p \in Starts : crtc = [index |-> "lo", hi |-> p \div BYTE, lo |-> p % BYTE]
  BY DEF ConsoleInit
<1>3. p \in 0..(CELLS - 1) /\ p \in Nat /\ BYTE \in Nat \ {0} /\ HIGH \in Nat /\ CELLS \in Nat /\ CELLS - 1 <= TOP
  BY ScreenAssumption, Sizes
<1>4. /\ p \div BYTE \in Nat /\ p % BYTE \in 0..(BYTE - 1) /\ p % BYTE \in Nat
      /\ (p \div BYTE) * BYTE + (p % BYTE) = p
  <2>1. \A n \in Nat, b \in Nat \ {0} : /\ n \div b \in Nat /\ n % b \in 0..(b - 1)
                                       /\ (n \div b) * b + (n % b) = n
    BY Divide
  <2>2. \A n \in Nat, b \in Nat \ {0} : n % b \in Nat
    BY Divide
  <2> QED
    BY <1>3, <2>1, <2>2, Zenon
<1>5. p \div BYTE <= HIGH
  <2>1. HIGH * BYTE \in Nat
    BY <1>3, Products
  <2>2. p < HIGH * BYTE + BYTE
    BY <1>3, <2>1 DEF TOP
  <2> QED
    BY <1>3, <2>2, DivideMonotone
<1>6. harm = "none" /\ \A t \in Threads : ~MidChar(t)
  BY DEF ConsoleInit, MidChar, Silent, Selects, Reads, Writes
<1>7. CrtcType /\ Cursor = p
  BY <1>2, <1>4, <1>6 DEF CrtcType, Cursor
<1>8. crtc.hi \in 0..HIGH /\ crtc.lo \in 0..(BYTE - 1)
  BY <1>2, <1>3, <1>4, <1>5
<1>9. DataInv
  BY <1>3, <1>6, <1>7, <1>8, NotMid DEF DataInv, Within, Agreed
<1>10. Shown \in 0..(CELLS - 1)
  BY <1>1, <1>6, <1>9, ShownOnScreen
<1> QED
  BY <1>1, <1>9, <1>10 DEF ConFull, T!Init, CELLS

(* Once it has stopped, nothing happens any more.                           *)
LEMMA StoppedStays == hung => ~ConsoleNext
<1> SUFFICES ASSUME hung, ConsoleNext PROVE FALSE
  OBVIOUS
<1>1. \A t, p : ~At(t, p)
  BY DEF At
<1>2. \A t, p : ~On(t, p) /\ ~Running(t)
  BY <1>1 DEF On, Running
<1>3. ASSUME NEW t \in Threads PROVE ~ThreadStep(t) /\ ~put_char(t)
  <2>1. ~AcquireStep(t) /\ ~lock_release(t) /\ ~lock_release_count(t) /\ ~sema_up(t)
    BY <1>1 DEF AcquireStep, sema_down_enter, sema_down_wait, sema_down_take,
                lock_acquire_hold, lock_acquire_count, lock_release, lock_release_count,
                sema_up, Goes
  <2>2. ~put_char(t)
    BY <1>2 DEF put_char, put_char_select, put_char_read, put_char_store, put_char_write, Prints
  <2> QED
    BY <1>2, <2>1, <2>2 DEF ThreadStep, console_str, syscall_enter, sys_write, syscall_exit,
                            console_acquire, console_release
<1>4. \A t \in Threads : ~WaitForDisk(t) /\ ~DiskInterrupt(t)
  BY <1>1 DEF WaitForDisk, DiskInterrupt, Elsewhere, Outside, Block, DeviceInterrupt
<1>5. ~cpu_idle_print /\ ~cpu_idle_halt /\ \A c : ~key_echo(c)
  BY <1>2 DEF cpu_idle_print, cpu_idle_halt, key_echo
<1>6. /\ \A t : ~Elsewhere(thread_start(t)) /\ ~Elsewhere(Resume(t)) /\ ~Elsewhere(local_irq_enable(t))
      /\ ~Elsewhere(clock_service) /\ ~Elsewhere(cpu_idle)
  BY <1>1 DEF Elsewhere, Outside, thread_start, Resume, local_irq_enable, clock_service, cpu_idle
<1> QED
  BY <1>3, <1>4, <1>5, <1>6, ThreadsAssumption DEF ConsoleNext

(* A step outside put_char() that keeps ConInv.                             *)
LEMMA AroundKeeps ==
  ASSUME ConInv, DataInv, ConInv', UNCHANGED <<crtc, harm>>,
         NEW t \in Threads, ~MidChar(t), ~MidChar(t)' , \A u \in Threads \ {t} : out'[u] = out[u]
  PROVE  ConFull' /\ [T!Next]_Shown
<1>1. ~hung /\ ~hung'
  BY DEF ConInv, SyncInv, Inv, NoAssertFails
<1>2. DataInv' /\ Shown' = Shown
  BY <1>1, RegistersKeep
<1> QED
  BY <1>1, <1>2 DEF ConFull

(* The steps before and after the characters: they begin and end at places  *)
(* where no character is under way.                                         *)
LEMMA AroundSteps ==
  ASSUME ConInv, NEW t \in Threads,
         \/ /\ t # Idle
            /\ \/ \E s \in Strings : console_str(t, s) \/ syscall_enter(t, s)
               \/ sys_write(t) \/ syscall_exit(t) \/ console_acquire(t) \/ console_release(t)
         \/ t = Idle /\ (cpu_idle_print \/ cpu_idle_halt)
  PROVE  /\ ~MidChar(t) /\ ~MidChar(t)' /\ UNCHANGED <<crtc, harm>>
         /\ \A u \in Threads \ {t} : out'[u] = out[u]
<1>1. UNCHANGED <<crtc, harm>>
  BY DEF console_str, syscall_enter, sys_write, syscall_exit, console_acquire, console_release,
         cpu_idle_print, cpu_idle_halt, Quiet
<1>2. out[t].step \in {"none", "write", "iret", "lock", "end"}
  BY DEF console_str, syscall_enter, sys_write, syscall_exit, console_acquire, console_release,
         cpu_idle_print, cpu_idle_halt, On
<1>3. out \in [Threads -> OutType]
  BY ConTypes
<1> DEFINE Idles == {"none", "write", "iret", "lock", "end", "sel_rh"}
           Leaves(o) == out' = [out EXCEPT ![t] = o] /\ o.step \in Idles
<1>4. ASSUME NEW s \in Strings, console_str(t, s) PROVE \E o : Leaves(o)
  <2> DEFINE o == [out[t] EXCEPT !.step = "lock", !.rest = s]
  <2>1. Leaves(o)
    BY <1>3, <1>4 DEF console_str, OutType
  <2> QED
    BY <2>1
<1>5. ASSUME NEW s \in Strings, syscall_enter(t, s) PROVE \E o : Leaves(o)
  <2> DEFINE o == [out[t] EXCEPT !.step = "write", !.rest = s, !.trap = TRUE]
  <2>1. Leaves(o)
    BY <1>3, <1>5 DEF syscall_enter, OutType
  <2> QED
    BY <2>1
<1>6. ASSUME sys_write(t) PROVE \E o : Leaves(o)
  <2> DEFINE o == [out[t] EXCEPT !.step = "lock"]
  <2>1. Leaves(o)
    BY <1>3, <1>6 DEF sys_write, OutType
  <2> QED
    BY <2>1
<1>7. ASSUME syscall_exit(t) \/ (t = Idle /\ cpu_idle_halt) PROVE \E o : Leaves(o)
  <2>1. Leaves(Silent)
    BY <1>7 DEF syscall_exit, cpu_idle_halt, Silent
  <2> QED
    BY <2>1
<1>8. out' = out => \E o : Leaves(o)
  <2>1. out' = out => Leaves(out[t])
    BY <1>2, <1>3
  <2> QED
    BY <2>1
<1>9. ASSUME console_acquire(t) PROVE \E o : Leaves(o)
  <2> DEFINE o == [out[t] EXCEPT !.step = "sel_rh"]
  <2>1. Leaves(o) \/ out' = out
    BY <1>3, <1>9 DEF console_acquire, OutType
  <2> QED
    BY <1>8, <2>1
<1>10. ASSUME console_release(t) PROVE \E o : Leaves(o)
  <2> DEFINE o == IF out[t].trap THEN [out[t] EXCEPT !.step = "iret"] ELSE Silent
  <2>1. o.step \in Idles
    BY <1>3 DEF OutType, Silent
  <2>2. out' = [out EXCEPT ![t] = o] \/ out' = out
    BY <1>3, <1>10 DEF console_release
  <2> HIDE DEF o
  <2> QED
    BY <1>8, <2>1, <2>2
<1>11. ASSUME t = Idle, cpu_idle_print PROVE \E o : Leaves(o)
  <2> DEFINE o == [out[t] EXCEPT !.step = "sel_rh", !.rest = IdleString]
  <2>1. Leaves(o)
    BY <1>3, <1>11 DEF cpu_idle_print, OutType
  <2> QED
    BY <2>1
<1>12. \E o : Leaves(o)
  <2> HIDE DEF Leaves
  <2> QED
    BY <1>4, <1>5, <1>6, <1>7, <1>9, <1>10, <1>11
<1>13. out'[t].step \in Idles /\ \A u \in Threads \ {t} : out'[u] = out[u]
  BY <1>3, <1>12
<1> QED
  BY <1>1, <1>2, <1>13 DEF MidChar, Selects, Reads, Writes

(* Every step keeps the invariant, and is one of Terminal or none.          *)
LEMMA ConNextFull == ConFull /\ [ConsoleNext]_conVars => ConFull' /\ [T!Next]_Shown
<1> SUFFICES ASSUME ConFull, [ConsoleNext]_conVars PROVE ConFull' /\ [T!Next]_Shown
  OBVIOUS
<1>1. CASE UNCHANGED conVars
  <2>1. UNCHANGED <<syncVars, crtc, out, harm>>
    BY <1>1 DEF conVars
  <2>2. UNCHANGED <<vars, value, waiters, holder, repeat, nest, at, lk, saved>>
    BY <2>1 DEF syncVars, sema, owner
  <2>3. UNCHANGED <<current_task, status, frame, intr, old_status, hung, Cursor>>
    BY <2>1, <2>2 DEF vars, Cursor
  <2>4. UNCHANGED Shown
    BY <2>1, <2>3 DEF Shown, MidChar
  <2>5. ConInv => ConInv'
    <3>1. SyncInv => SyncInv'
      BY <2>2, <2>3, OutsideKeeps DEF sema, owner
    <3> QED
      BY <2>1, <2>2, <2>3, <3>1 DEF ConInv, OutPhase, TrapRight, RestRight
  <2>6. DataInv => DataInv'
    BY <2>1, <2>3 DEF DataInv, CrtcType, Within, Agreed, BxWithin, BxAgrees, MidChar
  <2>7. (LockersTakeTurns => LockersTakeTurns') /\ (FaultNeedsSplit => FaultNeedsSplit')
    BY <2>1, <2>3 DEF LockersTakeTurns, FaultNeedsSplit, MidChar
  <2> QED
    BY <2>3, <2>4, <2>5, <2>6, <2>7 DEF ConFull
<1>2. CASE ConsoleNext
  <2>1. ~hung /\ ConInv /\ DataInv
    BY <1>2, StoppedStays DEF ConFull
  <2>2. ASSUME ConInv', DataInv', [T!Next]_Shown PROVE ConFull' /\ [T!Next]_Shown
    <3>1. ~hung'
      BY <2>2 DEF ConInv, SyncInv, Inv, NoAssertFails
    <3> QED
      BY <2>2, <3>1 DEF ConFull
  <2>3. ASSUME NEW t \in Threads, put_char(t) PROVE ConFull' /\ [T!Next]_Shown
    <3>1. ASSUME put_char_store(t) PROVE ConFull' /\ [T!Next]_Shown
      <4>1. CASE hung'
        BY <2>1, <3>1, <4>1, StoreStops DEF ConFull
      <4>2. CASE ~hung'
        BY <2>1, <2>2, <3>1, <4>2, StoreKeeps
      <4> QED
        BY <4>1, <4>2
    <3>2. CASE put_char_select(t) \/ put_char_read(t) \/ put_char_write(t)
      BY <2>1, <2>2, <3>2, SelectKeeps, ReadKeeps, WriteKeeps
    <3> QED
      BY <2>3, <3>1, <3>2 DEF put_char
  <2>4. ASSUME NEW c \in Typed, key_echo(c) PROVE ConFull' /\ [T!Next]_Shown
    <3>1. CASE hung'
      BY <2>1, <2>4, <3>1, KeyStops DEF ConFull
    <3>2. CASE ~hung'
      BY <2>1, <2>2, <2>4, <3>2, KeyKeeps
    <3> QED
      BY <3>1, <3>2
  <2>5. ASSUME NEW t \in Threads \ {Idle},
               \/ \E s \in Strings : console_str(t, s) \/ syscall_enter(t, s)
               \/ sys_write(t) \/ syscall_exit(t) \/ console_acquire(t) \/ console_release(t)
        PROVE  ConFull' /\ [T!Next]_Shown
    <3>1. ConInv'
      BY <2>1, <2>5, AskKeeps, SyscallKeeps, AcquireStepKeeps, ReleaseStepKeeps
    <3>2. /\ ~MidChar(t) /\ ~MidChar(t)' /\ UNCHANGED <<crtc, harm>>
          /\ \A u \in Threads \ {t} : out'[u] = out[u]
      BY <2>1, <2>5, AroundSteps
    <3> QED
      BY <2>1, <3>1, <3>2, AroundKeeps
  <2>6. ASSUME cpu_idle_print \/ cpu_idle_halt PROVE ConFull' /\ [T!Next]_Shown
    <3>1. ConInv'
      BY <2>1, <2>6, IdleKeeps
    <3>2. /\ ~MidChar(Idle) /\ ~MidChar(Idle)' /\ UNCHANGED <<crtc, harm>>
          /\ \A u \in Threads \ {Idle} : out'[u] = out[u]
      BY <2>1, <2>6, AroundSteps, ThreadsAssumption
    <3> QED
      BY <2>1, <3>1, <3>2, AroundKeeps, ThreadsAssumption
  <2>7. ASSUME \/ \E t \in Threads : Elsewhere(Resume(t))
               \/ Elsewhere(clock_service)
               \/ Elsewhere(cpu_idle)
               \/ \E t \in Threads \ {Idle} : WaitForDisk(t) \/ DiskInterrupt(t)
               \/ \E t \in Threads : Away(Main) /\ Elsewhere(thread_start(t))
               \/ Away(Main) /\ Elsewhere(local_irq_enable(Main))
        PROVE  ConFull' /\ [T!Next]_Shown
    <3>1. ConInv'
      BY <2>1, <2>7, SchedulerKeeps
    <3>2. UNCHANGED <<out, crtc, harm>>
      BY <2>7 DEF Elsewhere, WaitForDisk, DiskInterrupt, Quiet
    <3>3. ~hung'
      BY <3>1 DEF ConInv, SyncInv, Inv, NoAssertFails
    <3>4. DataInv' /\ Shown' = Shown
      BY <2>1, <3>2, <3>3, RegistersKeep
    <3> QED
      BY <3>1, <3>3, <3>4 DEF ConFull
  <2>8. Idle \in Threads
    BY ThreadsAssumption
  <2> QED
    BY <1>2, <2>3, <2>4, <2>5, <2>6, <2>7, <2>8 DEF ConsoleNext, ThreadStep
<1> QED
  BY <1>1, <1>2

(* The invariant of the console.                                            *)
THEOREM ConsoleInvariant == ConsoleSpec => []ConFull
BY ConInitFull, ConNextFull, PTL DEF ConsoleSpec

(* Threads that print with console_lock do not disturb each other, however  *)
(* many there are, and a system call prints its string with interrupts off  *)
(* although sema_down() may have switched to other threads before.          *)
THEOREM LockersTakeTheirTurns == ConsoleSpec => []LockersTakeTurns
<1>1. ConFull => LockersTakeTurns
  BY ConTurns DEF ConFull
<1> QED
  BY <1>1, ConsoleInvariant, PTL

(* put_char() stores beyond the video segment, and so stops the kernel,     *)
(* only after a split access or for a backspace at the start of the screen; *)
(* no ASSERT fails.                                                         *)
THEOREM FaultsNeedASplit == ConsoleSpec => []FaultNeedsSplit
<1>1. ConFull => FaultNeedsSplit
  BY DEF ConFull, FaultNeedsSplit
<1> QED
  BY <1>1, ConsoleInvariant, PTL

(* put_char() implements Terminal: until two characters are put at the same *)
(* time its nine accesses act as one, on a screen of any size.              *)
THEOREM ConsoleActsAsTerminal == ConsoleSpec => ActsAsTerminal
<1>1. ConsoleInit => T!Init
  BY ConInitFull
<1>2. ConFull /\ [ConsoleNext]_conVars => [T!Next]_Shown
  BY ConNextFull
<1> QED
  BY <1>1, <1>2, ConsoleInvariant, PTL DEF ConsoleSpec, ActsAsTerminal, T!Spec
=============================================================================
