------------------------------- MODULE Thread -------------------------------
(***************************************************************************)
(* The scheduler of simos: thread/thread.c, thread/switch.S and the clock  *)
(* handler and sleep of device/timer.c, on one CPU.                        *)
(*                                                                         *)
(* Everything the kernel does with interrupts off, up to the next context  *)
(* switch, is one step.  A thread that has called schedule() keeps a       *)
(* `frame': the routine in which it will wake up (the tail of              *)
(* thread_block, of thread_yield, of the clock handler, or kernel_func of  *)
(* a thread that never ran).  Resume is that tail.  A false ASSERT ends in *)
(* debug_out(), which disables interrupts and spins: the variable `hung'.  *)
(*                                                                         *)
(* What a thread runs between kernel calls is arbitrary.  It may block, it *)
(* may wake a blocked thread, and a device interrupt may wake one: this is *)
(* how sync.c and ioqueue.c use thread_block and thread_unblock.           *)
(***************************************************************************)
EXTENDS Naturals, Sequences

CONSTANTS Threads,      \* every PCB that may come to exist
          Main, Idle,   \* main_thread and idle_thread
          Priority,     \* the prio each thread is started with
          SleepTicks    \* the sleep_ticks that callers of mil_sleep ask for

ASSUME ThreadsAssumption == {Main, Idle} \subseteq Threads /\ Main # Idle
ASSUME PriorityAssumption == Priority \in [Threads -> Nat]
ASSUME SleepAssumption == SleepTicks \subseteq Nat \ {0}

VARIABLES current_task,   \* the running PCB
          status,         \* task_struct.status; "NONE": no PCB yet
          ready,          \* thread_ready_queue, front first
          ticks,          \* task_struct.ticks, the rest of the time slice
          pid, next_pid,  \* task_struct.pid and alloc_pid's counter
          intr,           \* EFLAGS.IF of the CPU
          frame,          \* where a thread that is off the CPU resumes
          old_status,     \* the interrupt state thread_block/thread_yield saved
          pc,             \* where a thread is in mil_sleep or in cpu_idle
          left,           \* sleep_ticks - (ticks - start_ticks), at least 0
          hung            \* an ASSERT failed

sched == <<current_task, status, ready, ticks, frame, hung>>
vars == <<current_task, status, ready, ticks, pid, next_pid, intr, frame,
          old_status, pc, left, hung>>

Status == {"NONE", "RUNNING", "READY", "BLOCKED"}
Frame == {"none", "new", "clock", "block", "yield"}
Pc == {"run", "sleep", "nap", "loop", "print", "hlt"}

-----------------------------------------------------------------------------
(* The queue of list.c as a sequence.  The pointer level is KernelList.     *)

queue_in_Front(q, n) == <<n>> \o q
queue_in(q, n) == Append(q, n)

queue_push(q, n) == <<n>> \o q

(* The walk stops before it looks at the last element.                      *)
list_find_item(q, n) == \E i \in 1..(Len(q) - 1) : q[i] = n

(* ticks is a uint8_t.                                                      *)
slice(t) == Priority[t] % 256

(* debug_out(): interrupts off, spin for ever.                              *)
debug_out == /\ hung' = TRUE
             /\ intr' = FALSE
             /\ UNCHANGED <<current_task, status, ready, ticks, frame>>

(* schedule(), entered with statuses st and ready queue q, by a thread that *)
(* will resume in routine fr.                                               *)
Schedule(st, q, fr) ==
  LET cur == current_task
      spent == st[cur] = "RUNNING"
      q1 == IF spent THEN queue_in(q, cur) ELSE q
      st1 == IF spent THEN [st EXCEPT ![cur] = "READY"] ELSE st
      nobody == q1 = <<>>
      q2 == IF nobody THEN queue_push(q1, Idle) ELSE q1
      st2 == IF nobody THEN [st1 EXCEPT ![Idle] = "READY"] ELSE st1
  IN  IF \/ spent /\ list_find_item(q, cur)
         \/ nobody /\ st1[Idle] # "BLOCKED"
        THEN debug_out
        ELSE /\ ticks' = IF spent THEN [ticks EXCEPT ![cur] = slice(cur)] ELSE ticks
             /\ ready' = Tail(q2)
             /\ status' = [st2 EXCEPT ![Head(q2)] = "RUNNING"]
             /\ current_task' = Head(q2)
             /\ frame' = [frame EXCEPT ![cur] = fr]
             /\ intr' = FALSE
             /\ hung' = hung

thread_block ==
  /\ Schedule([status EXCEPT ![current_task] = "BLOCKED"], ready, "block")
  /\ old_status' = [old_status EXCEPT ![current_task] = intr]

thread_unblock(w) ==
  IF status[w] # "BLOCKED" \/ list_find_item(ready, w)
    THEN debug_out
    ELSE /\ ready' = queue_push(ready, w)
         /\ status' = [status EXCEPT ![w] = "READY"]
         /\ UNCHANGED <<current_task, ticks, frame, hung, intr>>

thread_yield_KeepsStatus ==
  /\ Schedule(status, queue_in(ready, current_task), "yield")
  /\ old_status' = [old_status EXCEPT ![current_task] = intr]

thread_yield ==
  /\ IF list_find_item(ready, current_task)
       THEN debug_out
       ELSE Schedule([status EXCEPT ![current_task] = "READY"],
                     queue_in(ready, current_task), "yield")
  /\ old_status' = [old_status EXCEPT ![current_task] = intr]

-----------------------------------------------------------------------------
(* thread_init(): main runs with interrupts off, cpu_idle waits to be run.  *)
Init ==
  /\ current_task = Main
  /\ status = [t \in Threads |-> CASE t = Main -> "RUNNING"
                                   [] t = Idle -> "READY"
                                   [] OTHER -> "NONE"]
  /\ ready = <<Idle>>
  /\ ticks = [t \in Threads |-> IF t \in {Main, Idle} THEN slice(t) ELSE 0]
  /\ pid = [t \in Threads |-> CASE t = Main -> 1 [] t = Idle -> 2 [] OTHER -> 0]
  /\ next_pid = 2
  /\ intr = FALSE
  /\ frame = [t \in Threads |-> IF t = Main THEN "none" ELSE "new"]
  /\ old_status = [t \in Threads |-> FALSE]
  /\ pc = [t \in Threads |-> IF t = Idle THEN "loop" ELSE "run"]
  /\ left = [t \in Threads |-> 0]
  /\ hung = FALSE

(* The running thread executes its own code, at point p.                    *)
At(t, p) == ~hung /\ current_task = t /\ frame[t] = "none" /\ pc[t] = p

(* switch_to has returned on the stack of the new current task.             *)
Resume(t) ==
  /\ ~hung /\ current_task = t /\ frame[t] # "none"
  /\ frame' = [frame EXCEPT ![t] = "none"]
  /\ intr' = IF frame[t] \in {"new", "clock"} THEN TRUE ELSE old_status[t]
  /\ pc' = IF t = Idle /\ frame[t] = "block" THEN [pc EXCEPT ![t] = "print"] ELSE pc
  /\ UNCHANGED <<current_task, status, ready, ticks, pid, next_pid, old_status,
                 left, hung>>

(* thread_start(): its callers, thread_init and main before it enables      *)
(* interrupts, run with interrupts off, so pid_lock is free.                *)
(* thread_total_list, which nothing reads, is the set of t with a status.   *)
thread_start(t) ==
  /\ At(Main, "run") /\ ~intr /\ status[t] = "NONE"
  /\ next_pid' = next_pid + 1
  /\ pid' = [pid EXCEPT ![t] = next_pid + 1]
  /\ status' = [status EXCEPT ![t] = "READY"]
  /\ ready' = queue_in(ready, t)
  /\ ticks' = [ticks EXCEPT ![t] = slice(t)]
  /\ UNCHANGED <<current_task, intr, frame, old_status, pc, left, hung>>

(* An interrupt ends the hlt of cpu_idle, one that came before it does not. *)
WakeCpu == pc' = IF current_task = Idle /\ pc[Idle] = "hlt"
                   THEN [pc EXCEPT ![Idle] = "loop"] ELSE pc

expired_Never == FALSE
expired == ticks[current_task] = 0

(* clock_service(), vector 0x20.                                            *)
clock_service ==
  /\ ~hung /\ intr /\ frame[current_task] = "none"
  /\ left' = [t \in Threads |-> IF left[t] = 0 THEN 0 ELSE left[t] - 1]
  /\ WakeCpu
  /\ IF expired
       THEN Schedule(status, ready, "clock")
       ELSE /\ ticks' = [ticks EXCEPT ![current_task] = @ - 1]
            /\ UNCHANGED <<current_task, status, ready, frame, hung, intr>>
  /\ UNCHANGED <<pid, next_pid, old_status>>

(* A handler of another device (external: IDE, keyboard) wakes a waiter.    *)
DeviceInterrupt(w) ==
  /\ ~hung /\ intr /\ frame[current_task] = "none"
  /\ w # Idle /\ status[w] = "BLOCKED"
  /\ WakeCpu
  /\ thread_unblock(w)
  /\ UNCHANGED <<pid, next_pid, old_status, left>>

(* ... or finds nobody to wake.                                             *)
OtherInterrupt ==
  /\ ~hung /\ intr /\ current_task = Idle /\ frame[Idle] = "none" /\ pc[Idle] = "hlt"
  /\ WakeCpu
  /\ UNCHANGED <<sched, pid, next_pid, intr, old_status, left>>

-----------------------------------------------------------------------------
(* The kernel calls of an ordinary thread.                                  *)

Block(t) ==
  /\ At(t, "run")
  /\ thread_block
  /\ UNCHANGED <<pid, next_pid, pc, left>>

Unblock_Unchecked(t, w) ==
  /\ At(t, "run")
  /\ w # Idle /\ status[w] # "NONE"
  /\ thread_unblock(w)
  /\ UNCHANGED <<pid, next_pid, old_status, pc, left>>

Unblock(t, w) ==
  /\ At(t, "run")
  /\ w # Idle /\ status[w] = "BLOCKED"
  /\ thread_unblock(w)
  /\ UNCHANGED <<pid, next_pid, old_status, pc, left>>

local_irq_disable(t) ==
  /\ At(t, "run") /\ intr
  /\ intr' = FALSE
  /\ UNCHANGED <<sched, pid, next_pid, old_status, pc, left>>

local_irq_enable(t) ==
  /\ At(t, "run") /\ ~intr
  /\ intr' = TRUE
  /\ UNCHANGED <<sched, pid, next_pid, old_status, pc, left>>

(* mil_sleep() up to the loop of ticks_to_sleep().  Only the difference of  *)
(* the tick counter and start_ticks is kept, modulo nothing: a sleep is    *)
(* shorter than the 2^32 ticks after which the counter wraps.              *)
mil_sleep(t, n) ==
  /\ At(t, "run")
  /\ left' = [left EXCEPT ![t] = n]
  /\ pc' = [pc EXCEPT ![t] = "sleep"]
  /\ UNCHANGED <<sched, pid, next_pid, intr, old_status>>

due_Late(t) == FALSE
due(t) == left[t] = 0

(* while (ticks - start_ticks < sleep_ticks) ...                            *)
ticks_to_sleep(t) ==
  /\ At(t, "sleep")
  /\ pc' = [pc EXCEPT ![t] = IF due(t) THEN "run" ELSE "nap"]
  /\ UNCHANGED <<sched, pid, next_pid, intr, old_status, left>>

(* ... thread_yield();                                                      *)
SleepYield(t) ==
  /\ At(t, "nap")
  /\ thread_yield
  /\ pc' = [pc EXCEPT ![t] = "sleep"]
  /\ UNCHANGED <<pid, next_pid, left>>

(* cpu_idle(): block first, halt once the scheduler has nothing else.       *)
cpu_idle ==
  /\ At(Idle, "loop")
  /\ thread_block
  /\ UNCHANGED <<pid, next_pid, pc, left>>

(* ... put_str("CPU IDLE"), sti, hlt.                                       *)
cpu_halt ==
  /\ At(Idle, "print")
  /\ pc' = [pc EXCEPT ![Idle] = "hlt"]
  /\ intr' = TRUE
  /\ UNCHANGED <<sched, pid, next_pid, old_status, left>>

-----------------------------------------------------------------------------
(* What a thread does of its own accord, and what it must do.               *)
Call(t) ==
  \/ Block(t)
  \/ \E w \in Threads : Unblock(t, w)
  \/ local_irq_disable(t)
  \/ \E n \in SleepTicks : mil_sleep(t, n)

Step(t) ==
  \/ local_irq_enable(t)
  \/ ticks_to_sleep(t)
  \/ SleepYield(t)
  \/ t = Idle /\ (cpu_idle \/ cpu_halt)

Next ==
  \/ \E t \in Threads : \/ Call(t) \/ Step(t) \/ Resume(t)
                        \/ thread_start(t) \/ DeviceInterrupt(t)
  \/ clock_service
  \/ OtherInterrupt

Spec == Init /\ [][Next]_vars

(* A dispatched thread executes instructions between two interrupts, code   *)
(* that disables interrupts restores them, and the 8259A keeps a clock      *)
(* request pending until the CPU accepts it.                                *)
Fairness == /\ WF_vars(\E t \in Threads : Resume(t))
            /\ \A t \in Threads : SF_vars(Step(t))
            /\ SF_vars(clock_service)

FairSpec == Spec /\ Fairness

-----------------------------------------------------------------------------
TypeOK ==
  /\ current_task \in Threads
  /\ status \in [Threads -> Status]
  /\ ready \in Seq(Threads)
  /\ ticks \in [Threads -> 0..255]
  /\ pid \in [Threads -> Nat] /\ next_pid \in Nat
  /\ intr \in BOOLEAN
  /\ frame \in [Threads -> Frame]
  /\ old_status \in [Threads -> BOOLEAN]
  /\ pc \in [Threads -> Pc]
  /\ left \in [Threads -> Nat]
  /\ hung \in BOOLEAN

OnQueue(q, t) == \E i \in 1..Len(q) : q[i] = t
Distinct(q) == \A i, j \in 1..Len(q) : q[i] = q[j] => i = j

(* The scheduler's books agree: exactly the current task is RUNNING, the    *)
(* READY tasks are exactly those in the ready queue, each there once.       *)
(* schedule(), thread_unblock() and thread_yield() keep a status word and a *)
(* queue in step that nothing in the data structure ties together.          *)
BooksAgree ==
  /\ \A t \in Threads : status[t] = "RUNNING" <=> t = current_task
  /\ \A t \in Threads : status[t] = "READY" <=> OnQueue(ready, t)
  /\ Distinct(ready)

(* No ASSERT of schedule(), thread_block(), thread_unblock() or             *)
(* thread_yield() fails.  In particular schedule() finds cpu_idle blocked   *)
(* whenever the ready queue has run empty.                                  *)
NoAssertFails == ~hung

(* Some thread is put in front of the ready queue.                          *)
Woken == \E w \in Threads : status[w] = "BLOCKED" /\ status'[w] = "READY"

(* A READY thread gets the CPU: round robin starves nobody.  The exception  *)
(* is real: thread_unblock puts the threads it wakes in front of the queue, *)
(* so threads that keep waking each other can keep the others out.          *)
ReadyRuns ==
  \/ \A t \in Threads : status[t] = "READY" ~> status[t] = "RUNNING"
  \/ []<><<Woken>>_vars

(* A sleep that began with interrupts on ends, short of that starvation.    *)
(* One with interrupts off, which ide.c's busy_wait() makes when it runs at *)
(* boot, need not: the tick counter stands still.                           *)
SleepEnds ==
  \/ \A t \in Threads : (At(t, "sleep") /\ intr) ~> pc[t] = "run"
  \/ []<><<Woken>>_vars
=============================================================================
