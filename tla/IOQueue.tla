------------------------------- MODULE IOQueue -------------------------------
(***************************************************************************)
(* The blocking character queue of device/ioqueue.c on the locks of Sync,  *)
(* with the keyboard interrupt of device/keyboard.c as one producer.       *)
(*                                                                         *)
(* ioq_getchar() and ioq_putchar() are called with interrupts off.  A      *)
(* thread in one of them is in its while loop (io[t] = "loop"), taking the *)
(* lock if at[t] is in lock_acquire, or back from ioq_wait() ("woken").    *)
(***************************************************************************)
EXTENDS Sync

CONSTANTS QUEUE_BUFF_SIZE,        \* 64 in the code
          Chars,                  \* the characters
          Consumers, Producers,   \* threads that call ioq_getchar, ioq_putchar
          ioq_lock,               \* ioq->lock
          Initialised,            \* whether ioqueue_init() was called
          Keys                    \* the characters typed on the keyboard

ASSUME SizeAssumption == QUEUE_BUFF_SIZE \in Nat \ {0, 1}
ASSUME LockAssumption == Locks = {ioq_lock}
ASSUME KeysAssumption == Keys \subseteq Chars /\ Chars # {}
ASSUME PartiesAssumption == Consumers \union Producers \subseteq Threads

VARIABLES buff, front, tail,      \* ioq->buff, ioq->front, ioq->tail
          producer, consumer,     \* the registered waiters, or NULL
          io, dir                 \* where a thread is, and in which function

ring == <<buff, front, tail>>
parties == <<producer, consumer>>
locks == <<sema, owner, at, lk, saved>>
ioVars == <<syncVars, ring, parties, io, dir>>

ioqueue_init ==
  /\ buff = [i \in 0..(QUEUE_BUFF_SIZE - 1) |-> CHOOSE c \in Chars : TRUE]
  /\ front = 0 /\ tail = 0
  /\ producer = NoThread /\ consumer = NoThread

(* A queue in .bss on which ioqueue_init() was never called is all zeroes:  *)
(* it is empty, and the semaphore of its lock has the value 0.              *)
IOInit ==
  /\ Init /\ Unlocked /\ ioqueue_init
  /\ IF Initialised THEN lock_init ELSE no_holder /\ sema_init(0)
  /\ io = [t \in Threads |-> "idle"]
  /\ dir = [t \in Threads |-> "get"]

ioq_next_pos(pos) == (pos + 1) % QUEUE_BUFF_SIZE

ioq_full_NoWrap == front + 1 = tail
ioq_full == ioq_next_pos(front) = tail

ioq_empty == front = tail

-----------------------------------------------------------------------------
(* ioq_wait(): register in a slot that must be free, and block.             *)
ioq_wait(t) ==
  IF (IF dir[t] = "get" THEN consumer ELSE producer) # NoThread
    THEN AssertFailed /\ UNCHANGED <<at, ring, parties, io, dir>>
    ELSE /\ IF dir[t] = "get"
              THEN consumer' = t /\ UNCHANGED producer
              ELSE producer' = t /\ UNCHANGED consumer
         /\ Block(t)
         /\ io' = [io EXCEPT ![t] = "woken"]
         /\ UNCHANGED <<locks, ring, dir>>

(* ioq_wakeup(), if anybody is registered.                                  *)
ioq_wakeup_Never(waiter) == UNCHANGED <<sched, intr>>
ioq_wakeup(waiter) ==
  IF waiter = NoThread THEN UNCHANGED <<sched, intr>> ELSE thread_unblock(waiter)

(* The tail of ioq_getchar(): take a character, wake the producer.          *)
get ==
  /\ tail' = ioq_next_pos(tail)
  /\ ioq_wakeup(producer)
  /\ producer' = NoThread
  /\ UNCHANGED <<buff, front, consumer>>

put_KeepsConsumer(c) ==
  /\ buff' = [buff EXCEPT ![front] = c]
  /\ front' = ioq_next_pos(front)
  /\ ioq_wakeup(consumer)
  /\ UNCHANGED <<tail, parties>>

(* The tail of ioq_putchar(): store a character, wake the consumer.         *)
put(c) ==
  /\ buff' = [buff EXCEPT ![front] = c]
  /\ front' = ioq_next_pos(front)
  /\ ioq_wakeup(consumer)
  /\ consumer' = NoThread
  /\ UNCHANGED <<tail, producer>>

-----------------------------------------------------------------------------
(* A thread calls ioq_getchar() or ioq_putchar() with interrupts off.       *)
Enter(t, d) ==
  /\ At(t, "run") /\ io[t] = "idle" /\ ~intr
  /\ io' = [io EXCEPT ![t] = "loop"]
  /\ dir' = [dir EXCEPT ![t] = d]
  /\ UNCHANGED <<syncVars, ring, parties>>

Blocked(t) == IF dir[t] = "get" THEN ioq_empty ELSE ioq_full

(* while (ioq_empty) or while (ioq_full): lock_acquire(); ...               *)
LoopLock(t) ==
  /\ io[t] = "loop" /\ at[t] = "out" /\ Blocked(t)
  /\ lock_acquire(t, ioq_lock)
  /\ UNCHANGED <<ring, parties, io, dir>>

LoopAcquire(t) ==
  /\ io[t] = "loop"
  /\ AcquireStep(t)
  /\ UNCHANGED <<ring, parties, io, dir>>

(* ... ioq_wait(); ...                                                      *)
LoopWait(t) ==
  /\ At(t, "run") /\ io[t] = "loop" /\ at[t] = "in"
  /\ ioq_wait(t)

(* ... lock_release(), and once around.                                     *)
LoopRelease(t) ==
  /\ io[t] = "woken"
  /\ lock_release(t) \/ lock_release_count(t) \/ sema_up(t)
  /\ io' = IF at'[t] = "out" THEN [io EXCEPT ![t] = "loop"] ELSE io
  /\ UNCHANGED <<ring, parties, dir>>

(* The loop is over.                                                        *)
ioq_getchar(t) ==
  /\ At(t, "run") /\ io[t] = "loop" /\ at[t] = "out"
  /\ dir[t] = "get" /\ ~ioq_empty
  /\ get
  /\ io' = [io EXCEPT ![t] = "idle"]
  /\ UNCHANGED <<pid, next_pid, old_status, pc, left, locks, dir>>

ioq_putchar(t, c) ==
  /\ At(t, "run") /\ io[t] = "loop" /\ at[t] = "out"
  /\ dir[t] = "put" /\ ~ioq_full
  /\ put(c)
  /\ io' = [io EXCEPT ![t] = "idle"]
  /\ UNCHANGED <<pid, next_pid, old_status, pc, left, locks, dir>>

(* The keyboard interrupt: key_output() drops the key when the queue is     *)
(* full, so that ioq_putchar() never blocks in an interrupt handler.        *)
key_output(c) ==
  /\ ~hung /\ intr /\ frame[current_task] = "none"
  /\ WakeCpu
  /\ IF ioq_full THEN UNCHANGED <<sched, intr, ring, parties>> ELSE put(c)
  /\ UNCHANGED <<pid, next_pid, old_status, left, locks, io, dir>>

-----------------------------------------------------------------------------
QueueStep(t) ==
  \/ LoopLock(t) \/ LoopAcquire(t) \/ LoopWait(t) \/ LoopRelease(t)
  \/ ioq_getchar(t)
  \/ \E c \in Chars : ioq_putchar(t, c)

(* A step of the scheduler, or of a thread outside the queue.               *)
Elsewhere(step) == Outside(step) /\ UNCHANGED <<ring, parties, io, dir>>

IONext ==
  \/ \E t \in Consumers : Enter(t, "get")
  \/ \E t \in Producers : Enter(t, "put")
  \/ \E t \in Threads \ {Idle} :
       \/ QueueStep(t)
       \/ io[t] = "idle" /\ Elsewhere(local_irq_disable(t) \/ local_irq_enable(t))
  \/ \E c \in Keys : key_output(c)
  \/ \E t \in Threads : Elsewhere(Resume(t)) \/ (io[Main] = "idle" /\ Elsewhere(thread_start(t)))
  \/ Elsewhere(clock_service) \/ Elsewhere(OtherInterrupt)
  \/ Elsewhere(cpu_idle) \/ Elsewhere(cpu_halt)

IOSpec == IOInit /\ [][IONext]_ioVars

(* As in Thread.                                                            *)
IOFairness ==
  /\ WF_ioVars(\E t \in Threads : Elsewhere(Resume(t)))
  /\ WF_ioVars(\E t \in Threads : io[t] = "idle" /\ Elsewhere(local_irq_enable(t)))
  /\ \A t \in Consumers \union Producers : SF_ioVars(QueueStep(t))
  /\ SF_ioVars(Elsewhere(clock_service))
  /\ SF_ioVars(Elsewhere(cpu_idle \/ cpu_halt))

FairIOSpec == IOSpec /\ IOFairness

-----------------------------------------------------------------------------
IOTypeOK ==
  /\ SyncTypeOK
  /\ buff \in [0..(QUEUE_BUFF_SIZE - 1) -> Chars]
  /\ front \in 0..(QUEUE_BUFF_SIZE - 1) /\ tail \in 0..(QUEUE_BUFF_SIZE - 1)
  /\ {producer, consumer} \subseteq Threads \union {NoThread}
  /\ io \in [Threads -> {"idle", "loop", "woken"}]
  /\ dir \in [Threads -> {"get", "put"}]

(* The characters between tail and front.                                   *)
Contents == [i \in 1..((front + QUEUE_BUFF_SIZE - tail) % QUEUE_BUFF_SIZE) |->
               buff[(tail + i - 1) % QUEUE_BUFF_SIZE]]

F == INSTANCE Fifo WITH Capacity <- QUEUE_BUFF_SIZE - 1, contents <- Contents

(* The ring is a FIFO that holds one character less than its buffer: no     *)
(* character is lost, repeated or reordered, whoever puts and gets.         *)
ActsAsFifo == F!Spec

(* Nobody who sleeps in ioq_wait() is forgotten: the threads asleep there   *)
(* are exactly the registered ones, whom the next ioq_getchar(),            *)
(* ioq_putchar() or key wakes up, whatever the order in which readers,      *)
(* writers and the interrupt register, wake and clear the two slots.        *)
SleeperRegistered ==
  \A t \in Threads : io[t] = "woken" /\ status[t] = "BLOCKED" <=> t \in {producer, consumer}

(* A thread sleeps in ioq_wait() because it has to, as the comments of the  *)
(* two loops say: a reader faces an empty queue, a writer a full one.       *)
WaitsForReason ==
  \A t \in Threads : io[t] = "woken" /\ status[t] = "BLOCKED" => Blocked(t)

(* Somebody who uses the queue is awake, or outside of it.                  *)
NotAllAsleep ==
  \E t \in Consumers \union Producers : io[t] = "idle" \/ status[t] # "BLOCKED"

(* Readers and writers do not come to be all asleep in the queue, some to   *)
(* get and some to put: who cannot go on registers, and the other side      *)
(* wakes it.                                                                *)
NoStandOff ==
  NotAllAsleep \/ \A t, u \in Consumers \union Producers : dir[t] = dir[u]

(* ioq_getchar() gets a character from the queue once there is one.         *)
GetReturns ==
  \A t \in Consumers : (io[t] # "idle" /\ dir[t] = "get" /\ ~ioq_empty) ~> io[t] = "idle"

(* One of the two is kept: threads sleep in the queue only if they have to, *)
(* as the comments of the loops say (ioqueue.c:74, 98), or at least they    *)
(* never wait for each other.  The code keeps neither: the test of the loop *)
(* is made before lock_acquire(), which may block, and ioq_wait() blocks    *)
(* with the lock held.  A violation is a behaviour that shows both.         *)
OneWaitPromiseKept == []WaitsForReason \/ []NoStandOff
=============================================================================
