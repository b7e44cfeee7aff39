--------------------------- MODULE IOQueueProofs ---------------------------
(***************************************************************************)
(* The I/O queue of ioqueue.c, for any size of the ring, any number of     *)
(* threads that read and write it and any keys: no ASSERT fails, the ring  *)
(* is a FIFO, and threads that share a queue come to rest in one way only. *)
(***************************************************************************)
EXTENDS IOQueue, SyncProofs

(* Where a thread in the loop of ioq_getchar() or ioq_putchar() may be in   *)
(* sync.c.                                                                  *)
Phase(t) ==
  /\ io[t] = "idle" => at[t] = "out"
  /\ io[t] = "loop" => at[t] \in {"out", "down", "test", "got", "own", "in"}
  /\ io[t] = "woken" => at[t] \in {"in", "rel", "up"}
  /\ io[t] # "idle" => t \in Consumers \union Producers

(* A thread sleeps for the lock, or it is the one in its slot.              *)
Sleeper(t) ==
  \/ at[t] = "test"
  \/ io[t] = "woken" /\ at[t] = "in" /\ t = IF dir[t] = "get" THEN consumer ELSE producer

(* Whoever is in a slot sleeps in ioq_wait(), and has the lock.             *)
InSlot(w, d) ==
  w # NoThread => /\ w # Idle /\ status[w] = "BLOCKED"
                  /\ io[w] = "woken" /\ at[w] = "in" /\ dir[w] = d

(* The inductive invariant.                                                 *)
IOInv ==
  /\ SyncInv
  /\ IOTypeOK
  /\ \A t \in Threads : Phase(t)
  /\ \A t \in Threads \ {Idle} : status[t] = "BLOCKED" => Sleeper(t)
  /\ InSlot(consumer, "get") /\ InSlot(producer, "put")
  /\ pc[Idle] # "run" /\ io[Idle] = "idle"
  /\ NoLostWakeup
  /\ Initialised => Accounted

(* The invariant holds at boot.                                             *)
LEMMA IOInitInv == IOInit => IOInv
<1> SUFFICES ASSUME IOInit PROVE IOInv
  OBVIOUS
<1>1. Init /\ Unlocked /\ ioqueue_init /\ no_holder /\ \E v \in 0..1 : sema_init(v)
  BY DEF IOInit, lock_init
<1>2. SyncInv
  BY <1>1, SyncInitInv
<1>3. IOTypeOK
  <2>1. (CHOOSE c \in Chars : TRUE) \in Chars
    BY KeysAssumption
  <2>2. 0 \in 0..(QUEUE_BUFF_SIZE - 1)
    BY SizeAssumption
  <2>3. /\ buff \in [0..(QUEUE_BUFF_SIZE - 1) -> Chars]
        /\ front \in 0..(QUEUE_BUFF_SIZE - 1) /\ tail \in 0..(QUEUE_BUFF_SIZE - 1)
        /\ {producer, consumer} \subseteq Threads \union {NoThread}
    BY <1>1, <2>1, <2>2 DEF ioqueue_init
  <2> QED
    BY <1>2, <2>3 DEF IOTypeOK, SyncInv, IOInit
<1>4. \A t \in Threads : Phase(t)
  BY <1>1 DEF Phase, IOInit, Unlocked
<1>5. \A t \in Threads \ {Idle} : status[t] # "BLOCKED"
  BY <1>1 DEF Init
<1>6. InSlot(consumer, "get") /\ InSlot(producer, "put") /\ pc[Idle] # "run"
      /\ io[Idle] = "idle"
  BY <1>1, ThreadsAssumption DEF InSlot, ioqueue_init, Init, IOInit
<1>7. NoLostWakeup
  BY <1>1 DEF NoLostWakeup, sema_init
<1>8. Initialised => Accounted
  BY DEF IOInit, Accounted, lock_init, sema_init
<1> QED
  BY <1>2, <1>3, <1>4, <1>5, <1>6, <1>7, <1>8 DEF IOInv

(* A step outside sync.c and the queue that blocks and wakes nobody but     *)
(* cpu_idle.                                                                *)
LEMMA ElsewhereKeeps ==
  ASSUME IOInv, [Next]_vars, UNCHANGED <<locks, ring, parties, io, dir>>, pc'[Idle] # "run",
         \A t \in Threads \ {Idle} : status'[t] = "BLOCKED" <=> status[t] = "BLOCKED"
  PROVE  IOInv'
<1> USE DEF IOInv
<1>1. \A t \in Threads : at[t] = "test" => (status'[t] = "BLOCKED" <=> status[t] = "BLOCKED")
  BY DEF SyncInv
<1>2. UNCHANGED <<sema, owner, at, lk, saved>>
  BY DEF locks
<1>3. SyncInv' /\ NoLostWakeup' /\ (Initialised => Accounted')
  BY <1>1, <1>2, OutsideKeeps, OutsideWakes
<1>4. UNCHANGED <<buff, front, tail, producer, consumer, io, dir, at>>
  BY DEF locks, ring, parties
<1>5. IOTypeOK'
  BY <1>3, <1>4 DEF IOTypeOK, SyncInv
<1>6. \A t \in Threads : Phase(t)'
  BY <1>4 DEF Phase
<1>7. \A t \in Threads \ {Idle} : status'[t] = "BLOCKED" => Sleeper(t)'
  BY <1>4 DEF Sleeper
<1>8. InSlot(consumer, "get")' /\ InSlot(producer, "put")'
  BY <1>4 DEF InSlot, IOTypeOK
<1> QED
  BY <1>3, <1>5, <1>6, <1>7, <1>8

(* A step in sync.c, which may move the thread on in the loop.              *)
LEMMA LockingKeeps ==
  ASSUME IOInv, NEW t \in Threads \ {Idle},
         (\E l \in Locks : lock_acquire(t, l)) \/ LockStep(t),
         UNCHANGED <<ring, parties, dir>>,
         io' \in [Threads -> {"idle", "loop", "woken"}],
         \A u \in Threads \ {t} : io'[u] = io[u],
         Phase(t)'
  PROVE  IOInv' /\ [Next]_vars
<1> USE DEF IOInv
<1>1. /\ SyncInv' /\ [Next]_vars /\ status[t] # "BLOCKED" /\ UNCHANGED pc
      /\ NoLostWakeup' /\ (Initialised => Accounted')
      /\ \A u \in Threads \ {t} : at'[u] = at[u]
      /\ \A u \in Threads \ {Idle} :
           /\ status'[u] = "BLOCKED" => status[u] = "BLOCKED" \/ (u = t /\ at'[u] = "test")
           /\ status[u] = "BLOCKED" /\ at[u] # "test" => status'[u] = "BLOCKED"
  BY LockStepKeeps
<1>2. UNCHANGED <<buff, front, tail, producer, consumer, dir>>
  BY DEF ring, parties
<1>3. IOTypeOK'
  BY <1>1, <1>2 DEF IOTypeOK, SyncInv
<1>4. \A u \in Threads : Phase(u)'
  BY <1>1 DEF Phase
<1>5. \A u \in Threads \ {Idle} : status'[u] = "BLOCKED" => Sleeper(u)'
  BY <1>1, <1>2 DEF Sleeper
<1>6. InSlot(consumer, "get")' /\ InSlot(producer, "put")'
  BY <1>1, <1>2 DEF InSlot, IOTypeOK
<1> QED
  BY ThreadsAssumption, <1>1, <1>3, <1>4, <1>5, <1>6

(* ioq_wait(): the slot is free, because whoever is in it has the lock.     *)
LEMMA SleepKeeps ==
  ASSUME IOInv, NEW t \in Threads \ {Idle}, LoopWait(t)
  PROVE  /\ IOInv' /\ [Next]_vars /\ Block(t)
         /\ UNCHANGED <<at, ring, dir>> /\ io' = [io EXCEPT ![t] = "woken"]
<1> USE DEF IOInv
<1>1. At(t, "run") /\ io[t] = "loop" /\ at[t] = "in" /\ dir[t] \in {"get", "put"}
  BY DEF LoopWait, IOTypeOK
<1>2. lk \in [Threads -> {ioq_lock}]
  BY LockAssumption DEF SyncInv, SyncTypeOK
<1>3. ASSUME NEW u \in Threads, at[u] = "in" PROVE u = t
  BY <1>1, <1>2, <1>3 DEF SyncInv, Exclusion, Holding
<1>4. consumer = NoThread /\ producer = NoThread
  BY <1>1, <1>3 DEF InSlot, IOTypeOK
<1>5. /\ Block(t) /\ io' = [io EXCEPT ![t] = "woken"]
      /\ UNCHANGED <<locks, ring, dir>>
      /\ IF dir[t] = "get" THEN consumer' = t /\ producer' = NoThread
                           ELSE producer' = t /\ consumer' = NoThread
  BY <1>1, <1>4 DEF LoopWait, ioq_wait
<1>6. [Next]_vars
  BY <1>5 DEF Next, Call
<1>7. current_task = t /\ status[t] = "RUNNING"
  BY <1>1, RunningIsNotBlocked DEF At, SyncInv
<1>8. UNCHANGED pc /\ \A u \in Threads \ {Idle} :
         status'[u] = "BLOCKED" <=> status[u] = "BLOCKED" \/ u = t
  BY <1>5, <1>7, BlockBooks DEF Block, SyncInv
<1>9. \A u \in Threads : at[u] = "test" => (status'[u] = "BLOCKED" <=> status[u] = "BLOCKED")
  BY <1>1, <1>8 DEF SyncInv
<1>10. UNCHANGED <<sema, owner, at, lk, saved>> /\ UNCHANGED <<buff, front, tail>>
  BY <1>5 DEF locks, ring
<1>11. SyncInv' /\ NoLostWakeup' /\ (Initialised => Accounted')
  BY <1>6, <1>9, <1>10, OutsideKeeps, OutsideWakes
<1>12. IOTypeOK'
  BY <1>5, <1>10, <1>11 DEF IOTypeOK, SyncInv
<1>13. \A u \in Threads : Phase(u)'
  BY <1>1, <1>5, <1>10 DEF Phase, IOTypeOK
<1>14. \A u \in Threads \ {Idle} : status'[u] = "BLOCKED" => Sleeper(u)'
  <2> SUFFICES ASSUME NEW u \in Threads \ {Idle}, status'[u] = "BLOCKED" PROVE Sleeper(u)'
    OBVIOUS
  <2>1. CASE u = t
    BY <1>1, <1>5, <1>10, <2>1 DEF Sleeper, IOTypeOK
  <2>2. CASE u # t
    <3>1. Sleeper(u) /\ at[u] # "in"
      BY <1>3, <1>8, <2>2
    <3> QED
      BY <1>10, <3>1 DEF Sleeper
  <2> QED
    BY <2>1, <2>2
<1>15. InSlot(consumer, "get")' /\ InSlot(producer, "put")'
  BY <1>1, <1>5, <1>8, <1>10 DEF InSlot, IOTypeOK
<1> QED
  BY <1>5, <1>6, <1>8, <1>10, <1>11, <1>12, <1>13, <1>14, <1>15

(* ioq_wakeup() finds a BLOCKED thread in the slot, or none.                *)
LEMMA WakeupBooks ==
  ASSUME IOInv, NEW w \in {consumer, producer}, ioq_wakeup(w)
  PROVE  \/ w = NoThread /\ UNCHANGED <<sched, intr>>
         \/ /\ w \in Threads \ {Idle} /\ status[w] = "BLOCKED"
            /\ thread_unblock(w) /\ status' = [status EXCEPT ![w] = "READY"]
            /\ UNCHANGED <<current_task, frame, intr>>
<1>1. CASE w = NoThread
  BY <1>1 DEF ioq_wakeup
<1>2. CASE w # NoThread
  <2>1. w \in Threads \ {Idle} /\ status[w] = "BLOCKED"
    BY <1>2 DEF IOInv, InSlot, IOTypeOK
  <2>2. thread_unblock(w)
    BY <1>2 DEF ioq_wakeup
  <2> QED
    BY <2>1, <2>2, UnblockBooks DEF IOInv, SyncInv
<1> QED
  BY <1>1, <1>2

(* A step that empties a slot and wakes who was in it; a thread that runs   *)
(* may leave the queue.                                                     *)
LEMMA WakingKeeps ==
  ASSUME IOInv, [Next]_vars, NEW w, ioq_wakeup(w),
         \/ w = consumer /\ consumer' = NoThread /\ producer' = producer
         \/ w = producer /\ producer' = NoThread /\ consumer' = consumer,
         UNCHANGED <<locks, dir>>, pc'[Idle] # "run",
         buff' \in [0..(QUEUE_BUFF_SIZE - 1) -> Chars],
         front' \in 0..(QUEUE_BUFF_SIZE - 1), tail' \in 0..(QUEUE_BUFF_SIZE - 1),
         io' \in [Threads -> {"idle", "loop", "woken"}],
         \A u \in Threads : \/ io'[u] = io[u]
                            \/ status[u] # "BLOCKED" /\ io'[u] = "idle" /\ at[u] = "out"
  PROVE  IOInv'
<1> USE DEF IOInv
<1>1. \/ w = NoThread /\ UNCHANGED status
      \/ w \in Threads \ {Idle} /\ status[w] = "BLOCKED" /\ status' = [status EXCEPT ![w] = "READY"]
  BY WakeupBooks DEF sched
<1>2. UNCHANGED <<sema, owner, at, lk, saved>> /\ UNCHANGED <<at, dir>>
  BY DEF locks
<1>3. /\ status \in [Threads -> Status]
      /\ \A u \in Threads : status'[u] = "BLOCKED" <=> status[u] = "BLOCKED" /\ u # w
  BY <1>1, NoThreadAssumption DEF SyncInv, Inv, TypeOK
<1>4. w # NoThread => at[w] = "in"
  BY DEF InSlot
<1>5. \A u \in Threads : at[u] = "test" => (status'[u] = "BLOCKED" <=> status[u] = "BLOCKED")
  BY <1>1, <1>3, <1>4, NoThreadAssumption
<1>6. SyncInv' /\ NoLostWakeup' /\ (Initialised => Accounted')
  BY <1>2, <1>5, OutsideKeeps, OutsideWakes
<1>7. IOTypeOK'
  BY <1>2, <1>6 DEF IOTypeOK, SyncInv
<1>8. \A u \in Threads : Phase(u)'
  BY <1>2 DEF Phase
<1>9. \A u \in Threads \ {Idle} : status'[u] = "BLOCKED" => Sleeper(u)'
  <2> SUFFICES ASSUME NEW u \in Threads \ {Idle}, status'[u] = "BLOCKED" PROVE Sleeper(u)'
    OBVIOUS
  <2>1. Sleeper(u) /\ u # w /\ io'[u] = io[u]
    BY <1>3
  <2> QED
    BY <1>2, <2>1 DEF Sleeper
<1>10. ASSUME NEW u \in Threads, u # w, status[u] = "BLOCKED"
       PROVE  status'[u] = "BLOCKED" /\ io'[u] = io[u]
  BY <1>3, <1>10
<1>11. consumer # NoThread /\ producer # NoThread => consumer # producer
  BY DEF InSlot
<1>12. InSlot(consumer, "get")'
  BY <1>2, <1>10, <1>11 DEF InSlot, IOTypeOK
<1>13. InSlot(producer, "put")'
  BY <1>2, <1>10, <1>11 DEF InSlot, IOTypeOK
<1> QED
  BY ThreadsAssumption, <1>6, <1>7, <1>8, <1>9, <1>12, <1>13

(* The positions of the ring.                                               *)
LEMMA NextPos ==
  ASSUME NEW p \in 0..(QUEUE_BUFF_SIZE - 1)
  PROVE  /\ ioq_next_pos(p) \in 0..(QUEUE_BUFF_SIZE - 1)
         /\ ioq_next_pos(p) = IF p = QUEUE_BUFF_SIZE - 1 THEN 0 ELSE p + 1
BY SizeAssumption DEF ioq_next_pos

(* ioq_getchar() takes a character.                                         *)
LEMMA GetKeeps ==
  ASSUME IOInv, NEW t \in Threads \ {Idle}, ioq_getchar(t)
  PROVE  IOInv' /\ [Next]_vars
<1> USE DEF IOInv
<1>1. /\ At(t, "run") /\ io[t] = "loop" /\ at[t] = "out"
      /\ tail' = ioq_next_pos(tail) /\ ioq_wakeup(producer)
      /\ producer' = NoThread /\ UNCHANGED <<buff, front, consumer>>
      /\ io' = [io EXCEPT ![t] = "idle"]
      /\ UNCHANGED <<pid, next_pid, old_status, pc, left, locks, dir>>
  BY DEF ioq_getchar, get
<1>2. status[t] = "RUNNING"
  BY <1>1, RunningIsNotBlocked DEF SyncInv
<1>3. [Next]_vars
  <2>1. CASE producer = NoThread
    BY <1>1, <2>1, WakeupBooks, NoThreadAssumption DEF vars, sched
  <2>2. CASE producer # NoThread
    <3>1. producer \in Threads \ {Idle} /\ status[producer] = "BLOCKED" /\ thread_unblock(producer)
      BY <1>1, <2>2, WakeupBooks
    <3>2. Unblock(t, producer)
      BY <1>1, <3>1 DEF Unblock
    <3> QED
      BY <3>1, <3>2 DEF Next, Call
  <2> QED
    BY <2>1, <2>2
<1>4. /\ buff' \in [0..(QUEUE_BUFF_SIZE - 1) -> Chars]
      /\ front' \in 0..(QUEUE_BUFF_SIZE - 1) /\ tail' \in 0..(QUEUE_BUFF_SIZE - 1)
      /\ io' \in [Threads -> {"idle", "loop", "woken"}]
  BY <1>1, NextPos DEF IOTypeOK
<1>5. \A u \in Threads : \/ io'[u] = io[u]
                         \/ status[u] # "BLOCKED" /\ io'[u] = "idle" /\ at[u] = "out"
  BY <1>1, <1>2 DEF IOTypeOK
<1> QED
  BY <1>1, <1>3, <1>4, <1>5, WakingKeeps

(* ioq_putchar() stores one.                                                *)
LEMMA PutKeeps ==
  ASSUME IOInv, NEW t \in Threads \ {Idle}, NEW c \in Chars, ioq_putchar(t, c)
  PROVE  IOInv' /\ [Next]_vars
<1> USE DEF IOInv
<1>1. /\ At(t, "run") /\ io[t] = "loop" /\ at[t] = "out"
      /\ buff' = [buff EXCEPT ![front] = c] /\ front' = ioq_next_pos(front)
      /\ ioq_wakeup(consumer)
      /\ consumer' = NoThread /\ UNCHANGED <<tail, producer>>
      /\ io' = [io EXCEPT ![t] = "idle"]
      /\ UNCHANGED <<pid, next_pid, old_status, pc, left, locks, dir>>
  BY DEF ioq_putchar, put
<1>2. status[t] = "RUNNING"
  BY <1>1, RunningIsNotBlocked DEF SyncInv
<1>3. [Next]_vars
  <2>1. CASE consumer = NoThread
    BY <1>1, <2>1, WakeupBooks, NoThreadAssumption DEF vars, sched
  <2>2. CASE consumer # NoThread
    <3>1. consumer \in Threads \ {Idle} /\ status[consumer] = "BLOCKED" /\ thread_unblock(consumer)
      BY <1>1, <2>2, WakeupBooks
    <3>2. Unblock(t, consumer)
      BY <1>1, <3>1 DEF Unblock
    <3> QED
      BY <3>1, <3>2 DEF Next, Call
  <2> QED
    BY <2>1, <2>2
<1>4. /\ buff' \in [0..(QUEUE_BUFF_SIZE - 1) -> Chars]
      /\ front' \in 0..(QUEUE_BUFF_SIZE - 1) /\ tail' \in 0..(QUEUE_BUFF_SIZE - 1)
      /\ io' \in [Threads -> {"idle", "loop", "woken"}]
  BY <1>1, NextPos DEF IOTypeOK
<1>5. \A u \in Threads : \/ io'[u] = io[u]
                         \/ status[u] # "BLOCKED" /\ io'[u] = "idle" /\ at[u] = "out"
  BY <1>1, <1>2 DEF IOTypeOK
<1> QED
  BY <1>1, <1>3, <1>4, <1>5, WakingKeeps

(* The interrupt of a key, in whatever thread it comes.                     *)
LEMMA KeyKeeps ==
  ASSUME IOInv, NEW c \in Keys, key_output(c)
  PROVE  IOInv' /\ [Next]_vars
<1> USE DEF IOInv
<1>1. /\ ~hung /\ intr /\ frame[current_task] = "none" /\ WakeCpu
      /\ UNCHANGED <<pid, next_pid, old_status, left, locks, io, dir>>
  BY DEF key_output
<1>2. pc'[Idle] # "run"
  BY <1>1, ThreadsAssumption DEF WakeCpu, SyncInv, Inv, TypeOK
<1>3. ASSUME UNCHANGED <<sched, intr>> PROVE [Next]_vars
  <2>1. CASE current_task = Idle /\ pc[Idle] = "hlt"
    BY <1>1, <1>3, <2>1 DEF OtherInterrupt, Next
  <2>2. CASE ~(current_task = Idle /\ pc[Idle] = "hlt")
    BY <1>1, <1>3, <2>2 DEF WakeCpu, vars, sched
  <2> QED
    BY <2>1, <2>2
<1>4. CASE ioq_full
  <2>1. UNCHANGED <<sched, intr, ring, parties>>
    BY <1>4 DEF key_output
  <2> QED
    BY <1>1, <1>2, <1>3, <2>1, ElsewhereKeeps DEF sched
<1>5. CASE ~ioq_full
  <2>1. /\ buff' = [buff EXCEPT ![front] = c] /\ front' = ioq_next_pos(front)
        /\ ioq_wakeup(consumer)
        /\ consumer' = NoThread /\ UNCHANGED <<tail, producer>>
    BY <1>5 DEF key_output, put
  <2>2. [Next]_vars
    <3>1. CASE consumer = NoThread
      BY <1>3, <2>1, <3>1, WakeupBooks, NoThreadAssumption
    <3>2. CASE consumer # NoThread
      <4>1. consumer \in Threads \ {Idle} /\ status[consumer] = "BLOCKED" /\ thread_unblock(consumer)
        BY <2>1, <3>2, WakeupBooks
      <4>2. DeviceInterrupt(consumer)
        BY <1>1, <4>1 DEF DeviceInterrupt
      <4> QED
        BY <4>1, <4>2 DEF Next
    <3> QED
      BY <3>1, <3>2
  <2>3. /\ buff' \in [0..(QUEUE_BUFF_SIZE - 1) -> Chars]
        /\ front' \in 0..(QUEUE_BUFF_SIZE - 1) /\ tail' \in 0..(QUEUE_BUFF_SIZE - 1)
        /\ io' \in [Threads -> {"idle", "loop", "woken"}]
    BY <1>1, <2>1, NextPos, KeysAssumption DEF IOTypeOK
  <2> QED
    BY <1>1, <1>2, <2>1, <2>2, <2>3, WakingKeeps
<1> QED
  BY <1>4, <1>5

(* Every step keeps the invariant, and is one that Thread allows.           *)
LEMMA IONextInv == IOInv /\ [IONext]_ioVars => IOInv' /\ [Next]_vars
<1> SUFFICES ASSUME IOInv, [IONext]_ioVars PROVE IOInv' /\ [Next]_vars
  OBVIOUS
<1>0. Inv /\ io \in [Threads -> {"idle", "loop", "woken"}] /\ at \in [Threads -> LockPc]
  BY DEF IOInv, SyncInv, IOTypeOK, SyncTypeOK
<1>1. ASSUME NEW t \in Consumers \union Producers, NEW d \in {"get", "put"}, Enter(t, d)
      PROVE  IOInv' /\ [Next]_vars
  <2> USE DEF IOInv
  <2>1. /\ At(t, "run") /\ io[t] = "idle" /\ io' = [io EXCEPT ![t] = "loop"]
        /\ dir' = [dir EXCEPT ![t] = d] /\ UNCHANGED <<syncVars, ring, parties>>
        /\ t \in Threads \ {Idle}
    BY <1>1, PartiesAssumption DEF Enter, At
  <2>2. at[t] = "out" /\ status[t] # "BLOCKED"
    BY <1>0, <2>1, RunningIsNotBlocked DEF Phase
  <2>3. /\ UNCHANGED <<vars, sema, owner, at, lk, saved>>
        /\ UNCHANGED <<status, pc, buff, front, tail, producer, consumer, at>>
    BY <2>1 DEF syncVars, vars, ring, parties
  <2>4. SyncInv' /\ NoLostWakeup' /\ (Initialised => Accounted')
    BY <2>3, OutsideKeeps, OutsideWakes
  <2>5. IOTypeOK'
    BY <2>1, <2>3, <2>4 DEF IOTypeOK, SyncInv
  <2>6. \A u \in Threads : Phase(u)'
    BY <1>0, <2>1, <2>2, <2>3, <1>1 DEF Phase
  <2>7. \A u \in Threads \ {Idle} : status'[u] = "BLOCKED" => Sleeper(u)'
    BY <1>0, <2>1, <2>2, <2>3 DEF Sleeper, IOTypeOK
  <2>8. InSlot(consumer, "get")' /\ InSlot(producer, "put")'
    BY <1>0, <2>1, <2>2, <2>3 DEF InSlot, IOTypeOK
  <2> QED
    BY <1>0, <2>1, ThreadsAssumption, <2>3, <2>4, <2>5, <2>6, <2>7, <2>8
<1>2. ASSUME NEW t \in Threads \ {Idle}, LoopLock(t) \/ LoopAcquire(t)
      PROVE  IOInv' /\ [Next]_vars
  <2>1. /\ io[t] = "loop" /\ UNCHANGED <<ring, parties, io, dir>>
        /\ (\E l \in Locks : lock_acquire(t, l)) \/ LockStep(t)
    BY <1>2, LockAssumption DEF LoopLock, LoopAcquire, LockStep
  <2>2. at'[t] \in {"out", "down", "test", "got", "own", "in"}
    <3>1. CASE LoopLock(t)
      BY <1>0, <3>1 DEF LoopLock, lock_acquire
    <3>2. CASE LoopAcquire(t)
      BY <1>0, <3>2 DEF LoopAcquire, AcquireStep, sema_down_enter, sema_down_wait, sema_down_take,
                        lock_acquire_hold, lock_acquire_count, Goes
    <3> QED
      BY <1>2, <3>1, <3>2
  <2>3. Phase(t)'
    BY <2>1, <2>2 DEF IOInv, Phase
  <2> QED
    BY <1>0, <2>1, <2>3, LockingKeeps
<1>3. ASSUME NEW t \in Threads \ {Idle}, LoopRelease(t)
      PROVE  IOInv' /\ [Next]_vars
  <2>1. /\ io[t] = "woken" /\ UNCHANGED <<ring, parties, dir>> /\ LockStep(t)
        /\ io' = IF at'[t] = "out" THEN [io EXCEPT ![t] = "loop"] ELSE io
    BY <1>3 DEF LoopRelease, LockStep
  <2>2. at'[t] \in {"in", "rel", "up", "out"}
    BY <1>0, <1>3 DEF LoopRelease, lock_release, lock_release_count, sema_up, Goes
  <2>3. Phase(t)'
    BY <1>0, <2>1, <2>2 DEF IOInv, Phase
  <2>4. io' \in [Threads -> {"idle", "loop", "woken"}] /\ \A u \in Threads \ {t} : io'[u] = io[u]
    BY <1>0, <2>1
  <2> QED
    BY <2>1, <2>3, <2>4, LockingKeeps
<1>4. ASSUME NEW t \in Threads \ {Idle}, QueueStep(t)
      PROVE  IOInv' /\ [Next]_vars
  BY <1>2, <1>3, <1>4, SleepKeeps, GetKeeps, PutKeeps DEF QueueStep
<1>5. ASSUME UNCHANGED <<locks, ring, parties, io, dir>>,
             \/ \E t \in Threads : Resume(t) \/ thread_start(t)
             \/ \E t \in Threads : local_irq_disable(t) \/ local_irq_enable(t)
             \/ clock_service
             \/ cpu_idle
      PROVE  IOInv' /\ [Next]_vars
  <2>1. /\ [Next]_vars
        /\ \A t \in Threads \ {Idle} : status'[t] = "BLOCKED" <=> status[t] = "BLOCKED"
    BY <1>0, <1>5, SchedulerBlocks
  <2>2. pc'[Idle] # "run"
    <3>1. pc \in [Threads -> Pc] /\ pc[Idle] # "run" /\ Idle \in Threads
      BY <1>0, ThreadsAssumption DEF IOInv, Inv, TypeOK
    <3> QED
      BY <1>5, <3>1 DEF Resume, thread_start, local_irq_disable, local_irq_enable,
                        clock_service, WakeCpu, cpu_idle
  <2> QED
    BY <1>5, <2>1, <2>2, ElsewhereKeeps
<1>6. ASSUME UNCHANGED <<locks, ring, parties, io, dir>>, OtherInterrupt \/ cpu_halt
      PROVE  IOInv' /\ [Next]_vars
  <2>1. [Next]_vars
    BY <1>6, ThreadsAssumption DEF Next, Step
  <2>2. UNCHANGED status /\ pc'[Idle] # "run"
    <3>1. pc \in [Threads -> Pc] /\ pc[Idle] # "run" /\ Idle \in Threads
      BY <1>0, ThreadsAssumption DEF IOInv, Inv, TypeOK
    <3> QED
      BY <1>6, <3>1 DEF OtherInterrupt, cpu_halt, WakeCpu, sched
  <2> QED
    BY <1>6, <2>1, <2>2, ElsewhereKeeps
<1>7. CASE UNCHANGED ioVars
  <2>1. /\ UNCHANGED vars /\ UNCHANGED <<locks, ring, parties, io, dir>> /\ UNCHANGED <<status, pc>>
    BY <1>7 DEF ioVars, syncVars, vars, locks
  <2> QED
    BY <2>1, ElsewhereKeeps DEF IOInv
<1>8. ASSUME \/ \E t \in Threads : Elsewhere(local_irq_disable(t) \/ local_irq_enable(t))
             \/ \E t \in Threads : Elsewhere(Resume(t)) \/ Elsewhere(thread_start(t))
             \/ Elsewhere(clock_service) \/ Elsewhere(OtherInterrupt)
             \/ Elsewhere(cpu_idle) \/ Elsewhere(cpu_halt)
      PROVE  IOInv' /\ [Next]_vars
  BY <1>5, <1>6, <1>8 DEF Elsewhere, Outside, locks
<1> QED
  BY <1>1, <1>4, <1>7, <1>8, KeyKeeps DEF IONext

(* The invariant of the queue.                                              *)
THEOREM IOInvariant == IOSpec => []IOInv
BY IOInitInv, IONextInv, PTL DEF IOSpec

(* No ASSERT of ioqueue.c fails, nor one of the locks and the scheduler     *)
(* under it: the slot in which ioq_wait() registers is free, and whoever    *)
(* ioq_wakeup() wakes is BLOCKED, also when a key interrupts a thread       *)
(* anywhere in the queue's functions.                                       *)
THEOREM QueueAssertsHold == IOSpec => []NoAssertFails
<1>1. IOInv => NoAssertFails
  BY DEF IOInv, SyncInv, Inv
<1> QED
  BY <1>1, IOInvariant, PTL

(* However many threads use the queue, initialised or not, and whatever     *)
(* keys are typed: the threads asleep in ioq_wait() are the registered ones.*)
THEOREM SleepersStayRegistered == IOSpec => []SleeperRegistered
<1>1. IOInv => SleeperRegistered
  <2> SUFFICES ASSUME IOInv, NEW t \in Threads
               PROVE  io[t] = "woken" /\ status[t] = "BLOCKED" <=> t \in {producer, consumer}
    BY DEF SleeperRegistered
  <2>1. ASSUME io[t] = "woken", status[t] = "BLOCKED" PROVE t \in {producer, consumer}
    BY <2>1 DEF IOInv, Phase, Sleeper
  <2>2. ASSUME t \in {producer, consumer} PROVE io[t] = "woken" /\ status[t] = "BLOCKED"
    BY <2>2, NoThreadAssumption DEF IOInv, InSlot
  <2> QED
    BY <2>1, <2>2
<1> QED
  BY <1>1, IOInvariant, PTL

(* NotAllAsleep fails: ioq_wait() keeps ioq->lock, and lock_acquire() comes *)
(* after the test of the loop, whatever the queue then holds.  But threads  *)
(* can all come to sleep in one way only: one of them is registered and has *)
(* the lock, and all the others wait for that lock.                         *)
StuckOnlyWithLock ==
  ~NotAllAsleep
    => \E t \in Consumers \union Producers :
         /\ io[t] = "woken" /\ holder[ioq_lock] = t
         /\ t = IF dir[t] = "get" THEN consumer ELSE producer
         /\ \A u \in (Consumers \union Producers) \ {t} : OnQueue(waiters[ioq_lock], u)

(* However many threads share a queue that was initialised, when all of     *)
(* them sleep one is in its slot with the lock and the others wait for it.  *)
THEOREM RestsOnlyWithLock ==
  Initialised /\ Consumers \union Producers # {} => (IOSpec => []StuckOnlyWithLock)
<1> SUFFICES ASSUME Initialised, Consumers \union Producers # {}
             PROVE  IOSpec => []StuckOnlyWithLock
  OBVIOUS
<1>1. IOInv => StuckOnlyWithLock
  <2> SUFFICES ASSUME IOInv,
                      \A t \in Consumers \union Producers : io[t] # "idle" /\ status[t] = "BLOCKED"
               PROVE  \E t \in Consumers \union Producers :
                        /\ io[t] = "woken" /\ holder[ioq_lock] = t
                        /\ t = IF dir[t] = "get" THEN consumer ELSE producer
                        /\ \A u \in (Consumers \union Producers) \ {t} : OnQueue(waiters[ioq_lock], u)
    BY DEF StuckOnlyWithLock, NotAllAsleep
  <2> USE DEF IOInv
  <2> DEFINE Parties == Consumers \union Producers
  <2>1. /\ ioq_lock \in Locks /\ lk \in [Threads -> {ioq_lock}]
        /\ value \in [Locks -> 0..1] /\ at[Idle] = "out"
        /\ \A t \in Parties : t \in Threads /\ io[t] # "idle" /\ status[t] = "BLOCKED"
    BY LockAssumption, PartiesAssumption DEF SyncInv, SyncTypeOK
  <2>2. \A t \in Threads : at[t] # "out" => t \in Parties
    BY DEF Phase
  <2>3. \A t \in Parties : t # Idle /\ Sleeper(t)
    BY <2>1
  <2>4. PICK t \in Parties : at[t] # "test"
    <3> SUFFICES ASSUME \A t \in Parties : at[t] = "test" PROVE FALSE
      OBVIOUS
    <3>1. PICK u \in Parties : TRUE
      OBVIOUS
    <3>2. OnQueue(waiters[ioq_lock], u)
      BY <2>1, <3>1 DEF SyncInv, WaitersRight
    <3>3. waiters[ioq_lock] # <<>>
      BY <3>2 DEF OnQueue
    <3>4. value[ioq_lock] # 0
      BY <2>1, <2>2 DEF Accounted, Holding
    <3>5. PICK v \in Threads : at[v] = "test" /\ status[v] # "BLOCKED"
      BY <2>1, <3>3, <3>4 DEF NoLostWakeup
    <3> QED
      BY <2>1, <2>2, <3>5
  <2>5. /\ io[t] = "woken" /\ at[t] = "in" /\ t \in Threads
        /\ t = IF dir[t] = "get" THEN consumer ELSE producer
    BY <2>1, <2>3, <2>4 DEF Sleeper
  <2>6. holder[ioq_lock] = t
    BY <2>1, <2>5 DEF SyncInv, HolderRight
  <2>7. ASSUME NEW u \in Parties \ {t} PROVE OnQueue(waiters[ioq_lock], u)
    <3>1. at[u] = "test"
      BY <2>1, <2>3, <2>5 DEF SyncInv, Exclusion, Holding, Sleeper
    <3> QED
      BY <2>1, <3>1 DEF SyncInv, WaitersRight
  <2> QED
    BY <2>5, <2>6, <2>7
<1> QED
  BY <1>1, IOInvariant, PTL

-----------------------------------------------------------------------------
(* The refinement of Fifo.  A position of the ring is a sum of two of them, *)
(* less the size if it is past the end.                                     *)
LEMMA Wrap ==
  ASSUME NEW n \in Nat, n < 2 * QUEUE_BUFF_SIZE
  PROVE  n % QUEUE_BUFF_SIZE = IF n < QUEUE_BUFF_SIZE THEN n ELSE n - QUEUE_BUFF_SIZE
BY SizeAssumption

(* How many characters the ring holds.                                      *)
Held == IF tail <= front THEN front - tail ELSE front + QUEUE_BUFF_SIZE - tail

(* Where the i-th of them is.                                               *)
Place(i) == IF tail + i - 1 < QUEUE_BUFF_SIZE THEN tail + i - 1 ELSE tail + i - 1 - QUEUE_BUFF_SIZE

(* Contents, without the modulus.                                           *)
LEMMA ContentsAre ==
  IOTypeOK => /\ Held \in 0..(QUEUE_BUFF_SIZE - 1)
              /\ \A i \in 1..Held : Place(i) \in 0..(QUEUE_BUFF_SIZE - 1)
              /\ Contents = [i \in 1..Held |-> buff[Place(i)]]
              /\ Contents \in Seq(Chars) /\ Len(Contents) = Held
<1> SUFFICES ASSUME IOTypeOK
             PROVE  /\ Held \in 0..(QUEUE_BUFF_SIZE - 1)
                    /\ \A i \in 1..Held : Place(i) \in 0..(QUEUE_BUFF_SIZE - 1)
                    /\ Contents = [i \in 1..Held |-> buff[Place(i)]]
                    /\ Contents \in Seq(Chars) /\ Len(Contents) = Held
  OBVIOUS
<1>1. /\ front \in 0..(QUEUE_BUFF_SIZE - 1) /\ tail \in 0..(QUEUE_BUFF_SIZE - 1)
      /\ buff \in [0..(QUEUE_BUFF_SIZE - 1) -> Chars] /\ QUEUE_BUFF_SIZE \in Nat \ {0, 1}
  BY SizeAssumption DEF IOTypeOK
<1>2. Held \in 0..(QUEUE_BUFF_SIZE - 1)
  BY <1>1 DEF Held
<1>3. (front + QUEUE_BUFF_SIZE - tail) % QUEUE_BUFF_SIZE = Held
  <2> DEFINE n == front + QUEUE_BUFF_SIZE - tail
  <2>1. n \in Nat /\ n < 2 * QUEUE_BUFF_SIZE
    BY <1>1
  <2>2. n % QUEUE_BUFF_SIZE = IF n < QUEUE_BUFF_SIZE THEN n ELSE n - QUEUE_BUFF_SIZE
    <3> HIDE DEF n
    <3> QED
      BY <2>1, Wrap
  <2>3. n < QUEUE_BUFF_SIZE <=> ~(tail <= front)
    BY <1>1
  <2> QED
    BY <1>1, <2>2, <2>3 DEF Held
<1>4. ASSUME NEW i \in 1..Held
      PROVE  Place(i) \in 0..(QUEUE_BUFF_SIZE - 1) /\ (tail + i - 1) % QUEUE_BUFF_SIZE = Place(i)
  <2> DEFINE n == tail + i - 1
  <2>1. n \in Nat /\ n < 2 * QUEUE_BUFF_SIZE
    BY <1>1, <1>2
  <2>2. n % QUEUE_BUFF_SIZE = IF n < QUEUE_BUFF_SIZE THEN n ELSE n - QUEUE_BUFF_SIZE
    <3> HIDE DEF n
    <3> QED
      BY <2>1, Wrap
  <2> QED
    BY <1>1, <1>2, <2>1, <2>2 DEF Place
<1>5. Contents = [i \in 1..Held |-> buff[Place(i)]]
  BY <1>3, <1>4 DEF Contents
<1>6. Contents \in Seq(Chars) /\ Len(Contents) = Held
  BY <1>1, <1>2, <1>4, <1>5
<1> QED
  BY <1>2, <1>4, <1>5, <1>6

(* The ring holds nothing, or all it can, when the code says so.            *)
LEMMA EmptyAndFull ==
  ASSUME IOTypeOK
  PROVE  /\ ioq_empty <=> Held = 0
         /\ ioq_full <=> Held = QUEUE_BUFF_SIZE - 1
<1>1. /\ front \in 0..(QUEUE_BUFF_SIZE - 1) /\ tail \in 0..(QUEUE_BUFF_SIZE - 1)
      /\ QUEUE_BUFF_SIZE \in Nat \ {0, 1}
  BY SizeAssumption DEF IOTypeOK
<1>2. ioq_next_pos(front) = IF front = QUEUE_BUFF_SIZE - 1 THEN 0 ELSE front + 1
  BY <1>1, NextPos
<1> QED
  BY <1>1, <1>2 DEF ioq_empty, ioq_full, Held

(* A character put is the last one of the ring.                             *)
LEMMA PutAppends ==
  ASSUME IOTypeOK, IOTypeOK', ~ioq_full, NEW c \in Chars,
         buff' = [buff EXCEPT ![front] = c], front' = ioq_next_pos(front), tail' = tail
  PROVE  F!Put(c)
<1>1. /\ front \in 0..(QUEUE_BUFF_SIZE - 1) /\ tail \in 0..(QUEUE_BUFF_SIZE - 1)
      /\ buff \in [0..(QUEUE_BUFF_SIZE - 1) -> Chars] /\ QUEUE_BUFF_SIZE \in Nat \ {0, 1}
  BY SizeAssumption DEF IOTypeOK
<1>2. front' = IF front = QUEUE_BUFF_SIZE - 1 THEN 0 ELSE front + 1
  BY <1>1, NextPos
<1>3. /\ Held \in 0..(QUEUE_BUFF_SIZE - 1)
      /\ \A i \in 1..Held : Place(i) \in 0..(QUEUE_BUFF_SIZE - 1)
      /\ Contents = [i \in 1..Held |-> buff[Place(i)]]
      /\ Contents \in Seq(Chars) /\ Len(Contents) = Held
  BY ContentsAre
<1>4. (IOTypeOK => Contents = [i \in 1..Held |-> buff[Place(i)]])'
  BY ContentsAre, PTL
<1>5. Held < QUEUE_BUFF_SIZE - 1
  BY <1>1, <1>3, EmptyAndFull
<1>6. Held' = Held + 1
  BY <1>1, <1>2, <1>5 DEF Held
<1>7. \A i : Place(i)' = Place(i)
  BY DEF Place
<1>8. Contents' = [i \in 1..(Held + 1) |-> buff'[Place(i)]]
  BY <1>4, <1>6, <1>7
<1>9. ASSUME NEW i \in 1..Held PROVE buff'[Place(i)] = Contents[i]
  <2>1. Place(i) # front
    BY <1>1, <1>3 DEF Place, Held
  <2> QED
    BY <1>1, <1>3, <2>1
<1>10. Place(Held + 1) = front
  BY <1>1, <1>3, <1>5 DEF Place, Held
<1>11. buff'[front] = c
  BY <1>1
<1>12. Contents' = Append(Contents, c)
  <2>1. ASSUME NEW i \in 1..(Held + 1)
        PROVE  buff'[Place(i)] = IF i = Held + 1 THEN c ELSE Contents[i]
    BY <1>3, <1>9, <1>10, <1>11
  <2>2. Append(Contents, c) = [i \in 1..(Held + 1) |-> IF i = Held + 1 THEN c ELSE Contents[i]]
    BY <1>3
  <2> QED
    BY <1>8, <2>1, <2>2
<1> QED
  BY <1>3, <1>5, <1>12 DEF F!Put

(* A character got is the first one.                                        *)
LEMMA GetTakes ==
  ASSUME IOTypeOK, IOTypeOK', ~ioq_empty,
         tail' = ioq_next_pos(tail), UNCHANGED <<buff, front>>
  PROVE  F!Get
<1>1. /\ front \in 0..(QUEUE_BUFF_SIZE - 1) /\ tail \in 0..(QUEUE_BUFF_SIZE - 1)
      /\ buff \in [0..(QUEUE_BUFF_SIZE - 1) -> Chars] /\ QUEUE_BUFF_SIZE \in Nat \ {0, 1}
  BY SizeAssumption DEF IOTypeOK
<1>2. tail' = IF tail = QUEUE_BUFF_SIZE - 1 THEN 0 ELSE tail + 1
  BY <1>1, NextPos
<1>3. /\ Held \in 0..(QUEUE_BUFF_SIZE - 1)
      /\ Contents = [i \in 1..Held |-> buff[Place(i)]]
      /\ Contents \in Seq(Chars) /\ Len(Contents) = Held
  BY ContentsAre
<1>4. (IOTypeOK => Contents = [i \in 1..Held |-> buff[Place(i)]])'
  BY ContentsAre, PTL
<1>5. Held # 0
  BY <1>1, <1>3, EmptyAndFull
<1>6. Held' = Held - 1
  BY <1>1, <1>2, <1>5 DEF Held
<1>7. ASSUME NEW i \in 1..(Held - 1) PROVE Place(i)' = Place(i + 1)
  BY <1>1, <1>2, <1>3 DEF Place
<1>8. Contents' = [i \in 1..(Held - 1) |-> buff[Place(i + 1)]]
  BY <1>4, <1>6, <1>7
<1>9. Contents' = Tail(Contents)
  <2>1. Tail(Contents) = [i \in 1..(Held - 1) |-> Contents[i + 1]]
    BY <1>3, <1>5
  <2>2. ASSUME NEW i \in 1..(Held - 1) PROVE Contents[i + 1] = buff[Place(i + 1)]
    BY <1>3
  <2> QED
    BY <1>8, <2>1, <2>2
<1> QED
  BY <1>3, <1>5, <1>9 DEF F!Get

(* Whoever puts and gets, and however long a thread that took a character   *)
(* or left one is off the CPU, the ring is a FIFO with one character less   *)
(* than its size: nothing is lost, repeated or reordered.                   *)
THEOREM QueueActsAsFifo == IOSpec => ActsAsFifo
<1>1. IOInit => F!Init
  <2> SUFFICES ASSUME IOInit PROVE Contents = <<>>
    BY DEF F!Init
  <2>1. IOTypeOK /\ Held = 0
    BY IOInitInv DEF IOInv, IOInit, ioqueue_init, Held
  <2> QED
    BY <2>1, ContentsAre
<1>2. IOInv /\ IOInv' /\ [IONext]_ioVars => [F!Next]_Contents
  <2> SUFFICES ASSUME IOInv, IOInv', [IONext]_ioVars PROVE [F!Next]_Contents
    OBVIOUS
  <2>1. IOTypeOK /\ IOTypeOK'
    BY DEF IOInv
  <2>2. ASSUME UNCHANGED ring PROVE UNCHANGED Contents
    BY <2>2 DEF ring, Contents
  <2>3. ASSUME NEW c \in Chars, put(c), ~ioq_full PROVE F!Next
    BY <2>1, <2>3, PutAppends DEF put, F!Next
  <2>4. ASSUME NEW t \in Threads, ioq_getchar(t) PROVE F!Next
    BY <2>1, <2>4, GetTakes DEF ioq_getchar, get, F!Next
  <2>5. ASSUME NEW t \in Threads, NEW c \in Chars, ioq_putchar(t, c) PROVE F!Next
    BY <2>3, <2>5 DEF ioq_putchar
  <2>6. ASSUME NEW c \in Keys, key_output(c) PROVE F!Next \/ UNCHANGED ring
    BY <2>3, <2>6, KeysAssumption DEF key_output
  <2>7. ASSUME NEW t \in Threads \ {Idle}, LoopWait(t) PROVE UNCHANGED ring
    BY <2>7, SleepKeeps
  <2>8. ASSUME NEW t \in Threads \ {Idle}, QueueStep(t) PROVE F!Next \/ UNCHANGED ring
    BY <2>4, <2>5, <2>7, <2>8 DEF QueueStep, LoopLock, LoopAcquire, LoopRelease
  <2>9. ASSUME NEW t, NEW d, Enter(t, d) PROVE UNCHANGED ring
    BY <2>9 DEF Enter
  <2>10. ASSUME \/ \E t \in Threads : Elsewhere(local_irq_disable(t) \/ local_irq_enable(t))
                \/ \E t \in Threads : Elsewhere(Resume(t)) \/ Elsewhere(thread_start(t))
                \/ Elsewhere(clock_service) \/ Elsewhere(OtherInterrupt)
                \/ Elsewhere(cpu_idle) \/ Elsewhere(cpu_halt)
         PROVE  UNCHANGED ring
    BY <2>10 DEF Elsewhere
  <2>11. CASE UNCHANGED ioVars
    BY <2>2, <2>11 DEF ioVars
  <2> QED
    BY <2>2, <2>6, <2>8, <2>9, <2>10, <2>11 DEF IONext
<1> QED
  BY <1>1, <1>2, IOInvariant, PTL DEF IOSpec, ActsAsFifo, F!Spec
=============================================================================
