-------------------------------- MODULE Sync --------------------------------
(***************************************************************************)
(* The semaphores and re-entrant locks of thread/sync.c on the scheduler   *)
(* of Thread, whose variables and kernel entries this module shares.       *)
(*                                                                         *)
(* lock_acquire() and lock_release() run with the interrupts the caller    *)
(* left on: only sema_down() and sema_up() disable them.  Every access to  *)
(* a lock's fields is a step of its own, at[t] says which one is next.     *)
(* A thread has at most one lock at a time, as in the kernel: console,     *)
(* pid, memory pool, disk channel and I/O queue locks are never nested.    *)
(***************************************************************************)
EXTENDS Thread

CONSTANTS Locks,       \* the locks that lock_init() has initialised
          NoThread,    \* NULL
          MaxRepeat    \* bound: how deep a thread nests one lock

ASSUME NoThreadAssumption == NoThread \notin Threads
ASSUME LocksAssumption == Locks # {}
ASSUME RepeatAssumption == MaxRepeat \in Nat \ {0}

VARIABLES value,     \* semaphore.value of each lock
          waiters,   \* semaphore.waiter_queue
          holder,    \* lock.holder
          repeat,    \* lock.holder_repeat_cnt
          at,        \* the next step of a thread in lock_acquire/lock_release
          lk,        \* the lock it operates on
          saved,     \* the interrupt state sema_down saved
          nest       \* history: lock_acquire() returned minus lock_release() called

sema == <<value, waiters>>
owner == <<holder, repeat, nest>>
syncVars == <<vars, sema, owner, at, lk, saved>>

LockPc == {"out", "down", "test", "got", "own", "in", "rel", "up"}

sema_init_Two(v) == /\ value = [l \in Locks |-> 2]
                    /\ waiters = [l \in Locks |-> <<>>]
sema_init(v) == /\ value = [l \in Locks |-> v]
                /\ waiters = [l \in Locks |-> <<>>]

no_holder == /\ holder = [l \in Locks |-> NoThread]
             /\ repeat = [l \in Locks |-> 0]
             /\ nest = [t \in Threads |-> 0]

lock_init == no_holder /\ sema_init(1)

(* The lk of a thread that operates on no lock.                             *)
AnyLock == CHOOSE l \in Locks : TRUE

(* No thread is in sync.c, on the scheduler thread_init() leaves.           *)
Unlocked == /\ at = [t \in Threads |-> "out"]
            /\ lk = [t \in Threads |-> AnyLock]
            /\ saved = [t \in Threads |-> FALSE]

SyncInit == Init /\ lock_init /\ Unlocked

Goes(t, p, q) == At(t, "run") /\ at[t] = p /\ at' = [at EXCEPT ![t] = q]

(* A false ASSERT in sync.c.                                                *)
AssertFailed == debug_out /\ UNCHANGED <<pid, next_pid, old_status, pc, left,
                                         sema, owner, lk, saved>>

-----------------------------------------------------------------------------
(* lock_acquire(l): is the caller the holder already?                       *)
lock_acquire(t, l) ==
  /\ At(t, "run")
  /\ at[t] = "out" \/ (at[t] = "in" /\ lk[t] = l /\ repeat[l] < MaxRepeat)
  /\ IF holder[l] # t
       THEN /\ at' = [at EXCEPT ![t] = "down"]
            /\ lk' = [lk EXCEPT ![t] = l]
            /\ UNCHANGED <<repeat, nest>>
       ELSE /\ repeat' = [repeat EXCEPT ![l] = @ + 1]
            /\ nest' = [nest EXCEPT ![t] = @ + 1]
            /\ UNCHANGED <<at, lk>>
  /\ UNCHANGED <<vars, sema, holder, saved>>

(* sema_down(): interrupts off ...                                          *)
sema_down_enter(t) ==
  /\ Goes(t, "down", "test")
  /\ saved' = [saved EXCEPT ![t] = intr]
  /\ intr' = FALSE
  /\ UNCHANGED <<sched, pid, next_pid, old_status, pc, left, sema, owner, lk>>

sema_down_wait_Spin(t) ==
  /\ At(t, "run") /\ at[t] = "test" /\ value[lk[t]] = 0
  /\ waiters' = [waiters EXCEPT ![lk[t]] = queue_in(@, t)]
  /\ status' = [status EXCEPT ![t] = "BLOCKED"]
  /\ UNCHANGED <<current_task, ready, ticks, frame, hung, pid, next_pid, intr,
                 old_status, pc, left, value, owner, at, lk, saved>>

(* ... while (value == 0) queue up and block ...                            *)
sema_down_wait(t) ==
  LET l == lk[t] IN
  /\ At(t, "run") /\ at[t] = "test" /\ value[l] = 0
  /\ IF list_find_item(waiters[l], t)
       THEN AssertFailed /\ UNCHANGED at
       ELSE /\ waiters' = [waiters EXCEPT ![l] = queue_in(@, t)]
            /\ Block(t)
            /\ UNCHANGED <<value, owner, at, lk, saved>>

(* ... then take the semaphore and restore interrupts.                      *)
sema_down_take(t) ==
  LET l == lk[t] IN
  /\ Goes(t, "test", "got") /\ value[l] # 0
  /\ IF value[l] # 1
       THEN AssertFailed
       ELSE /\ value' = [value EXCEPT ![l] = @ - 1]
            /\ intr' = saved[t]
            /\ saved' = [saved EXCEPT ![t] = FALSE]
            /\ UNCHANGED <<sched, pid, next_pid, old_status, pc, left, waiters,
                           owner, lk>>

(* lock_acquire() goes on: holder = current task; ...                       *)
lock_acquire_hold(t) ==
  /\ Goes(t, "got", "own")
  /\ holder' = [holder EXCEPT ![lk[t]] = t]
  /\ UNCHANGED <<vars, sema, repeat, nest, lk, saved>>

(* ... ASSERT(holder_repeat_cnt == 0); holder_repeat_cnt = 1.               *)
lock_acquire_count(t) ==
  /\ Goes(t, "own", "in")
  /\ IF repeat[lk[t]] # 0
       THEN AssertFailed
       ELSE /\ repeat' = [repeat EXCEPT ![lk[t]] = 1]
            /\ nest' = [nest EXCEPT ![t] = @ + 1]
            /\ UNCHANGED <<vars, sema, holder, lk, saved>>

(* lock_release(): drop one level, or give the lock up.                     *)
lock_release_AtOnce(t) ==
  LET l == lk[t] IN
  /\ At(t, "run") /\ at[t] = "in"
  /\ holder' = [holder EXCEPT ![l] = NoThread]
  /\ at' = [at EXCEPT ![t] = "rel"]
  /\ nest' = [nest EXCEPT ![t] = @ - 1]
  /\ UNCHANGED <<vars, sema, repeat, lk, saved>>

lock_release(t) ==
  LET l == lk[t] IN
  /\ At(t, "run") /\ at[t] = "in"
  /\ IF holder[l] # t \/ repeat[l] = 0
       THEN AssertFailed /\ UNCHANGED at
       ELSE /\ IF repeat[l] > 1
                 THEN /\ repeat' = [repeat EXCEPT ![l] = @ - 1]
                      /\ UNCHANGED <<holder, at>>
                 ELSE /\ holder' = [holder EXCEPT ![l] = NoThread]
                      /\ at' = [at EXCEPT ![t] = "rel"]
                      /\ UNCHANGED repeat
            /\ nest' = [nest EXCEPT ![t] = @ - 1]
            /\ UNCHANGED <<vars, sema, lk, saved>>

lock_release_count(t) ==
  /\ Goes(t, "rel", "up")
  /\ repeat' = [repeat EXCEPT ![lk[t]] = 0]
  /\ UNCHANGED <<vars, sema, holder, nest, lk, saved>>

sema_up_NoWake(t) ==
  /\ Goes(t, "up", "out")
  /\ value' = [value EXCEPT ![lk[t]] = @ + 1]
  /\ UNCHANGED <<vars, waiters, owner, lk, saved>>

sema_up_Peek(t) ==
  LET l == lk[t] IN
  /\ Goes(t, "up", "out")
  /\ value' = [value EXCEPT ![l] = @ + 1]
  /\ IF waiters[l] = <<>>
       THEN UNCHANGED vars
       ELSE thread_unblock(Head(waiters[l])) /\ UNCHANGED <<pid, next_pid, old_status, pc, left>>
  /\ UNCHANGED <<waiters, owner, lk, saved>>

(* sema_up(): wake the first waiter, if any, and add one, interrupts off.   *)
sema_up(t) ==
  LET l == lk[t] IN
  /\ Goes(t, "up", "out")
  /\ IF value[l] # 0
       THEN AssertFailed
       ELSE /\ value' = [value EXCEPT ![l] = @ + 1]
            /\ IF waiters[l] = <<>>
                 THEN UNCHANGED <<vars, waiters>>
                 ELSE /\ waiters' = [waiters EXCEPT ![l] = Tail(@)]
                      /\ thread_unblock(Head(waiters[l]))
                      /\ UNCHANGED <<pid, next_pid, old_status, pc, left>>
            /\ lk' = [lk EXCEPT ![t] = AnyLock]
            /\ UNCHANGED <<owner, saved>>

-----------------------------------------------------------------------------
(* A step of the scheduler, or of a thread outside sync.c.                  *)
Outside(step) == step /\ UNCHANGED <<sema, owner, at, lk, saved>>

SwitchInterrupts(t) ==
  at[t] \in {"out", "in"} /\ Outside(local_irq_disable(t) \/ local_irq_enable(t))

AcquireStep(t) ==
  \/ sema_down_enter(t) \/ sema_down_wait(t) \/ sema_down_take(t)
  \/ lock_acquire_hold(t) \/ lock_acquire_count(t)

LockStep(t) ==
  AcquireStep(t) \/ lock_release(t) \/ lock_release_count(t) \/ sema_up(t)

(* cpu_idle() blocks once and is not woken again: a thread waits only while *)
(* another has the lock, so there is always one to run and no halt.  Were   *)
(* it woken, this system would deadlock.                                    *)
SyncNext ==
  \/ \E t \in Threads \ {Idle} :
       \/ \E l \in Locks : lock_acquire(t, l)
       \/ LockStep(t)
       \/ SwitchInterrupts(t)
  \/ \E t \in Threads : Outside(Resume(t)) \/ (at[Main] = "out" /\ Outside(thread_start(t)))
  \/ Outside(clock_service)
  \/ Outside(cpu_idle)

SyncSpec == SyncInit /\ [][SyncNext]_syncVars

-----------------------------------------------------------------------------
SyncTypeOK ==
  /\ TypeOK
  /\ value \in [Locks -> 0..1]
  /\ waiters \in [Locks -> Seq(Threads)]
  /\ holder \in [Locks -> Threads \union {NoThread}]
  /\ repeat \in [Locks -> 0..MaxRepeat]
  /\ at \in [Threads -> LockPc]
  /\ lk \in [Threads -> Locks]
  /\ saved \in [Threads -> BOOLEAN]
  /\ nest \in [Threads -> 0..MaxRepeat]

(* A PCB has one link, thread_dispatch_queue, for the ready queue and every *)
(* waiter queue: a BLOCKED thread is in exactly one waiter queue, once, and *)
(* nobody else is in any.                                                   *)
OneQueueEach ==
  /\ \A l \in Locks : Distinct(waiters[l])
  /\ \A t \in Threads, l \in Locks :
       OnQueue(waiters[l], t) <=> /\ t # Idle /\ status[t] = "BLOCKED"
                                  /\ at[t] = "test" /\ lk[t] = l
  /\ \A t \in Threads \ {Idle} : status[t] = "BLOCKED" => at[t] = "test"

(* The wake-up of sema_up() is not lost, although the thread it wakes must  *)
(* compete again and others may barge in: while a lock is free, somebody    *)
(* who waited for it is on the way to look at it.                           *)
NoLostWakeup ==
  \A l \in Locks :
    value[l] = 1 /\ waiters[l] # <<>>
      => \E t \in Threads : at[t] = "test" /\ lk[t] = l /\ status[t] # "BLOCKED"

(* The threads between taking the semaphore and giving it back, and how     *)
(* often they have the lock: a call that is under way counts as one.        *)
Owners == [l \in Locks |->
             {t \in Threads : lk[t] = l /\ at[t] \in {"got", "own", "in", "rel", "up"}}]
Depth == [l \in Locks |->
            IF Owners[l] = {} THEN 0
            ELSE LET t == CHOOSE t \in Owners[l] : TRUE
                 IN  nest[t] + (IF at[t] = "in" THEN 0 ELSE 1)]

L == INSTANCE Lock WITH owners <- Owners, depth <- Depth

(* The locks of sync.c implement Lock: in particular they exclude, and the  *)
(* holder tests, which nothing protects, never mistake who has a lock.      *)
ActsAsLock == L!Spec

(* What sync.c does to threads is what Thread allows: sema_up() wakes only  *)
(* BLOCKED threads, blocking happens with the thread's own status RUNNING.  *)
ImplementsThread == Spec
=============================================================================
