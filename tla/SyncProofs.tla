----------------------------- MODULE SyncProofs -----------------------------
(***************************************************************************)
(* The scheduler of thread.c keeps its books and the locks of sync.c       *)
(* exclude, wake whom they must and fail no ASSERT, for any number of      *)
(* threads and locks, any priorities and sleeps and any depth of nesting.  *)
(*                                                                         *)
(* The first part is about Thread.  The lemmas on queues say what          *)
(* queue_in, queue_push and queue_out do to membership; ScheduleBooks is   *)
(* the one argument about schedule(), which each of its four callers       *)
(* enters with the books almost in order: the current task may already     *)
(* have lost its RUNNING status.                                           *)
(*                                                                         *)
(* The second part is about Sync.  SyncInv is what every step of sync.c    *)
(* keeps, also for a caller that blocks for reasons of its own while it    *)
(* has a lock, as ioqueue.c and ide.c do.  There is one lemma for each of  *)
(* those steps; each says too that the step is one that Thread allows.     *)
(***************************************************************************)
EXTENDS Sync, TLAPS

(* queue_in adds its item to a queue, and keeps the items distinct.         *)
LEMMA QueueIn ==
  ASSUME NEW q \in Seq(Threads), NEW n \in Threads
  PROVE  /\ queue_in(q, n) \in Seq(Threads) /\ queue_in(q, n) # <<>>
         /\ \A t : OnQueue(queue_in(q, n), t) <=> OnQueue(q, t) \/ t = n
         /\ (Distinct(q) /\ ~OnQueue(q, n)) => Distinct(queue_in(q, n))
<1> DEFINE r == Append(q, n)
<1>1. /\ r \in Seq(Threads) /\ Len(r) = Len(q) + 1 /\ r # <<>>
      /\ \A i \in 1..Len(q) : r[i] = q[i]
      /\ r[Len(q) + 1] = n
  OBVIOUS
<1>2. Len(q) \in Nat
  OBVIOUS
<1>3. \A t : OnQueue(r, t) <=> OnQueue(q, t) \/ t = n
  BY <1>1, <1>2 DEF OnQueue
<1>4. (Distinct(q) /\ ~OnQueue(q, n)) => Distinct(r)
  BY <1>1, <1>2 DEF OnQueue, Distinct
<1> QED
  BY <1>1, <1>3, <1>4 DEF queue_in

(* queue_push does the same at the other end.                               *)
LEMMA QueuePush ==
  ASSUME NEW q \in Seq(Threads), NEW n \in Threads
  PROVE  /\ queue_push(q, n) \in Seq(Threads) /\ queue_push(q, n) # <<>>
         /\ \A t : OnQueue(queue_push(q, n), t) <=> OnQueue(q, t) \/ t = n
         /\ (Distinct(q) /\ ~OnQueue(q, n)) => Distinct(queue_push(q, n))
<1> DEFINE r == <<n>> \o q
<1>1. /\ r \in Seq(Threads) /\ Len(r) = Len(q) + 1 /\ r # <<>>
      /\ \A i \in 1..Len(q) : r[i + 1] = q[i]
      /\ r[1] = n
  OBVIOUS
<1>2. Len(q) \in Nat
  OBVIOUS
<1>3. \A i \in 1..Len(r) : i = 1 \/ (i - 1 \in 1..Len(q) /\ r[i] = q[i - 1])
  BY <1>1, <1>2
<1>4. ASSUME NEW t PROVE OnQueue(r, t) <=> OnQueue(q, t) \/ t = n
  <2>1. OnQueue(r, t) => OnQueue(q, t) \/ t = n
    BY <1>1, <1>3 DEF OnQueue
  <2>2. ASSUME NEW i \in 1..Len(q), q[i] = t PROVE OnQueue(r, t)
    <3>1. i + 1 \in 1..Len(r) /\ r[i + 1] = t
      BY <1>1, <1>2, <2>2
    <3> QED
      BY <3>1 DEF OnQueue
  <2>3. t = n => OnQueue(r, t)
    BY <1>1, <1>2 DEF OnQueue
  <2> QED
    BY <2>1, <2>2, <2>3 DEF OnQueue
<1>5. (Distinct(q) /\ ~OnQueue(q, n)) => Distinct(r)
  BY <1>1, <1>2, <1>3 DEF OnQueue, Distinct
<1> QED
  BY <1>1, <1>4, <1>5 DEF queue_push

(* queue_out takes the front item off a queue, and nothing else.            *)
LEMMA QueueOut ==
  ASSUME NEW q \in Seq(Threads), q # <<>>, Distinct(q)
  PROVE  /\ Head(q) \in Threads /\ OnQueue(q, Head(q))
         /\ Tail(q) \in Seq(Threads) /\ Distinct(Tail(q))
         /\ \A t : OnQueue(Tail(q), t) <=> (OnQueue(q, t) /\ t # Head(q))
<1> DEFINE r == Tail(q)
<1>1. /\ Len(q) \in Nat /\ Len(q) > 0
      /\ r \in Seq(Threads) /\ Len(r) = Len(q) - 1
      /\ \A i \in 1..Len(r) : r[i] = q[i + 1]
      /\ Head(q) = q[1] /\ Head(q) \in Threads
  OBVIOUS
<1>2. OnQueue(q, Head(q))
  BY <1>1 DEF OnQueue
<1>3. Distinct(r)
  BY <1>1 DEF Distinct
<1>4. \A i \in 1..Len(q) : i = 1 \/ (i - 1 \in 1..Len(r) /\ q[i] = r[i - 1])
  BY <1>1
<1>5. ASSUME NEW t PROVE OnQueue(r, t) <=> (OnQueue(q, t) /\ t # Head(q))
  <2>1. OnQueue(r, t) => (OnQueue(q, t) /\ t # Head(q))
    BY <1>1 DEF OnQueue, Distinct
  <2>2. (OnQueue(q, t) /\ t # Head(q)) => OnQueue(r, t)
    BY <1>1, <1>4 DEF OnQueue
  <2> QED
    BY <2>1, <2>2
<1> QED
  BY <1>1, <1>2, <1>3, <1>5

(* A time slice fits the uint8_t it is stored in.                           *)
LEMMA SliceByte == \A t \in Threads : slice(t) \in 0..255
BY PriorityAssumption DEF slice

-----------------------------------------------------------------------------
(* The inductive invariant: cpu_idle exists, so whenever the ready queue is *)
(* empty and the current task is leaving, it is BLOCKED and can be woken.   *)
Inv == /\ TypeOK
       /\ BooksAgree
       /\ NoAssertFails
       /\ status[Idle] # "NONE"

(* schedule(), entered with statuses st and queue q in which the current    *)
(* task may no longer be RUNNING, fails no ASSERT and leaves books that     *)
(* agree.                                                                   *)
LEMMA ScheduleBooks ==
  ASSUME TypeOK, ~hung,
         NEW st \in [Threads -> Status], NEW q \in Seq(Threads), NEW fr \in Frame,
         Distinct(q),
         \A t \in Threads : st[t] = "READY" <=> OnQueue(q, t),
         \A t \in Threads : st[t] = "RUNNING" => t = current_task,
         st[Idle] # "NONE",
         Schedule(st, q, fr)
  PROVE  /\ current_task' \in Threads
         /\ status' \in [Threads -> Status]
         /\ ready' \in Seq(Threads)
         /\ ticks' \in [Threads -> 0..255]
         /\ frame' \in [Threads -> Frame]
         /\ frame' = [frame EXCEPT ![current_task] = fr]
         /\ intr' = FALSE
         /\ hung' = FALSE
         /\ BooksAgree'
         /\ status'[Idle] # "NONE"
         /\ \A t \in Threads \ {Idle} : status'[t] = "BLOCKED" <=> st[t] = "BLOCKED"
         /\ \A t \in Threads : st[t] = "NONE" => status'[t] = "NONE"
<1> DEFINE cur == current_task
           spent == st[cur] = "RUNNING"
           q1 == IF spent THEN queue_in(q, cur) ELSE q
           st1 == IF spent THEN [st EXCEPT ![cur] = "READY"] ELSE st
           nobody == q1 = <<>>
           q2 == IF nobody THEN queue_push(q1, Idle) ELSE q1
           st2 == IF nobody THEN [st1 EXCEPT ![Idle] = "READY"] ELSE st1
<1>1. cur \in Threads /\ Idle \in Threads
  BY ThreadsAssumption DEF TypeOK
<1>2. /\ q1 \in Seq(Threads) /\ Distinct(q1)
      /\ st1 \in [Threads -> Status]
      /\ \A t \in Threads : st1[t] = "READY" <=> OnQueue(q1, t)
      /\ \A t \in Threads : st1[t] # "RUNNING"
      /\ st1[Idle] # "NONE"
  <2>1. CASE spent
    <3>1. ~OnQueue(q, cur)
      BY <1>1, <2>1
    <3>2. /\ q1 \in Seq(Threads) /\ Distinct(q1)
          /\ \A t : OnQueue(q1, t) <=> OnQueue(q, t) \/ t = cur
      BY <1>1, <2>1, <3>1, QueueIn
    <3> QED
      BY <1>1, <2>1, <3>2 DEF Status
  <2>2. CASE ~spent
    BY <1>1, <2>2
  <2> QED
    BY <2>1, <2>2
<1>3. ~(nobody /\ st1[Idle] # "BLOCKED")
  <2>1. nobody => ~OnQueue(q1, Idle)
    BY DEF OnQueue
  <2> QED
    BY <1>1, <1>2, <2>1 DEF Status
<1>4. /\ q2 \in Seq(Threads) /\ q2 # <<>> /\ Distinct(q2)
      /\ st2 \in [Threads -> Status]
      /\ \A t \in Threads : st2[t] = "READY" <=> OnQueue(q2, t)
      /\ \A t \in Threads : st2[t] # "RUNNING"
      /\ st2[Idle] # "NONE"
  <2>1. CASE nobody
    <3>1. ~OnQueue(q1, Idle)
      BY <2>1 DEF OnQueue
    <3>2. /\ q2 \in Seq(Threads) /\ q2 # <<>> /\ Distinct(q2)
          /\ \A t : OnQueue(q2, t) <=> OnQueue(q1, t) \/ t = Idle
      BY <1>1, <1>2, <2>1, <3>1, QueuePush
    <3> QED
      BY <1>1, <1>2, <2>1, <3>2 DEF Status
  <2>2. CASE ~nobody
    BY <1>2, <2>2
  <2> QED
    BY <2>1, <2>2
<1>5. ~(spent /\ list_find_item(q, cur))
  <2>1. list_find_item(q, cur) => OnQueue(q, cur)
    BY DEF list_find_item, OnQueue
  <2> QED
    BY <1>1, <2>1
<1>6. /\ ticks' = (IF spent THEN [ticks EXCEPT ![cur] = slice(cur)] ELSE ticks)
      /\ ready' = Tail(q2)
      /\ status' = [st2 EXCEPT ![Head(q2)] = "RUNNING"]
      /\ current_task' = Head(q2)
      /\ frame' = [frame EXCEPT ![cur] = fr]
      /\ intr' = FALSE
      /\ hung' = hung
  BY <1>3, <1>5 DEF Schedule
<1>7. /\ Head(q2) \in Threads /\ OnQueue(q2, Head(q2))
      /\ Tail(q2) \in Seq(Threads) /\ Distinct(Tail(q2))
      /\ \A t : OnQueue(Tail(q2), t) <=> (OnQueue(q2, t) /\ t # Head(q2))
  <2> HIDE DEF q2
  <2> QED
    BY <1>4, QueueOut
<1>8. ticks' \in [Threads -> 0..255]
  <2>1. slice(cur) \in 0..255
    BY <1>1, SliceByte
  <2> QED
    BY <1>1, <1>6, <2>1 DEF TypeOK
<1>9. status' \in [Threads -> Status] /\ frame' \in [Threads -> Frame]
  <2> HIDE DEF q2, st2
  <2> QED
    BY <1>1, <1>4, <1>6, <1>7 DEF Status, TypeOK
<1>10. BooksAgree' /\ status'[Idle] # "NONE"
  <2> HIDE DEF q2, st2
  <2>1. \A t \in Threads : status'[t] = IF t = Head(q2) THEN "RUNNING" ELSE st2[t]
    BY <1>4, <1>6, <1>7
  <2>2. \A t \in Threads : status'[t] = "RUNNING" <=> t = current_task'
    BY <1>4, <1>6, <2>1
  <2>3. \A t \in Threads : status'[t] = "READY" <=> OnQueue(ready', t)
    BY <1>4, <1>6, <1>7, <2>1
  <2>4. Distinct(ready')
    BY <1>6, <1>7
  <2>5. status'[Idle] # "NONE"
    BY <1>1, <1>4, <2>1
  <2> QED
    BY <2>2, <2>3, <2>4, <2>5 DEF BooksAgree, OnQueue, Distinct
<1>11. ASSUME NEW t \in Threads \ {Idle} PROVE status'[t] = "BLOCKED" <=> st[t] = "BLOCKED"
  <2>1. st1[t] = "BLOCKED" <=> st[t] = "BLOCKED"
    BY <1>1
  <2>2. st2[t] = "BLOCKED" <=> st1[t] = "BLOCKED"
    BY <1>2
  <2>3. st2[Head(q2)] = "READY"
    <3> HIDE DEF q2, st2
    <3> QED
      BY <1>4, <1>7
  <2> HIDE DEF q2, st2
  <2> QED
    BY <1>4, <1>6, <1>7, <2>1, <2>2, <2>3
<1>12. ASSUME NEW t \in Threads, st[t] = "NONE" PROVE status'[t] = "NONE"
  <2>1. st2[t] = "NONE"
    BY <1>1, <1>12
  <2> HIDE DEF q2, st2
  <2> QED
    BY <1>4, <1>6, <1>7, <2>1
<1> HIDE DEF q2, st2, spent
<1> QED
  BY <1>6, <1>7, <1>8, <1>9, <1>10, <1>11, <1>12

(* thread_unblock() of a BLOCKED task likewise.                             *)
LEMMA UnblockBooks ==
  ASSUME Inv, NEW w \in Threads, status[w] = "BLOCKED", thread_unblock(w)
  PROVE  /\ status' \in [Threads -> Status]
         /\ ready' \in Seq(Threads)
         /\ UNCHANGED <<current_task, ticks, frame, hung, intr>>
         /\ BooksAgree'
         /\ status'[Idle] # "NONE"
         /\ status' = [status EXCEPT ![w] = "READY"]
<1>1. ~OnQueue(ready, w)
  BY DEF Inv, BooksAgree
<1>2. ~list_find_item(ready, w)
  BY <1>1 DEF list_find_item, OnQueue, Inv, TypeOK
<1>3. /\ ready' = queue_push(ready, w)
      /\ status' = [status EXCEPT ![w] = "READY"]
      /\ UNCHANGED <<current_task, ticks, frame, hung, intr>>
  BY <1>2 DEF thread_unblock
<1>4. /\ ready' \in Seq(Threads) /\ Distinct(ready')
      /\ \A t : OnQueue(ready', t) <=> OnQueue(ready, t) \/ t = w
  BY <1>1, <1>3, QueuePush DEF Inv, TypeOK, BooksAgree
<1>5. BooksAgree'
  <2>1. \A t \in Threads : status'[t] = "RUNNING" <=> t = current_task'
    BY <1>3 DEF Inv, TypeOK, BooksAgree
  <2>2. \A t \in Threads : status'[t] = "READY" <=> OnQueue(ready', t)
    BY <1>3, <1>4 DEF Inv, TypeOK, BooksAgree
  <2> QED
    BY <2>1, <2>2, <1>4 DEF BooksAgree, OnQueue, Distinct
<1> QED
  BY <1>3, <1>4, <1>5, ThreadsAssumption DEF Inv, TypeOK, Status

(* ... and thread_block().                                                  *)
LEMMA BlockBooks ==
  ASSUME Inv, thread_block
  PROVE  /\ current_task' \in Threads
         /\ status' \in [Threads -> Status]
         /\ ready' \in Seq(Threads)
         /\ ticks' \in [Threads -> 0..255]
         /\ frame' \in [Threads -> Frame]
         /\ frame' = [frame EXCEPT ![current_task] = "block"]
         /\ old_status' \in [Threads -> BOOLEAN]
         /\ intr' = FALSE
         /\ hung' = FALSE
         /\ BooksAgree'
         /\ status'[Idle] # "NONE"
         /\ \A t \in Threads \ {Idle} :
              status'[t] = "BLOCKED" <=> status[t] = "BLOCKED" \/ t = current_task
         /\ \A t \in Threads : status[t] = "NONE" => status'[t] = "NONE"
<1> DEFINE st == [status EXCEPT ![current_task] = "BLOCKED"]
<1>1. /\ TypeOK /\ ~hung /\ ready \in Seq(Threads) /\ Distinct(ready)
      /\ st \in [Threads -> Status] /\ "block" \in Frame
      /\ \A t \in Threads : st[t] = "READY" <=> OnQueue(ready, t)
      /\ \A t \in Threads : st[t] = "RUNNING" => t = current_task
      /\ st[Idle] # "NONE"
  BY ThreadsAssumption DEF Inv, NoAssertFails, TypeOK, BooksAgree, Status, Frame
<1>2. Schedule(st, ready, "block")
  BY DEF thread_block
<1>3. old_status' \in [Threads -> BOOLEAN]
  BY DEF thread_block, Inv, TypeOK
<1>4. /\ \A t \in Threads : st[t] = "BLOCKED" <=> status[t] = "BLOCKED" \/ t = current_task
      /\ \A t \in Threads : status[t] = "NONE" => st[t] = "NONE"
  BY DEF Inv, TypeOK, BooksAgree
<1> HIDE DEF st
<1>5. /\ current_task' \in Threads
      /\ status' \in [Threads -> Status]
      /\ ready' \in Seq(Threads)
      /\ ticks' \in [Threads -> 0..255]
      /\ frame' \in [Threads -> Frame]
      /\ frame' = [frame EXCEPT ![current_task] = "block"]
      /\ intr' = FALSE
      /\ hung' = FALSE
      /\ BooksAgree'
      /\ status'[Idle] # "NONE"
      /\ \A t \in Threads \ {Idle} : status'[t] = "BLOCKED" <=> st[t] = "BLOCKED"
      /\ \A t \in Threads : st[t] = "NONE" => status'[t] = "NONE"
  BY <1>1, <1>2, ScheduleBooks
<1> QED
  BY <1>3, <1>4, <1>5

(* ... and thread_yield().                                                  *)
LEMMA YieldBooks ==
  ASSUME Inv, thread_yield
  PROVE  /\ current_task' \in Threads
         /\ status' \in [Threads -> Status]
         /\ ready' \in Seq(Threads)
         /\ ticks' \in [Threads -> 0..255]
         /\ frame' \in [Threads -> Frame]
         /\ frame' = [frame EXCEPT ![current_task] = "yield"]
         /\ old_status' \in [Threads -> BOOLEAN]
         /\ intr' = FALSE
         /\ hung' = FALSE
         /\ BooksAgree'
         /\ status'[Idle] # "NONE"
         /\ \A t \in Threads \ {Idle} : status'[t] = "BLOCKED" <=> status[t] = "BLOCKED"
         /\ \A t \in Threads : status[t] = "NONE" => status'[t] = "NONE"
<1> DEFINE st == [status EXCEPT ![current_task] = "READY"]
           q == queue_in(ready, current_task)
<1>1. current_task \in Threads /\ ~OnQueue(ready, current_task)
  BY DEF Inv, TypeOK, BooksAgree
<1>2. /\ q \in Seq(Threads) /\ Distinct(q)
      /\ \A t : OnQueue(q, t) <=> OnQueue(ready, t) \/ t = current_task
  BY <1>1, QueueIn DEF Inv, TypeOK, BooksAgree
<1>3. /\ TypeOK /\ ~hung
      /\ st \in [Threads -> Status] /\ "yield" \in Frame
      /\ \A t \in Threads : st[t] = "RUNNING" => t = current_task
      /\ st[Idle] # "NONE"
  BY ThreadsAssumption DEF Inv, NoAssertFails, TypeOK, BooksAgree, Status, Frame
<1>4. \A t \in Threads : st[t] = "READY" <=> OnQueue(q, t)
  <2> HIDE DEF q
  <2> QED
    BY <1>1, <1>2 DEF Inv, TypeOK, BooksAgree
<1>5. Schedule(st, q, "yield")
  <2>1. ~list_find_item(ready, current_task)
    BY <1>1 DEF list_find_item, OnQueue, Inv, TypeOK
  <2> QED
    BY <2>1 DEF thread_yield
<1>6. old_status' \in [Threads -> BOOLEAN]
  BY DEF thread_yield, Inv, TypeOK
<1>7. /\ \A t \in Threads : st[t] = "BLOCKED" <=> status[t] = "BLOCKED"
      /\ \A t \in Threads : status[t] = "NONE" => st[t] = "NONE"
  BY <1>1 DEF Inv, TypeOK, BooksAgree
<1> HIDE DEF st, q
<1>8. /\ current_task' \in Threads
      /\ status' \in [Threads -> Status]
      /\ ready' \in Seq(Threads)
      /\ ticks' \in [Threads -> 0..255]
      /\ frame' \in [Threads -> Frame]
      /\ frame' = [frame EXCEPT ![current_task] = "yield"]
      /\ intr' = FALSE
      /\ hung' = FALSE
      /\ BooksAgree'
      /\ status'[Idle] # "NONE"
      /\ \A t \in Threads \ {Idle} : status'[t] = "BLOCKED" <=> st[t] = "BLOCKED"
      /\ \A t \in Threads : st[t] = "NONE" => status'[t] = "NONE"
  BY <1>2, <1>3, <1>4, <1>5, ScheduleBooks
<1> QED
  BY <1>6, <1>7, <1>8

(* ... and the clock handler, when it ends a time slice.                    *)
LEMMA ExpiryBooks ==
  ASSUME Inv, clock_service, expired
  PROVE  /\ current_task' \in Threads
         /\ status' \in [Threads -> Status]
         /\ ready' \in Seq(Threads)
         /\ ticks' \in [Threads -> 0..255]
         /\ frame' \in [Threads -> Frame]
         /\ frame' = [frame EXCEPT ![current_task] = "clock"]
         /\ intr' = FALSE
         /\ hung' = FALSE
         /\ BooksAgree'
         /\ status'[Idle] # "NONE"
         /\ \A t \in Threads \ {Idle} : status'[t] = "BLOCKED" <=> status[t] = "BLOCKED"
         /\ \A t \in Threads : status[t] = "NONE" => status'[t] = "NONE"
<1>1. /\ TypeOK /\ ~hung /\ ready \in Seq(Threads) /\ Distinct(ready)
      /\ status \in [Threads -> Status] /\ "clock" \in Frame
      /\ \A t \in Threads : status[t] = "READY" <=> OnQueue(ready, t)
      /\ \A t \in Threads : status[t] = "RUNNING" => t = current_task
      /\ status[Idle] # "NONE"
  BY DEF Inv, NoAssertFails, TypeOK, BooksAgree, Frame
<1>2. Schedule(status, ready, "clock")
  BY DEF clock_service
<1> QED
  BY <1>1, <1>2, ScheduleBooks

(* The clock makes nobody but cpu_idle start or stop being BLOCKED.         *)
LEMMA ClockBlocks ==
  ASSUME Inv, clock_service
  PROVE  /\ \A t \in Threads \ {Idle} : status'[t] = "BLOCKED" <=> status[t] = "BLOCKED"
         /\ \A t \in Threads : status[t] = "NONE" => status'[t] = "NONE"
         /\ \/ /\ frame' = [frame EXCEPT ![current_task] = "clock"]
               /\ intr' = FALSE
            \/ UNCHANGED <<current_task, frame, intr>>
<1>1. CASE expired
  BY <1>1, ExpiryBooks
<1>2. CASE ~expired
  BY <1>2 DEF clock_service
<1> QED
  BY <1>1, <1>2

-----------------------------------------------------------------------------
(* The books are in order at boot.                                          *)
LEMMA InitInv == Init => Inv
<1> SUFFICES ASSUME Init PROVE Inv
  OBVIOUS
<1>1. Main \in Threads /\ Idle \in Threads /\ Main # Idle
  BY ThreadsAssumption
<1>2. ticks \in [Threads -> 0..255]
  BY SliceByte DEF Init
<1>3. ready = <<Idle>> /\ ready \in Seq(Threads) /\ Len(ready) = 1 /\ ready[1] = Idle
  BY <1>1 DEF Init
<1>4. /\ status[Main] = "RUNNING" /\ status[Idle] = "READY"
      /\ \A t \in Threads \ {Main, Idle} : status[t] = "NONE"
      /\ status \in [Threads -> Status]
  BY <1>1 DEF Init, Status
<1>5. TypeOK
  BY <1>1, <1>2, <1>3, <1>4 DEF Init, TypeOK, Frame, Pc
<1>6. BooksAgree
  BY <1>1, <1>3, <1>4 DEF Init, BooksAgree, OnQueue, Distinct
<1> QED
  BY <1>1, <1>4, <1>5, <1>6 DEF Init, Inv, NoAssertFails

(* Every step keeps the invariant, action by action.                        *)
LEMMA NextInv == Inv /\ [Next]_vars => Inv'
<1> SUFFICES ASSUME Inv, [Next]_vars PROVE Inv'
  OBVIOUS
<1> USE DEF Inv, NoAssertFails
<1>1. ASSUME NEW t \in Threads, Resume(t) PROVE Inv'
  <2>1. /\ frame' \in [Threads -> Frame]
        /\ UNCHANGED <<current_task, status, ready, ticks, pid, next_pid, old_status,
                       left, hung>>
    BY <1>1 DEF Resume, TypeOK, Frame
  <2>2. intr' \in BOOLEAN
    BY <1>1, Zenon DEF Resume, TypeOK
  <2>3. pc' \in [Threads -> Pc]
    BY <1>1 DEF Resume, TypeOK, Pc
  <2> QED
    BY <2>1, <2>2, <2>3 DEF TypeOK, BooksAgree, OnQueue, Distinct
<1>2. ASSUME NEW t \in Threads, thread_start(t) PROVE Inv'
  <2>1. ~OnQueue(ready, t)
    BY <1>2 DEF thread_start, BooksAgree
  <2>2. /\ ready' \in Seq(Threads) /\ Distinct(ready')
        /\ \A u : OnQueue(ready', u) <=> OnQueue(ready, u) \/ u = t
    BY <1>2, <2>1, QueueIn DEF thread_start, TypeOK, BooksAgree
  <2>3. TypeOK'
    <3>1. ticks' \in [Threads -> 0..255] /\ status' \in [Threads -> Status]
      BY <1>2, SliceByte DEF thread_start, TypeOK, Status
    <3>2. pid' \in [Threads -> Nat] /\ next_pid' \in Nat
      BY <1>2 DEF thread_start, TypeOK
    <3> QED
      BY <1>2, <2>2, <3>1, <3>2 DEF thread_start, TypeOK
  <2>4. \A u \in Threads : status'[u] = IF u = t THEN "READY" ELSE status[u]
    BY <1>2 DEF thread_start, TypeOK
  <2>5. \A u \in Threads : status'[u] = "RUNNING" <=> u = current_task'
    BY <1>2, <2>4 DEF thread_start, BooksAgree
  <2>6. \A u \in Threads : status'[u] = "READY" <=> OnQueue(ready', u)
    BY <2>2, <2>4 DEF BooksAgree
  <2>7. BooksAgree'
    BY <2>2, <2>5, <2>6 DEF BooksAgree, OnQueue, Distinct
  <2> QED
    BY <1>2, <2>3, <2>4, <2>7, ThreadsAssumption DEF thread_start
<1>3. CASE clock_service
  <2>1. left' \in [Threads -> Nat] /\ pc' \in [Threads -> Pc]
    BY <1>3, ThreadsAssumption DEF clock_service, WakeCpu, TypeOK, Pc
  <2>2. pid' = pid /\ next_pid' = next_pid /\ old_status' = old_status
    BY <1>3 DEF clock_service
  <2>3. CASE expired
    BY <1>3, <2>1, <2>2, <2>3, ExpiryBooks DEF TypeOK
  <2>4. CASE ~expired
    <3>1. /\ ticks' = [ticks EXCEPT ![current_task] = @ - 1]
          /\ UNCHANGED <<current_task, status, ready, frame, hung, intr>>
      BY <1>3, <2>4 DEF clock_service
    <3>2. ticks[current_task] \in 1..255
      BY <2>4 DEF expired, TypeOK
    <3>3. ticks' \in [Threads -> 0..255]
      BY <3>1, <3>2 DEF TypeOK
    <3> QED
      BY <2>1, <2>2, <3>1, <3>3 DEF TypeOK, BooksAgree, OnQueue, Distinct
  <2> QED
    BY <2>3, <2>4
<1>4. ASSUME NEW w \in Threads, DeviceInterrupt(w) PROVE Inv'
  <2>1. pc' \in [Threads -> Pc]
    BY <1>4, ThreadsAssumption DEF DeviceInterrupt, WakeCpu, TypeOK, Pc
  <2> QED
    BY <1>4, <2>1, UnblockBooks DEF DeviceInterrupt, TypeOK
<1>5. CASE OtherInterrupt
  <2>1. pc' \in [Threads -> Pc]
    BY <1>5, ThreadsAssumption DEF OtherInterrupt, WakeCpu, TypeOK, Pc
  <2> QED
    BY <1>5, <2>1 DEF OtherInterrupt, sched, TypeOK, BooksAgree, OnQueue, Distinct
<1>6. ASSUME NEW t \in Threads, Block(t) PROVE Inv'
  BY <1>6, BlockBooks DEF Block, TypeOK
<1>7. ASSUME NEW t \in Threads, NEW w \in Threads, Unblock(t, w) PROVE Inv'
  BY <1>7, UnblockBooks DEF Unblock, TypeOK
<1>8. ASSUME NEW t \in Threads, local_irq_disable(t) \/ local_irq_enable(t) PROVE Inv'
  <2>1. /\ intr' \in BOOLEAN
        /\ UNCHANGED <<sched, pid, next_pid, old_status, pc, left>>
    BY <1>8, Zenon DEF local_irq_disable, local_irq_enable
  <2> QED
    BY <2>1 DEF sched, TypeOK, BooksAgree, OnQueue, Distinct
<1>9. ASSUME NEW t \in Threads, NEW n \in SleepTicks, mil_sleep(t, n) PROVE Inv'
  BY <1>9, SleepAssumption
    DEF mil_sleep, sched, TypeOK, BooksAgree, OnQueue, Distinct, Pc
<1>10. ASSUME NEW t \in Threads, ticks_to_sleep(t) PROVE Inv'
  BY <1>10 DEF ticks_to_sleep, sched, TypeOK, BooksAgree, OnQueue, Distinct, Pc
<1>11. ASSUME NEW t \in Threads, SleepYield(t) PROVE Inv'
  BY <1>11, YieldBooks DEF SleepYield, TypeOK, Pc
<1>12. CASE cpu_idle
  BY <1>12, BlockBooks DEF cpu_idle, TypeOK
<1>13. CASE cpu_halt
  BY <1>13, ThreadsAssumption
    DEF cpu_halt, sched, TypeOK, BooksAgree, OnQueue, Distinct, Pc
<1>14. CASE UNCHANGED vars
  BY <1>14 DEF vars, TypeOK, BooksAgree, OnQueue, Distinct
<1> QED
  BY <1>1, <1>2, <1>3, <1>4, <1>5, <1>6, <1>7, <1>8, <1>9, <1>10, <1>11, <1>12,
     <1>13, <1>14 DEF Next, Call, Step

(* The invariant of the scheduler.                                          *)
THEOREM Invariant == Spec => []Inv
BY InitInv, NextInv, PTL DEF Spec

(* Every variable of the scheduler keeps its type.                          *)
THEOREM TypeCorrect == Spec => []TypeOK
<1>1. Inv => TypeOK
  BY DEF Inv
<1> QED
  BY <1>1, Invariant, PTL

(* Status words and ready queue agree in every reachable state, for any     *)
(* number of threads.                                                       *)
THEOREM BooksAlwaysAgree == Spec => []BooksAgree
<1>1. Inv => BooksAgree
  BY DEF Inv
<1> QED
  BY <1>1, Invariant, PTL

(* No ASSERT of the scheduler ever fails.                                   *)
THEOREM AssertsHold == Spec => []NoAssertFails
<1>1. Inv => NoAssertFails
  BY DEF Inv
<1> QED
  BY <1>1, Invariant, PTL

-----------------------------------------------------------------------------
(* Where a thread has the semaphore of its lock.                            *)
Holding == {"got", "own", "in", "rel", "up"}

(* At most one thread has a semaphore, and while one has it the value is 0. *)
Exclusion ==
  /\ \A t, u \in Threads : at[t] \in Holding /\ at[u] \in Holding /\ lk[t] = lk[u] => t = u
  /\ \A t \in Threads : at[t] \in Holding => value[lk[t]] = 0

(* holder, which lock_acquire() reads without protection, names a thread    *)
(* exactly while that thread is between its two writes.                     *)
HolderRight ==
  \A t \in Threads, l \in Locks : holder[l] = t <=> lk[t] = l /\ at[t] \in {"own", "in"}

(* holder_repeat_cnt is the number of calls, and left over by nobody.       *)
CountRight ==
  /\ \A t \in Threads : at[t] = "in" => nest[t] # 0 /\ repeat[lk[t]] = nest[t]
  /\ \A t \in Threads : at[t] # "in" => nest[t] = 0
  /\ \A l \in Locks : repeat[l] # 0 => \E t \in Threads : lk[t] = l /\ at[t] \in {"in", "rel"}

(* A waiter queue holds those that sleep in sema_down() of its lock.        *)
WaitersRight ==
  /\ \A l \in Locks : Distinct(waiters[l])
  /\ \A t \in Threads, l \in Locks :
       OnQueue(waiters[l], t) <=> status[t] = "BLOCKED" /\ at[t] = "test" /\ lk[t] = l

SyncInv ==
  /\ Inv
  /\ SyncTypeOK
  /\ Exclusion
  /\ HolderRight
  /\ CountRight
  /\ WaitersRight
  /\ at[Idle] = "out"

(* The running thread is not BLOCKED, so it is in no waiter queue.          *)
LEMMA RunningIsNotBlocked ==
  ASSUME Inv, NEW t \in Threads, At(t, "run")
  PROVE  status[t] = "RUNNING"
BY DEF Inv, BooksAgree, At

(* A step that leaves the variables of sync.c alone, that Thread allows,    *)
(* and that neither wakes nor blocks anybody who waits for a lock.          *)
LEMMA OutsideKeeps ==
  ASSUME SyncInv, [Next]_vars,
         UNCHANGED <<sema, owner, at, lk, saved>>,
         \A t \in Threads : at[t] = "test" => (status'[t] = "BLOCKED" <=> status[t] = "BLOCKED")
  PROVE  SyncInv'
<1>1. Inv'
  BY NextInv DEF SyncInv
<1>2. UNCHANGED <<value, waiters, holder, repeat, nest, at, lk, saved>>
  BY DEF sema, owner
<1>3. SyncTypeOK'
  BY <1>1, <1>2 DEF SyncInv, SyncTypeOK, Inv
<1>4. Exclusion' /\ HolderRight' /\ CountRight'
  BY <1>2 DEF SyncInv, Exclusion, HolderRight, CountRight
<1>5. WaitersRight'
  BY <1>2 DEF SyncInv, WaitersRight, OnQueue, Distinct
<1> QED
  BY <1>1, <1>2, <1>3, <1>4, <1>5 DEF SyncInv

(* A thread that runs may go to another step, or take up another lock.      *)
LEMMA WaitersKeep ==
  ASSUME SyncInv, UNCHANGED <<waiters, status>>, NEW t \in Threads, status[t] # "BLOCKED",
         \A u \in Threads \ {t} : at'[u] = at[u] /\ lk'[u] = lk[u]
  PROVE  WaitersRight'
<1>1. \A l \in Locks : Distinct(waiters[l]) /\ waiters'[l] = waiters[l]
  BY DEF SyncInv, WaitersRight
<1>2. ASSUME NEW u \in Threads, NEW l \in Locks
      PROVE  OnQueue(waiters[l], u) <=> status'[u] = "BLOCKED" /\ at'[u] = "test" /\ lk'[u] = l
  BY DEF SyncInv, WaitersRight
<1> QED
  BY <1>1, <1>2 DEF WaitersRight, OnQueue, Distinct

(* lock_acquire() looks at the holder.  It takes the branch of the holder   *)
(* only in a thread that has the lock.                                      *)
LEMMA AcquireKeeps ==
  ASSUME SyncInv, NEW t \in Threads \ {Idle}, NEW l \in Locks, lock_acquire(t, l)
  PROVE  SyncInv' /\ [Next]_vars
<1> USE DEF SyncInv
<1>0. UNCHANGED <<vars, value, waiters, holder, saved>>
  BY DEF lock_acquire, sema
<1>1. Inv' /\ [Next]_vars
  BY <1>0, NextInv
<1>2. UNCHANGED status
  BY <1>0 DEF vars
<1>3. status[t] # "BLOCKED"
  BY RunningIsNotBlocked DEF lock_acquire
<1>4. CASE holder[l] # t
  <2>1. /\ at[t] = "out"
        /\ at' = [at EXCEPT ![t] = "down"] /\ lk' = [lk EXCEPT ![t] = l]
        /\ UNCHANGED <<repeat, nest>>
    BY <1>4 DEF lock_acquire, HolderRight
  <2>2. SyncTypeOK'
    BY <1>0, <1>1, <2>1 DEF SyncTypeOK, LockPc, Inv
  <2>3. Exclusion'
    BY <1>0, <2>1 DEF SyncTypeOK, Exclusion, Holding
  <2>4. HolderRight'
    BY <1>0, <2>1 DEF SyncTypeOK, HolderRight
  <2>5. CountRight'
    BY <1>0, <2>1 DEF SyncTypeOK, CountRight
  <2>6. WaitersRight'
    BY <1>0, <1>2, <1>3, <2>1, WaitersKeep DEF SyncTypeOK
  <2> QED
    BY <1>1, <2>1, <2>2, <2>3, <2>4, <2>5, <2>6 DEF SyncTypeOK
<1>5. CASE holder[l] = t
  <2>1. /\ at[t] = "in" /\ lk[t] = l /\ repeat[l] < MaxRepeat /\ repeat[l] = nest[t]
        /\ repeat' = [repeat EXCEPT ![l] = @ + 1]
        /\ nest' = [nest EXCEPT ![t] = @ + 1]
        /\ UNCHANGED <<at, lk>>
    BY <1>5 DEF lock_acquire, HolderRight, CountRight
  <2>2. repeat[l] \in 0..MaxRepeat /\ MaxRepeat \in Nat
    BY RepeatAssumption DEF SyncTypeOK
  <2>3. SyncTypeOK'
    BY <1>0, <1>1, <2>1, <2>2 DEF SyncTypeOK, Inv
  <2>4. Exclusion' /\ HolderRight'
    BY <1>0, <2>1 DEF Exclusion, HolderRight
  <2>5. CountRight'
    BY <1>0, <2>1, <2>2 DEF SyncTypeOK, CountRight, Exclusion, Holding
  <2>6. WaitersRight'
    BY <1>0, <1>2, <2>1 DEF WaitersRight, OnQueue, Distinct
  <2> QED
    BY <1>1, <2>1, <2>3, <2>4, <2>5, <2>6
<1> QED
  BY <1>4, <1>5

(* Switching interrupts on or off is a step of Thread, or none.             *)
LEMMA SwitchKeeps ==
  ASSUME Inv, NEW t \in Threads, At(t, "run"), intr' \in BOOLEAN,
         UNCHANGED <<sched, pid, next_pid, old_status, pc, left>>
  PROVE  Inv' /\ [Next]_vars /\ UNCHANGED status
<1>1. \/ intr /\ intr' = FALSE
      \/ ~intr /\ intr' = TRUE
      \/ intr' = intr
  BY Zenon DEF Inv, TypeOK
<1>2. ASSUME intr, intr' = FALSE PROVE [Next]_vars
  BY <1>2 DEF local_irq_disable, Next, Call
<1>3. ASSUME ~intr, intr' = TRUE PROVE [Next]_vars
  BY <1>3 DEF local_irq_enable, Next, Step
<1>4. ASSUME intr' = intr PROVE [Next]_vars
  BY <1>4 DEF vars, sched
<1>5. [Next]_vars
  BY <1>1, <1>2, <1>3, <1>4
<1> QED
  BY <1>5, NextInv DEF sched

(* sema_down() disables interrupts.                                         *)
LEMMA EnterKeeps ==
  ASSUME SyncInv, NEW t \in Threads \ {Idle}, sema_down_enter(t)
  PROVE  SyncInv' /\ [Next]_vars /\ UNCHANGED status
<1> USE DEF SyncInv
<1>1. /\ at[t] = "down" /\ at' = [at EXCEPT ![t] = "test"]
      /\ UNCHANGED <<value, waiters, holder, repeat, nest, lk>>
  BY DEF sema_down_enter, Goes, sema, owner
<1>2. Inv' /\ [Next]_vars /\ UNCHANGED status
  BY SwitchKeeps DEF sema_down_enter, Goes
<1>3. saved' \in [Threads -> BOOLEAN]
  <2>1. intr \in BOOLEAN /\ saved \in [Threads -> BOOLEAN]
    BY DEF Inv, TypeOK, SyncTypeOK
  <2> QED
    BY <2>1, Zenon DEF sema_down_enter
<1>4. SyncTypeOK'
  BY <1>1, <1>2, <1>3 DEF SyncTypeOK, LockPc, Inv
<1>5. Exclusion'
  BY <1>1 DEF SyncTypeOK, Exclusion, Holding
<1>6. HolderRight'
  BY <1>1 DEF SyncTypeOK, HolderRight
<1>7. CountRight'
  BY <1>1 DEF SyncTypeOK, CountRight
<1>8. WaitersRight'
  <2>1. status[t] # "BLOCKED"
    BY RunningIsNotBlocked DEF sema_down_enter, Goes
  <2> QED
    BY <1>1, <1>2, <2>1, WaitersKeep DEF SyncTypeOK
<1> QED
  BY <1>1, <1>2, <1>4, <1>5, <1>6, <1>7, <1>8 DEF SyncTypeOK

(* A thread queues up and blocks: it is not on the queue yet, and the       *)
(* others stay there.                                                       *)
LEMMA WaitKeeps ==
  ASSUME SyncInv, NEW t \in Threads \ {Idle}, sema_down_wait(t)
  PROVE  /\ SyncInv' /\ [Next]_vars
         /\ UNCHANGED <<value, at, lk>> /\ value[lk[t]] = 0 /\ at[t] = "test"
         /\ \A u \in Threads \ {Idle} :
              status'[u] = "BLOCKED" <=> status[u] = "BLOCKED" \/ u = t
         /\ \A l \in Locks : l # lk[t] => waiters'[l] = waiters[l]
<1> USE DEF SyncInv
<1> DEFINE l == lk[t]
<1>1. At(t, "run") /\ at[t] = "test" /\ value[l] = 0 /\ l \in Locks
  BY DEF sema_down_wait, SyncTypeOK
<1>2. status[t] = "RUNNING" /\ current_task = t
  BY <1>1, RunningIsNotBlocked DEF At
<1>3. ~OnQueue(waiters[l], t) /\ waiters[l] \in Seq(Threads)
  BY <1>1, <1>2 DEF WaitersRight, SyncTypeOK
<1>4. ~list_find_item(waiters[l], t)
  BY <1>3 DEF list_find_item, OnQueue
<1>5. /\ waiters' = [waiters EXCEPT ![l] = queue_in(@, t)]
      /\ Block(t)
      /\ UNCHANGED <<value, holder, repeat, nest, at, lk, saved>>
  BY <1>4 DEF sema_down_wait, owner
<1>6. Inv' /\ [Next]_vars
  BY <1>5, NextInv DEF Next, Call
<1>7. \A u \in Threads \ {Idle} :
         status'[u] = "BLOCKED" <=> status[u] = "BLOCKED" \/ u = t
  BY <1>2, <1>5, BlockBooks DEF Block
<1>8. /\ queue_in(waiters[l], t) \in Seq(Threads)
      /\ \A u : OnQueue(queue_in(waiters[l], t), u) <=> OnQueue(waiters[l], u) \/ u = t
      /\ Distinct(queue_in(waiters[l], t))
  BY <1>1, <1>3, QueueIn DEF WaitersRight
<1>9. \A k \in Locks : waiters'[k] = IF k = l THEN queue_in(waiters[l], t) ELSE waiters[k]
  BY <1>5 DEF SyncTypeOK
<1> HIDE DEF l
<1>10. SyncTypeOK'
  BY <1>1, <1>5, <1>6, <1>8 DEF SyncTypeOK, Inv
<1>11. Exclusion' /\ HolderRight' /\ CountRight'
  BY <1>5 DEF Exclusion, HolderRight, CountRight
<1>12. WaitersRight'
  <2>1. ASSUME NEW k \in Locks PROVE Distinct(waiters'[k])
    BY <1>8, <1>9 DEF WaitersRight
  <2>2. ASSUME NEW u \in Threads, NEW k \in Locks
        PROVE  OnQueue(waiters'[k], u) <=> status'[u] = "BLOCKED" /\ at'[u] = "test" /\ lk'[u] = k
    <3>1. l = lk[t]
      BY DEF l
    <3>2. CASE k = l
      BY <1>1, <1>5, <1>7, <1>8, <1>9, <3>1, <3>2 DEF WaitersRight
    <3>3. CASE k # l
      BY <1>1, <1>2, <1>5, <1>7, <1>9, <3>1, <3>3 DEF WaitersRight
    <3> QED
      BY <3>2, <3>3
  <2> QED
    BY <2>1, <2>2 DEF WaitersRight, OnQueue, Distinct
<1> QED
  BY <1>1, <1>5, <1>6, <1>7, <1>9, <1>10, <1>11, <1>12 DEF l

(* A thread takes the semaphore: the value was 1, so nobody has it.         *)
LEMMA TakeKeeps ==
  ASSUME SyncInv, NEW t \in Threads \ {Idle}, sema_down_take(t)
  PROVE  /\ SyncInv' /\ [Next]_vars /\ UNCHANGED status
         /\ UNCHANGED <<waiters, owner, lk>>
         /\ at[t] = "test" /\ at' = [at EXCEPT ![t] = "got"]
         /\ value[lk[t]] = 1 /\ value' = [value EXCEPT ![lk[t]] = 0]
<1> USE DEF SyncInv
<1>1. value[lk[t]] = 1 /\ lk[t] \in Locks
  BY DEF sema_down_take, SyncTypeOK
<1>2. /\ at[t] = "test" /\ at' = [at EXCEPT ![t] = "got"]
      /\ value' = [value EXCEPT ![lk[t]] = 0]
      /\ UNCHANGED <<waiters, holder, repeat, nest, lk>>
  BY <1>1 DEF sema_down_take, Goes, owner
<1>3. saved' \in [Threads -> BOOLEAN] /\ intr' \in BOOLEAN
  BY <1>1, Zenon DEF sema_down_take, SyncTypeOK
<1>4. Inv' /\ [Next]_vars /\ UNCHANGED status
  BY <1>1, <1>3, SwitchKeeps DEF sema_down_take, Goes
<1>5. SyncTypeOK'
  <2>1. value' \in [Locks -> 0..1] /\ at' \in [Threads -> LockPc]
    BY <1>1, <1>2 DEF SyncTypeOK, LockPc
  <2> QED
    BY <1>2, <1>3, <1>4, <2>1 DEF SyncTypeOK, Inv
<1>6. Exclusion'
  BY <1>1, <1>2 DEF SyncTypeOK, Exclusion, Holding
<1>7. HolderRight'
  BY <1>2 DEF SyncTypeOK, HolderRight
<1>8. CountRight'
  BY <1>2 DEF SyncTypeOK, CountRight
<1>9. WaitersRight'
  <2>1. status[t] # "BLOCKED"
    BY RunningIsNotBlocked DEF sema_down_take, Goes
  <2> QED
    BY <1>2, <1>4, <2>1, WaitersKeep DEF SyncTypeOK
<1> QED
  BY <1>1, <1>2, <1>4, <1>5, <1>6, <1>7, <1>8, <1>9 DEF SyncTypeOK, owner

(* The owner writes holder.                                                 *)
LEMMA HoldKeeps ==
  ASSUME SyncInv, NEW t \in Threads \ {Idle}, lock_acquire_hold(t)
  PROVE  /\ SyncInv' /\ UNCHANGED vars
         /\ UNCHANGED <<value, waiters, lk>>
         /\ at[t] = "got" /\ at' = [at EXCEPT ![t] = "own"] /\ UNCHANGED nest
<1> USE DEF SyncInv
<1>2. /\ at[t] = "got" /\ at' = [at EXCEPT ![t] = "own"] /\ lk[t] \in Locks
      /\ holder' = [holder EXCEPT ![lk[t]] = t]
      /\ UNCHANGED <<vars, value, waiters, repeat, nest, lk, saved>>
  BY DEF lock_acquire_hold, Goes, SyncTypeOK, sema
<1>3. Inv' /\ UNCHANGED status
  BY <1>2, NextInv DEF vars
<1>4. SyncTypeOK'
  BY <1>2, <1>3, RepeatAssumption DEF SyncTypeOK, LockPc, Inv
<1>5. Exclusion'
  BY <1>2 DEF SyncTypeOK, Exclusion, Holding
<1>6. HolderRight'
  BY <1>2, NoThreadAssumption DEF SyncTypeOK, HolderRight, Exclusion, Holding
<1>7. CountRight'
  BY <1>2 DEF SyncTypeOK, CountRight, Exclusion, Holding
<1>8. WaitersRight'
  <2>1. status[t] # "BLOCKED"
    BY RunningIsNotBlocked DEF lock_acquire_hold, Goes, At
  <2> QED
    BY <1>2, <1>3, <2>1, WaitersKeep DEF SyncTypeOK
<1> QED
  BY <1>2, <1>3, <1>4, <1>5, <1>6, <1>7, <1>8 DEF SyncTypeOK

(* The owner writes holder_repeat_cnt, which it finds 0: no ASSERT fails.   *)
LEMMA CountKeeps ==
  ASSUME SyncInv, NEW t \in Threads \ {Idle}, lock_acquire_count(t)
  PROVE  /\ SyncInv' /\ UNCHANGED vars
         /\ UNCHANGED <<value, waiters, lk>>
         /\ at[t] = "own" /\ at' = [at EXCEPT ![t] = "in"]
         /\ nest' = [nest EXCEPT ![t] = 1]
<1> USE DEF SyncInv
<1>1. repeat[lk[t]] = 0 /\ nest[t] = 0 /\ nest \in [Threads -> 0..MaxRepeat]
  <2>1. at[t] = "own" /\ lk[t] \in Locks /\ repeat[lk[t]] \in Nat
    BY DEF lock_acquire_count, Goes, SyncTypeOK
  <2>2. \A u \in Threads : lk[u] = lk[t] => at[u] \notin {"in", "rel"}
    BY <2>1 DEF Exclusion, Holding
  <2> QED
    BY <2>1, <2>2 DEF CountRight, SyncTypeOK
<1>2. /\ at[t] = "own" /\ at' = [at EXCEPT ![t] = "in"] /\ lk[t] \in Locks
      /\ repeat' = [repeat EXCEPT ![lk[t]] = 1]
      /\ nest' = [nest EXCEPT ![t] = 1]
      /\ UNCHANGED <<vars, value, waiters, holder, lk, saved>>
  BY <1>1 DEF lock_acquire_count, Goes, SyncTypeOK, sema
<1>3. Inv' /\ UNCHANGED status
  BY <1>2, NextInv DEF vars
<1>4. SyncTypeOK'
  BY <1>2, <1>3, RepeatAssumption DEF SyncTypeOK, LockPc, Inv
<1>5. Exclusion'
  BY <1>2 DEF SyncTypeOK, Exclusion, Holding
<1>6. HolderRight'
  BY <1>2, NoThreadAssumption DEF SyncTypeOK, HolderRight, Exclusion, Holding
<1>7. CountRight'
  BY <1>2 DEF SyncTypeOK, CountRight, Exclusion, Holding
<1>8. WaitersRight'
  <2>1. status[t] # "BLOCKED"
    BY RunningIsNotBlocked DEF lock_acquire_count, Goes, At
  <2> QED
    BY <1>2, <1>3, <2>1, WaitersKeep DEF SyncTypeOK
<1> QED
  BY <1>2, <1>3, <1>4, <1>5, <1>6, <1>7, <1>8 DEF SyncTypeOK

(* The owner, on its way out, clears holder_repeat_cnt.                     *)
LEMMA UncountKeeps ==
  ASSUME SyncInv, NEW t \in Threads \ {Idle}, lock_release_count(t)
  PROVE  /\ SyncInv' /\ UNCHANGED vars
         /\ UNCHANGED <<value, waiters, lk>>
         /\ at[t] = "rel" /\ at' = [at EXCEPT ![t] = "up"] /\ UNCHANGED nest
<1> USE DEF SyncInv
<1>2. /\ at[t] = "rel" /\ at' = [at EXCEPT ![t] = "up"] /\ lk[t] \in Locks
      /\ repeat' = [repeat EXCEPT ![lk[t]] = 0]
      /\ UNCHANGED <<vars, value, waiters, holder, nest, lk, saved>>
  BY DEF lock_release_count, Goes, SyncTypeOK, sema
<1>3. Inv' /\ UNCHANGED status
  BY <1>2, NextInv DEF vars
<1>4. SyncTypeOK'
  BY <1>2, <1>3, RepeatAssumption DEF SyncTypeOK, LockPc, Inv
<1>5. Exclusion'
  BY <1>2 DEF SyncTypeOK, Exclusion, Holding
<1>6. HolderRight'
  BY <1>2, NoThreadAssumption DEF SyncTypeOK, HolderRight, Exclusion, Holding
<1>7. CountRight'
  BY <1>2 DEF SyncTypeOK, CountRight, Exclusion, Holding
<1>8. WaitersRight'
  <2>1. status[t] # "BLOCKED"
    BY RunningIsNotBlocked DEF lock_release_count, Goes, At
  <2> QED
    BY <1>2, <1>3, <2>1, WaitersKeep DEF SyncTypeOK
<1> QED
  BY <1>2, <1>3, <1>4, <1>5, <1>6, <1>7, <1>8 DEF SyncTypeOK

(* lock_release() is called by the holder, with a count that is not 0.      *)
LEMMA ReleaseKeeps ==
  ASSUME SyncInv, NEW t \in Threads \ {Idle}, lock_release(t)
  PROVE  /\ SyncInv' /\ UNCHANGED vars
         /\ UNCHANGED <<value, waiters, lk>>
         /\ at[t] = "in"
         /\ nest' = [nest EXCEPT ![t] = @ - 1]
         /\ \/ nest[t] > 1 /\ UNCHANGED at
            \/ nest[t] = 1 /\ at' = [at EXCEPT ![t] = "rel"]
<1> USE DEF SyncInv
<1> DEFINE l == lk[t]
<1>1. /\ At(t, "run") /\ at[t] = "in" /\ l \in Locks
      /\ holder[l] = t /\ repeat[l] = nest[t] /\ nest[t] \in 1..MaxRepeat
  BY DEF lock_release, SyncTypeOK, HolderRight, CountRight
<1>2. UNCHANGED <<vars, value, waiters, lk, saved>> /\ nest' = [nest EXCEPT ![t] = @ - 1]
  BY <1>1 DEF lock_release, sema
<1>3. Inv' /\ UNCHANGED status
  BY <1>2, NextInv DEF vars
<1>4. nest' \in [Threads -> 0..MaxRepeat] /\ nest'[t] = nest[t] - 1
  BY <1>1, <1>2, RepeatAssumption DEF SyncTypeOK
<1>5. CASE nest[t] > 1
  <2>1. repeat' = [repeat EXCEPT ![l] = @ - 1] /\ UNCHANGED <<holder, at>>
    BY <1>1, <1>5 DEF lock_release
  <2>2. SyncTypeOK'
    BY <1>1, <1>2, <1>3, <1>4, <1>5, <2>1, RepeatAssumption DEF SyncTypeOK, Inv
  <2>3. Exclusion' /\ HolderRight'
    BY <1>2, <2>1 DEF Exclusion, HolderRight
  <2>4. CountRight'
    BY <1>1, <1>2, <1>4, <1>5, <2>1 DEF SyncTypeOK, CountRight, Exclusion, Holding
  <2>5. WaitersRight'
    BY <1>2, <1>3, <2>1 DEF WaitersRight, OnQueue, Distinct
  <2> QED
    BY <1>1, <1>2, <1>3, <1>5, <2>1, <2>2, <2>3, <2>4, <2>5
<1>6. CASE ~(nest[t] > 1)
  <2>1. /\ nest[t] = 1 /\ UNCHANGED repeat
        /\ holder' = [holder EXCEPT ![l] = NoThread]
        /\ at' = [at EXCEPT ![t] = "rel"]
    BY <1>1, <1>6 DEF lock_release
  <2>2. SyncTypeOK'
    BY <1>1, <1>2, <1>3, <1>4, <2>1 DEF SyncTypeOK, LockPc, Inv
  <2>3. Exclusion'
    BY <1>1, <1>2, <2>1 DEF SyncTypeOK, Exclusion, Holding
  <2>4. HolderRight'
    BY <1>1, <1>2, <2>1, NoThreadAssumption DEF SyncTypeOK, HolderRight, Exclusion, Holding
  <2>5. CountRight'
    BY <1>1, <1>2, <1>4, <2>1 DEF SyncTypeOK, CountRight, Exclusion, Holding
  <2>6. WaitersRight'
    BY <1>1, <1>2, <1>3, <2>1, RunningIsNotBlocked, WaitersKeep DEF SyncTypeOK
  <2> QED
    BY <1>1, <1>2, <1>3, <2>1, <2>2, <2>3, <2>4, <2>5, <2>6 DEF SyncTypeOK
<1> QED
  BY <1>5, <1>6

(* sema_up() finds the value 0 and, in front of the queue, a BLOCKED        *)
(* thread that is not cpu_idle: no ASSERT of it or of thread_unblock fails. *)
LEMMA UpKeeps ==
  ASSUME SyncInv, NEW t \in Threads \ {Idle}, sema_up(t)
  PROVE  /\ SyncInv' /\ [Next]_vars
         /\ UNCHANGED <<owner, saved, current_task, frame, intr, pc, left>>
         /\ at[t] = "up" /\ at' = [at EXCEPT ![t] = "out"]
         /\ lk' = [lk EXCEPT ![t] = AnyLock]
         /\ value' = [value EXCEPT ![lk[t]] = 1]
         /\ \A l \in Locks : l # lk[t] => waiters'[l] = waiters[l]
         /\ \/ waiters[lk[t]] = <<>> /\ UNCHANGED <<waiters, status>>
            \/ \E w \in Threads \ {Idle, t} :
                 /\ status[w] = "BLOCKED" /\ at[w] = "test" /\ lk[w] = lk[t]
                 /\ status' = [status EXCEPT ![w] = "READY"]
<1> USE DEF SyncInv
<1> DEFINE l == lk[t]
           w == Head(waiters[l])
<1>1. At(t, "run") /\ at[t] = "up" /\ l \in Locks /\ value[l] = 0
  BY DEF sema_up, Goes, SyncTypeOK, Exclusion, Holding
<1>2. /\ at' = [at EXCEPT ![t] = "out"] /\ lk' = [lk EXCEPT ![t] = AnyLock]
      /\ value' = [value EXCEPT ![l] = 1]
      /\ UNCHANGED <<holder, repeat, nest, saved>>
  BY <1>1 DEF sema_up, Goes, owner, SyncTypeOK
<1>3. AnyLock \in Locks
  BY LocksAssumption DEF AnyLock
<1>4. status[t] = "RUNNING" /\ current_task = t
  BY <1>1, RunningIsNotBlocked DEF At
<1>5. /\ at' \in [Threads -> LockPc] /\ lk' \in [Threads -> Locks]
      /\ value' \in [Locks -> 0..1]
  BY <1>1, <1>2, <1>3 DEF SyncTypeOK, LockPc
<1>6. Exclusion'
  BY <1>1, <1>2 DEF SyncTypeOK, Exclusion, Holding
<1>7. HolderRight'
  BY <1>1, <1>2 DEF SyncTypeOK, HolderRight
<1>8. CountRight'
  BY <1>1, <1>2 DEF SyncTypeOK, CountRight
<1>9. CASE waiters[l] = <<>>
  <2>1. UNCHANGED <<vars, waiters>>
    BY <1>1, <1>9 DEF sema_up
  <2>2. Inv' /\ [Next]_vars /\ UNCHANGED <<status, current_task, frame, intr, pc, left>>
    BY <2>1, NextInv DEF vars
  <2>3. WaitersRight'
    BY <1>2, <1>4, <2>1, <2>2, WaitersKeep DEF SyncTypeOK
  <2>4. SyncTypeOK'
    BY <1>2, <1>5, <2>1, <2>2 DEF SyncTypeOK, Inv
  <2> QED
    BY <1>1, <1>2, <1>6, <1>7, <1>8, <1>9, <2>1, <2>2, <2>3, <2>4 DEF SyncTypeOK, owner
<1>10. CASE waiters[l] # <<>>
  <2>1. /\ waiters' = [waiters EXCEPT ![l] = Tail(@)]
        /\ thread_unblock(w)
        /\ UNCHANGED <<pid, next_pid, old_status, pc, left>>
    BY <1>1, <1>10 DEF sema_up
  <2>2. waiters[l] \in Seq(Threads) /\ Distinct(waiters[l])
    BY <1>1 DEF SyncTypeOK, WaitersRight
  <2>3. /\ w \in Threads /\ OnQueue(waiters[l], w)
        /\ Tail(waiters[l]) \in Seq(Threads) /\ Distinct(Tail(waiters[l]))
        /\ \A u : OnQueue(Tail(waiters[l]), u) <=> (OnQueue(waiters[l], u) /\ u # w)
    BY <1>10, <2>2, QueueOut
  <2>4. status[w] = "BLOCKED" /\ at[w] = "test" /\ lk[w] = l /\ w # t /\ w # Idle
    BY <1>1, <2>3 DEF WaitersRight
  <2>5. Unblock(t, w)
    BY <1>1, <2>1, <2>4 DEF Unblock
  <2>6. Inv' /\ [Next]_vars
    BY <2>3, <2>5, NextInv DEF Next, Call
  <2>7. /\ status' = [status EXCEPT ![w] = "READY"]
        /\ UNCHANGED <<current_task, frame, intr>>
    BY <2>1, <2>3, <2>4, UnblockBooks
  <2> HIDE DEF w
  <2>8. \A k \in Locks : waiters'[k] = IF k = l THEN Tail(waiters[l]) ELSE waiters[k]
    BY <1>1, <2>1 DEF SyncTypeOK
  <2>9. WaitersRight'
    <3>1. ASSUME NEW k \in Locks PROVE Distinct(waiters'[k])
      BY <2>3, <2>8 DEF WaitersRight
    <3>2. ASSUME NEW u \in Threads, NEW k \in Locks
          PROVE  OnQueue(waiters'[k], u) <=> status'[u] = "BLOCKED" /\ at'[u] = "test" /\ lk'[u] = k
      <4>1. status'[u] = "BLOCKED" <=> status[u] = "BLOCKED" /\ u # w
        BY <2>7, <2>3 DEF Inv, TypeOK
      <4>2. CASE u = t
        <5>1. \A j \in Locks : ~OnQueue(waiters[j], u)
          BY <1>4, <4>2 DEF WaitersRight
        <5>2. ~OnQueue(waiters'[k], u)
          BY <1>1, <2>3, <2>8, <5>1
        <5> QED
          BY <1>4, <4>1, <4>2, <5>2
      <4>3. CASE u # t /\ k = l
        BY <1>2, <2>3, <2>8, <4>1, <4>3 DEF WaitersRight, SyncTypeOK
      <4>4. CASE u # t /\ k # l
        BY <1>2, <2>4, <2>8, <4>1, <4>4 DEF WaitersRight, SyncTypeOK
      <4> QED
        BY <4>2, <4>3, <4>4
    <3> QED
      BY <3>1, <3>2 DEF WaitersRight, OnQueue, Distinct
  <2>10. SyncTypeOK'
    <3>1. waiters' \in [Locks -> Seq(Threads)]
      BY <1>1, <2>1, <2>3 DEF SyncTypeOK
    <3> QED
      BY <1>2, <1>5, <2>6, <3>1 DEF SyncTypeOK, Inv
  <2>11. SyncInv'
    BY <1>2, <1>6, <1>7, <1>8, <2>6, <2>9, <2>10 DEF SyncTypeOK
  <2>12. /\ UNCHANGED <<owner, saved, current_task, frame, intr, pc, left>>
         /\ at[t] = "up" /\ at' = [at EXCEPT ![t] = "out"]
         /\ lk' = [lk EXCEPT ![t] = AnyLock]
         /\ value' = [value EXCEPT ![lk[t]] = 1]
         /\ \A k \in Locks : k # lk[t] => waiters'[k] = waiters[k]
    BY <1>1, <1>2, <2>1, <2>7, <2>8 DEF owner
  <2> QED
    BY <2>3, <2>4, <2>6, <2>7, <2>11, <2>12
<1> QED
  BY <1>9, <1>10

-----------------------------------------------------------------------------
(* A caller of sync.c blocks nowhere else.                                  *)
BlockedInDown == \A t \in Threads \ {Idle} : status[t] = "BLOCKED" => at[t] = "test"

(* A semaphore whose value is 0 is somebody's.                              *)
Accounted ==
  \A l \in Locks : value[l] = 0 => \E t \in Threads : lk[t] = l /\ at[t] \in Holding

(* The inductive invariant of Sync.                                         *)
SyncFull == SyncInv /\ BlockedInDown /\ NoLostWakeup

(* The invariant holds at boot.                                             *)
LEMMA SyncInitInv == Init /\ no_holder /\ Unlocked /\ (\E v \in 0..1 : sema_init(v)) => SyncInv
<1> SUFFICES ASSUME Init, no_holder, Unlocked, NEW v \in 0..1, sema_init(v)
             PROVE  SyncInv
  OBVIOUS
<1>1. Inv
  BY InitInv
<1>2. AnyLock \in Locks
  BY LocksAssumption DEF AnyLock
<1>3. SyncTypeOK
  <2>1. /\ value \in [Locks -> 0..1] /\ waiters \in [Locks -> Seq(Threads)]
        /\ holder \in [Locks -> Threads \union {NoThread}]
        /\ repeat \in [Locks -> 0..MaxRepeat] /\ nest \in [Threads -> 0..MaxRepeat]
    BY RepeatAssumption DEF sema_init, no_holder
  <2>2. at \in [Threads -> LockPc] /\ lk \in [Threads -> Locks] /\ saved \in [Threads -> BOOLEAN]
    BY <1>2 DEF Unlocked, LockPc
  <2> QED
    BY <1>1, <2>1, <2>2 DEF SyncTypeOK, Inv
<1>4. \A t \in Threads : at[t] = "out" /\ nest[t] = 0
  BY DEF Unlocked, no_holder
<1>5. \A l \in Locks : holder[l] = NoThread /\ repeat[l] = 0
  BY DEF no_holder
<1>6. Exclusion /\ HolderRight /\ CountRight
  BY <1>4, <1>5, NoThreadAssumption DEF Exclusion, Holding, HolderRight, CountRight
<1>7. WaitersRight
  <2>1. \A l \in Locks : Len(waiters[l]) = 0
    BY DEF sema_init
  <2> QED
    BY <1>4, <2>1 DEF WaitersRight, OnQueue, Distinct
<1> QED
  BY <1>1, <1>3, <1>4, <1>6, <1>7, ThreadsAssumption DEF SyncInv

(* So does all that Sync adds for threads that sleep only in sema_down().   *)
LEMMA SyncInitFull == SyncInit => SyncFull
<1> SUFFICES ASSUME SyncInit PROVE SyncFull
  OBVIOUS
<1>1. SyncInv
  BY SyncInitInv DEF SyncInit, lock_init
<1>2. BlockedInDown
  BY ThreadsAssumption DEF SyncInit, Init, BlockedInDown
<1>3. NoLostWakeup
  BY DEF SyncInit, lock_init, sema_init, NoLostWakeup
<1> QED
  BY <1>1, <1>2, <1>3 DEF SyncFull

(* The steps of the scheduler that Sync lets happen at any time wake and    *)
(* block nobody but cpu_idle.                                               *)
LEMMA SchedulerBlocks ==
  ASSUME Inv,
         \/ \E t \in Threads : Resume(t) \/ thread_start(t)
         \/ \E t \in Threads : local_irq_disable(t) \/ local_irq_enable(t)
         \/ clock_service
         \/ cpu_idle
  PROVE  /\ [Next]_vars
         /\ \A t \in Threads \ {Idle} : status'[t] = "BLOCKED" <=> status[t] = "BLOCKED"
<1>1. ASSUME NEW t \in Threads, Resume(t)
      PROVE  [Next]_vars /\ UNCHANGED status
  BY <1>1 DEF Resume, Next
<1>2. ASSUME NEW t \in Threads, thread_start(t)
      PROVE  /\ [Next]_vars
             /\ \A u \in Threads : status'[u] = "BLOCKED" <=> status[u] = "BLOCKED"
  <2>1. Next
    BY <1>2 DEF Next
  <2>2. status' = [status EXCEPT ![t] = "READY"] /\ status[t] = "NONE"
    BY <1>2 DEF thread_start
  <2> QED
    BY <2>1, <2>2 DEF Inv, TypeOK
<1>3. ASSUME NEW t \in Threads, local_irq_disable(t) \/ local_irq_enable(t)
      PROVE  [Next]_vars /\ UNCHANGED status
  <2>1. UNCHANGED status
    BY <1>3 DEF local_irq_disable, local_irq_enable, sched
  <2> QED
    BY <1>3, <2>1 DEF Next, Call, Step
<1>4. ASSUME clock_service
      PROVE  /\ [Next]_vars
             /\ \A u \in Threads \ {Idle} : status'[u] = "BLOCKED" <=> status[u] = "BLOCKED"
  <2>1. Next
    BY <1>4 DEF Next
  <2> QED
    BY <1>4, <2>1, ClockBlocks
<1>5. ASSUME cpu_idle
      PROVE  /\ [Next]_vars
             /\ \A u \in Threads \ {Idle} : status'[u] = "BLOCKED" <=> status[u] = "BLOCKED"
  <2>1. Next
    BY <1>5, ThreadsAssumption DEF Next, Step
  <2>2. current_task = Idle /\ thread_block
    BY <1>5 DEF cpu_idle, At
  <2> QED
    BY <2>1, <2>2, BlockBooks
<1> QED
  BY <1>1, <1>2, <1>3, <1>4, <1>5

(* What any step in lock_acquire() or lock_release() does: besides keeping  *)
(* the invariant it loses no wake-up and no semaphore, it moves nobody but  *)
(* its own thread, it blocks that one only in sema_down(), and it wakes     *)
(* nobody who sleeps elsewhere.                                             *)
LEMMA LockStepKeeps ==
  ASSUME SyncInv, NEW t \in Threads \ {Idle},
         (\E l \in Locks : lock_acquire(t, l)) \/ LockStep(t)
  PROVE  /\ SyncInv' /\ [Next]_vars /\ status[t] # "BLOCKED" /\ UNCHANGED pc
         /\ NoLostWakeup => NoLostWakeup'
         /\ Accounted => Accounted'
         /\ \A u \in Threads \ {t} : at'[u] = at[u] /\ nest'[u] = nest[u]
         /\ \A u \in Threads \ {Idle} :
              /\ status'[u] = "BLOCKED" => status[u] = "BLOCKED" \/ (u = t /\ at'[u] = "test")
              /\ status[u] = "BLOCKED" /\ at[u] # "test" => status'[u] = "BLOCKED"
<1> DEFINE Goal ==
             /\ SyncInv' /\ [Next]_vars
             /\ NoLostWakeup => NoLostWakeup'
             /\ Accounted => Accounted'
             /\ \A u \in Threads \ {t} : at'[u] = at[u]
             /\ \A u \in Threads \ {Idle} :
                  /\ status'[u] = "BLOCKED" => status[u] = "BLOCKED" \/ (u = t /\ at'[u] = "test")
                  /\ status[u] = "BLOCKED" /\ at[u] # "test" => status'[u] = "BLOCKED"
<1>0. /\ status \in [Threads -> Status] /\ at \in [Threads -> LockPc]
      /\ lk \in [Threads -> Locks] /\ value \in [Locks -> 0..1] /\ at[Idle] = "out"
      /\ waiters \in [Locks -> Seq(Threads)]
  BY DEF SyncInv, SyncTypeOK, TypeOK
<1>1. status[t] # "BLOCKED"
  BY RunningIsNotBlocked
     DEF SyncInv, lock_acquire, LockStep, AcquireStep, sema_down_enter, sema_down_wait,
         sema_down_take, lock_acquire_hold, lock_acquire_count, lock_release,
         lock_release_count, sema_up, Goes
<1>2. UNCHANGED pc
  BY DEF lock_acquire, LockStep, AcquireStep, sema_down_enter, sema_down_wait,
         sema_down_take, lock_acquire_hold, lock_acquire_count, lock_release,
         lock_release_count, sema_up, Block, AssertFailed, vars
<1>2a. \A u \in Threads \ {t} : nest'[u] = nest[u]
  <2>1. nest \in [Threads -> 0..MaxRepeat]
    BY DEF SyncInv, SyncTypeOK
  <2> QED
    BY <2>1 DEF lock_acquire, LockStep, AcquireStep, sema_down_enter, sema_down_wait,
         sema_down_take, lock_acquire_hold, lock_acquire_count, lock_release,
         lock_release_count, sema_up, AssertFailed, owner
<1> SUFFICES Goal
  BY <1>1, <1>2, <1>2a
<1>3. ASSUME NEW l \in Locks, lock_acquire(t, l)
      PROVE  Goal
  <2>1. SyncInv' /\ [Next]_vars
    BY <1>3, AcquireKeeps
  <2>2. /\ UNCHANGED <<status, value, waiters>>
        /\ at[t] # "test" /\ at'[t] # "test" /\ status[t] # "BLOCKED"
        /\ \A u \in Threads \ {t} : at'[u] = at[u] /\ lk'[u] = lk[u]
    BY <1>0, <1>3, RunningIsNotBlocked DEF lock_acquire, vars, sema, SyncInv
  <2>3. at[t] \in Holding => UNCHANGED <<at, lk>>
    BY <1>3 DEF lock_acquire, Holding, SyncInv, HolderRight
  <2> QED
    BY <2>1, <2>2, <2>3 DEF NoLostWakeup, Accounted
<1>4. CASE sema_down_enter(t)
  <2>1. SyncInv' /\ [Next]_vars /\ UNCHANGED status
    BY <1>4, EnterKeeps
  <2>2. at[t] = "down" /\ at' = [at EXCEPT ![t] = "test"] /\ UNCHANGED <<value, waiters, lk>>
    BY <1>4 DEF sema_down_enter, Goes, sema
  <2> QED
    BY <1>0, <2>1, <2>2 DEF NoLostWakeup, Accounted, Holding
<1>5. CASE sema_down_wait(t)
  <2>1. /\ SyncInv' /\ [Next]_vars
        /\ UNCHANGED <<value, at, lk>> /\ value[lk[t]] = 0 /\ at[t] = "test"
        /\ \A u \in Threads \ {Idle} :
             status'[u] = "BLOCKED" <=> status[u] = "BLOCKED" \/ u = t
        /\ \A l \in Locks : l # lk[t] => waiters'[l] = waiters[l]
    BY <1>5, WaitKeeps
  <2>2. NoLostWakeup => NoLostWakeup'
    <3> SUFFICES ASSUME NoLostWakeup, NEW l \in Locks, value'[l] = 1, waiters'[l] # <<>>
                 PROVE  \E u \in Threads : at'[u] = "test" /\ lk'[u] = l /\ status'[u] # "BLOCKED"
      BY DEF NoLostWakeup
    <3>1. l # lk[t]
      BY <2>1
    <3>2. PICK u \in Threads : at[u] = "test" /\ lk[u] = l /\ status[u] # "BLOCKED"
      BY <2>1, <3>1 DEF NoLostWakeup
    <3>3. u # t /\ u # Idle
      BY <1>0, <3>1, <3>2
    <3> QED
      BY <2>1, <3>2, <3>3
  <2> QED
    BY <2>1, <2>2 DEF Accounted
<1>6. CASE sema_down_take(t)
  <2>1. /\ SyncInv' /\ [Next]_vars /\ UNCHANGED <<status, waiters, lk>>
        /\ at[t] = "test" /\ at' = [at EXCEPT ![t] = "got"]
        /\ value' = [value EXCEPT ![lk[t]] = 0]
    BY <1>6, TakeKeeps
  <2> QED
    BY <1>0, <2>1 DEF NoLostWakeup, Accounted, Holding
<1>7. CASE lock_acquire_hold(t) \/ lock_acquire_count(t) \/ lock_release(t) \/ lock_release_count(t)
  <2>1. /\ SyncInv' /\ UNCHANGED vars /\ UNCHANGED <<value, waiters, lk>>
        /\ at[t] # "test" /\ \E p \in Holding : at' = [at EXCEPT ![t] = p]
    <3>1. CASE lock_acquire_hold(t)
      BY <3>1, HoldKeeps DEF Holding
    <3>2. CASE lock_acquire_count(t)
      BY <3>2, CountKeeps DEF Holding
    <3>3. CASE lock_release(t)
      <4>1. /\ SyncInv' /\ UNCHANGED vars /\ UNCHANGED <<value, waiters, lk>>
            /\ at[t] = "in" /\ at' \in {at, [at EXCEPT ![t] = "rel"]}
        BY <3>3, ReleaseKeeps
      <4>2. at = [at EXCEPT ![t] = "in"]
        BY <1>0, <4>1
      <4> QED
        BY <4>1, <4>2 DEF Holding
    <3>4. CASE lock_release_count(t)
      BY <3>4, UncountKeeps DEF Holding
    <3> QED
      BY <1>7, <3>1, <3>2, <3>3, <3>4
  <2>2. UNCHANGED status
    BY <2>1 DEF vars
  <2>3. at'[t] \in Holding /\ \A u \in Threads \ {t} : at'[u] = at[u]
    BY <1>0, <2>1
  <2>4. NoLostWakeup => NoLostWakeup'
    BY <2>1, <2>2, <2>3 DEF NoLostWakeup
  <2>5. Accounted => Accounted'
    BY <2>1, <2>3 DEF Accounted
  <2> QED
    BY <2>1, <2>2, <2>3, <2>4, <2>5
<1>8. CASE sema_up(t)
  <2>1. /\ SyncInv' /\ [Next]_vars
        /\ at[t] = "up" /\ at' = [at EXCEPT ![t] = "out"]
        /\ lk' = [lk EXCEPT ![t] = AnyLock]
        /\ value' = [value EXCEPT ![lk[t]] = 1]
        /\ \A l \in Locks : l # lk[t] => waiters'[l] = waiters[l]
    BY <1>8, UpKeeps
  <2>2. \/ waiters[lk[t]] = <<>> /\ UNCHANGED <<waiters, status>>
        \/ \E w \in Threads \ {Idle, t} :
             /\ status[w] = "BLOCKED" /\ at[w] = "test" /\ lk[w] = lk[t]
             /\ status' = [status EXCEPT ![w] = "READY"]
    BY <1>8, UpKeeps
  <2>3. Accounted => Accounted'
    BY <1>0, <2>1 DEF Accounted
  <2>4. CASE waiters[lk[t]] = <<>> /\ UNCHANGED <<waiters, status>>
    BY <1>0, <2>1, <2>3, <2>4 DEF NoLostWakeup
  <2>5. ASSUME NEW w \in Threads \ {Idle, t},
               status[w] = "BLOCKED", at[w] = "test", lk[w] = lk[t],
               status' = [status EXCEPT ![w] = "READY"]
        PROVE  Goal
    <3>1. \A u \in Threads : status'[u] = "BLOCKED" <=> status[u] = "BLOCKED" /\ u # w
      BY <1>0, <2>5
    <3>2. NoLostWakeup => NoLostWakeup'
      <4> SUFFICES ASSUME NoLostWakeup, NEW l \in Locks, value'[l] = 1, waiters'[l] # <<>>
                   PROVE  \E u \in Threads : at'[u] = "test" /\ lk'[u] = l /\ status'[u] # "BLOCKED"
        BY DEF NoLostWakeup
      <4>1. CASE l = lk[t]
        BY <1>0, <2>1, <2>5, <3>1, <4>1
      <4>2. CASE l # lk[t]
        <5>1. PICK u \in Threads : at[u] = "test" /\ lk[u] = l /\ status[u] # "BLOCKED"
          BY <1>0, <2>1, <4>2 DEF NoLostWakeup
        <5> QED
          BY <1>0, <2>1, <3>1, <5>1
      <4> QED
        BY <4>1, <4>2
    <3> QED
      BY <1>0, <2>1, <2>3, <2>5, <3>1, <3>2
  <2> QED
    BY <2>2, <2>4, <2>5
<1> QED
  BY <1>3, <1>4, <1>5, <1>6, <1>7, <1>8 DEF LockStep, AcquireStep

(* The same for a step that does not touch sync.c.                          *)
LEMMA OutsideWakes ==
  ASSUME SyncInv, UNCHANGED <<sema, owner, at, lk, saved>>,
         \A t \in Threads : at[t] = "test" => (status'[t] = "BLOCKED" <=> status[t] = "BLOCKED")
  PROVE  (NoLostWakeup => NoLostWakeup') /\ (Accounted => Accounted')
<1>1. UNCHANGED <<value, waiters, at, lk>>
  BY DEF sema
<1>2. NoLostWakeup => NoLostWakeup'
  <2> SUFFICES ASSUME NoLostWakeup, NEW l \in Locks, value'[l] = 1, waiters'[l] # <<>>
               PROVE  \E u \in Threads : at'[u] = "test" /\ lk'[u] = l /\ status'[u] # "BLOCKED"
    BY DEF NoLostWakeup
  <2>1. PICK u \in Threads : at[u] = "test" /\ lk[u] = l /\ status[u] # "BLOCKED"
    BY <1>1 DEF NoLostWakeup
  <2> QED
    BY <1>1, <2>1
<1> QED
  BY <1>1, <1>2 DEF Accounted

(* Every step of Sync keeps the invariant, and is a step of Thread or none. *)
LEMMA SyncNextFull == SyncFull /\ [SyncNext]_syncVars => SyncFull' /\ [Next]_vars
<1> SUFFICES ASSUME SyncFull, [SyncNext]_syncVars PROVE SyncFull' /\ [Next]_vars
  OBVIOUS
<1> USE DEF SyncFull
<1>1. ASSUME NEW t \in Threads \ {Idle},
             (\E l \in Locks : lock_acquire(t, l)) \/ LockStep(t)
      PROVE  SyncFull' /\ [Next]_vars
  <2>1. /\ SyncInv' /\ [Next]_vars /\ NoLostWakeup' /\ status[t] # "BLOCKED"
        /\ \A u \in Threads \ {t} : at'[u] = at[u]
        /\ \A u \in Threads \ {Idle} :
              status'[u] = "BLOCKED" => status[u] = "BLOCKED" \/ (u = t /\ at'[u] = "test")
    BY <1>1, LockStepKeeps
  <2> QED
    BY <2>1 DEF BlockedInDown
<1>2. ASSUME UNCHANGED <<sema, owner, at, lk, saved>>, [Next]_vars,
             \A t \in Threads \ {Idle} : status'[t] = "BLOCKED" <=> status[t] = "BLOCKED"
      PROVE  SyncFull' /\ [Next]_vars
  <2>1. \A t \in Threads : at[t] = "test" => (status'[t] = "BLOCKED" <=> status[t] = "BLOCKED")
    BY <1>2 DEF SyncInv
  <2> QED
    BY <1>2, <2>1, OutsideKeeps, OutsideWakes DEF BlockedInDown
<1>3. CASE UNCHANGED syncVars
  BY <1>2, <1>3 DEF syncVars, vars
<1>4. ASSUME \/ \E t \in Threads : Outside(Resume(t)) \/ Outside(thread_start(t))
             \/ \E t \in Threads : SwitchInterrupts(t)
             \/ Outside(clock_service)
             \/ Outside(cpu_idle)
      PROVE  SyncFull' /\ [Next]_vars
  BY <1>2, <1>4, SchedulerBlocks DEF Outside, SwitchInterrupts, SyncInv
<1> QED
  BY <1>1, <1>3, <1>4 DEF SyncNext

(* The invariant of the locks.                                              *)
THEOREM SyncInvariant == SyncSpec => []SyncFull
BY SyncInitFull, SyncNextFull, PTL DEF SyncSpec

(* Every variable of sync.c keeps its type: a semaphore of a lock is 0 or   *)
(* 1, and no count of a lock goes below 0.                                  *)
THEOREM SyncTypeCorrect == SyncSpec => []SyncTypeOK
<1>1. SyncFull => SyncTypeOK
  BY DEF SyncFull, SyncInv
<1> QED
  BY <1>1, SyncInvariant, PTL

(* A BLOCKED thread is in one waiter queue, once; nobody else is in any.    *)
THEOREM OneQueueForEach == SyncSpec => []OneQueueEach
<1>1. SyncFull => OneQueueEach
  BY DEF SyncFull, SyncInv, WaitersRight, BlockedInDown, OneQueueEach
<1> QED
  BY <1>1, SyncInvariant, PTL

(* sema_up() loses no wake-up, however many threads barge in.               *)
THEOREM NoWakeupIsLost == SyncSpec => []NoLostWakeup
<1>1. SyncFull => NoLostWakeup
  BY DEF SyncFull
<1> QED
  BY <1>1, SyncInvariant, PTL

(* What sync.c does to threads is what Thread allows, so that no ASSERT of  *)
(* the scheduler fails on its account.                                      *)
THEOREM SyncImplementsThread == SyncSpec => ImplementsThread
<1>1. SyncInit => Init
  BY DEF SyncInit
<1> QED
  BY <1>1, SyncInitFull, SyncNextFull, PTL DEF SyncSpec, ImplementsThread, Spec

(* No ASSERT of sync.c or of thread.c fails in a thread that uses locks.    *)
THEOREM SyncAssertsHold == SyncSpec => []NoAssertFails
<1>1. SyncFull => NoAssertFails
  BY DEF SyncFull, SyncInv, Inv
<1> QED
  BY <1>1, SyncInvariant, PTL

-----------------------------------------------------------------------------
(* The refinement of Lock.  An owner is alone, so that Depth is its own.    *)
Weight(t) == nest[t] + (IF at[t] = "in" THEN 0 ELSE 1)

(* What Owners and Depth say when the locks exclude.                        *)
Alone ==
  \A l \in Locks :
    /\ \A t \in Threads : t \in Owners[l] <=> lk[t] = l /\ at[t] \in Holding
    /\ \A t \in Owners[l] : t \in Threads /\ Owners[l] = {t} /\ Depth[l] = Weight(t)
    /\ Owners[l] = {} => Depth[l] = 0

(* Exclusion means one owner of a lock, as deep as it has nested it.        *)
LEMMA OwnersAlone == SyncInv => Alone
<1> SUFFICES ASSUME SyncInv, NEW l \in Locks
             PROVE  /\ \A t \in Threads : t \in Owners[l] <=> lk[t] = l /\ at[t] \in Holding
                    /\ \A t \in Owners[l] : /\ t \in Threads /\ Owners[l] = {t}
                                           /\ Depth[l] = Weight(t)
                    /\ Owners[l] = {} => Depth[l] = 0
  BY DEF Alone
<1>1. Owners[l] = {t \in Threads : lk[t] = l /\ at[t] \in Holding}
  BY DEF Owners, Holding
<1>2. \A t, u \in Owners[l] : t = u
  BY <1>1 DEF SyncInv, Exclusion
<1>3. Depth[l] = IF Owners[l] = {} THEN 0
                 ELSE LET t == CHOOSE t \in Owners[l] : TRUE
                      IN  nest[t] + (IF at[t] = "in" THEN 0 ELSE 1)
  BY DEF Depth
<1> HIDE DEF Owners
<1>4. ASSUME NEW t \in Owners[l] PROVE Owners[l] = {t} /\ Depth[l] = Weight(t)
  <2>1. Owners[l] = {t}
    BY <1>2
  <2>2. (CHOOSE u \in Owners[l] : TRUE) = t
    BY <1>2
  <2> QED
    BY <1>3, <2>1, <2>2 DEF Weight
<1> QED
  BY <1>1, <1>3, <1>4

(* Owners and Depth change only where somebody gets, gives up or nests.     *)
LEMMA LockSame ==
  ASSUME Alone, Alone', NEW l \in Locks,
         \A t \in Threads :
           /\ (lk'[t] = l /\ at'[t] \in Holding) <=> (lk[t] = l /\ at[t] \in Holding)
           /\ (lk[t] = l /\ at[t] \in Holding)
                => nest'[t] + (IF at'[t] = "in" THEN 0 ELSE 1)
                   = nest[t] + (IF at[t] = "in" THEN 0 ELSE 1)
  PROVE  Owners'[l] = Owners[l] /\ Depth'[l] = Depth[l]
<1>1. \A t \in Threads : t \in Owners[l] <=> t \in Owners'[l]
  BY DEF Alone
<1>2. \A t \in Owners[l] : t \in Threads
  BY DEF Alone
<1>3. \A t \in Owners'[l] : t \in Threads
  BY DEF Alone
<1>4. Owners'[l] = Owners[l]
  BY <1>1, <1>2, <1>3
<1>5. CASE Owners[l] = {}
  BY <1>4, <1>5 DEF Alone
<1>6. ASSUME NEW t \in Owners[l] PROVE Depth'[l] = Depth[l]
  <2>1. Depth[l] = nest[t] + (IF at[t] = "in" THEN 0 ELSE 1)
    BY DEF Alone, Weight
  <2>2. Depth'[l] = nest'[t] + (IF at'[t] = "in" THEN 0 ELSE 1)
    BY <1>4 DEF Alone, Weight
  <2>3. lk[t] = l /\ at[t] \in Holding
    BY <1>2 DEF Alone
  <2> QED
    BY <1>2, <2>1, <2>2, <2>3
<1> QED
  BY <1>4, <1>5, <1>6

(* What Lock is told of the locks is told of each of them.                  *)
LEMMA LockFunctions ==
  /\ Owners = [l \in Locks |-> Owners[l]]
  /\ Depth = [l \in Locks |-> Depth[l]]
BY DEF Owners, Depth

(* Every step of Sync takes a lock, nests it, gives a level back, or does   *)
(* nothing that Lock knows of.                                              *)
LEMMA SyncLockStep ==
  SyncFull /\ SyncFull' /\ Alone /\ Alone' /\ [SyncNext]_syncVars => [L!Next]_<<Owners, Depth>>
<1> SUFFICES ASSUME SyncFull, SyncFull', Alone, Alone', [SyncNext]_syncVars
             PROVE  [L!Next]_<<Owners, Depth>>
  OBVIOUS
<1>0. /\ SyncInv /\ at \in [Threads -> LockPc] /\ lk \in [Threads -> Locks]
      /\ nest \in [Threads -> 0..MaxRepeat] /\ MaxRepeat \in Nat
  BY RepeatAssumption DEF SyncFull, SyncInv, SyncTypeOK
<1>1. /\ Owners = [l \in Locks |-> Owners[l]] /\ Depth = [l \in Locks |-> Depth[l]]
      /\ Owners' = [l \in Locks |-> Owners'[l]] /\ Depth' = [l \in Locks |-> Depth'[l]]
  <2>1. /\ Owners = [l \in Locks |-> Owners[l]] /\ Depth = [l \in Locks |-> Depth[l]]
    BY LockFunctions
  <2>2. (Owners = [l \in Locks |-> Owners[l]] /\ Depth = [l \in Locks |-> Depth[l]])'
    BY LockFunctions, PTL
  <2> QED
    BY <2>1, <2>2
<1> HIDE DEF Owners, Depth
<1>2. ASSUME \A l \in Locks : Owners'[l] = Owners[l] /\ Depth'[l] = Depth[l]
      PROVE  [L!Next]_<<Owners, Depth>>
  BY <1>1, <1>2
<1>3. ASSUME UNCHANGED <<at, lk, nest>> PROVE [L!Next]_<<Owners, Depth>>
  BY <1>2, <1>3, LockSame
(* A thread that has a lock neither before nor after the step.              *)
<1>4. ASSUME NEW t \in Threads, UNCHANGED nest, at[t] \notin Holding, at'[t] \notin Holding,
             \A u \in Threads \ {t} : at'[u] = at[u] /\ lk'[u] = lk[u]
      PROVE  [L!Next]_<<Owners, Depth>>
  <2>1. ASSUME NEW l \in Locks PROVE Owners'[l] = Owners[l] /\ Depth'[l] = Depth[l]
    BY <1>4, LockSame
  <2> QED
    BY <1>2, <2>1
(* A thread that has a lock, and as often after the step as before.         *)
<1>5. ASSUME NEW t \in Threads, at[t] \in Holding, UNCHANGED lk,
             NEW p \in Holding, at' = [at EXCEPT ![t] = p],
             \A u \in Threads \ {t} : nest'[u] = nest[u],
             nest'[t] + (IF p = "in" THEN 0 ELSE 1) = nest[t] + (IF at[t] = "in" THEN 0 ELSE 1)
      PROVE  [L!Next]_<<Owners, Depth>>
  <2>1. at'[t] = p /\ \A u \in Threads \ {t} : at'[u] = at[u]
    BY <1>0, <1>5
  <2>2. ASSUME NEW l \in Locks PROVE Owners'[l] = Owners[l] /\ Depth'[l] = Depth[l]
    BY <1>5, <2>1, LockSame
  <2> QED
    BY <1>2, <2>2
(* A thread that nests or gives back a level.                               *)
<1>6. ASSUME NEW t \in Threads, at[t] = "in", UNCHANGED <<at, lk>>,
             \A u \in Threads \ {t} : nest'[u] = nest[u]
      PROVE  /\ Owners[lk[t]] = {t} /\ Owners' = Owners
             /\ Depth[lk[t]] = nest[t] /\ Depth' = [Depth EXCEPT ![lk[t]] = nest'[t]]
  <2>1. t \in Owners[lk[t]] /\ t \in Owners'[lk[t]] /\ lk[t] \in Locks
    BY <1>0, <1>6 DEF Alone, Holding
  <2>2. Owners[lk[t]] = {t} /\ Depth[lk[t]] = nest[t] + 0
    BY <1>6, <2>1 DEF Alone, Weight
  <2>3. Owners'[lk[t]] = {t} /\ Depth'[lk[t]] = nest'[t] + 0
    BY <1>6, <2>1 DEF Alone, Weight
  <2>4. nest[t] \in Nat /\ nest'[t] \in Nat
    BY <1>0, RepeatAssumption DEF SyncFull, SyncInv, SyncTypeOK
  <2>5. ASSUME NEW l \in Locks, l # lk[t] PROVE Owners'[l] = Owners[l] /\ Depth'[l] = Depth[l]
    BY <1>6, <2>5, LockSame
  <2>6. \A l \in Locks : Owners'[l] = Owners[l]
    BY <2>2, <2>3, <2>5
  <2>7. \A l \in Locks : Depth'[l] = IF l = lk[t] THEN nest'[t] ELSE Depth[l]
    BY <2>3, <2>4, <2>5
  <2>8. Depth' = [Depth EXCEPT ![lk[t]] = nest'[t]]
    BY <1>1, <2>7
  <2> QED
    BY <1>1, <2>2, <2>4, <2>6, <2>8
<1>7. ASSUME NEW t \in Threads \ {Idle}, NEW l \in Locks, lock_acquire(t, l)
      PROVE  [L!Next]_<<Owners, Depth>>
  <2>1. CASE holder[l] # t
    <3>1. at[t] = "out" /\ at' = [at EXCEPT ![t] = "down"] /\ lk' = [lk EXCEPT ![t] = l] /\ UNCHANGED nest
      BY <1>0, <1>7, <2>1 DEF lock_acquire, SyncInv, HolderRight
    <3> QED
      BY <1>0, <1>4, <3>1 DEF Holding
  <2>2. CASE holder[l] = t
    <3>1. /\ at[t] = "in" /\ lk[t] = l /\ UNCHANGED <<at, lk>>
          /\ nest' = [nest EXCEPT ![t] = @ + 1]
      BY <1>0, <1>7, <2>2 DEF lock_acquire, SyncInv, HolderRight
    <3>2. /\ nest'[t] = nest[t] + 1
          /\ \A u \in Threads \ {t} : nest'[u] = nest[u]
      BY <1>0, <3>1
    <3>3. /\ Owners[l] = {t} /\ Owners' = Owners
          /\ Depth[l] = nest[t] /\ Depth' = [Depth EXCEPT ![l] = nest'[t]]
      BY <1>6, <3>1, <3>2
    <3>4. L!Reacquire(t, l)
      BY <3>2, <3>3 DEF L!Reacquire
    <3> QED
      BY <3>4 DEF L!Next
  <2> QED
    BY <2>1, <2>2
<1>8. ASSUME NEW t \in Threads \ {Idle}, sema_down_enter(t)
      PROVE  [L!Next]_<<Owners, Depth>>
  <2>1. at[t] = "down" /\ at' = [at EXCEPT ![t] = "test"] /\ UNCHANGED <<lk, nest>>
    BY <1>8 DEF sema_down_enter, Goes, owner
  <2> QED
    BY <1>0, <1>4, <2>1 DEF Holding
<1>9. ASSUME NEW t \in Threads \ {Idle}, sema_down_wait(t)
      PROVE  [L!Next]_<<Owners, Depth>>
  <2>1. UNCHANGED <<at, lk, nest>>
    BY <1>9 DEF sema_down_wait, AssertFailed, owner
  <2> QED
    BY <1>3, <2>1
<1>10. ASSUME NEW t \in Threads \ {Idle}, sema_down_take(t)
       PROVE  [L!Next]_<<Owners, Depth>>
  <2> DEFINE l == lk[t]
  <2>1. /\ UNCHANGED <<lk, nest>> /\ at[t] = "test" /\ at' = [at EXCEPT ![t] = "got"]
        /\ value[l] = 1 /\ l \in Locks /\ nest[t] = 0
    BY <1>0, <1>10, TakeKeeps DEF owner, SyncInv, CountRight
  <2>2. Owners[l] = {}
    BY <1>0, <2>1 DEF Alone, SyncInv, Exclusion
  <2>3. t \in Owners'[l] /\ at'[t] = "got" /\ \A u \in Threads \ {t} : at'[u] = at[u]
    BY <1>0, <2>1 DEF Alone, Holding
  <2>4. Owners'[l] = {t} /\ Depth'[l] = nest'[t] + 1
    BY <2>1, <2>3 DEF Alone, Weight
  <2>5. ASSUME NEW k \in Locks, k # l PROVE Owners'[k] = Owners[k] /\ Depth'[k] = Depth[k]
    BY <2>1, <2>3, <2>5, LockSame
  <2>6. Owners' = [Owners EXCEPT ![l] = {t}] /\ Depth' = [Depth EXCEPT ![l] = 1]
    <3> HIDE DEF l
    <3>1. \A k \in Locks : Owners'[k] = IF k = l THEN {t} ELSE Owners[k]
      BY <2>4, <2>5
    <3>2. \A k \in Locks : Depth'[k] = IF k = l THEN 1 ELSE Depth[k]
      BY <2>1, <2>4, <2>5
    <3> QED
      BY <1>1, <2>1, <3>1, <3>2
  <2>7. L!Acquire(t, l)
    BY <2>2, <2>6 DEF L!Acquire
  <2> QED
    BY <2>1, <2>7 DEF L!Next
<1>11. ASSUME NEW t \in Threads \ {Idle}, lock_acquire_hold(t) \/ lock_release_count(t)
       PROVE  [L!Next]_<<Owners, Depth>>
  <2>1. /\ UNCHANGED <<lk, nest>>
        /\ \/ at[t] = "got" /\ at' = [at EXCEPT ![t] = "own"]
           \/ at[t] = "rel" /\ at' = [at EXCEPT ![t] = "up"]
    BY <1>0, <1>11, HoldKeeps, UncountKeeps
  <2>2. CASE at[t] = "got" /\ at' = [at EXCEPT ![t] = "own"]
    BY <1>0, <1>5, <2>1, <2>2 DEF Holding
  <2>3. CASE at[t] = "rel" /\ at' = [at EXCEPT ![t] = "up"]
    BY <1>0, <1>5, <2>1, <2>3 DEF Holding
  <2> QED
    BY <2>1, <2>2, <2>3
<1>12. ASSUME NEW t \in Threads \ {Idle}, lock_acquire_count(t)
       PROVE  [L!Next]_<<Owners, Depth>>
  <2>1. /\ UNCHANGED lk /\ at[t] = "own" /\ at' = [at EXCEPT ![t] = "in"]
        /\ nest' = [nest EXCEPT ![t] = 1] /\ nest[t] = 0
    BY <1>0, <1>12, CountKeeps DEF SyncInv, CountRight
  <2>2. /\ at[t] \in Holding /\ "in" \in Holding
        /\ \A u \in Threads \ {t} : nest'[u] = nest[u]
        /\ nest'[t] + (IF "in" = "in" THEN 0 ELSE 1) = nest[t] + (IF at[t] = "in" THEN 0 ELSE 1)
    BY <1>0, <2>1 DEF Holding
  <2> QED
    BY <1>5, <2>1, <2>2
<1>13. ASSUME NEW t \in Threads \ {Idle}, lock_release(t)
       PROVE  [L!Next]_<<Owners, Depth>>
  <2>1. /\ UNCHANGED lk /\ at[t] = "in" /\ nest' = [nest EXCEPT ![t] = @ - 1]
        /\ \/ nest[t] > 1 /\ UNCHANGED at
           \/ nest[t] = 1 /\ at' = [at EXCEPT ![t] = "rel"]
    BY <1>0, <1>13, ReleaseKeeps
  <2>2. nest'[t] = nest[t] - 1 /\ \A u \in Threads \ {t} : nest'[u] = nest[u]
    BY <1>0, <2>1
  <2>3. CASE nest[t] > 1 /\ UNCHANGED at
    <3>1. /\ Owners[lk[t]] = {t} /\ Owners' = Owners /\ lk[t] \in Locks
          /\ Depth[lk[t]] = nest[t] /\ Depth' = [Depth EXCEPT ![lk[t]] = nest'[t]]
      BY <1>0, <1>6, <2>1, <2>2, <2>3
    <3>2. Owners = [Owners EXCEPT ![lk[t]] = Owners[lk[t]]]
      BY <1>1
    <3>3. L!Release(t, lk[t])
      BY <2>2, <2>3, <3>1, <3>2 DEF L!Release
    <3> QED
      BY <3>1, <3>3 DEF L!Next
  <2>4. CASE nest[t] = 1 /\ at' = [at EXCEPT ![t] = "rel"]
    <3>1. /\ at[t] \in Holding /\ "rel" \in Holding
          /\ nest'[t] + (IF "rel" = "in" THEN 0 ELSE 1) = nest[t] + (IF at[t] = "in" THEN 0 ELSE 1)
      BY <2>1, <2>2, <2>4 DEF Holding
    <3> QED
      BY <1>5, <2>1, <2>2, <2>4, <3>1
  <2> QED
    BY <2>1, <2>3, <2>4
<1>14. ASSUME NEW t \in Threads \ {Idle}, sema_up(t)
       PROVE  [L!Next]_<<Owners, Depth>>
  <2> DEFINE l == lk[t]
  <2>1. /\ UNCHANGED nest /\ at[t] = "up" /\ at' = [at EXCEPT ![t] = "out"]
        /\ lk' = [lk EXCEPT ![t] = AnyLock] /\ l \in Locks /\ nest[t] = 0
    BY <1>0, <1>14, UpKeeps DEF owner, SyncInv, CountRight
  <2>2. /\ at'[t] = "out" /\ \A u \in Threads \ {t} : at'[u] = at[u] /\ lk'[u] = lk[u]
    BY <1>0, <2>1
  <2>3. t \in Owners[l]
    BY <2>1 DEF Alone, Holding
  <2>4. Owners[l] = {t} /\ Depth[l] = 1
    BY <2>1, <2>3 DEF Alone, Weight
  <2>5. Owners'[l] = {}
    <3>1. ASSUME NEW u \in Owners'[l] PROVE FALSE
      <4>1. u \in Threads /\ lk'[u] = l /\ at'[u] \in Holding
        BY <2>1 DEF Alone
      <4>2. u # t
        BY <2>2, <4>1 DEF Holding
      <4>3. u \in Owners[l]
        BY <2>1, <2>2, <4>1, <4>2 DEF Alone
      <4> QED
        BY <2>4, <4>2, <4>3
    <3> QED
      BY <3>1
  <2>6. Depth'[l] = 0
    BY <2>1, <2>5 DEF Alone
  <2>7. ASSUME NEW k \in Locks, k # l PROVE Owners'[k] = Owners[k] /\ Depth'[k] = Depth[k]
    BY <2>1, <2>2, <2>7, LockSame DEF Holding
  <2>8. Owners' = [Owners EXCEPT ![l] = {}] /\ Depth' = [Depth EXCEPT ![l] = 0]
    <3> HIDE DEF l
    <3>1. \A k \in Locks : Owners'[k] = IF k = l THEN {} ELSE Owners[k]
      BY <2>5, <2>7
    <3>2. \A k \in Locks : Depth'[k] = IF k = l THEN 0 ELSE Depth[k]
      BY <2>6, <2>7
    <3> QED
      BY <1>1, <2>1, <3>1, <3>2
  <2>9. L!Release(t, l)
    BY <2>4, <2>8 DEF L!Release
  <2> QED
    BY <2>1, <2>9 DEF L!Next
<1>15. ASSUME \/ \E t \in Threads : Outside(Resume(t)) \/ Outside(thread_start(t))
              \/ \E t \in Threads : SwitchInterrupts(t)
              \/ Outside(clock_service)
              \/ Outside(cpu_idle)
              \/ UNCHANGED syncVars
       PROVE  [L!Next]_<<Owners, Depth>>
  <2>1. UNCHANGED <<at, lk, nest>>
    BY <1>15 DEF Outside, SwitchInterrupts, owner, syncVars
  <2> QED
    BY <1>3, <2>1
<1> QED
  BY <1>7, <1>8, <1>9, <1>10, <1>11, <1>12, <1>13, <1>14, <1>15
    DEF SyncNext, LockStep, AcquireStep

(* The locks of sync.c implement Lock: they exclude, for any number of      *)
(* threads, although nothing protects lock_acquire()'s look at the holder.  *)
THEOREM SyncActsAsLock == SyncSpec => ActsAsLock
<1>1. SyncInit => L!Init
  <2> SUFFICES ASSUME SyncInit PROVE L!Init
    OBVIOUS
  <2>1. \A t \in Threads : at[t] = "out"
    BY DEF SyncInit, Unlocked
  <2>2. Owners = [l \in Locks |-> {}]
    BY <2>1 DEF Owners
  <2>3. Depth = [l \in Locks |-> 0]
    BY <2>2 DEF Depth
  <2> QED
    BY <2>2, <2>3 DEF L!Init
<1>2. SyncFull => Alone
  BY OwnersAlone DEF SyncFull
<1> QED
  BY <1>1, <1>2, SyncLockStep, SyncInvariant, PTL DEF SyncSpec, ActsAsLock, L!Spec, L!lockVars
=============================================================================
