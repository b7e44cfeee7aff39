----------------------------- MODULE KernelList -----------------------------
(***************************************************************************)
(* The circular doubly linked lists and queues of lib/kernel/list.c at the *)
(* level of their pointers.  A queue is a front pointer and a length, and  *)
(* has no head node; a list is a head node.                                *)
(*                                                                         *)
(* As in the kernel, an item is inserted only while it is in no container  *)
(* (Sync shows this for the link of a PCB), list_pop() is called on a list *)
(* that is not empty and list_del_safe() on an item of a list.             *)
(***************************************************************************)
EXTENDS Naturals, Sequences, FiniteSets

CONSTANTS Items,    \* kernel_list nodes embedded in PCBs and memory blocks
          Heads,    \* head nodes: thread_total_list, the free lists
          Queues,   \* general_queues: thread_ready_queue, the waiter queues
          NULL

ASSUME ItemsAssumption == IsFiniteSet(Items)
ASSUME DisjointAssumption ==
  /\ NULL \notin Items \union Heads
  /\ Items \intersect Heads = {} /\ Queues \intersect Heads = {}

VARIABLES mem,         \* the next and prev fields of every node
          front,       \* queue->front
          queue_len    \* queue->queue_len

listVars == <<mem, front, queue_len>>

Nodes == Items \union Heads
Fields == [next : [Nodes -> Nodes \union {NULL}], prev : [Nodes -> Nodes \union {NULL}]]

-----------------------------------------------------------------------------
(* list_init(): a node that is its own neighbour.                           *)
list_init(m, n) == [next |-> [m.next EXCEPT ![n] = n], prev |-> [m.prev EXCEPT ![n] = n]]

(* __list_add() and __list_del(): the writes in the order of the code.      *)
link_NoBack(m, new, prev, next) ==
  [next |-> [m.next EXCEPT ![prev] = new, ![new] = next],
   prev |-> [m.prev EXCEPT ![new] = prev]]
link(m, new, prev, next) ==
  [next |-> [m.next EXCEPT ![prev] = new, ![new] = next],
   prev |-> [m.prev EXCEPT ![next] = new, ![new] = prev]]

unlink(m, prev, next) ==
  [next |-> [m.next EXCEPT ![prev] = next], prev |-> [m.prev EXCEPT ![next] = prev]]

list_del(m, n) ==
  LET u == unlink(m, m.prev[n], m.next[n])
  IN  [next |-> [u.next EXCEPT ![n] = NULL], prev |-> [u.prev EXCEPT ![n] = NULL]]

-----------------------------------------------------------------------------
(* Where k steps along the next pointers lead from n.                       *)
Hops(n) == LET hop[k \in 0..(Cardinality(Items) + 1)] ==
                 IF k = 0 THEN n
                 ELSE IF hop[k - 1] = NULL THEN NULL ELSE mem.next[hop[k - 1]]
           IN  hop

(* list_len(): hops until the walk is back.                                 *)
list_len(h) == CHOOSE k \in 0..Cardinality(Items) :
                 /\ Hops(h)[k + 1] = h
                 /\ \A j \in 1..k : Hops(h)[j] # h

list_empty(h) == mem.next[h] = h

(* list_find_item(): while (p->next != list) look at p, then go on.  The    *)
(* node before list, the last item, is never looked at.                     *)
list_find_item(p, n) ==
  /\ p # NULL
  /\ \E k \in 0..Cardinality(Items) :
       Hops(p)[k] = n /\ \A j \in 0..k : Hops(p)[j + 1] # p

(* The sequences that the pointers stand for.                               *)
QueueItems(q) == [i \in 1..queue_len[q] |-> Hops(front[q])[i - 1]]
ListItems(h) == [i \in 1..list_len(h) |-> Hops(h)[i]]
Contents == [c \in Queues \union Heads |->
               IF c \in Queues THEN QueueItems(c) ELSE ListItems(c)]

Within(c) == {Contents[c][i] : i \in 1..Len(Contents[c])}
Unlinked(n) == \A c \in Queues \union Heads : n \notin Within(c)

-----------------------------------------------------------------------------
ListInit ==
  /\ mem = LET nowhere == [n \in Nodes |-> IF n \in Heads THEN n ELSE NULL]
           IN  [next |-> nowhere, prev |-> nowhere]
  /\ front = [q \in Queues |-> NULL]
  /\ queue_len = [q \in Queues |-> 0]

queue_empty(q) == queue_len[q] = 0

(* Insert n in queue q, before the node at its front.                       *)
insert(q, n) ==
  mem' = IF queue_empty(q) THEN list_init(mem, n)
         ELSE link(mem, n, mem.prev[front[q]], front[q])

queue_in(q, n) ==
  /\ Unlinked(n)
  /\ insert(q, n)
  /\ front' = IF queue_empty(q) THEN [front EXCEPT ![q] = n] ELSE front
  /\ queue_len' = [queue_len EXCEPT ![q] = @ + 1]

queue_push_KeepFront(q, n) ==
  /\ Unlinked(n)
  /\ insert(q, n)
  /\ front' = IF queue_empty(q) THEN [front EXCEPT ![q] = n] ELSE front
  /\ queue_len' = [queue_len EXCEPT ![q] = @ + 1]
queue_push(q, n) ==
  /\ Unlinked(n)
  /\ insert(q, n)
  /\ front' = [front EXCEPT ![q] = n]
  /\ queue_len' = [queue_len EXCEPT ![q] = @ + 1]

queue_out(q) ==
  /\ ~queue_empty(q)
  /\ front' = [front EXCEPT ![q] = IF queue_len[q] = 1 THEN NULL ELSE mem.next[front[q]]]
  /\ mem' = list_del(mem, front[q])
  /\ queue_len' = [queue_len EXCEPT ![q] = @ - 1]

list_add(h, n) ==
  /\ Unlinked(n)
  /\ mem' = link(mem, n, h, mem.next[h])
  /\ UNCHANGED <<front, queue_len>>

list_add_prev(h, n) ==
  /\ Unlinked(n)
  /\ mem' = link(mem, n, mem.prev[h], h)
  /\ UNCHANGED <<front, queue_len>>

list_pop(h) ==
  /\ ~list_empty(h)
  /\ mem' = list_del(mem, mem.next[h])
  /\ UNCHANGED <<front, queue_len>>

list_del_safe(h, n) ==
  /\ n \in Within(h)
  /\ mem' = list_init(unlink(mem, mem.prev[n], mem.next[n]), n)
  /\ UNCHANGED <<front, queue_len>>

ListNext ==
  \/ \E q \in Queues :
       queue_out(q) \/ \E n \in Items : queue_in(q, n) \/ queue_push(q, n)
  \/ \E h \in Heads :
       \/ list_pop(h)
       \/ \E n \in Items : list_add(h, n) \/ list_add_prev(h, n) \/ list_del_safe(h, n)

ListSpec == ListInit /\ [][ListNext]_listVars

-----------------------------------------------------------------------------
ListTypeOK ==
  /\ mem \in Fields
  /\ front \in [Queues -> Items \union {NULL}]
  /\ queue_len \in [Queues -> Nat]

D == INSTANCE Deque WITH Containers <- Queues \union Heads, items <- Contents

(* Each pointer operation implements its operation on sequences: nothing is *)
(* lost, duplicated or reordered, and an operation on one container leaves  *)
(* the others as they were.                                                 *)
ActsAsDeque ==
  /\ D!Init
  /\ [][/\ D!Next
        /\ \A q \in Queues :
             /\ queue_out(q) => D!PopFront(q)
             /\ \A n \in Items : /\ queue_in(q, n) => D!PushBack(q, n)
                                 /\ queue_push(q, n) => D!PushFront(q, n)
        /\ \A h \in Heads :
             /\ list_pop(h) => D!PopFront(h)
             /\ \A n \in Items : /\ list_add(h, n) => D!PushFront(h, n)
                                 /\ list_add_prev(h, n) => D!PushBack(h, n)
                                 /\ list_del_safe(h, n) => D!Delete(h, n)]_listVars

(* The rings are closed: a queue of n items is back at its front after n    *)
(* steps along next, and prev inverts next on every ring.                   *)
WellLinked ==
  /\ \A q \in Queues :
       IF queue_empty(q) THEN front[q] = NULL
       ELSE Hops(front[q])[queue_len[q]] = front[q]
  /\ \A c \in Queues \union Heads :
       \A n \in Within(c) \union ({c} \intersect Heads) : mem.prev[mem.next[n]] = n
=============================================================================
