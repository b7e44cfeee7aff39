-------------------------- MODULE KernelListProofs --------------------------
(***************************************************************************)
(* The pointers of list.c stand for sequences, for any number of items,    *)
(* queues and lists.                                                       *)
(*                                                                         *)
(* None of the properties is inductive: that a ring is closed after one    *)
(* more insertion depends on where every pointer of it leads.  The         *)
(* invariant IInv therefore says that there are lists s with which the     *)
(* memory agrees, pointer by pointer (Linked).  Walk shows that the k hops *)
(* of list_len() and list_find_item() visit the places of such a ring in   *)
(* turn, so that what the walks read is s (ContentsAre); RingInsert and    *)
(* RingDelete are the two arguments about __list_add() and __list_del(),   *)
(* and one lemma for each operation names the lists after it.  The         *)
(* refinement of Deque is then one line for each operation.                *)
(***************************************************************************)
EXTENDS KernelList, LibraryProofs

Containers == Queues \union Heads

(* The nodes on the ring of container c, whose items are the list t: a list *)
(* has its head at place 0, a queue has no place 0.                         *)
Base(c) == IF c \in Heads THEN 0 ELSE 1
Node(c, t, i) == IF i = 0 THEN c ELSE t[i]
After(c, t, i) == IF i = Len(t) THEN Base(c) ELSE i + 1

(* Along next the ring leads from place to place, along prev back.          *)
Ring(m, c, t) ==
  \A i \in Base(c)..Len(t) :
    /\ m.next[Node(c, t, i)] = Node(c, t, After(c, t, i))
    /\ m.prev[Node(c, t, After(c, t, i))] = Node(c, t, i)

(* No item is twice in the containers.                                      *)
Once(s) == \A c, d \in Containers : \A i \in 1..Len(s[c]), j \in 1..Len(s[d]) :
             s[c][i] = s[d][j] => c = d /\ i = j

QueueIs(q, t) == /\ queue_len[q] = Len(t)
                 /\ front[q] = IF Len(t) = 0 THEN NULL ELSE t[1]

(* The pointers stand for the lists s.                                      *)
Linked(s) ==
  /\ s \in [Containers -> Seq(Items)]
  /\ Once(s)
  /\ \A q \in Queues : QueueIs(q, s[q])
  /\ \A c \in Containers : Ring(mem, c, s[c])

IInv == ListTypeOK /\ \E s : Linked(s)

-----------------------------------------------------------------------------
(* The walk along the next pointers.                                        *)
LEMMA HopsAre ==
  ASSUME ListTypeOK, NEW n \in Nodes \union {NULL}
  PROVE  /\ Cardinality(Items) \in Nat
         /\ Hops(n)[0] = n
         /\ \A k \in 0..Cardinality(Items) :
              Hops(n)[k + 1] = IF Hops(n)[k] = NULL THEN NULL ELSE mem.next[Hops(n)[k]]
<1> DEFINE N == Cardinality(Items) + 1
           S == Nodes \union {NULL}
           go(x) == IF x = NULL THEN NULL ELSE mem.next[x]
           G == [x \in (0..N) \X S |-> go(x[2])]
<1>1. Cardinality(Items) \in Nat /\ N \in Nat
  BY ItemsAssumption, FS_CardinalityType
<1>2. \A x \in S : go(x) \in S
  BY DEF ListTypeOK, Fields
<1>3. G \in [(0..N) \X S -> S]
  <2> HIDE DEF go, S, N
  <2> QED
    BY <1>2
<1>4. PICK f : Recursive(f, N, S, n, G)
  <2>1. n \in S
    OBVIOUS
  <2> HIDE DEF S, N, G
  <2> QED
    BY <1>1, <1>3, <2>1, RecursionExists
<1>5. f \in [0..N -> S] /\ f[0] = n /\ \A i \in 1..N : f[i] = go(f[i - 1])
  <2>1. f \in [0..N -> S] /\ f[0] = n /\ \A i \in 1..N : f[i] = G[<<i, f[i - 1]>>]
    <3> HIDE DEF S, N, G
    <3> QED
      BY <1>4 DEF Recursive
  <2> HIDE DEF S, N, go
  <2>2. \A i \in 1..N : <<i, f[i - 1]>> \in (0..N) \X S
    BY <1>1, <2>1
  <2> QED
    BY <2>1, <2>2
<1>6. f = [k \in 0..N |-> IF k = 0 THEN n
                          ELSE IF f[k - 1] = NULL THEN NULL ELSE mem.next[f[k - 1]]]
  <2> HIDE DEF S, N
  <2> QED
    BY <1>1, <1>5
<1>7. Hops(n) = [k \in 0..N |-> IF k = 0 THEN n
                                ELSE IF Hops(n)[k - 1] = NULL THEN NULL
                                ELSE mem.next[Hops(n)[k - 1]]]
  BY <1>6, Zenon DEF Hops
<1> DEFINE h == Hops(n)
<1> HIDE DEF h
<1>8. h = [k \in 0..N |-> IF k = 0 THEN n
                          ELSE IF h[k - 1] = NULL THEN NULL ELSE mem.next[h[k - 1]]]
  BY <1>7 DEF h
<1>9. h[0] = n
  <2> HIDE DEF N
  <2> QED
    BY <1>1, <1>8
<1>10. ASSUME NEW k \in 0..Cardinality(Items)
       PROVE  h[k + 1] = IF h[k] = NULL THEN NULL ELSE mem.next[h[k]]
  <2>1. k + 1 \in 0..N /\ k + 1 # 0 /\ (k + 1) - 1 = k
    BY <1>1
  <2> HIDE DEF N
  <2> QED
    BY <1>8, <2>1
<1> QED
  BY <1>1, <1>9, <1>10 DEF h

(* A container has no more items than there are.                            *)
LEMMA ItemsCount ==
  ASSUME NEW t \in Seq(Items), NoDup(t)
  PROVE  Len(t) \in Nat /\ Len(t) <= Cardinality(Items)
<1>1. IsFiniteSet(Elems(t)) /\ Cardinality(Elems(t)) = Len(t)
  BY ElemsCount
<1>2. Elems(t) \subseteq Items
  BY DEF Elems
<1>3. Cardinality(Elems(t)) <= Cardinality(Items)
  BY <1>2, ItemsAssumption, FS_Subset
<1> QED
  BY <1>1, <1>3

(* A list has a place 0, its head, which is no item; a queue has none.      *)
LEMMA Kinds ==
  ASSUME NEW c \in Containers
  PROVE  /\ Base(c) \in {0, 1}
         /\ Base(c) = 0 <=> c \in Heads
         /\ Base(c) = 1 <=> c \in Queues
         /\ c \in Heads => c \notin Items
BY DisjointAssumption DEF Containers, Base

(* The places of a ring are different nodes, and none is NULL.              *)
LEMMA Places ==
  ASSUME NEW c \in Containers, NEW t \in Seq(Items), NoDup(t)
  PROVE  /\ \A i \in Base(c)..Len(t) : Node(c, t, i) \in Nodes /\ Node(c, t, i) # NULL
         /\ \A i, k \in Base(c)..Len(t) : Node(c, t, i) = Node(c, t, k) => i = k
<1>1. \A i \in 1..Len(t) : t[i] \in Items
  OBVIOUS
<1>2. \A i \in Base(c)..Len(t) : IF i = 0 THEN Node(c, t, i) = c /\ c \in Heads
                                ELSE i \in 1..Len(t) /\ Node(c, t, i) = t[i]
  BY Kinds DEF Node
<1> QED
  BY <1>1, <1>2, DisjointAssumption DEF Nodes, NoDup

(* After a place of the ring comes a place of the ring.                     *)
LEMMA Successors ==
  ASSUME NEW c \in Containers, NEW t \in Seq(Items), NEW i \in Base(c)..Len(t)
  PROVE  After(c, t, i) \in Base(c)..Len(t)
BY Kinds DEF After

(* What the pointers stand for is, in each container, a list without        *)
(* duplicates, no longer than there are items.                              *)
LEMMA LinkedFacts ==
  ASSUME NEW s, Linked(s), NEW c \in Containers
  PROVE  /\ s[c] \in Seq(Items) /\ NoDup(s[c]) /\ Ring(mem, c, s[c])
         /\ Len(s[c]) \in Nat /\ Len(s[c]) <= Cardinality(Items)
<1>1. s[c] \in Seq(Items) /\ NoDup(s[c]) /\ Ring(mem, c, s[c])
  BY DEF Linked, Once, NoDup
<1> QED
  BY <1>1, ItemsCount

(* From the first place of a ring, the walk visits each place in turn and   *)
(* is then back.                                                            *)
LEMMA Walk ==
  ASSUME ListTypeOK, NEW s, Linked(s), NEW c \in Containers, Base(c) <= Len(s[c])
  PROVE  LET t == s[c]
             h == Hops(Node(c, t, Base(c)))
         IN  /\ \A k \in 0..(Len(t) - Base(c)) : h[k] = Node(c, t, Base(c) + k)
             /\ h[Len(t) - Base(c) + 1] = Node(c, t, Base(c))
             /\ Len(t) - Base(c) <= Cardinality(Items)
<1> DEFINE t == s[c]
           b == Base(c)
           n == Node(c, t, b)
           h == Hops(n)
           N == Cardinality(Items)
<1>1. t \in Seq(Items) /\ NoDup(t) /\ Ring(mem, c, t) /\ Len(t) \in Nat /\ Len(t) <= N
  BY LinkedFacts
<1>2. b \in {0, 1} /\ b <= Len(t)
  BY Kinds
<1> HIDE DEF t, b
<1>3. \A i \in b..Len(t) : /\ Node(c, t, i) \in Nodes /\ Node(c, t, i) # NULL
                           /\ mem.next[Node(c, t, i)] = Node(c, t, After(c, t, i))
  <2>1. \A i \in b..Len(t) : Node(c, t, i) \in Nodes /\ Node(c, t, i) # NULL
    BY <1>1, Places DEF b
  <2>2. \A i \in b..Len(t) : mem.next[Node(c, t, i)] = Node(c, t, After(c, t, i))
    BY <1>1 DEF Ring, b
  <2> QED
    BY <2>1, <2>2
<1>4. n \in Nodes
  BY <1>1, <1>2, <1>3
<1>5. N \in Nat /\ h[0] = n
      /\ \A k \in 0..N : h[k + 1] = IF h[k] = NULL THEN NULL ELSE mem.next[h[k]]
  <2> HIDE DEF n
  <2> QED
    BY <1>4, HopsAre
<1> HIDE DEF h, n, N
<1> DEFINE P == {k \in Nat : h[k] = Node(c, t, b + k)}
           L == Len(t) - b
<1>6. L \in Nat /\ L <= N
  BY <1>1, <1>2, <1>5
<1>7. 0 \in P
  BY <1>2, <1>5 DEF n
<1>8. ASSUME NEW k \in 0..(L - 1), k \in P PROVE k + 1 \in P
  <2>1. b + k \in b..Len(t) /\ b + k # Len(t) /\ (b + k) + 1 = b + (k + 1) /\ k \in 0..N
    BY <1>1, <1>2, <1>5, <1>6
  <2>2. h[k] = Node(c, t, b + k)
    BY <1>8
  <2>3. mem.next[h[k]] = Node(c, t, b + (k + 1)) /\ h[k] # NULL
    BY <1>3, <2>1, <2>2 DEF After
  <2>4. h[k + 1] = Node(c, t, b + (k + 1))
    BY <1>5, <2>1, <2>3
  <2> QED
    BY <2>4
<1>9. \A k \in 0..L : h[k] = Node(c, t, b + k)
  <2>1. 0..L \subseteq P
    <3>1. P \in SUBSET Nat
      OBVIOUS
    <3> HIDE DEF P, L
    <3> QED
      BY <1>6, <1>7, <1>8, <3>1, Upwards
  <2> QED
    BY <2>1
<1>10. h[L + 1] = n
  <2>1. L \in 0..L /\ b + L = Len(t) /\ Len(t) \in b..Len(t) /\ L \in 0..N
    BY <1>1, <1>2, <1>5, <1>6
  <2>2. h[L] = Node(c, t, Len(t))
    BY <1>9, <2>1
  <2>3. mem.next[h[L]] = Node(c, t, b) /\ h[L] # NULL
    BY <1>3, <2>1, <2>2 DEF After, b
  <2> QED
    BY <1>5, <2>1, <2>3 DEF n
<1> QED
  BY <1>6, <1>9, <1>10 DEF L, n, h, t, b, N

-----------------------------------------------------------------------------
(* The lists that the pointers stand for are those that the model reads.    *)
LEMMA QueueRead ==
  ASSUME ListTypeOK, NEW s, Linked(s), NEW q \in Queues
  PROVE  QueueItems(q) = s[q] /\ queue_len[q] = Len(s[q])
<1> DEFINE t == s[q]
<1>1. q \in Containers /\ Base(q) = 1 /\ QueueIs(q, t)
  BY Kinds DEF Containers, Linked
<1>2. t \in Seq(Items) /\ Len(t) \in Nat
  BY <1>1, LinkedFacts
<1>3. CASE Len(t) = 0
  <2>1. QueueItems(q) = [i \in 1..Len(t) |-> Hops(front[q])[i - 1]]
    BY <1>1 DEF QueueItems, QueueIs
  <2> HIDE DEF t
  <2> QED
    BY <1>1, <1>2, <1>3, <2>1 DEF QueueIs, t
<1>4. CASE Len(t) # 0
  <2> DEFINE h == Hops(t[1])
  <2>1. front[q] = t[1] /\ Node(q, t, 1) = t[1]
    BY <1>1, <1>4 DEF QueueIs, Node
  <2>2. \A k \in 0..(Len(t) - 1) : h[k] = Node(q, t, 1 + k)
    <3>1. Base(q) <= Len(t)
      BY <1>1, <1>2, <1>4
    <3> QED
      BY <1>1, <2>1, <3>1, Walk, SMTT(30)
  <2>3. ASSUME NEW i \in 1..Len(t) PROVE h[i - 1] = t[i]
    <3> HIDE DEF h, t
    <3>1. i - 1 \in 0..(Len(t) - 1) /\ 1 + (i - 1) = i /\ i # 0
      BY <1>2
    <3>2. h[i - 1] = Node(q, t, i)
      BY <2>2, <3>1
    <3> QED
      BY <3>1, <3>2 DEF Node
  <2>4. QueueItems(q) = [i \in 1..Len(t) |-> h[i - 1]]
    BY <1>1, <2>1 DEF QueueItems, QueueIs
  <2> HIDE DEF h, t
  <2>5. t = [i \in 1..Len(t) |-> t[i]]
    BY <1>2
  <2>6. [i \in 1..Len(t) |-> h[i - 1]] = [i \in 1..Len(t) |-> t[i]]
    BY <2>3
  <2> QED
    BY <1>1, <2>4, <2>5, <2>6 DEF QueueIs, t
<1> QED
  BY <1>3, <1>4

(* list_len() counts the items between two visits of the head.              *)
LEMMA ListRead ==
  ASSUME ListTypeOK, NEW s, Linked(s), NEW c \in Heads
  PROVE  ListItems(c) = s[c] /\ list_len(c) = Len(s[c])
<1> DEFINE t == s[c]
           h == Hops(c)
           N == Cardinality(Items)
<1>1. c \in Containers /\ Base(c) = 0
  BY Kinds DEF Containers
<1>2. t \in Seq(Items) /\ Len(t) \in Nat /\ Len(t) <= N /\ N \in Nat
  BY <1>1, LinkedFacts, ItemsAssumption, FS_CardinalityType
<1>3. /\ \A k \in 0..Len(t) : h[k] = Node(c, t, k)
      /\ h[Len(t) + 1] = c
  <2>1. Base(c) <= Len(t) /\ Node(c, t, 0) = c
    BY <1>1, <1>2 DEF Node
  <2>2. /\ \A k \in 0..(Len(t) - 0) : h[k] = Node(c, t, 0 + k)
        /\ h[(Len(t) - 0) + 1] = c
    BY <1>1, <2>1, Walk
  <2> HIDE DEF h, t
  <2> QED
    BY <1>2, <2>2
<1>4. ASSUME NEW k \in 1..Len(t) PROVE h[k] = t[k] /\ h[k] # c
  <2>1. h[k] = t[k]
    <3> HIDE DEF h, t
    <3>1. k \in 0..Len(t) /\ k # 0
      BY <1>2
    <3> QED
      BY <1>3, <3>1 DEF Node
  <2>2. t[k] \in Items /\ c \notin Items
    BY <1>1, <1>2, Kinds
  <2> QED
    BY <2>1, <2>2
<1>5. list_len(c) = CHOOSE k \in 0..N : h[k + 1] = c /\ \A j \in 1..k : h[j] # c
  BY DEF list_len
<1> HIDE DEF h, t, N
<1>6. Len(t) \in 0..N /\ h[Len(t) + 1] = c /\ \A j \in 1..Len(t) : h[j] # c
  BY <1>2, <1>3, <1>4
<1>7. ASSUME NEW k \in 0..N, h[k + 1] = c, \A j \in 1..k : h[j] # c PROVE k = Len(t)
  <2>1. CASE k < Len(t)
    <3>1. k + 1 \in 1..Len(t)
      BY <1>2, <2>1
    <3> QED
      BY <1>4, <1>7, <3>1
  <2>2. CASE k > Len(t)
    <3>1. Len(t) + 1 \in 1..k
      BY <1>2, <2>2
    <3> QED
      BY <1>3, <1>7, <3>1
  <2> QED
    BY <1>2, <2>1, <2>2
<1>8. list_len(c) = Len(t)
  BY <1>5, <1>6, <1>7
<1>9. ListItems(c) = [i \in 1..Len(t) |-> h[i]]
  BY <1>8 DEF ListItems, h
<1>10. t = [i \in 1..Len(t) |-> t[i]]
  BY <1>2
<1>11. [i \in 1..Len(t) |-> h[i]] = [i \in 1..Len(t) |-> t[i]]
  BY <1>4
<1> QED
  BY <1>8, <1>9, <1>10, <1>11 DEF t

(* Walking the pointers reads the lists that they stand for.                *)
LEMMA ContentsAre == \A s : ListTypeOK /\ Linked(s) => Contents = s
<1> SUFFICES ASSUME ListTypeOK, NEW s, Linked(s) PROVE Contents = s
  OBVIOUS
<1>1. \A c \in Queues : QueueItems(c) = s[c]
  BY QueueRead
<1>2. \A c \in Heads : ListItems(c) = s[c]
  BY ListRead
<1>3. s = [c \in Queues \union Heads |-> s[c]]
  BY DEF Linked, Containers
<1>4. [c \in Queues \union Heads |-> IF c \in Queues THEN QueueItems(c) ELSE ListItems(c)]
        = [c \in Queues \union Heads |-> s[c]]
  BY <1>1, <1>2
<1> QED
  BY <1>3, <1>4 DEF Contents

(* Being within a container is being an item of its list.                   *)
LEMMA WithinIs ==
  ASSUME ListTypeOK, NEW s, Linked(s)
  PROVE  \A c \in Containers : Within(c) = Elems(s[c])
BY ContentsAre DEF Within, Elems

-----------------------------------------------------------------------------
(* What the invariant says of the rings and of list_find_item().            *)
LEMMA InvWellLinked == IInv => WellLinked
<1> SUFFICES ASSUME ListTypeOK, NEW s, Linked(s) PROVE WellLinked
  BY DEF IInv
<1>1. ASSUME NEW q \in Queues
      PROVE  IF queue_empty(q) THEN front[q] = NULL
             ELSE Hops(front[q])[queue_len[q]] = front[q]
  <2> DEFINE t == s[q]
  <2>1. q \in Containers /\ Base(q) = 1 /\ QueueIs(q, t)
    BY Kinds DEF Containers, Linked
  <2>2. t \in Seq(Items) /\ Len(t) \in Nat
    BY <2>1, LinkedFacts
  <2>3. CASE Len(t) = 0
    BY <2>1, <2>3 DEF QueueIs, queue_empty
  <2>4. CASE Len(t) # 0
    <3>1. front[q] = t[1] /\ Node(q, t, 1) = t[1] /\ Base(q) <= Len(t)
      BY <2>1, <2>2, <2>4 DEF QueueIs, Node
    <3>2. Hops(Node(q, t, 1))[Len(t) - 1 + 1] = Node(q, t, 1)
      BY <2>1, <3>1, Walk
    <3>3. Len(t) - 1 + 1 = Len(t)
      BY <2>2
    <3> HIDE DEF t
    <3> QED
      BY <2>1, <2>2, <2>4, <3>1, <3>2, <3>3 DEF QueueIs, queue_empty
  <2> QED
    BY <2>3, <2>4
<1>2. ASSUME NEW c \in Queues \union Heads, NEW n \in Within(c) \union ({c} \intersect Heads)
      PROVE  mem.prev[mem.next[n]] = n
  <2> DEFINE t == s[c]
  <2>1. c \in Containers /\ t \in Seq(Items) /\ Ring(mem, c, t) /\ Len(t) \in Nat
    BY LinkedFacts DEF Containers
  <2>2. PICK i \in Base(c)..Len(t) : n = Node(c, t, i)
    <3>1. Base(c) \in {0, 1} /\ (c \in Heads => Base(c) = 0)
      BY <2>1, Kinds
    <3>2. CASE n \in Within(c)
      <4>1. PICK i \in 1..Len(t) : n = t[i]
        BY <2>1, <3>2, WithinIs DEF Elems
      <4> QED
        BY <3>1, <4>1 DEF Node
    <3>3. CASE n = c /\ c \in Heads
      <4>1. 0 \in Base(c)..Len(t) /\ n = Node(c, t, 0)
        BY <2>1, <3>1, <3>3 DEF Node
      <4> QED
        BY <4>1
    <3> QED
      BY <3>2, <3>3
  <2> QED
    BY <2>1, <2>2 DEF Ring
<1> QED
  BY <1>1, <1>2 DEF WellLinked

(* What holds in the place of finding every item: list_find_item() sees     *)
(* every item of a queue but the last, the only item of a queue of one      *)
(* included.  It is the meaning that Thread and Sync give it.               *)
FindMissesLast ==
  \A q \in Queues, n \in Items :
    list_find_item(front[q], n)
      <=> \E i \in 1..(queue_len[q] - 1) : QueueItems(q)[i] = n

(* The walk of list_find_item() stops before it looks at the last item.     *)
LEMMA InvFindMissesLast == IInv => FindMissesLast
<1> SUFFICES ASSUME ListTypeOK, NEW s, Linked(s), NEW q \in Queues, NEW n \in Items
             PROVE  list_find_item(front[q], n)
                      <=> \E i \in 1..(queue_len[q] - 1) : QueueItems(q)[i] = n
  BY DEF IInv, FindMissesLast
<1> DEFINE t == s[q]
           N == Cardinality(Items)
           h == Hops(front[q])
<1>1. q \in Containers /\ Base(q) = 1 /\ QueueIs(q, t)
  BY Kinds DEF Containers, Linked
<1>2. t \in Seq(Items) /\ NoDup(t) /\ Len(t) \in Nat /\ Len(t) <= N /\ N \in Nat
  BY <1>1, LinkedFacts, ItemsAssumption, FS_CardinalityType
<1>3. QueueItems(q) = t /\ queue_len[q] = Len(t)
  BY QueueRead
<1>4. CASE Len(t) = 0
  <2>1. front[q] = NULL
    BY <1>1, <1>4 DEF QueueIs
  <2>2. ~\E i \in 1..(queue_len[q] - 1) : QueueItems(q)[i] = n
    BY <1>3, <1>4
  <2> QED
    BY <2>1, <2>2 DEF list_find_item
<1>5. CASE Len(t) # 0
  <2> DEFINE p == front[q]
  <2>1. p = t[1] /\ Node(q, t, 1) = t[1] /\ Base(q) <= Len(t) /\ 1 \in 1..Len(t)
    BY <1>1, <1>2, <1>5 DEF QueueIs, Node
  <2>2. /\ \A k \in 0..(Len(t) - 1) : h[k] = Node(q, t, 1 + k)
        /\ h[Len(t) - 1 + 1] = p
    BY <1>1, <2>1, Walk
  <2>3. ASSUME NEW k \in 0..(Len(t) - 1) PROVE h[k] = t[k + 1] /\ k + 1 \in 1..Len(t)
    <3> HIDE DEF h, t
    <3>1. 1 + k = k + 1 /\ k + 1 # 0 /\ k + 1 \in 1..Len(t)
      BY <1>2
    <3> QED
      BY <2>2, <3>1 DEF Node
  <2>4. p # NULL
    BY <1>2, <2>1, DisjointAssumption
  <2>5. list_find_item(p, n) <=> \E k \in 0..N : h[k] = n /\ \A j \in 0..k : h[j + 1] # p
    BY <2>4 DEF list_find_item
  <2> HIDE DEF h, t, N, p
  <2>6. ASSUME NEW k \in 0..N, h[k] = n, \A j \in 0..k : h[j + 1] # p
        PROVE  \E i \in 1..(Len(t) - 1) : t[i] = n
    <3>1. k < Len(t) - 1
      <4> SUFFICES ASSUME k >= Len(t) - 1 PROVE FALSE
        BY <1>2
      <4>1. Len(t) - 1 \in 0..k
        BY <1>2, <1>5
      <4> QED
        BY <2>2, <2>6, <4>1
    <3>2. k \in 0..(Len(t) - 1) /\ k + 1 \in 1..(Len(t) - 1)
      BY <1>2, <3>1
    <3> QED
      BY <2>3, <2>6, <3>2
  <2>7. ASSUME NEW i \in 1..(Len(t) - 1), t[i] = n
        PROVE  \E k \in 0..N : h[k] = n /\ \A j \in 0..k : h[j + 1] # p
    <3>1. i - 1 \in 0..N /\ i - 1 \in 0..(Len(t) - 1) /\ (i - 1) + 1 = i
      BY <1>2
    <3>2. h[i - 1] = n
      BY <2>3, <2>7, <3>1
    <3>3. ASSUME NEW j \in 0..(i - 1) PROVE h[j + 1] # p
      <4>1. j + 1 \in 0..(Len(t) - 1) /\ (j + 1) + 1 \in 1..Len(t) /\ (j + 1) + 1 # 1
        BY <1>2
      <4>2. h[j + 1] = t[(j + 1) + 1]
        BY <2>3, <4>1
      <4> QED
        BY <1>2, <2>1, <4>1, <4>2 DEF NoDup
    <3> QED
      BY <3>1, <3>2, <3>3
  <2>8. (\E k \in 0..N : h[k] = n /\ \A j \in 0..k : h[j + 1] # p)
          <=> \E i \in 1..(Len(t) - 1) : t[i] = n
    BY <2>6, <2>7
  <2> QED
    BY <1>3, <2>5, <2>8 DEF p
<1> QED
  BY <1>4, <1>5

-----------------------------------------------------------------------------
(* Writes to other nodes leave a ring alone.                                *)
LEMMA RingElsewhere ==
  ASSUME NEW c \in Containers, NEW t \in Seq(Items), NEW m, NEW m2, Ring(m, c, t),
         \A i \in Base(c)..Len(t) : /\ m2.next[Node(c, t, i)] = m.next[Node(c, t, i)]
                                   /\ m2.prev[Node(c, t, i)] = m.prev[Node(c, t, i)]
  PROVE  Ring(m2, c, t)
<1> SUFFICES ASSUME NEW i \in Base(c)..Len(t)
             PROVE  /\ m2.next[Node(c, t, i)] = Node(c, t, After(c, t, i))
                    /\ m2.prev[Node(c, t, After(c, t, i))] = Node(c, t, i)
  BY DEF Ring
<1>1. After(c, t, i) \in Base(c)..Len(t)
  BY Successors
<1> QED
  BY <1>1 DEF Ring

(* u is t with n inserted before place j, or without place j.               *)
InsertedAt(t, u, j, n) ==
  /\ u \in Seq(Items) /\ Len(u) = Len(t) + 1
  /\ \A i \in 1..(Len(t) + 1) : u[i] = IF i < j THEN t[i] ELSE IF i = j THEN n ELSE t[i - 1]
DeletedAt(t, u, j) ==
  /\ u \in Seq(Items) /\ Len(u) = Len(t) - 1
  /\ \A i \in 1..(Len(t) - 1) : u[i] = IF i < j THEN t[i] ELSE t[i + 1]

(* The places before and after a node that is inserted before place j.      *)
Left(c, t, j) == IF j - 1 >= Base(c) THEN j - 1 ELSE Len(t)
Right(c, t, j) == IF j <= Len(t) THEN j ELSE Base(c)

(* What __list_add() and __list_del() leave in the fields of a node.        *)
LEMMA LinkWrites ==
  ASSUME NEW m \in Fields, NEW n \in Nodes, NEW l \in Nodes, NEW r \in Nodes, n # l, n # r
  PROVE  LET w == link(m, n, l, r)
         IN  /\ w \in Fields
             /\ w.next[l] = n /\ w.next[n] = r /\ w.prev[r] = n /\ w.prev[n] = l
             /\ \A x \in Nodes : /\ x # l /\ x # n => w.next[x] = m.next[x]
                                 /\ x # r /\ x # n => w.prev[x] = m.prev[x]
BY DEF link, Fields

(* __list_add() between two neighbours makes a ring with the new node       *)
(* between them.                                                            *)
LEMMA RingInsert ==
  ASSUME NEW c \in Containers, NEW t \in Seq(Items), NoDup(t), Base(c) <= Len(t),
         NEW n \in Items, n \notin Elems(t), NEW j \in 1..(Len(t) + 1),
         NEW u, InsertedAt(t, u, j, n), NEW m \in Fields, Ring(m, c, t)
  PROVE  Ring(link(m, n, Node(c, t, Left(c, t, j)), Node(c, t, Right(c, t, j))), c, u)
<1> DEFINE L == Left(c, t, j)
           R == Right(c, t, j)
           l == Node(c, t, L)
           r == Node(c, t, R)
           w == link(m, n, l, r)
           b == Base(c)
<1>0. b \in {0, 1} /\ Len(t) \in Nat /\ Len(u) = Len(t) + 1 /\ b <= Len(t)
      /\ (b = 0 <=> c \in Heads) /\ (c \in Heads => c \notin Items)
  BY Kinds DEF InsertedAt
<1> HIDE DEF b
<1>1. L \in b..Len(t) /\ R \in b..Len(t)
  BY <1>0 DEF Left, Right, b
<1>2. \A i \in b..Len(t) : Node(c, t, i) \in Nodes /\ Node(c, t, i) # n
  <2>1. \A i \in b..Len(t) : Node(c, t, i) \in Nodes
    BY Places DEF b
  <2>2. ASSUME NEW i \in b..Len(t) PROVE Node(c, t, i) # n
    <3>1. CASE i = 0
      BY <1>0, <3>1 DEF Node
    <3>2. CASE i # 0
      <4>1. i \in 1..Len(t)
        BY <1>0, <3>2
      <4> QED
        BY <3>2, <4>1 DEF Node, Elems
    <3> QED
      BY <3>1, <3>2
  <2> QED
    BY <2>1, <2>2
<1>3. \A i, k \in b..Len(t) : Node(c, t, i) = Node(c, t, k) => i = k
  BY Places DEF b
<1>4. n \in Nodes /\ l \in Nodes /\ r \in Nodes /\ n # l /\ n # r
  BY <1>1, <1>2 DEF Nodes
<1> HIDE DEF L, R
<1>5. /\ w.next[l] = n /\ w.next[n] = r /\ w.prev[r] = n /\ w.prev[n] = l
      /\ \A x \in Nodes : /\ x # l /\ x # n => w.next[x] = m.next[x]
                          /\ x # r /\ x # n => w.prev[x] = m.prev[x]
  <2> HIDE DEF l, r
  <2> QED
    BY <1>4, LinkWrites
<1> SUFFICES ASSUME NEW i \in b..Len(u)
             PROVE  /\ w.next[Node(c, u, i)] = Node(c, u, After(c, u, i))
                    /\ w.prev[Node(c, u, After(c, u, i))] = Node(c, u, i)
  <2> HIDE DEF w
  <2> QED
    BY DEF Ring, w, l, r, L, R, b
<1> HIDE DEF w, l, r
<1> DEFINE x == Node(c, u, i)
           k == After(c, u, i)
           y == Node(c, u, k)
(* Where a place of u was in t.                                             *)
<1> DEFINE old(a) == IF a < j THEN a ELSE a - 1
<1>6. ASSUME NEW a \in b..Len(u), a # j PROVE Node(c, u, a) = Node(c, t, old(a)) /\ old(a) \in b..Len(t)
  <2>1. CASE a = 0
    BY <1>0, <2>1 DEF Node
  <2>2. CASE a # 0 /\ a < j
    BY <1>0, <2>2 DEF Node, InsertedAt
  <2>3. CASE a # 0 /\ a > j
    <3>1. a \in 1..(Len(t) + 1) /\ a - 1 # 0 /\ a - 1 \in b..Len(t) /\ ~(a < j)
      BY <1>0, <2>3
    <3> QED
      BY <2>3, <3>1 DEF Node, InsertedAt
  <2> QED
    BY <1>0, <1>6, <2>1, <2>2, <2>3
<1>7. Node(c, u, j) = n
  BY <1>0 DEF Node, InsertedAt
<1>8. k \in b..Len(u) /\ k = IF i = Len(u) THEN b ELSE i + 1
  BY <1>0 DEF After, b
<1>9. L = IF j - 1 >= b THEN j - 1 ELSE Len(t)
  BY DEF L, Left, b
<1>10. R = IF j <= Len(t) THEN j ELSE b
  BY DEF R, Right, b
<1> HIDE DEF k
<1>11. CASE i = j
  <2>1. k # j /\ old(k) = R
    BY <1>0, <1>8, <1>10, <1>11
  <2>2. x = n /\ y = r
    BY <1>6, <1>7, <1>8, <1>11, <2>1 DEF r
  <2> QED
    BY <1>5, <2>2 DEF k
<1>12. CASE k = j
  <2>1. i # j /\ old(i) = L
    BY <1>0, <1>8, <1>9, <1>12
  <2>2. y = n /\ x = l
    BY <1>6, <1>7, <1>12, <2>1 DEF l
  <2> QED
    BY <1>5, <2>2 DEF k
<1>13. CASE i # j /\ k # j
  <2> DEFINE o == old(i)
  <2>1. o \in b..Len(t) /\ x = Node(c, t, o) /\ y = Node(c, t, old(k)) /\ old(k) \in b..Len(t)
    BY <1>6, <1>8, <1>13
  <2>2. o # L /\ old(k) # R /\ old(k) = IF o = Len(t) THEN b ELSE o + 1
    BY <1>0, <1>8, <1>9, <1>10, <1>13
  <2>3. m.next[x] = y /\ m.prev[y] = x
    <3>1. After(c, t, o) = old(k)
      BY <2>2 DEF After, b
    <3> HIDE DEF o, old
    <3> QED
      BY <2>1, <3>1 DEF Ring, b
  <2>4. x # l /\ x # n /\ y # r /\ y # n /\ x \in Nodes /\ y \in Nodes
    <3> HIDE DEF o, old
    <3> QED
      BY <1>1, <1>2, <1>3, <2>1, <2>2 DEF l, r
  <2> HIDE DEF x, y
  <2>5. w.next[x] = y /\ w.prev[y] = x
    BY <1>5, <2>3, <2>4
  <2> QED
    BY <2>5 DEF x, y, k
<1> QED
  BY <1>11, <1>12, <1>13

(* w is m after n was taken out, whatever is in its own fields.             *)
TakenOut(w, m, n) ==
  \A x \in Nodes : x # n =>
    /\ w.next[x] = IF x = m.prev[n] THEN m.next[n] ELSE m.next[x]
    /\ w.prev[x] = IF x = m.next[n] THEN m.prev[n] ELSE m.prev[x]

(* Taking out the node at place j leaves a ring without it, whatever is     *)
(* written to its own fields.                                               *)
LEMMA RingDelete ==
  ASSUME NEW c \in Containers, NEW t \in Seq(Items), NoDup(t), NEW j \in 1..Len(t),
         NEW u, DeletedAt(t, u, j), NEW m \in Fields, Ring(m, c, t), NEW w,
         TakenOut(w, m, t[j])
  PROVE  Ring(w, c, u)
<1> DEFINE b == Base(c)
           n == t[j]
           L == Left(c, t, j)
           R == After(c, t, j)
           l == Node(c, t, L)
           r == Node(c, t, R)
<1>0. b \in {0, 1} /\ Len(t) \in Nat \ {0} /\ Len(u) = Len(t) - 1
      /\ (b = 0 <=> c \in Heads) /\ (c \in Heads => c \notin Items)
  BY Kinds DEF DeletedAt
<1> HIDE DEF b
<1>1. L \in b..Len(t) /\ R \in b..Len(t) /\ j \in b..Len(t) /\ After(c, t, L) = j
  BY <1>0 DEF Left, After, b
<1>2. \A i \in b..Len(t) : Node(c, t, i) \in Nodes
  BY Places DEF b
<1>3. \A i, k \in b..Len(t) : Node(c, t, i) = Node(c, t, k) => i = k
  BY Places DEF b
<1>4. Node(c, t, j) = n
  BY <1>0 DEF Node
<1> HIDE DEF L, R, n
<1>5. m.next[n] = r /\ m.prev[n] = l
  <2>1. m.next[Node(c, t, j)] = Node(c, t, After(c, t, j))
    BY <1>1 DEF Ring, b
  <2>2. m.prev[Node(c, t, After(c, t, L))] = Node(c, t, L)
    BY <1>1 DEF Ring, b
  <2> QED
    BY <1>1, <1>4, <2>1, <2>2 DEF R
<1>6. \A x \in Nodes : x # n => /\ w.next[x] = IF x = l THEN r ELSE m.next[x]
                                /\ w.prev[x] = IF x = r THEN l ELSE m.prev[x]
  <2> HIDE DEF l, r
  <2> QED
    BY <1>5 DEF n, TakenOut
<1> SUFFICES ASSUME NEW i \in b..Len(u)
             PROVE  /\ w.next[Node(c, u, i)] = Node(c, u, After(c, u, i))
                    /\ w.prev[Node(c, u, After(c, u, i))] = Node(c, u, i)
  BY DEF Ring, b
<1> HIDE DEF l, r
<1> DEFINE x == Node(c, u, i)
           k == After(c, u, i)
           y == Node(c, u, k)
           old(a) == IF a < j THEN a ELSE a + 1
<1>7. ASSUME NEW a \in b..Len(u)
      PROVE  Node(c, u, a) = Node(c, t, old(a)) /\ old(a) \in b..Len(t) /\ old(a) # j
  <2>1. CASE a = 0
    BY <1>0, <2>1 DEF Node
  <2>2. CASE a # 0 /\ a < j
    BY <1>0, <2>2 DEF Node, DeletedAt
  <2>3. CASE a # 0 /\ a >= j
    <3>1. a \in 1..(Len(t) - 1) /\ a + 1 # 0 /\ a + 1 \in b..Len(t) /\ ~(a < j)
      BY <1>0, <2>3
    <3> QED
      BY <2>3, <3>1 DEF Node, DeletedAt
  <2> QED
    BY <1>0, <2>1, <2>2, <2>3
<1>8. k \in b..Len(u) /\ k = IF i = Len(u) THEN b ELSE i + 1
  BY <1>0 DEF After, b
<1>9. L = IF j - 1 >= b THEN j - 1 ELSE Len(t)
  BY DEF L, Left, b
<1>10. R = IF j = Len(t) THEN b ELSE j + 1
  BY DEF R, After, b
<1> HIDE DEF k
<1> DEFINE o == old(i)
<1>11. /\ o \in b..Len(t) /\ x = Node(c, t, o) /\ o # j
       /\ y = Node(c, t, old(k)) /\ old(k) \in b..Len(t) /\ old(k) # j
  BY <1>7, <1>8
<1>12. x # n /\ y # n /\ x \in Nodes /\ y \in Nodes
  <2> HIDE DEF o, old, x, y
  <2> QED
    BY <1>1, <1>2, <1>3, <1>4, <1>11
<1>13. CASE o = L
  <2>1. old(k) = R
    BY <1>0, <1>8, <1>9, <1>10, <1>13
  <2>2. x = l /\ y = r
    BY <1>11, <1>13, <2>1 DEF l, r
  <2> QED
    BY <1>6, <1>12, <2>2 DEF k
<1>14. CASE o # L
  <2>1. old(k) # R /\ old(k) = IF o = Len(t) THEN b ELSE o + 1
    BY <1>0, <1>8, <1>9, <1>10, <1>14
  <2>2. m.next[x] = y /\ m.prev[y] = x
    <3>1. After(c, t, o) = old(k)
      BY <2>1 DEF After, b
    <3> HIDE DEF o, old
    <3> QED
      BY <1>11, <3>1 DEF Ring, b
  <2>3. x # l /\ y # r
    <3> HIDE DEF o, old
    <3> QED
      BY <1>1, <1>3, <1>11, <1>14, <2>1 DEF l, r
  <2> HIDE DEF x, y
  <2>4. w.next[x] = y /\ w.prev[y] = x
    BY <1>6, <1>12, <2>2, <2>3
  <2> QED
    BY <2>4 DEF x, y, k
<1> QED
  BY <1>13, <1>14

-----------------------------------------------------------------------------
(* Rings of different containers share no node.                             *)
LEMMA RingsApart ==
  ASSUME NEW s, Linked(s), NEW c \in Containers, NEW d \in Containers, c # d,
         NEW i \in Base(c)..Len(s[c]), NEW k \in Base(d)..Len(s[d])
  PROVE  Node(c, s[c], i) # Node(d, s[d], k)
<1>0. Base(c) \in {0, 1} /\ Base(d) \in {0, 1} /\ Len(s[c]) \in Nat /\ Len(s[d]) \in Nat
      /\ (Base(c) = 0 => c \notin Items) /\ (Base(d) = 0 => d \notin Items)
  BY Kinds, LinkedFacts
<1>1. \A a \in Containers : \A m \in 1..Len(s[a]) : s[a][m] \in Items
  BY LinkedFacts
<1>2. CASE i = 0 /\ k = 0
  BY <1>2 DEF Node
<1>3. CASE i = 0 /\ k # 0
  BY <1>0, <1>1, <1>3 DEF Node
<1>4. CASE i # 0 /\ k = 0
  BY <1>0, <1>1, <1>4 DEF Node
<1>5. CASE i # 0 /\ k # 0
  <2>1. i \in 1..Len(s[c]) /\ k \in 1..Len(s[d])
    BY <1>0, <1>5
  <2> QED
    BY <1>5, <2>1 DEF Node, Linked, Once
<1> QED
  BY <1>2, <1>3, <1>4, <1>5

(* Once, for one pair of places.                                            *)
LEMMA OnceApplies ==
  ASSUME NEW s, Once(s), NEW c \in Containers, NEW d \in Containers,
         NEW i \in 1..Len(s[c]), NEW j \in 1..Len(s[d]), s[c][i] = s[d][j]
  PROVE  c = d /\ i = j
BY Zenon DEF Once

(* An item in no container.                                                 *)
Nowhere(s, n) == \A c \in Containers : \A i \in 1..Len(s[c]) : s[c][i] # n

(* The guard of the insertions reads the pointers; it means that the item   *)
(* is in no list.                                                           *)
LEMMA UnlinkedIs ==
  ASSUME ListTypeOK, NEW s, Linked(s), NEW n
  PROVE  Unlinked(n) <=> Nowhere(s, n)
<1>1. \A c \in Containers : Within(c) = Elems(s[c])
  BY WithinIs
<1> QED
  BY <1>1 DEF Unlinked, Nowhere, Elems, Containers

(* Inserting an item that is in no container puts nothing twice.            *)
LEMMA OnceInsert ==
  ASSUME NEW s, Linked(s), NEW c \in Containers, NEW n \in Items, Nowhere(s, n),
         NEW j \in 1..(Len(s[c]) + 1), NEW u, InsertedAt(s[c], u, j, n)
  PROVE  LET z == [s EXCEPT ![c] = u]
         IN  z \in [Containers -> Seq(Items)] /\ Once(z)
<1> DEFINE z == [s EXCEPT ![c] = u]
           t == s[c]
<1>1. s \in [Containers -> Seq(Items)] /\ t \in Seq(Items) /\ Len(t) \in Nat
  BY LinkedFacts DEF Linked
<1>2. u \in Seq(Items) /\ Len(u) = Len(t) + 1
  BY DEF InsertedAt
<1>3. z \in [Containers -> Seq(Items)] /\ z[c] = u /\ \A d \in Containers : d # c => z[d] = s[d]
  BY <1>1, <1>2
<1> HIDE DEF z
<1>4. ASSUME NEW i \in 1..Len(u)
      PROVE  \/ i = j /\ u[i] = n
             \/ \E a \in 1..Len(t) : u[i] = t[a] /\ i # j /\ a = IF i < j THEN i ELSE i - 1
  <2>1. CASE i < j
    <3>1. i \in 1..Len(t) /\ u[i] = t[i]
      BY <1>1, <1>2, <2>1 DEF InsertedAt
    <3> QED
      BY <2>1, <3>1
  <2>2. CASE i = j
    BY <1>1, <1>2, <2>2 DEF InsertedAt
  <2>3. CASE i > j
    <3>1. i - 1 \in 1..Len(t) /\ u[i] = t[i - 1]
      BY <1>1, <1>2, <2>3 DEF InsertedAt
    <3> QED
      BY <2>3, <3>1
  <2> QED
    BY <1>1, <1>2, <2>1, <2>2, <2>3
<1>5. Once(s)
  BY DEF Linked
<1>6. Once(z)
  <2> SUFFICES ASSUME NEW d \in Containers, NEW e \in Containers,
                      NEW i \in 1..Len(z[d]), NEW k \in 1..Len(z[e]), z[d][i] = z[e][k]
               PROVE  d = e /\ i = k
    BY DEF Once
  <2>1. CASE d = c /\ e = c
    <3>1. i \in 1..Len(u) /\ k \in 1..Len(u) /\ u[i] = u[k]
      BY <1>3, <2>1
    <3>2. CASE i = j \/ k = j
      BY <1>1, <1>4, <2>1, <3>1, <3>2 DEF Nowhere
    <3>3. CASE i # j /\ k # j
      <4>1. PICK a \in 1..Len(t) : u[i] = t[a] /\ a = IF i < j THEN i ELSE i - 1
        BY <1>4, <3>1, <3>3
      <4>2. PICK f \in 1..Len(t) : u[k] = t[f] /\ f = IF k < j THEN k ELSE k - 1
        BY <1>4, <3>1, <3>3
      <4>3. a = f
        <5>1. t[a] = t[f]
          BY <3>1, <4>1, <4>2
        <5> QED
          BY <5>1, LinkedFacts DEF NoDup
      <4> QED
        BY <1>1, <1>2, <2>1, <3>1, <3>3, <4>1, <4>2, <4>3
    <3> QED
      BY <3>2, <3>3
  <2>2. CASE d = c /\ e # c
    <3>1. i \in 1..Len(u) /\ k \in 1..Len(s[e]) /\ u[i] = s[e][k]
      BY <1>3, <2>2
    <3>2. CASE i = j /\ u[i] = n
      BY <3>1, <3>2 DEF Nowhere
    <3>3. CASE \E a \in 1..Len(t) : u[i] = t[a]
      <4>1. PICK a \in 1..Len(t) : s[c][a] = s[e][k]
        BY <3>1, <3>3
      <4> QED
        BY <1>5, <2>2, <3>1, <4>1, OnceApplies, Zenon
    <3> QED
      BY <1>4, <3>1, <3>2, <3>3
  <2>3. CASE d # c /\ e = c
    <3>1. k \in 1..Len(u) /\ i \in 1..Len(s[d]) /\ u[k] = s[d][i]
      BY <1>3, <2>3
    <3>2. CASE k = j /\ u[k] = n
      BY <3>1, <3>2 DEF Nowhere
    <3>3. CASE \E a \in 1..Len(t) : u[k] = t[a]
      <4>1. PICK a \in 1..Len(t) : s[c][a] = s[d][i]
        BY <3>1, <3>3
      <4> QED
        BY <1>5, <2>3, <3>1, <4>1, OnceApplies, Zenon
    <3> QED
      BY <1>4, <3>1, <3>2, <3>3
  <2>4. CASE d # c /\ e # c
    BY <1>3, <1>5, <2>4 DEF Once
  <2> QED
    BY <2>1, <2>2, <2>3, <2>4
<1> QED
  BY <1>3, <1>6 DEF z

(* Taking an item out puts nothing twice.                                   *)
LEMMA OnceDelete ==
  ASSUME NEW s, Linked(s), NEW c \in Containers,
         NEW j \in 1..Len(s[c]), NEW u, DeletedAt(s[c], u, j)
  PROVE  LET z == [s EXCEPT ![c] = u]
         IN  z \in [Containers -> Seq(Items)] /\ Once(z)
<1> DEFINE z == [s EXCEPT ![c] = u]
           t == s[c]
<1>1. s \in [Containers -> Seq(Items)] /\ t \in Seq(Items) /\ Len(t) \in Nat
  BY LinkedFacts DEF Linked
<1>2. u \in Seq(Items) /\ Len(u) = Len(t) - 1
  BY DEF DeletedAt
<1>3. z \in [Containers -> Seq(Items)] /\ z[c] = u /\ \A d \in Containers : d # c => z[d] = s[d]
  BY <1>1, <1>2
<1> HIDE DEF z
<1>4. ASSUME NEW i \in 1..Len(u)
      PROVE  \E a \in 1..Len(t) : u[i] = t[a] /\ a = IF i < j THEN i ELSE i + 1
  <2>1. CASE i < j
    <3>1. i \in 1..Len(t) /\ u[i] = t[i]
      BY <1>1, <1>2, <2>1 DEF DeletedAt
    <3> QED
      BY <2>1, <3>1
  <2>2. CASE ~(i < j)
    <3>1. i + 1 \in 1..Len(t) /\ u[i] = t[i + 1]
      BY <1>1, <1>2, <2>2 DEF DeletedAt
    <3> QED
      BY <2>2, <3>1
  <2> QED
    BY <2>1, <2>2
<1>5. Once(s)
  BY DEF Linked
<1>6. Once(z)
  <2> SUFFICES ASSUME NEW d \in Containers, NEW e \in Containers,
                      NEW i \in 1..Len(z[d]), NEW k \in 1..Len(z[e]), z[d][i] = z[e][k]
               PROVE  d = e /\ i = k
    BY DEF Once
  <2>1. PICK a \in 1..Len(s[d]) : z[d][i] = s[d][a]
                                  /\ a = IF d = c /\ ~(i < j) THEN i + 1 ELSE i
    BY <1>3, <1>4
  <2>2. PICK f \in 1..Len(s[e]) : z[e][k] = s[e][f]
                                  /\ f = IF e = c /\ ~(k < j) THEN k + 1 ELSE k
    BY <1>3, <1>4
  <2>3. d = e /\ a = f
    <3>1. s[d][a] = s[e][f]
      BY <2>1, <2>2
    <3>2. d = e
      BY <1>5, <2>1, <2>2, <3>1, OnceApplies
    <3>3. NoDup(s[d])
      BY LinkedFacts
    <3> QED
      BY <2>1, <2>2, <3>1, <3>2, <3>3 DEF NoDup
  <2>4. i \in Nat /\ k \in Nat
    BY <1>3
  <2> QED
    BY <2>1, <2>2, <2>3, <2>4
<1> QED
  BY <1>3, <1>6 DEF z

(* What the lists and the pointers are after an operation.                  *)
Linkage(m, z) == /\ m \in Fields
                 /\ z \in [Containers -> Seq(Items)]
                 /\ Once(z)
                 /\ \A c \in Containers : Ring(m, c, z[c])

(* __list_add() inserts a node in one ring and leaves the others alone.     *)
LEMMA InsertStep ==
  ASSUME ListTypeOK, NEW s, Linked(s), NEW c \in Containers, NEW n \in Items, Nowhere(s, n),
         Base(c) <= Len(s[c]), NEW j \in 1..(Len(s[c]) + 1), NEW u, InsertedAt(s[c], u, j, n)
  PROVE  Linkage(link(mem, n, Node(c, s[c], Left(c, s[c], j)), Node(c, s[c], Right(c, s[c], j))),
                 [s EXCEPT ![c] = u])
<1> DEFINE t == s[c]
           z == [s EXCEPT ![c] = u]
           l == Node(c, t, Left(c, t, j))
           r == Node(c, t, Right(c, t, j))
           w == link(mem, n, l, r)
<1>1. t \in Seq(Items) /\ NoDup(t) /\ Ring(mem, c, t) /\ Len(t) \in Nat /\ mem \in Fields
  BY LinkedFacts DEF ListTypeOK
<1>2. n \notin Elems(t)
  BY DEF Nowhere, Elems
<1>3. Ring(w, c, u)
  <2> HIDE DEF t
  <2> QED
    BY <1>1, <1>2, RingInsert DEF t
<1>4. z \in [Containers -> Seq(Items)] /\ Once(z)
  BY OnceInsert
<1>5. z[c] = u /\ \A d \in Containers : d # c => z[d] = s[d]
  BY DEF Linked
<1>6. Left(c, t, j) \in Base(c)..Len(t) /\ Right(c, t, j) \in Base(c)..Len(t)
  BY <1>1, Kinds DEF Left, Right
<1> HIDE DEF t, z
<1>7. l \in Nodes /\ r \in Nodes
  BY <1>1, <1>6, Places
<1>8. n \in Nodes /\ \A d \in Containers : \A i \in Base(d)..Len(s[d]) : Node(d, s[d], i) # n
  <2>1. n \in Nodes
    BY DEF Nodes
  <2>2. ASSUME NEW d \in Containers, NEW i \in Base(d)..Len(s[d]) PROVE Node(d, s[d], i) # n
    <3>1. Base(d) \in {0, 1} /\ (Base(d) = 0 => d \notin Items) /\ Len(s[d]) \in Nat
      BY Kinds, LinkedFacts
    <3>2. CASE i = 0
      BY <3>1, <3>2 DEF Node
    <3>3. CASE i # 0
      BY <3>1, <3>3 DEF Node, Nowhere
    <3> QED
      BY <3>2, <3>3
  <2> QED
    BY <2>1, <2>2
<1>9. n # l /\ n # r
  BY <1>6, <1>8 DEF t
<1> HIDE DEF l, r
<1>10. /\ w \in Fields
       /\ \A x \in Nodes : /\ x # l /\ x # n => w.next[x] = mem.next[x]
                           /\ x # r /\ x # n => w.prev[x] = mem.prev[x]
  BY <1>1, <1>7, <1>8, <1>9, LinkWrites
<1> HIDE DEF w
<1>11. ASSUME NEW d \in Containers, d # c PROVE Ring(w, d, s[d])
  <2>1. s[d] \in Seq(Items) /\ NoDup(s[d]) /\ Ring(mem, d, s[d])
    BY LinkedFacts
  <2>2. ASSUME NEW i \in Base(d)..Len(s[d])
        PROVE  /\ w.next[Node(d, s[d], i)] = mem.next[Node(d, s[d], i)]
               /\ w.prev[Node(d, s[d], i)] = mem.prev[Node(d, s[d], i)]
    <3>1. Node(d, s[d], i) \in Nodes
      BY <2>1, Places
    <3>2. Node(d, s[d], i) # l /\ Node(d, s[d], i) # r
      BY <1>6, <1>11, RingsApart DEF l, r, t
    <3> QED
      BY <1>8, <1>10, <3>1, <3>2
  <2> QED
    BY <2>1, <2>2, RingElsewhere
<1>12. \A d \in Containers : Ring(w, d, z[d])
  BY <1>3, <1>5, <1>11
<1> QED
  BY <1>4, <1>10, <1>12 DEF Linkage, w, l, r, t, z

(* The first item of a queue.                                               *)
LEMMA FirstStep ==
  ASSUME ListTypeOK, NEW s, Linked(s), NEW q \in Queues, NEW n \in Items, Nowhere(s, n),
         Len(s[q]) = 0, NEW u, InsertedAt(s[q], u, 1, n)
  PROVE  Linkage(list_init(mem, n), [s EXCEPT ![q] = u])
<1> DEFINE z == [s EXCEPT ![q] = u]
           w == list_init(mem, n)
<1>1. q \in Containers /\ Base(q) = 1 /\ mem \in Fields
  BY Kinds DEF Containers, ListTypeOK
<1>2. n \in Nodes /\ n # NULL
  BY DisjointAssumption DEF Nodes
<1>3. /\ w \in Fields /\ w.next[n] = n /\ w.prev[n] = n
      /\ \A x \in Nodes : x # n => w.next[x] = mem.next[x] /\ w.prev[x] = mem.prev[x]
  BY <1>1, <1>2 DEF list_init, Fields
<1>4. z \in [Containers -> Seq(Items)] /\ Once(z)
  <2>1. 1 \in 1..(Len(s[q]) + 1)
    OBVIOUS
  <2> QED
    BY <1>1, <2>1, OnceInsert
<1>5. z[q] = u /\ \A d \in Containers : d # q => z[d] = s[d]
  BY <1>1 DEF Linked
<1> HIDE DEF z, w
<1>6. Ring(w, q, u)
  <2>1. Len(u) = 1 /\ u[1] = n
    BY DEF InsertedAt
  <2> QED
    BY <1>1, <1>3, <2>1 DEF Ring, Node, After
<1>7. ASSUME NEW d \in Containers, d # q PROVE Ring(w, d, s[d])
  <2>1. s[d] \in Seq(Items) /\ NoDup(s[d]) /\ Ring(mem, d, s[d]) /\ Len(s[d]) \in Nat
    BY LinkedFacts
  <2>2. ASSUME NEW i \in Base(d)..Len(s[d])
        PROVE  /\ w.next[Node(d, s[d], i)] = mem.next[Node(d, s[d], i)]
               /\ w.prev[Node(d, s[d], i)] = mem.prev[Node(d, s[d], i)]
    <3>1. Node(d, s[d], i) \in Nodes
      BY <2>1, Places
    <3>2. Node(d, s[d], i) # n
      <4>1. Base(d) \in {0, 1} /\ (Base(d) = 0 => d \notin Items)
        BY Kinds
      <4>2. CASE i = 0
        BY <4>1, <4>2 DEF Node
      <4>3. CASE i # 0
        BY <2>1, <4>1, <4>3 DEF Node, Nowhere
      <4> QED
        BY <4>2, <4>3
    <3> QED
      BY <1>3, <3>1, <3>2
  <2> QED
    BY <2>1, <2>2, RingElsewhere
<1> QED
  BY <1>3, <1>4, <1>5, <1>6, <1>7 DEF Linkage, w, z

(* The fields after __list_del() around n, and a write to both its own.     *)
Unlinks(w, m, n, f) ==
  LET v == unlink(m, m.prev[n], m.next[n])
  IN  w = [next |-> [v.next EXCEPT ![n] = f], prev |-> [v.prev EXCEPT ![n] = f]]

Without(v, m, l, r) ==
  \A x \in Nodes : /\ v.next[x] = IF x = l THEN r ELSE m.next[x]
                   /\ v.prev[x] = IF x = r THEN l ELSE m.prev[x]

(* __list_del() writes one field of each neighbour.                         *)
LEMMA UnlinkIs ==
  ASSUME NEW m \in Fields, NEW l \in Nodes, NEW r \in Nodes
  PROVE  unlink(m, l, r) \in Fields /\ Without(unlink(m, l, r), m, l, r)
<1> DEFINE v == unlink(m, l, r)
<1>1. v.next = [m.next EXCEPT ![l] = r] /\ v.prev = [m.prev EXCEPT ![r] = l]
  BY DEF unlink
<1>2. m.next \in [Nodes -> Nodes \union {NULL}] /\ m.prev \in [Nodes -> Nodes \union {NULL}]
  BY DEF Fields
<1>3. v \in Fields
  BY <1>2 DEF unlink, Fields
<1> HIDE DEF v
<1>4. Without(v, m, l, r)
  BY <1>1, <1>2 DEF Without
<1> QED
  BY <1>3, <1>4 DEF v

(* A node taken out, whatever is then written to its own fields: NULL by    *)
(* list_del(), itself by list_del_safe().                                   *)
LEMMA UnlinkWrites ==
  ASSUME NEW m \in Fields, NEW n \in Nodes, m.prev[n] \in Nodes, m.next[n] \in Nodes,
         NEW f \in Nodes \union {NULL}, NEW w, Unlinks(w, m, n, f)
  PROVE  w \in Fields /\ TakenOut(w, m, n)
<1> DEFINE l == m.prev[n]
           r == m.next[n]
           v == unlink(m, l, r)
<1>0. l \in Nodes /\ r \in Nodes
  OBVIOUS
<1>1. v \in Fields /\ Without(v, m, l, r)
  <2> HIDE DEF l, r
  <2> QED
    BY <1>0, UnlinkIs
<1>3. w = [next |-> [v.next EXCEPT ![n] = f], prev |-> [v.prev EXCEPT ![n] = f]]
  BY DEF Unlinks
<1> HIDE DEF v, l, r
<1>4. w \in Fields /\ \A x \in Nodes : x # n => w.next[x] = v.next[x] /\ w.prev[x] = v.prev[x]
  BY <1>1, <1>3 DEF Fields
<1>5. \A x \in Nodes : x # n => /\ w.next[x] = IF x = l THEN r ELSE m.next[x]
                                /\ w.prev[x] = IF x = r THEN l ELSE m.prev[x]
  BY <1>1, <1>4 DEF Without
<1> QED
  BY <1>4, <1>5 DEF l, r, TakenOut

(* Taking an item out of its container.                                     *)
LEMMA DeleteStep ==
  ASSUME ListTypeOK, NEW s, Linked(s), NEW c \in Containers, NEW j \in 1..Len(s[c]),
         NEW u, DeletedAt(s[c], u, j), NEW f \in {NULL, s[c][j]},
         NEW w, Unlinks(w, mem, s[c][j], f)
  PROVE  Linkage(w, [s EXCEPT ![c] = u])
<1> DEFINE t == s[c]
           n == t[j]
           z == [s EXCEPT ![c] = u]
           l == mem.prev[n]
           r == mem.next[n]
<1>1. t \in Seq(Items) /\ NoDup(t) /\ Ring(mem, c, t) /\ Len(t) \in Nat /\ mem \in Fields
  BY LinkedFacts DEF ListTypeOK
<1>2. n \in Nodes /\ n # NULL
  BY <1>1, DisjointAssumption DEF Nodes
<1>3. PICK a \in Base(c)..Len(t), k \in Base(c)..Len(t) :
        l = Node(c, t, a) /\ r = Node(c, t, k) /\ j \in Base(c)..Len(t) /\ n = Node(c, t, j)
  <2> DEFINE b == Base(c)
             L == Left(c, t, j)
             R == After(c, t, j)
  <2>0. b \in {0, 1}
    BY Kinds
  <2> HIDE DEF b, t
  <2>1. L \in b..Len(t) /\ R \in b..Len(t) /\ j \in b..Len(t) /\ After(c, t, L) = j
    BY <1>1, <2>0 DEF Left, After, b, t
  <2>2. Node(c, t, j) = n
    BY <1>1 DEF Node, t
  <2>3. mem.next[Node(c, t, j)] = Node(c, t, After(c, t, j))
    BY <1>1, <2>1 DEF Ring, b
  <2>4. mem.prev[Node(c, t, After(c, t, L))] = Node(c, t, L)
    BY <1>1, <2>1 DEF Ring, b
  <2> HIDE DEF n
  <2> QED
    BY <2>1, <2>2, <2>3, <2>4 DEF b
<1>3a. l \in Nodes /\ r \in Nodes
  <2> HIDE DEF t, l, r
  <2> QED
    BY <1>1, <1>3, Places
<1>3b. w \in Fields /\ TakenOut(w, mem, n)
  <2>1. f \in Nodes \union {NULL} /\ Unlinks(w, mem, n, f)
    BY <1>2
  <2> HIDE DEF n
  <2> QED
    BY <1>1, <1>2, <1>3a, <2>1, UnlinkWrites
<1>4. Ring(w, c, u)
  <2> HIDE DEF t
  <2>1. j \in 1..Len(t) /\ DeletedAt(t, u, j)
    BY DEF t
  <2> HIDE DEF n
  <2> QED
    BY <1>1, <1>3b, <2>1, RingDelete DEF n
<1>5. z \in [Containers -> Seq(Items)] /\ Once(z)
  BY OnceDelete
<1>6. z[c] = u /\ \A d \in Containers : d # c => z[d] = s[d]
  BY DEF Linked
<1> HIDE DEF z, t, l, r, n
<1>8. ASSUME NEW d \in Containers, d # c PROVE Ring(w, d, s[d])
  <2>1. s[d] \in Seq(Items) /\ NoDup(s[d]) /\ Ring(mem, d, s[d])
    BY LinkedFacts
  <2>2. ASSUME NEW i \in Base(d)..Len(s[d])
        PROVE  /\ w.next[Node(d, s[d], i)] = mem.next[Node(d, s[d], i)]
               /\ w.prev[Node(d, s[d], i)] = mem.prev[Node(d, s[d], i)]
    <3>1. Node(d, s[d], i) \in Nodes
      BY <2>1, Places
    <3>2. Node(d, s[d], i) # l /\ Node(d, s[d], i) # r /\ Node(d, s[d], i) # n
      BY <1>3, <1>8, RingsApart DEF t
    <3> QED
      BY <1>3b, <3>1, <3>2 DEF TakenOut, l, r
  <2> QED
    BY <2>1, <2>2, RingElsewhere
<1> QED
  BY <1>3b, <1>4, <1>5, <1>6, <1>8 DEF Linkage, z

-----------------------------------------------------------------------------
(* The operations of Deque on a list.                                       *)
LEMMA AppendInserts ==
  ASSUME NEW t \in Seq(Items), NEW n \in Items
  PROVE  InsertedAt(t, Append(t, n), Len(t) + 1, n)
<1> DEFINE u == Append(t, n)
<1>1. u \in Seq(Items) /\ Len(u) = Len(t) + 1 /\ Len(t) \in Nat /\ u[Len(t) + 1] = n
      /\ \A i \in 1..Len(t) : u[i] = t[i]
  BY AppendProperties
<1> HIDE DEF u
<1> QED
  BY <1>1 DEF InsertedAt, u

(* Putting an item in front inserts it before place 1.                      *)
LEMMA PushInserts ==
  ASSUME NEW t \in Seq(Items), NEW n \in Items
  PROVE  InsertedAt(t, <<n>> \o t, 1, n)
<1> DEFINE o == <<n>>
           u == o \o t
<1>1. o \in Seq(Items) /\ Len(o) = 1 /\ o[1] = n
  OBVIOUS
<1> HIDE DEF o
<1>2. u \in Seq(Items) /\ Len(u) = 1 + Len(t) /\ Len(t) \in Nat
      /\ \A i \in 1..(1 + Len(t)) : u[i] = IF i <= 1 THEN o[i] ELSE t[i - 1]
  <2>1. u \in Seq(Items) /\ Len(u) = Len(o) + Len(t)
        /\ \A i \in 1..(Len(o) + Len(t)) : u[i] = IF i <= Len(o) THEN o[i] ELSE t[i - Len(o)]
    BY <1>1, ConcatProperties
  <2>2. Len(t) \in Nat
    BY LenProperties
  <2> HIDE DEF u
  <2> QED
    BY <1>1, <2>1, <2>2
<1> HIDE DEF u
<1>3. Len(u) = Len(t) + 1
  BY <1>2
<1>4. ASSUME NEW i \in 1..(Len(t) + 1)
      PROVE  u[i] = IF i < 1 THEN t[i] ELSE IF i = 1 THEN n ELSE t[i - 1]
  <2>1. i \in 1..(1 + Len(t))
    BY <1>2
  <2> QED
    BY <1>1, <1>2, <2>1
<1> QED
  BY <1>2, <1>3, <1>4 DEF InsertedAt, u, o

(* Tail deletes place 1.                                                    *)
LEMMA TailDeletes ==
  ASSUME NEW t \in Seq(Items), t # <<>>
  PROVE  DeletedAt(t, Tail(t), 1)
<1> DEFINE u == Tail(t)
<1>1. u \in Seq(Items) /\ Len(u) = Len(t) - 1 /\ \A i \in 1..Len(u) : u[i] = t[i + 1]
  BY HeadTailProperties
<1> HIDE DEF u
<1> QED
  BY <1>1 DEF DeletedAt, u

(* What lies before and after a place is the list without that place.       *)
LEMMA RemoveDeletes ==
  ASSUME NEW t \in Seq(Items), NEW j \in 1..Len(t)
  PROVE  DeletedAt(t, SubSeq(t, 1, j - 1) \o SubSeq(t, j + 1, Len(t)), j)
<1> DEFINE u == SubSeq(t, 1, j - 1)
           v == SubSeq(t, j + 1, Len(t))
<1>0. Len(t) \in Nat /\ \A i \in 1..Len(t) : t[i] \in Items
  BY LenProperties
<1>1. u \in Seq(Items) /\ Len(u) = j - 1 /\ \A i \in 1..(j - 1) : u[i] = t[i]
  <2>1. \A i \in 1..(j - 1) : t[i] \in Items
    BY <1>0
  <2>2. /\ u \in Seq(Items) /\ Len(u) = (IF 1 <= j - 1 THEN (j - 1) - 1 + 1 ELSE 0)
        /\ \A i \in 1..((j - 1) - 1 + 1) : u[i] = t[1 + i - 1]
    BY <1>0, <2>1, SubSeqProperties
  <2> QED
    BY <1>0, <2>2
<1>2. v \in Seq(Items) /\ Len(v) = Len(t) - j /\ \A i \in 1..(Len(t) - j) : v[i] = t[j + i]
  <2>1. \A i \in (j + 1)..Len(t) : t[i] \in Items
    BY <1>0
  <2>2. /\ v \in Seq(Items) /\ Len(v) = (IF j + 1 <= Len(t) THEN Len(t) - (j + 1) + 1 ELSE 0)
        /\ \A i \in 1..(Len(t) - (j + 1) + 1) : v[i] = t[(j + 1) + i - 1]
    BY <1>0, <2>1, SubSeqProperties
  <2> QED
    BY <1>0, <2>2
<1> HIDE DEF u, v
<1>3. u \o v \in Seq(Items) /\ Len(u \o v) = Len(u) + Len(v)
      /\ \A i \in 1..(Len(u) + Len(v)) : (u \o v)[i] = IF i <= Len(u) THEN u[i] ELSE v[i - Len(u)]
  BY <1>1, <1>2, ConcatProperties
<1>4. ASSUME NEW i \in 1..(Len(t) - 1) PROVE (u \o v)[i] = IF i < j THEN t[i] ELSE t[i + 1]
  <2>1. CASE i < j
    BY <1>0, <1>1, <1>2, <1>3, <2>1
  <2>2. CASE ~(i < j)
    <3>1. i - Len(u) \in 1..(Len(t) - j) /\ ~(i <= Len(u)) /\ j + (i - Len(u)) = i + 1
          /\ i \in 1..(Len(u) + Len(v))
      BY <1>0, <1>1, <1>2, <2>2
    <3>2. v[i - Len(u)] = t[i + 1]
      BY <1>2, <3>1
    <3> QED
      BY <1>3, <2>2, <3>1, <3>2
  <2> QED
    BY <2>1, <2>2
<1>5. Len(u \o v) = Len(t) - 1
  BY <1>0, <1>1, <1>2, <1>3
<1> QED
  BY <1>3, <1>4, <1>5 DEF DeletedAt, u, v

-----------------------------------------------------------------------------
(* Each operation, on the pointers and on the lists they stand for.         *)
LEMMA LinkedNext ==
  ASSUME NEW z, Linkage(mem', z), \A q \in Queues : QueueIs(q, z[q])'
  PROVE  Linked(z)'
BY DEF Linked, Linkage

(* What the fields of a queue say of its list: its length, its first item,  *)
(* and through that item its last and its second.                           *)
LEMMA QueueFacts ==
  ASSUME ListTypeOK, NEW s, Linked(s), NEW q \in Queues
  PROVE  /\ q \in Containers /\ Base(q) = 1 /\ s[q] \in Seq(Items) /\ Len(s[q]) \in Nat
         /\ queue_len[q] = Len(s[q])
         /\ Len(s[q]) # 0 => front[q] = s[q][1]
                             /\ mem.prev[front[q]] = s[q][Len(s[q])]
                             /\ mem.next[front[q]] = s[q][IF Len(s[q]) = 1 THEN 1 ELSE 2]
<1> DEFINE t == s[q]
<1>1. q \in Containers /\ Base(q) = 1 /\ QueueIs(q, t)
  BY Kinds DEF Containers, Linked
<1>2. t \in Seq(Items) /\ Len(t) \in Nat /\ Ring(mem, q, t)
  BY <1>1, LinkedFacts
<1>3. queue_len[q] = Len(t) /\ (Len(t) # 0 => front[q] = t[1])
  BY <1>1 DEF QueueIs
<1> HIDE DEF t
<1>4. ASSUME Len(t) # 0 PROVE mem.prev[t[1]] = t[Len(t)] /\ mem.next[t[1]] = t[IF Len(t) = 1 THEN 1 ELSE 2]
  <2>1. Len(t) \in Base(q)..Len(t) /\ 1 \in Base(q)..Len(t)
    BY <1>1, <1>2, <1>4
  <2>2. After(q, t, Len(t)) = 1 /\ After(q, t, 1) = IF Len(t) = 1 THEN 1 ELSE 2
    BY <1>1 DEF After
  <2>3. \A i \in 1..Len(t) : Node(q, t, i) = t[i]
    BY DEF Node
  <2> QED
    BY <1>1, <1>2, <1>4, <2>1, <2>2, <2>3 DEF Ring
<1> QED
  BY <1>1, <1>2, <1>3, <1>4 DEF t

(* A queue of which n becomes the last item or the first.                   *)
LEMMA QueueInsert ==
  ASSUME ListTypeOK, NEW s, Linked(s), NEW q \in Queues, NEW n \in Items, Unlinked(n), insert(q, n),
         NEW j \in {1, Len(s[q]) + 1}, NEW u, InsertedAt(s[q], u, j, n)
  PROVE  Linkage(mem', [s EXCEPT ![q] = u]) /\ Nowhere(s, n)
<1> DEFINE t == s[q]
<1>1. q \in Containers /\ Base(q) = 1 /\ t \in Seq(Items) /\ Len(t) \in Nat /\ queue_len[q] = Len(t)
  BY QueueFacts
<1>2. Nowhere(s, n)
  BY UnlinkedIs
<1>3. CASE Len(t) = 0
  <2>1. mem' = list_init(mem, n)
    BY <1>1, <1>3 DEF insert, queue_empty
  <2>2. j = 1
    BY <1>3
  <2> QED
    BY <1>2, <1>3, <2>1, <2>2, FirstStep
<1>4. CASE Len(t) # 0
  <2>1. front[q] = t[1] /\ mem.prev[front[q]] = t[Len(t)]
    BY <1>4, QueueFacts
  <2>2. mem' = link(mem, n, t[Len(t)], t[1])
    BY <1>1, <1>4, <2>1 DEF insert, queue_empty
  <2>3. /\ Left(q, t, j) = Len(t) /\ Right(q, t, j) = 1
        /\ Base(q) <= Len(t) /\ j \in 1..(Len(t) + 1)
    <3> HIDE DEF t
    <3>1. j \in {1, Len(t) + 1}
      BY DEF t
    <3> QED
      BY <1>1, <1>4, <3>1 DEF Left, Right
  <2>4. Node(q, t, Len(t)) = t[Len(t)] /\ Node(q, t, 1) = t[1]
    BY <1>4 DEF Node
  <2>5. Linkage(link(mem, n, Node(q, t, Left(q, t, j)), Node(q, t, Right(q, t, j))),
                [s EXCEPT ![q] = u])
    BY <1>1, <1>2, <2>3, InsertStep
  <2> QED
    BY <1>2, <2>2, <2>3, <2>4, <2>5
<1> QED
  BY <1>3, <1>4

(* queue_in() appends its item.                                             *)
LEMMA QueueInStep ==
  ASSUME ListTypeOK, NEW s, Linked(s), NEW q \in Queues, NEW n \in Items, queue_in(q, n)
  PROVE  /\ ListTypeOK' /\ Linked([s EXCEPT ![q] = Append(s[q], n)])' /\ Nowhere(s, n)
<1> DEFINE t == s[q]
           u == Append(t, n)
           z == [s EXCEPT ![q] = u]
<1>1. q \in Containers /\ t \in Seq(Items) /\ Len(t) \in Nat /\ queue_len[q] = Len(t)
      /\ (Len(t) # 0 => front[q] = t[1])
  BY QueueFacts
<1>2. InsertedAt(t, u, Len(t) + 1, n)
  BY <1>1, AppendInserts
<1> HIDE DEF u
<1>3. Linkage(mem', z) /\ Nowhere(s, n)
  BY <1>2, QueueInsert DEF queue_in
<1>4. z[q] = u /\ \A p \in Queues : p # q => z[p] = s[p]
  BY <1>1 DEF Linked, Containers
<1> HIDE DEF z, t
<1>5. Len(u) = Len(t) + 1 /\ u[1] = IF Len(t) = 0 THEN n ELSE t[1]
  BY <1>1, <1>2 DEF InsertedAt
<1>6. /\ queue_len' = [queue_len EXCEPT ![q] = Len(t) + 1]
      /\ front' = IF Len(t) = 0 THEN [front EXCEPT ![q] = n] ELSE front
  BY <1>1 DEF queue_in, queue_empty
<1>7. front \in [Queues -> Items \union {NULL}] /\ queue_len \in [Queues -> Nat]
  BY DEF ListTypeOK
<1>8. ListTypeOK'
  BY <1>1, <1>3, <1>6, <1>7 DEF ListTypeOK, Linkage
<1>9. ASSUME NEW p \in Queues PROVE QueueIs(p, z[p])'
  <2>1. CASE p = q
    BY <1>1, <1>4, <1>5, <1>6, <1>7, <2>1 DEF QueueIs
  <2>2. CASE p # q
    <3>1. QueueIs(p, s[p])
      BY DEF Linked
    <3> QED
      BY <1>4, <1>6, <1>7, <2>2, <3>1 DEF QueueIs
  <2> QED
    BY <2>1, <2>2
<1>10. Linked(z)'
  BY <1>3, <1>9, LinkedNext
<1> QED
  BY <1>3, <1>8, <1>10 DEF z, u, t

(* queue_push() puts its item in front.                                     *)
LEMMA QueuePushStep ==
  ASSUME ListTypeOK, NEW s, Linked(s), NEW q \in Queues, NEW n \in Items, queue_push(q, n)
  PROVE  /\ ListTypeOK' /\ Linked([s EXCEPT ![q] = <<n>> \o s[q]])' /\ Nowhere(s, n)
<1> DEFINE t == s[q]
           u == <<n>> \o t
           z == [s EXCEPT ![q] = u]
<1>1. q \in Containers /\ t \in Seq(Items) /\ Len(t) \in Nat /\ queue_len[q] = Len(t)
  BY QueueFacts
<1>2. InsertedAt(t, u, 1, n)
  BY <1>1, PushInserts
<1> HIDE DEF u
<1>3. Linkage(mem', z) /\ Nowhere(s, n)
  BY <1>2, QueueInsert DEF queue_push
<1>4. z[q] = u /\ \A p \in Queues : p # q => z[p] = s[p]
  BY <1>1 DEF Linked, Containers
<1> HIDE DEF z, t
<1>5. Len(u) = Len(t) + 1 /\ u[1] = n
  BY <1>1, <1>2 DEF InsertedAt
<1>6. /\ queue_len' = [queue_len EXCEPT ![q] = Len(t) + 1]
      /\ front' = [front EXCEPT ![q] = n]
  BY <1>1 DEF queue_push
<1>7. front \in [Queues -> Items \union {NULL}] /\ queue_len \in [Queues -> Nat]
  BY DEF ListTypeOK
<1>8. ListTypeOK'
  BY <1>1, <1>3, <1>6, <1>7 DEF ListTypeOK, Linkage
<1>9. ASSUME NEW p \in Queues PROVE QueueIs(p, z[p])'
  <2>1. CASE p = q
    BY <1>1, <1>4, <1>5, <1>6, <1>7, <2>1 DEF QueueIs
  <2>2. CASE p # q
    <3>1. QueueIs(p, s[p])
      BY DEF Linked
    <3> QED
      BY <1>4, <1>6, <1>7, <2>2, <3>1 DEF QueueIs
  <2> QED
    BY <2>1, <2>2
<1>10. Linked(z)'
  BY <1>3, <1>9, LinkedNext
<1> QED
  BY <1>3, <1>8, <1>10 DEF z, u, t

(* queue_out() takes out the first item; the last one leaves a front of     *)
(* NULL.                                                                    *)
LEMMA QueueOutStep ==
  ASSUME ListTypeOK, NEW s, Linked(s), NEW q \in Queues, queue_out(q)
  PROVE  /\ ListTypeOK' /\ Linked([s EXCEPT ![q] = Tail(s[q])])' /\ s[q] # <<>>
<1> DEFINE t == s[q]
           u == Tail(t)
           z == [s EXCEPT ![q] = u]
<1>1. q \in Containers /\ t \in Seq(Items) /\ Len(t) \in Nat /\ queue_len[q] = Len(t) /\ Len(t) # 0
      /\ front[q] = t[1] /\ mem.next[front[q]] = t[IF Len(t) = 1 THEN 1 ELSE 2]
  BY QueueFacts DEF queue_out, queue_empty
<1>2. t # <<>> /\ 1 \in 1..Len(t)
  BY <1>1
<1>3. DeletedAt(t, u, 1)
  BY <1>1, <1>2, TailDeletes
<1> HIDE DEF u
<1>4. Unlinks(mem', mem, t[1], NULL)
  BY <1>1 DEF queue_out, list_del, Unlinks
<1>5. Linkage(mem', z)
  <2>1. NULL \in {NULL, t[1]}
    OBVIOUS
  <2> QED
    BY <1>1, <1>2, <1>3, <1>4, <2>1, DeleteStep
<1>6. z[q] = u /\ \A p \in Queues : p # q => z[p] = s[p]
  BY <1>1 DEF Linked, Containers
<1> HIDE DEF z, t
<1>7. Len(u) = Len(t) - 1 /\ (Len(t) > 1 => u[1] = t[2] /\ t[2] \in Items)
  BY <1>1, <1>3 DEF DeletedAt
<1>8. /\ queue_len' = [queue_len EXCEPT ![q] = Len(t) - 1]
      /\ front' = [front EXCEPT ![q] = IF Len(t) = 1 THEN NULL ELSE t[2]]
  BY <1>1 DEF queue_out
<1>9. front \in [Queues -> Items \union {NULL}] /\ queue_len \in [Queues -> Nat]
  BY DEF ListTypeOK
<1>10. ListTypeOK'
  <2>1. Len(t) - 1 \in Nat /\ (IF Len(t) = 1 THEN NULL ELSE t[2]) \in Items \union {NULL}
    BY <1>1, <1>7
  <2> QED
    BY <1>5, <1>8, <1>9, <2>1 DEF ListTypeOK, Linkage
<1>11. ASSUME NEW p \in Queues PROVE QueueIs(p, z[p])'
  <2>1. CASE p = q
    BY <1>1, <1>6, <1>7, <1>8, <1>9, <2>1 DEF QueueIs
  <2>2. CASE p # q
    <3>1. QueueIs(p, s[p])
      BY DEF Linked
    <3> QED
      BY <1>6, <1>8, <1>9, <2>2, <3>1 DEF QueueIs
  <2> QED
    BY <2>1, <2>2
<1>12. Linked(z)'
  BY <1>5, <1>11, LinkedNext
<1> QED
  BY <1>2, <1>10, <1>12 DEF z, u, t

(* What the head of a list says of it: its first item, its last, and        *)
(* whether it is empty.                                                     *)
LEMMA ListFacts ==
  ASSUME ListTypeOK, NEW s, Linked(s), NEW c \in Heads
  PROVE  /\ c \in Containers /\ Base(c) = 0 /\ s[c] \in Seq(Items) /\ Len(s[c]) \in Nat
         /\ mem.next[c] = Node(c, s[c], IF Len(s[c]) = 0 THEN 0 ELSE 1)
         /\ mem.prev[c] = Node(c, s[c], Len(s[c]))
         /\ list_empty(c) <=> Len(s[c]) = 0
<1> DEFINE t == s[c]
<1>1. c \in Containers /\ Base(c) = 0 /\ c \notin Items
  BY Kinds DEF Containers
<1>2. t \in Seq(Items) /\ Len(t) \in Nat /\ Ring(mem, c, t)
  BY <1>1, LinkedFacts
<1> HIDE DEF t
<1>3. Len(t) \in Base(c)..Len(t) /\ 0 \in Base(c)..Len(t)
  BY <1>1, <1>2
<1>4. After(c, t, Len(t)) = 0 /\ After(c, t, 0) = IF Len(t) = 0 THEN 0 ELSE 1
  BY <1>1, <1>2 DEF After
<1>5. Node(c, t, 0) = c
  BY DEF Node
<1>6. mem.next[c] = Node(c, t, IF Len(t) = 0 THEN 0 ELSE 1) /\ mem.prev[c] = Node(c, t, Len(t))
  BY <1>2, <1>3, <1>4, <1>5 DEF Ring
<1>7. Len(t) # 0 => Node(c, t, 1) \in Items
  BY <1>2 DEF Node
<1>8. list_empty(c) <=> Len(t) = 0
  BY <1>1, <1>5, <1>6, <1>7 DEF list_empty
<1> QED
  BY <1>1, <1>2, <1>6, <1>8 DEF t

(* An operation on list c leaves the queues as they were.                   *)
LEMMA QueuesKeep ==
  ASSUME ListTypeOK, NEW s, Linked(s), NEW c \in Heads, NEW u, Linkage(mem', [s EXCEPT ![c] = u]),
         UNCHANGED <<front, queue_len>>
  PROVE  ListTypeOK' /\ Linked([s EXCEPT ![c] = u])'
<1> DEFINE z == [s EXCEPT ![c] = u]
<1>1. \A q \in Queues : z[q] = s[q]
  BY DisjointAssumption DEF Linked, Containers
<1> HIDE DEF z
<1>2. ASSUME NEW q \in Queues PROVE QueueIs(q, z[q])'
  <2>1. QueueIs(q, s[q])
    BY DEF Linked
  <2> QED
    BY <1>1, <2>1 DEF QueueIs
<1>3. Linkage(mem', z)
  BY DEF z
<1>4. Linked(z)'
  BY <1>2, <1>3, LinkedNext
<1>5. ListTypeOK'
  BY <1>3 DEF ListTypeOK, Linkage
<1> QED
  BY <1>4, <1>5 DEF z

(* list_add() puts its item first.                                          *)
LEMMA ListAddStep ==
  ASSUME ListTypeOK, NEW s, Linked(s), NEW c \in Heads, NEW n \in Items, list_add(c, n)
  PROVE  /\ ListTypeOK' /\ Linked([s EXCEPT ![c] = <<n>> \o s[c]])' /\ Nowhere(s, n)
<1> DEFINE t == s[c]
           u == <<n>> \o t
<1>1. c \in Containers /\ Base(c) = 0 /\ t \in Seq(Items) /\ Len(t) \in Nat
      /\ mem.next[c] = Node(c, t, IF Len(t) = 0 THEN 0 ELSE 1)
  BY ListFacts
<1>2. InsertedAt(t, u, 1, n)
  BY <1>1, PushInserts
<1> HIDE DEF u
<1>3. Nowhere(s, n)
  BY UnlinkedIs DEF list_add
<1>4. /\ Left(c, t, 1) = 0 /\ Right(c, t, 1) = IF Len(t) = 0 THEN 0 ELSE 1
      /\ Base(c) <= Len(t) /\ 1 \in 1..(Len(t) + 1)
  <2> HIDE DEF t
  <2> QED
    BY <1>1 DEF Left, Right
<1>5. mem' = link(mem, n, Node(c, t, Left(c, t, 1)), Node(c, t, Right(c, t, 1)))
  <2>1. Node(c, t, 0) = c
    BY DEF Node
  <2>2. mem' = link(mem, n, c, mem.next[c])
    BY DEF list_add
  <2> QED
    BY <1>1, <1>4, <2>1, <2>2
<1>6. Linkage(mem', [s EXCEPT ![c] = u])
  BY <1>1, <1>2, <1>3, <1>4, <1>5, InsertStep
<1>7. ListTypeOK' /\ Linked([s EXCEPT ![c] = u])'
  BY <1>6, QueuesKeep DEF list_add
<1> QED
  BY <1>3, <1>7 DEF u, t

(* list_add_prev() puts its item last.                                      *)
LEMMA ListAddPrevStep ==
  ASSUME ListTypeOK, NEW s, Linked(s), NEW c \in Heads, NEW n \in Items, list_add_prev(c, n)
  PROVE  /\ ListTypeOK' /\ Linked([s EXCEPT ![c] = Append(s[c], n)])' /\ Nowhere(s, n)
<1> DEFINE t == s[c]
           u == Append(t, n)
           j == Len(t) + 1
<1>1. c \in Containers /\ Base(c) = 0 /\ t \in Seq(Items) /\ Len(t) \in Nat
      /\ mem.prev[c] = Node(c, t, Len(t))
  BY ListFacts
<1>2. InsertedAt(t, u, j, n)
  BY <1>1, AppendInserts
<1> HIDE DEF u
<1>3. Nowhere(s, n)
  BY UnlinkedIs DEF list_add_prev
<1>4. /\ Left(c, t, j) = Len(t) /\ Right(c, t, j) = 0
      /\ Base(c) <= Len(t) /\ j \in 1..(Len(t) + 1)
  <2> HIDE DEF t
  <2> QED
    BY <1>1 DEF Left, Right
<1> HIDE DEF j
<1>5. mem' = link(mem, n, Node(c, t, Left(c, t, j)), Node(c, t, Right(c, t, j)))
  <2>1. Node(c, t, 0) = c
    BY DEF Node
  <2>2. mem' = link(mem, n, mem.prev[c], c)
    BY DEF list_add_prev
  <2> QED
    BY <1>1, <1>4, <2>1, <2>2
<1>6. Linkage(mem', [s EXCEPT ![c] = u])
  BY <1>1, <1>2, <1>3, <1>4, <1>5, InsertStep
<1>7. ListTypeOK' /\ Linked([s EXCEPT ![c] = u])'
  BY <1>6, QueuesKeep DEF list_add_prev
<1> QED
  BY <1>3, <1>7 DEF u, t

(* list_pop() takes out the first item.                                     *)
LEMMA ListPopStep ==
  ASSUME ListTypeOK, NEW s, Linked(s), NEW c \in Heads, list_pop(c)
  PROVE  /\ ListTypeOK' /\ Linked([s EXCEPT ![c] = Tail(s[c])])' /\ s[c] # <<>>
<1> DEFINE t == s[c]
           u == Tail(t)
<1>1. c \in Containers /\ t \in Seq(Items) /\ Len(t) \in Nat /\ Len(t) # 0
      /\ mem.next[c] = Node(c, t, 1)
  BY ListFacts DEF list_pop
<1>2. t # <<>> /\ 1 \in 1..Len(t) /\ Node(c, t, 1) = t[1]
  BY <1>1 DEF Node
<1>3. DeletedAt(t, u, 1)
  BY <1>1, <1>2, TailDeletes
<1> HIDE DEF u
<1>4. Unlinks(mem', mem, t[1], NULL)
  BY <1>1, <1>2 DEF list_pop, list_del, Unlinks
<1>5. Linkage(mem', [s EXCEPT ![c] = u])
  <2>1. NULL \in {NULL, t[1]}
    OBVIOUS
  <2> QED
    BY <1>1, <1>2, <1>3, <1>4, <2>1, DeleteStep
<1>6. ListTypeOK' /\ Linked([s EXCEPT ![c] = u])'
  BY <1>5, QueuesKeep DEF list_pop
<1> QED
  BY <1>2, <1>6 DEF u, t

(* list_del_safe() takes out its item, from wherever it is.                 *)
LEMMA ListDelStep ==
  ASSUME ListTypeOK, NEW s, Linked(s), NEW c \in Heads, NEW n \in Items, list_del_safe(c, n)
  PROVE  /\ ListTypeOK'
         /\ \E j \in 1..Len(s[c]) :
              /\ s[c][j] = n
              /\ Linked([s EXCEPT ![c] = SubSeq(s[c], 1, j - 1) \o SubSeq(s[c], j + 1, Len(s[c]))])'
<1> DEFINE t == s[c]
<1>1. c \in Containers /\ t \in Seq(Items) /\ Len(t) \in Nat
  BY ListFacts
<1>2. PICK j \in 1..Len(t) : t[j] = n
  BY <1>1, WithinIs DEF list_del_safe, Elems
<1> DEFINE u == SubSeq(t, 1, j - 1) \o SubSeq(t, j + 1, Len(t))
<1>3. DeletedAt(t, u, j)
  BY <1>1, RemoveDeletes
<1> HIDE DEF u
<1>4. Unlinks(mem', mem, t[j], t[j])
  BY <1>2 DEF list_del_safe, list_init, Unlinks
<1>5. Linkage(mem', [s EXCEPT ![c] = u])
  <2>1. t[j] \in {NULL, t[j]}
    OBVIOUS
  <2> QED
    BY <1>1, <1>3, <1>4, <2>1, DeleteStep
<1>6. ListTypeOK' /\ Linked([s EXCEPT ![c] = u])'
  BY <1>5, QueuesKeep DEF list_del_safe
<1> QED
  BY <1>2, <1>6 DEF u, t

-----------------------------------------------------------------------------
(* The invariant holds at boot and every operation keeps it.                *)
LEMMA InitInv == ListInit => IInv
<1> SUFFICES ASSUME ListInit PROVE IInv
  OBVIOUS
<1> DEFINE s == [c \in Containers |-> <<>>]
           at == [n \in Nodes |-> IF n \in Heads THEN n ELSE NULL]
<1>1. mem = [next |-> at, prev |-> at]
  BY DEF ListInit
<1>2. ListTypeOK
  <2>1. at \in [Nodes -> Nodes \union {NULL}]
    BY DEF Nodes
  <2> HIDE DEF at
  <2>2. mem \in Fields
    BY <1>1, <2>1 DEF Fields
  <2> QED
    BY <2>2 DEF ListInit, ListTypeOK
<1>3. \A c \in Containers : s[c] = <<>> /\ Len(s[c]) = 0
  OBVIOUS
<1>4. s \in [Containers -> Seq(Items)]
  OBVIOUS
<1>5. ASSUME NEW c \in Containers PROVE Ring(mem, c, s[c])
  <2> SUFFICES ASSUME NEW i \in Base(c)..0
               PROVE  /\ mem.next[Node(c, <<>>, i)] = Node(c, <<>>, After(c, <<>>, i))
                      /\ mem.prev[Node(c, <<>>, After(c, <<>>, i))] = Node(c, <<>>, i)
    BY <1>3 DEF Ring
  <2>1. Base(c) = 0 /\ i = 0 /\ c \in Heads
    BY Kinds
  <2>2. After(c, <<>>, i) = 0 /\ Node(c, <<>>, 0) = c
    BY <2>1 DEF After, Node
  <2>3. mem.next[c] = c /\ mem.prev[c] = c
    BY <1>1, <2>1 DEF Nodes
  <2> QED
    BY <2>1, <2>2, <2>3
<1>6. ASSUME NEW q \in Queues PROVE QueueIs(q, s[q])
  BY <1>3 DEF ListInit, QueueIs, Containers
<1>7. Once(s)
  BY <1>3 DEF Once
<1> HIDE DEF s
<1>8. Linked(s)
  BY <1>4, <1>5, <1>6, <1>7 DEF Linked
<1> QED
  BY <1>2, <1>8 DEF IInv

(* Nothing but the three variables matters to the invariant.                *)
LEMMA StillInv == IInv /\ UNCHANGED listVars => IInv'
BY DEF IInv, listVars, ListTypeOK, Linked, QueueIs

(* Every operation keeps the invariant.                                     *)
LEMMA StepInv == IInv /\ [ListNext]_listVars => IInv'
<1> SUFFICES ASSUME IInv, [ListNext]_listVars PROVE IInv'
  OBVIOUS
<1>1. PICK s : Linked(s)
  BY DEF IInv
<1>2. ListTypeOK
  BY DEF IInv
<1>3. ASSUME ListTypeOK', NEW z, Linked(z)' PROVE IInv'
  BY <1>3 DEF IInv
<1>4. ASSUME NEW q \in Queues, NEW n \in Items, queue_in(q, n) PROVE IInv'
  BY <1>1, <1>2, <1>3, <1>4, QueueInStep
<1>5. ASSUME NEW q \in Queues, NEW n \in Items, queue_push(q, n) PROVE IInv'
  BY <1>1, <1>2, <1>3, <1>5, QueuePushStep
<1>6. ASSUME NEW q \in Queues, queue_out(q) PROVE IInv'
  BY <1>1, <1>2, <1>3, <1>6, QueueOutStep
<1>7. ASSUME NEW h \in Heads, NEW n \in Items, list_add(h, n) PROVE IInv'
  BY <1>1, <1>2, <1>3, <1>7, ListAddStep
<1>8. ASSUME NEW h \in Heads, NEW n \in Items, list_add_prev(h, n) PROVE IInv'
  BY <1>1, <1>2, <1>3, <1>8, ListAddPrevStep
<1>9. ASSUME NEW h \in Heads, list_pop(h) PROVE IInv'
  BY <1>1, <1>2, <1>3, <1>9, ListPopStep
<1>10. ASSUME NEW h \in Heads, NEW n \in Items, list_del_safe(h, n) PROVE IInv'
  BY <1>1, <1>2, <1>3, <1>10, ListDelStep
<1>11. CASE UNCHANGED listVars
  BY <1>11, StillInv
<1> QED
  BY <1>4, <1>5, <1>6, <1>7, <1>8, <1>9, <1>10, <1>11 DEF ListNext

(* Whatever the operations of list.c and their order, the pointers stand    *)
(* for lists of items: every container is a closed ring, no item is on two  *)
(* of them or twice on one, and front and queue_len of every queue are      *)
(* right.                                                                   *)
THEOREM ListInvariant == ListSpec => []IInv
BY InitInv, StepInv, PTL DEF ListSpec

(* The rings of list.c stay closed and prev inverts next on them, for any   *)
(* number of items, queues and lists and after any sequence of operations.  *)
THEOREM WellLinkedHolds == ListSpec => []WellLinked
BY ListInvariant, InvWellLinked, PTL

(* list_find_item() sees every item of a queue but the last, for queues of  *)
(* any length, the only item of a queue of one included: what Thread and    *)
(* Sync take it to do is what it does.                                      *)
THEOREM FindMissesLastHolds == ListSpec => []FindMissesLast
BY ListInvariant, InvFindMissesLast, PTL

-----------------------------------------------------------------------------
(* What an operation does to the lists that the pointers stand for.         *)
LEMMA ReadsAs ==
  ASSUME ListTypeOK', NEW z, Linked(z)'
  PROVE  Contents' = z
<1>1. (\A s : ListTypeOK /\ Linked(s) => Contents = s)'
  BY ContentsAre, PTL
<1> QED
  BY <1>1

(* An item that is in no list is free in the abstract specification.        *)
LEMMA FreeIs ==
  ASSUME ListTypeOK, NEW s, Linked(s), NEW n, Nowhere(s, n)
  PROVE  D!Free(n)
<1>1. Contents = s
  BY ContentsAre
<1> SUFFICES ASSUME NEW c \in Containers, n \in D!Range(s[c]) PROVE FALSE
  BY <1>1 DEF D!Free, Containers
<1>2. s[c] \in Seq(Items)
  BY LinkedFacts
<1>3. PICK i \in DOMAIN s[c] : s[c][i] = n
  BY DEF D!Range
<1>4. i \in 1..Len(s[c])
  BY <1>2, <1>3
<1> QED
  BY <1>3, <1>4 DEF Nowhere

(* queue_in() implements an insertion at the back.                          *)
LEMMA QueueInPushes ==
  ASSUME IInv, NEW q \in Queues, NEW n \in Items, queue_in(q, n)
  PROVE  D!PushBack(q, n)
<1>1. PICK s : ListTypeOK /\ Linked(s)
  BY DEF IInv
<1>2. ListTypeOK' /\ Linked([s EXCEPT ![q] = Append(s[q], n)])' /\ Nowhere(s, n)
  BY <1>1, QueueInStep
<1>3. Contents = s /\ Contents' = [s EXCEPT ![q] = Append(s[q], n)] /\ D!Free(n)
  BY <1>1, <1>2, ContentsAre, ReadsAs, FreeIs
<1> QED
  BY <1>3 DEF D!PushBack

(* queue_push() implements an insertion at the front.                       *)
LEMMA QueuePushPushes ==
  ASSUME IInv, NEW q \in Queues, NEW n \in Items, queue_push(q, n)
  PROVE  D!PushFront(q, n)
<1>1. PICK s : ListTypeOK /\ Linked(s)
  BY DEF IInv
<1>2. ListTypeOK' /\ Linked([s EXCEPT ![q] = <<n>> \o s[q]])' /\ Nowhere(s, n)
  BY <1>1, QueuePushStep
<1>3. Contents = s /\ Contents' = [s EXCEPT ![q] = <<n>> \o s[q]] /\ D!Free(n)
  BY <1>1, <1>2, ContentsAre, ReadsAs, FreeIs
<1> QED
  BY <1>3 DEF D!PushFront

(* queue_out() implements taking the first item.                            *)
LEMMA QueueOutPops ==
  ASSUME IInv, NEW q \in Queues, queue_out(q)
  PROVE  D!PopFront(q)
<1>1. PICK s : ListTypeOK /\ Linked(s)
  BY DEF IInv
<1>2. ListTypeOK' /\ Linked([s EXCEPT ![q] = Tail(s[q])])' /\ s[q] # <<>>
  BY <1>1, QueueOutStep
<1>3. Contents = s /\ Contents' = [s EXCEPT ![q] = Tail(s[q])]
  BY <1>1, <1>2, ContentsAre, ReadsAs
<1> QED
  BY <1>2, <1>3 DEF D!PopFront

(* list_add() implements an insertion at the front.                         *)
LEMMA ListAddPushes ==
  ASSUME IInv, NEW h \in Heads, NEW n \in Items, list_add(h, n)
  PROVE  D!PushFront(h, n)
<1>1. PICK s : ListTypeOK /\ Linked(s)
  BY DEF IInv
<1>2. ListTypeOK' /\ Linked([s EXCEPT ![h] = <<n>> \o s[h]])' /\ Nowhere(s, n)
  BY <1>1, ListAddStep
<1>3. Contents = s /\ Contents' = [s EXCEPT ![h] = <<n>> \o s[h]] /\ D!Free(n)
  BY <1>1, <1>2, ContentsAre, ReadsAs, FreeIs
<1> QED
  BY <1>3 DEF D!PushFront

(* list_add_prev() implements an insertion at the back.                     *)
LEMMA ListAddPrevPushes ==
  ASSUME IInv, NEW h \in Heads, NEW n \in Items, list_add_prev(h, n)
  PROVE  D!PushBack(h, n)
<1>1. PICK s : ListTypeOK /\ Linked(s)
  BY DEF IInv
<1>2. ListTypeOK' /\ Linked([s EXCEPT ![h] = Append(s[h], n)])' /\ Nowhere(s, n)
  BY <1>1, ListAddPrevStep
<1>3. Contents = s /\ Contents' = [s EXCEPT ![h] = Append(s[h], n)] /\ D!Free(n)
  BY <1>1, <1>2, ContentsAre, ReadsAs, FreeIs
<1> QED
  BY <1>3 DEF D!PushBack

(* list_pop() implements taking the first item.                             *)
LEMMA ListPopPops ==
  ASSUME IInv, NEW h \in Heads, list_pop(h)
  PROVE  D!PopFront(h)
<1>1. PICK s : ListTypeOK /\ Linked(s)
  BY DEF IInv
<1>2. ListTypeOK' /\ Linked([s EXCEPT ![h] = Tail(s[h])])' /\ s[h] # <<>>
  BY <1>1, ListPopStep
<1>3. Contents = s /\ Contents' = [s EXCEPT ![h] = Tail(s[h])]
  BY <1>1, <1>2, ContentsAre, ReadsAs
<1> QED
  BY <1>2, <1>3 DEF D!PopFront

(* list_del_safe() implements deleting its item.                            *)
LEMMA ListDelDeletes ==
  ASSUME IInv, NEW h \in Heads, NEW n \in Items, list_del_safe(h, n)
  PROVE  D!Delete(h, n)
<1>1. PICK s : ListTypeOK /\ Linked(s)
  BY DEF IInv
<1>2. ListTypeOK'
  BY <1>1, ListDelStep
<1>3. PICK j \in 1..Len(s[h]) :
        /\ s[h][j] = n
        /\ Linked([s EXCEPT ![h] = SubSeq(s[h], 1, j - 1) \o SubSeq(s[h], j + 1, Len(s[h]))])'
  BY <1>1, ListDelStep
<1>4. /\ Contents = s
      /\ Contents' = [s EXCEPT ![h] = SubSeq(s[h], 1, j - 1) \o SubSeq(s[h], j + 1, Len(s[h]))]
  BY <1>1, <1>2, <1>3, ContentsAre, ReadsAs
<1> QED
  BY <1>3, <1>4 DEF D!Delete, D!RemoveAt

(* The pointer operations of list.c implement sequences: queue_in()         *)
(* appends, queue_push() and list_add() put in front, queue_out() and       *)
(* list_pop() take the first item and list_del_safe() takes out the one it  *)
(* names, and no operation touches another container, for any number of     *)
(* items, queues and lists.                                                 *)
THEOREM ListsActAsDeques == ListSpec => ActsAsDeque
<1> DEFINE Named ==
      /\ \A q \in Queues :
           /\ queue_out(q) => D!PopFront(q)
           /\ \A n \in Items : /\ queue_in(q, n) => D!PushBack(q, n)
                               /\ queue_push(q, n) => D!PushFront(q, n)
      /\ \A h \in Heads :
           /\ list_pop(h) => D!PopFront(h)
           /\ \A n \in Items : /\ list_add(h, n) => D!PushFront(h, n)
                               /\ list_add_prev(h, n) => D!PushBack(h, n)
                               /\ list_del_safe(h, n) => D!Delete(h, n)
<1>1. ListInit => D!Init
  <2> SUFFICES ASSUME ListInit PROVE Contents = [c \in Containers |-> <<>>]
    BY DEF D!Init, Containers
  <2>1. PICK s : ListTypeOK /\ Linked(s)
    BY InitInv DEF IInv
  <2>2. Contents = s /\ s \in [Containers -> Seq(Items)]
    BY <2>1, ContentsAre DEF Linked
  <2>3. ASSUME NEW c \in Containers PROVE s[c] = <<>>
    <3>1. s[c] \in Seq(Items)
      BY <2>2
    <3>2. CASE c \in Queues
      <4>1. Len(s[c]) = 0
        BY <2>1, <3>2 DEF Linked, QueueIs, ListInit
      <4> QED
        BY <3>1, <4>1
    <3>3. CASE c \in Heads
      <4>1. mem.next[c] = c
        BY <3>3 DEF ListInit, Nodes
      <4>2. Len(s[c]) = 0
        BY <2>1, <3>3, <4>1, ListFacts DEF list_empty
      <4> QED
        BY <3>1, <4>2
    <3> QED
      BY <3>2, <3>3 DEF Containers
  <2> QED
    BY <2>2, <2>3
<1>2. IInv => Named
  BY QueueOutPops, QueueInPushes, QueuePushPushes, ListPopPops, ListAddPushes,
     ListAddPrevPushes, ListDelDeletes
<1>3. Named /\ ListNext => D!Next
  <2> SUFFICES ASSUME Named, ListNext PROVE D!Next
    OBVIOUS
  <2>1. Items \subseteq Nodes
    BY DEF Nodes
  <2>2. ASSUME NEW q \in Queues, queue_out(q) \/ \E n \in Items : queue_in(q, n) \/ queue_push(q, n)
        PROVE  D!Next
    BY <2>1, <2>2 DEF D!Next
  <2>3. ASSUME NEW h \in Heads,
               \/ list_pop(h)
               \/ \E n \in Items : list_add(h, n) \/ list_add_prev(h, n) \/ list_del_safe(h, n)
        PROVE  D!Next
    BY <2>1, <2>3 DEF D!Next
  <2> QED
    BY <2>2, <2>3 DEF ListNext
<1> QED
  <2>1. IInv /\ [ListNext]_listVars => [D!Next /\ Named]_listVars
    BY <1>2, <1>3
  <2> QED
    BY <1>1, <2>1, ListInvariant, PTL DEF ListSpec, ActsAsDeque
=============================================================================
