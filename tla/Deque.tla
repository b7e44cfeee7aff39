-------------------------------- MODULE Deque --------------------------------
(***************************************************************************)
(* What lib/kernel/list.c promises its users: queues and lists that are    *)
(* sequences of items.  The other modules use these sequences.             *)
(***************************************************************************)
EXTENDS SequencesExt

CONSTANTS Nodes, Containers

VARIABLE items   \* the items of each queue or list, front first

Init == items = [c \in Containers |-> <<>>]

Free(n) == \A c \in Containers : n \notin Range(items[c])

PushBack(c, n) == Free(n) /\ items' = [items EXCEPT ![c] = Append(@, n)]

PushFront(c, n) == Free(n) /\ items' = [items EXCEPT ![c] = <<n>> \o @]

PopFront(c) == items[c] # <<>> /\ items' = [items EXCEPT ![c] = Tail(@)]

Delete(c, n) ==
  \E i \in 1..Len(items[c]) :
    items[c][i] = n /\ items' = [items EXCEPT ![c] = RemoveAt(@, i)]

Next == \E c \in Containers :
          \/ PopFront(c)
          \/ \E n \in Nodes : PushBack(c, n) \/ PushFront(c, n) \/ Delete(c, n)

Spec == Init /\ [][Next]_items
=============================================================================
