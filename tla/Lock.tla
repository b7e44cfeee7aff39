-------------------------------- MODULE Lock --------------------------------
(***************************************************************************)
(* What the re-entrant locks of thread/sync.c promise: a lock is taken     *)
(* only when nobody has it, its owner may take it again, and it is free    *)
(* once the owner has released it as often as it took it.                  *)
(***************************************************************************)
EXTENDS Naturals

CONSTANTS Threads, Locks

VARIABLES owners,   \* the set of threads that have each lock
          depth     \* how often the owner has taken it

lockVars == <<owners, depth>>

Init == /\ owners = [l \in Locks |-> {}]
        /\ depth = [l \in Locks |-> 0]

Acquire(t, l) ==
  /\ owners[l] = {}
  /\ owners' = [owners EXCEPT ![l] = {t}]
  /\ depth' = [depth EXCEPT ![l] = 1]

Reacquire(t, l) ==
  /\ owners[l] = {t}
  /\ depth' = [depth EXCEPT ![l] = @ + 1]
  /\ UNCHANGED owners

Release(t, l) ==
  /\ owners[l] = {t}
  /\ depth' = [depth EXCEPT ![l] = @ - 1]
  /\ owners' = [owners EXCEPT ![l] = IF depth[l] = 1 THEN {} ELSE @]

Next == \E t \in Threads, l \in Locks :
          Acquire(t, l) \/ Reacquire(t, l) \/ Release(t, l)

Spec == Init /\ [][Next]_lockVars
=============================================================================
