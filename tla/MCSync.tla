------------------------------- MODULE MCSync -------------------------------
(* Small instances of Sync: main, cpu_idle and two more threads.            *)
EXTENDS Sync, TLC

CONSTANTS main, idle, a, b, l1, l2

FourThreads == {main, idle, a, b}

(* The shortest slices: the clock can switch threads between any two steps. *)
Prio == [t \in Threads |-> 1]

(* a and b are alike.                                                       *)
Alike == Permutations({a, b})
=============================================================================
