------------------------------ MODULE MCIOQueue ------------------------------
(* Small instances of IOQueue: three slots, hence room for two characters.  *)
EXTENDS IOQueue, TLC

CONSTANTS main, idle, a, b, lock

ThreeThreads == {main, idle, a}
FourThreads == {main, idle, a, b}
Prio == [t \in Threads |-> 1]
=============================================================================
