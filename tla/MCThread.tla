------------------------------ MODULE MCThread ------------------------------
(* Small instances of Thread: main, cpu_idle and thread A.                  *)
EXTENDS Thread, TLC

CONSTANTS main, idle, a

ThreeThreads == {main, idle, a}

(* main.c and thread.c start main and cpu_idle with 1 and thread A with 2.  *)
Prio == [t \in Threads |-> IF t = a THEN 2 ELSE 1]
=============================================================================
