------------------------------ MODULE MCConsole ------------------------------
(* Small instances of Console: main, cpu_idle and one more thread.          *)
EXTENDS Console, TLC

CONSTANTS main, idle, a, lock

ThreeThreads == {main, idle, a}
Prio == [t \in Threads |-> 0]

Text == {<<"b", "c">>}
IdleText == <<"n">>
=============================================================================
