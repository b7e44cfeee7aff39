------------------------------- MODULE MCIde -------------------------------
(* Small instances of Ide: main, cpu_idle and perhaps one more thread.      *)
EXTENDS Ide, TLC

CONSTANTS main, idle, a

TwoThreads == {main, idle}
ThreeThreads == {main, idle, a}

read(d, lba, n) == [kind |-> "read", disk |-> d, lba |-> lba, cnt |-> n]

(* With LOW = 8: reads of one chunk and of two, full and not, in the first  *)
(* and the second block of LOW sectors, and a write.                        *)
Calls == {read(0, 1, 1), read(1, 10, 3), [kind |-> "write", disk |-> 0, lba |-> 1, cnt |-> 1]}

(* A read of one chunk that leaves an interrupt behind.                     *)
Reads == {read(0, 1, 2)}

(* With LOW = 4: the second of two chunks of a read begins a block,         *)
(* and there is a write.                                                    *)
CrossingCalls == {read(0, 6, 4), [kind |-> "write", disk |-> 0, lba |-> 1, cnt |-> 1]}

(* The shortest slices: the clock can switch threads between any two steps. *)
Prio == [t \in Threads |-> 1]
=============================================================================
