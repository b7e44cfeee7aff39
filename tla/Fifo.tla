-------------------------------- MODULE Fifo --------------------------------
(***************************************************************************)
(* What the I/O queue of device/ioqueue.c promises: a bounded first-in     *)
(* first-out buffer of characters.                                         *)
(***************************************************************************)
EXTENDS Naturals, Sequences

CONSTANTS Chars, Capacity

VARIABLE contents

Init == contents = <<>>

Put(c) == Len(contents) < Capacity /\ contents' = Append(contents, c)

Get == contents # <<>> /\ contents' = Tail(contents)

Next == (\E c \in Chars : Put(c)) \/ Get

Spec == Init /\ [][Next]_contents
=============================================================================
