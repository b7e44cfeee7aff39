------------------------------- MODULE Bitmap -------------------------------
(***************************************************************************)
(* The bitmaps of lib/kernel/bitmap.c.  A bitmap is the set of its bits    *)
(* that are 1, out of 0..(bits - 1).  Where the code fails an ASSERT, and  *)
(* so stops the kernel, the result is STOP; where it loops for ever, SPIN. *)
(***************************************************************************)
EXTENDS Integers, FiniteSets

NONE == -1   \* what the functions return when they find nothing
STOP == -2
SPIN == -3

Least(S) == CHOOSE i \in S : \A j \in S : i <= j

bitmap_zero == {}

bitmap_set_bit(map, i, bit) == IF bit THEN map \union {i} ELSE map \ {i}

(* The loop runs over i, its body sets bit_idx.                             *)
bitmap_set_bits(map, bit_idx, nbits, bit) ==
  IF nbits = 0 THEN map ELSE bitmap_set_bit(map, bit_idx, bit)

test_bit(map, i) == i \in map

find_next_zero_bit_Short(map, bits, offset) ==
  LET zeroes == {i \in offset..(bits - 2) : ~test_bit(map, i)}
  IN  CASE offset >= bits -> STOP
        [] offset < bits /\ zeroes = {} -> NONE
        [] OTHER -> Least(zeroes)

find_next_zero_bit(map, bits, offset) ==
  LET zeroes == {i \in offset..(bits - 1) : ~test_bit(map, i)}
  IN  CASE offset >= bits -> STOP
        [] offset < bits /\ zeroes = {} -> NONE
        [] OTHER -> Least(zeroes)

find_next_bit_Exact(map, bits, offset, max_offset) ==
  LET ones == {i \in offset..(offset + max_offset - 2) : i < bits /\ test_bit(map, i)}
  IN  CASE offset >= bits -> STOP
        [] offset < bits /\ ones = {} -> NONE
        [] OTHER -> Least(ones)

(* It looks at max_offset bits, and at one bit at least.                    *)
find_next_bit(map, bits, offset, max_offset) ==
  LET width == IF max_offset = 0 THEN 1 ELSE max_offset
      ones == {i \in offset..(offset + width - 1) : i < bits /\ test_bit(map, i)}
  IN  CASE offset >= bits -> STOP
        [] offset < bits /\ ones = {} -> NONE
        [] OTHER -> Least(ones)

(* Is the free run at the end of the map, from base on, long enough?        *)
room(bits, base, nbits) == bits - 1 - base >= nbits

(* A round of bitmap_apply()'s loop, from bit base on: it returns, or goes   *)
(* on from the next zero bit.                                               *)
apply_round(map, bits, nbits, base) ==
  LET top == find_next_bit(map, bits, base + 1, nbits - 1)
      zero == find_next_zero_bit(map, bits, top + 1)
      return(i) == [done |-> TRUE, base |-> i]
  IN  CASE top = STOP -> return(STOP)
        [] top = NONE -> return(IF room(bits, base, nbits) THEN base ELSE NONE)
        [] top >= 0 /\ top - base >= nbits -> return(base)
        [] OTHER -> IF zero = STOP THEN return(STOP) ELSE [done |-> FALSE, base |-> zero]

(* When no zero bit is left after top, base is -1 and the loop goes round   *)
(* again: its state is base alone, so after bits + 1 rounds it repeats for   *)
(* ever.                                                                    *)
bitmap_apply(map, bits, nbits) ==
  LET first == find_next_zero_bit(map, bits, 0)
      loop[i \in 0..(bits + 1)] ==
        IF i = 0 THEN [done |-> FALSE, base |-> first]
        ELSE IF loop[i - 1].done THEN loop[i - 1]
        ELSE apply_round(map, bits, nbits, loop[i - 1].base)
      end == loop[bits + 1]
  IN  IF first = NONE THEN NONE ELSE IF end.done THEN end.base ELSE SPIN
=============================================================================
