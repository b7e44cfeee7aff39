------------------------------ MODULE Library ------------------------------
(***************************************************************************)
(* What the search of a bitmap and a sleep should compute, for any input.  *)
(* These two algorithms use no RECURSIVE operator, so that what is said of *)
(* them here can be proved as well as checked.                             *)
(***************************************************************************)
EXTENDS Bitmap, Timer

CONSTANT BITS   \* the bits of a bitmap

ASSUME BitsAssumption == BITS \in Nat \ {0}

VARIABLE input   \* what the algorithm is called with

-----------------------------------------------------------------------------
(* Where a first fit search finds n free bits.                               *)
FirstFit(map, n) ==
  LET fits == {b \in 0..(BITS - n) : (b..(b + n - 1)) \intersect map = {}}
  IN  IF fits = {} THEN NONE ELSE Least(fits)

(* bitmap_apply() as it is documented: the index of the first run of n free  *)
(* bits, or -1 where there is none.  The code does not keep to it: its test  *)
(* of the room behind __base_idx is off by one, and where no run is left it  *)
(* may fail an ASSERT of find_next_bit() or go round for ever.               *)
ApplyIsFirstFit ==
  input.kind = "map" =>
    \A n \in 1..BITS : bitmap_apply(input.map, BITS, n) = FirstFit(input.map, n)

(* Whatever bitmap_apply() hands out is the lowest run of n free bits, and a *)
(* run that leaves the last bit alone is always found: the stride of the two *)
(* cursors skips none.                                                       *)
ApplyGivesLowest ==
  input.kind = "map" =>
    \A n \in 1..BITS :
      LET p == bitmap_apply(input.map, BITS, n)
          fit == FirstFit(input.map, n)
      IN  p >= 0 \/ (fit >= 0 /\ fit + n < BITS) => p = fit

(* It loops for ever only when the last bit is in use.  bitmap_apply() never *)
(* hands that bit out, so the bitmaps of the memory pools do not meet it.    *)
SpinsOnlyWhenLastUsed ==
  input.kind = "map" =>
    \A n \in 1..BITS : bitmap_apply(input.map, BITS, n) = SPIN => BITS - 1 \in input.map

-----------------------------------------------------------------------------
(* mil_sleep(): the wrong divisor and the factor of 100 make up for each     *)
(* other.  A sleep whose ticks fit a word lasts as long as asked and at most *)
(* 1.3 times as long; one that wraps is too short or fails the ASSERT.  In   *)
(* either case the loop of ticks_to_sleep() counts right although the tick   *)
(* counter wraps.                                                            *)
SleepLasts ==
  input.kind = "sleep" =>
    LET ms == input.ms
        n == sleep_ticks(ms)
        fits == ms * 100 + millisecond_per_intr <= WORD
    IN  /\ ms > 0 /\ fits => /\ n > 0
                             /\ n * Pulses * 1000 >= ms * INPUT_FREQUENCY
                             /\ n * Pulses * 1000 <= 13 * ms * (INPUT_FREQUENCY \div 10)
        /\ ~fits => n * Pulses * 1000 < ms * INPUT_FREQUENCY
        /\ \A start \in {0, n, WORD - 1}, gone \in {0, n, n + 1} \union (IF n > 0 THEN {n - 1} ELSE {}) :
             sleeping((start + gone) % WORD, start, n) <=> gone < n
=============================================================================
