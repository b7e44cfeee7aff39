------------------------------- MODULE Timer -------------------------------
(***************************************************************************)
(* The arithmetic of device/timer.c: what frequency_set() makes of the     *)
(* divisor of the 8253, and how many ticks mil_sleep() waits.              *)
(***************************************************************************)
EXTENDS Naturals

CONSTANTS WORD,              \* 2^32, where a uint32_t wraps
          BYTE,              \* 2^8
          INPUT_FREQUENCY,   \* 1193180, pulses of the 8253 a second
          IRQ0_FREQUENCY     \* 100, the clock interrupts a second that are wanted

ASSUME FrequencyAssumption ==
  /\ {WORD, BYTE, INPUT_FREQUENCY} \subseteq Nat \ {0}
  /\ IRQ0_FREQUENCY \in 1..1000

COUNTER0_VALUE == INPUT_FREQUENCY \div IRQ0_FREQUENCY
millisecond_per_intr == 1000 \div IRQ0_FREQUENCY

(* The two bytes that frequency_set() writes.  The cast to uint8_t binds    *)
(* tighter than the shift, so the high byte is the low one shifted out.     *)
low_byte(counter_value) == counter_value % BYTE
high_byte(counter_value) == (counter_value % BYTE) \div BYTE

(* External: the pulses of the 8253 between two interrupts; 0 is 2^16.      *)
Pulses == LET divisor == low_byte(COUNTER0_VALUE) + BYTE * high_byte(COUNTER0_VALUE)
          IN  IF divisor = 0 THEN BYTE * BYTE ELSE divisor

(* DIV_ROUND_UP() in a uint32_t.                                            *)
DIV_ROUND_UP(x, step) == ((x + step - 1) % WORD) \div step

(* The ticks that mil_sleep() waits; its ASSERT fails for 0.                *)
sleep_ticks_PerTick(m_second) == DIV_ROUND_UP(m_second % WORD, millisecond_per_intr)
sleep_ticks(m_second) == DIV_ROUND_UP((m_second * 100) % WORD, millisecond_per_intr)

(* ticks_to_sleep() goes on while ticks - start_ticks < sleep_ticks, ticks  *)
(* being a uint32_t that clock_service() counts up.                         *)
sleeping(ticks, start_ticks, n) == (ticks + WORD - start_ticks) % WORD < n
=============================================================================
