------------------------------- MODULE Format -------------------------------
(***************************************************************************)
(* Formatted output: vsprintf() and itoa() of lib/stdio.c with strcpy()    *)
(* and strlen() of lib/string.c, and put_hex() of lib/kernel/print.S.      *)
(* A string is the sequence of its characters without the final NUL, a     *)
(* buffer the sequence of all its bytes.                                   *)
(***************************************************************************)
EXTENDS Naturals, Sequences

CONSTANTS INTS,      \* 2^32, the number of ints
          NIBBLES    \* 8, the hexadecimal digits of an int

ASSUME IntsAssumption == INTS \in Nat \ {0} /\ NIBBLES \in Nat \ {0} /\ INTS = 16^NIBBLES

NUL == "NUL"
Digit(d) == <<"0", "1", "2", "3", "4", "5", "6", "7", "8", "9", "A", "B", "C", "D", "E", "F">>[d + 1]

RECURSIVE itoa(_, _)
itoa(value, radix) ==
  (IF value \div radix # 0 THEN itoa(value \div radix, radix) ELSE <<>>) \o <<Digit(value % radix)>>

(* %d of the int with the bit pattern v: 0 - v is taken modulo 2^32 and     *)
(* itoa() takes it for unsigned, also for the smallest int.                 *)
decimal_Unsigned(v) == itoa(v, 10)
decimal(v) == IF v >= INTS \div 2 THEN <<"-">> \o itoa((INTS - v) % INTS, 10) ELSE itoa(v, 10)

(* The bytes that vsprintf() stores for a format and its arguments, and     *)
(* whether the NUL that strcpy() stored for a %s stands behind them.  A     *)
(* character that follows % and is no conversion is an ordinary one, or a   *)
(* new %; the first % is gone.                                              *)
RECURSIVE convert(_, _, _)
convert(format, ap, nul) ==
  LET conv == IF Len(format) > 1 THEN format[2] ELSE NUL
      rest == SubSeq(format, 3, Len(format))
      Then(text, f, a, n) == LET more == convert(f, a, n)
                             IN  [text |-> text \o more.text, nul |-> more.nul]
  IN  IF format = <<>> THEN [text |-> <<>>, nul |-> nul]
      ELSE IF Head(format) # "%" THEN Then(<<Head(format)>>, Tail(format), ap, FALSE)
      ELSE CASE conv = "x" -> Then(itoa(Head(ap), 16), rest, Tail(ap), FALSE)
             [] conv = "d" -> Then(decimal(Head(ap)), rest, Tail(ap), FALSE)
             [] conv = "c" -> Then(<<Head(ap)>>, rest, Tail(ap), FALSE)
             [] conv = "s" -> Then(Head(ap), rest, Tail(ap), TRUE)
             [] OTHER -> convert(Tail(format), ap, nul)

terminate(done) == IF done.nul THEN Append(done.text, NUL) ELSE done.text

(* vsprintf() into a buffer: the rest of the buffer stays as it was.        *)
vsprintf(buffer, format, ap) ==
  LET bytes == terminate(convert(format, ap, FALSE))
  IN  bytes \o SubSeq(buffer, Len(bytes) + 1, Len(buffer))

(* strlen(), which vsprintf() returns: up to the first NUL.                 *)
strlen(buffer) == CHOOSE n \in 0..(Len(buffer) - 1) :
                    buffer[n + 1] = NUL /\ \A i \in 1..n : buffer[i] # NUL

(* put_hex(): all digits into put_int_buffer, the last one first, then out, *)
(* from the first that is not 0 on, or a single 0.                          *)
put_int_buffer(v) == [i \in 0..(NIBBLES - 1) |-> (v \div 16^(NIBBLES - 1 - i)) % 16]

put_hex(v) ==
  LET nonzero == {i \in 0..(NIBBLES - 1) : put_int_buffer(v)[i] # 0}
      edi == CHOOSE i \in nonzero : \A j \in nonzero : i <= j
  IN  IF nonzero = {} THEN <<Digit(0)>>
      ELSE [i \in 1..(NIBBLES - edi) |-> Digit(put_int_buffer(v)[edi + i - 1])]
=============================================================================
