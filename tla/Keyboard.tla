------------------------------ MODULE Keyboard ------------------------------
(***************************************************************************)
(* The keyboard handler of device/keyboard.c: scan codes arrive byte by    *)
(* byte, one interrupt each, and g_key_status remembers the modifier keys  *)
(* and a 0xe0 prefix between interrupts.  Which character a key has is     *)
(* abstracted to the column of keymap; putting it in kbd_buff is IOQueue.  *)
(*                                                                         *)
(* The keyboard (external) sends a make code for a press, and again while  *)
(* the key is held, and a break code for a release.  The right ctrl and    *)
(* alt keys and the grey ones send 0xe0 before the code, and some of these *)
(* pretend that the left shift key is down as well: Print Screen comes as  *)
(* E0 2A E0 37 and goes as E0 B7 E0 AA, and so do the grey keys while Num  *)
(* Lock is on.                                                             *)
(***************************************************************************)
EXTENDS Naturals, Sequences, FiniteSets

CONSTANTS Letters,    \* keys without a case in the switch
          Greys,      \* such keys that send 0xe0 first
          Fakes,      \* such keys that send 0xe0 and a fake shift code first
          MAX_HELD,   \* bound: keys that are down at a time
          MAX_WIRE    \* bound: bytes sent and not yet serviced

Plain == Letters \union Greys \union Fakes

ASSUME LettersAssumption ==
  /\ Letters # {} /\ Letters \intersect (Greys \union Fakes) = {}
  /\ Plain \intersect {"shift_l", "ctrl_l", "alt_l", "shift_r", "ctrl_r", "alt_r", "caps_lock", "0xe0"} = {}
ASSUME WireAssumption == MAX_HELD \in Nat \ {0} /\ MAX_WIRE \in Nat \ {0, 1}

Shifts == {"shift_l", "shift_r"}
Alts == {"alt_l", "alt_r"}
Modifiers == Shifts \union Alts \union {"ctrl_l", "ctrl_r"}
Keys == Modifiers \union {"caps_lock"} \union Plain
Bits == Modifiers \union {"caps_lock", "ext_code"}

VARIABLES g_key_status,   \* the set of bits that are 1
          wire,           \* bytes on their way to the handler
          out,            \* the column of keymap that the last interrupt put out
          held, caps,     \* environment: the keys down, caps lock on
          shift_sent,     \* environment: the last code of the left shift key, fake
                          \* or not, was a make code
          want, sure      \* history: the column that the keys down called for when
                          \* the key was pressed, and whether no fake code was in force

keyVars == <<g_key_status, wire, out, held, caps, shift_sent, want, sure>>

(* The right ctrl and alt keys send the code of the left ones after 0xe0.   *)
Extended == {"ctrl_r", "alt_r"} \union Greys \union Fakes
Code(k) == CASE k = "ctrl_r" -> "ctrl_l" [] k = "alt_r" -> "alt_l" [] OTHER -> k
Prefix == [code |-> "0xe0", make |-> FALSE, ext |-> FALSE, want |-> 0, sure |-> FALSE]
FakeShift(make) == [code |-> "shift_l", make |-> make, ext |-> TRUE, want |-> 0, sure |-> FALSE]

NoColumn == 2   \* the interrupt put out no character, or one of both columns
Column(shift, lock) == IF shift # lock THEN 1 ELSE 0

Init == /\ g_key_status = {} /\ wire = <<>> /\ out = NoColumn
        /\ held = {} /\ caps = FALSE /\ shift_sent = FALSE
        /\ want = NoColumn /\ sure = TRUE

-----------------------------------------------------------------------------
(* The bytes of key k, whose last or only one is b.                         *)
Bytes(k, b) ==
  CASE k \notin Extended -> <<b>>
    [] k \in Extended \ Fakes -> <<Prefix, b>>
    [] k \in Fakes /\ b.make -> <<Prefix, FakeShift(TRUE), Prefix, b>>
    [] k \in Fakes /\ ~b.make -> <<Prefix, b, Prefix, FakeShift(FALSE)>>

Send(k, make, down, lock) ==
  LET left == IF k \in Fakes \union {"shift_l"} THEN make ELSE shift_sent
      byte == [code |-> Code(k), make |-> make, ext |-> k \in Extended,
               want |-> Column(down \intersect Shifts # {}, lock),
               sure |-> left <=> "shift_l" \in down]
      bytes == Bytes(k, byte)
  IN  /\ Len(wire) + Len(bytes) <= MAX_WIRE
      /\ wire' = wire \o bytes
      /\ held' = down /\ caps' = lock /\ shift_sent' = left
      /\ UNCHANGED <<g_key_status, out, want, sure>>

(* A key goes down, or repeats.                                             *)
Press(k) == /\ k \in held \/ Cardinality(held) < MAX_HELD
            /\ Send(k, TRUE, held \union {k}, IF k = "caps_lock" THEN ~caps ELSE caps)

Release(k) == k \in held /\ Send(k, FALSE, held \ {k}, caps)

-----------------------------------------------------------------------------
(* The switch: ctrl_l_break has no break statement and goes on to clear alt. *)
Side(code, ext) == IF ~ext THEN code ELSE IF code = "ctrl_l" THEN "ctrl_r" ELSE "alt_r"

make_bits_RightIsLeft(code, ext, st) ==
  CASE code \in {"ctrl_l", "alt_l"} -> st \union {code}
    [] code \in Shifts -> st \union {code}
    [] code = "caps_lock" -> IF code \in st THEN st \ {code} ELSE st \union {code}
    [] OTHER -> st
make_bits(code, ext, st) ==
  CASE code \in {"ctrl_l", "alt_l"} -> st \union {Side(code, ext)}
    [] code \in Shifts -> st \union {code}
    [] code = "caps_lock" -> IF code \in st THEN st \ {code} ELSE st \union {code}
    [] OTHER -> st

break_bits(code, ext, st) ==
  CASE code = "ctrl_l" -> st \ {Side("ctrl_l", ext), Side("alt_l", ext)}
    [] code = "alt_l" -> st \ {Side("alt_l", ext)}
    [] code \in Shifts -> st \ {code}
    [] OTHER -> st

(* key_output(): caps lock swaps the columns of the shift keys.             *)
key_output_ShiftOnly(st) == IF st \intersect Shifts # {} THEN 1 ELSE 0
key_output(st) ==
  LET shift == st \intersect Shifts # {}
  IN  IF "caps_lock" \in st THEN (IF shift THEN 0 ELSE 1) ELSE (IF shift THEN 1 ELSE 0)

after_prefix_Keeps(st) == st
after_prefix(st) == st \ {"ext_code"}

(* For these keys the columns of keymap differ; the modifier keys and Print *)
(* Screen have the same character, mostly none, in both.                    *)
TwoColumns == Letters \union Greys

keyboard_service ==
  LET b == Head(wire)
      ext == "ext_code" \in g_key_status
      st == after_prefix(g_key_status)
      new == IF b.make THEN make_bits(b.code, ext, st) ELSE break_bits(b.code, ext, st)
  IN  /\ wire # <<>>
      /\ wire' = Tail(wire)
      /\ g_key_status' = IF b.code = "0xe0" THEN g_key_status \union {"ext_code"} ELSE new
      /\ IF b.make /\ b.code \in TwoColumns
           THEN out' = key_output(new) /\ want' = b.want /\ sure' = b.sure
           ELSE out' = NoColumn /\ want' = NoColumn /\ sure' = TRUE
      /\ UNCHANGED <<held, caps, shift_sent>>

Next == \/ \E k \in Keys : Press(k) \/ Release(k)
        \/ keyboard_service

Spec == Init /\ [][Next]_keyVars

-----------------------------------------------------------------------------
Byte == [code : Keys \union {"0xe0"}, make : BOOLEAN, ext : BOOLEAN, want : {0, 1}, sure : BOOLEAN]

TypeOK ==
  /\ g_key_status \subseteq Bits
  /\ wire \in Seq(Byte) /\ Len(wire) <= MAX_WIRE
  /\ out \in {0, 1, NoColumn} /\ want \in {0, 1, NoColumn} /\ sure \in BOOLEAN
  /\ held \subseteq Keys /\ caps \in BOOLEAN /\ shift_sent \in BOOLEAN

(* A prefix byte is remembered for one byte: ext_code is 1 exactly between  *)
(* the two interrupts of an extended code, whatever else is typed and       *)
(* however late the bytes are serviced.                                     *)
PrefixPairs ==
  "ext_code" \in g_key_status <=> wire # <<>> /\ Head(wire).ext

(* Once every byte is serviced, the bits of the ctrl keys and of the right  *)
(* shift key say whether they are down, left and right ones told apart; the *)
(* bit of the left shift key is that of its last code; and no alt bit is 1  *)
(* without its key.                                                         *)
CtrlShiftTracked ==
  wire = <<>> =>
    /\ \A k \in {"ctrl_l", "ctrl_r", "shift_r"} : k \in g_key_status <=> k \in held
    /\ "shift_l" \in g_key_status <=> shift_sent
    /\ g_key_status \intersect Alts \subseteq held

(* Every key gives the character that the shift and caps lock keys called   *)
(* for when it was pressed, although it is chosen interrupts later, unless  *)
(* a fake code of the left shift key was in force.                          *)
RightColumn == sure => out = want

(* keymap has the characters with and without shift, and a key gives the    *)
(* one that the keys down call for.  The code does not keep to it: it takes *)
(* the fake shift codes E0 2A and E0 AA for those of the left shift key.    *)
ShiftColumn == out = want
=============================================================================
