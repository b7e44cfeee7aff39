--------------------------- MODULE KeyboardProofs ---------------------------
(***************************************************************************)
(* The keyboard handler keeps track of the keys, for any number of keys    *)
(* and of bytes that are on their way.                                     *)
(*                                                                         *)
(* What the handler will make of these bytes is a sequence of status words *)
(* E, one after each byte.  The invariant says that such a sequence        *)
(* exists, that every byte is right for the word it meets, and that the    *)
(* last word agrees with the keys that are down.  A key that is pressed    *)
(* makes the sequence longer at its end, byte by byte (ReachExtend), an    *)
(* interrupt takes its first word away (ReachHead): no induction over the  *)
(* bytes is needed.                                                        *)
(***************************************************************************)
EXTENDS Keyboard, TLAPS

(* What keyboard_service() does to the status word when it meets byte b.    *)
Effect(b, st) ==
  LET ext == "ext_code" \in st
      s == after_prefix(st)
  IN  IF b.code = "0xe0" THEN st \union {"ext_code"}
      ELSE IF b.make THEN make_bits(b.code, ext, s) ELSE break_bits(b.code, ext, s)

(* A status word that agrees with the keys that are down, with the state of *)
(* caps lock and with the last code of the left shift key.                  *)
Agrees(st, down, lock, left) ==
  /\ st \subseteq Bits
  /\ "ext_code" \notin st
  /\ \A k \in {"ctrl_l", "ctrl_r", "shift_r"} : k \in st <=> k \in down
  /\ "shift_l" \in st <=> left = TRUE
  /\ st \intersect Alts \subseteq down
  /\ "caps_lock" \in st <=> lock = TRUE

(* Byte b meets the status word st.                                         *)
Fits(b, st) ==
  /\ b \in Byte
  /\ b.make = TRUE /\ b.code \in TwoColumns /\ b.sure = TRUE => key_output(Effect(b, st)) = b.want
  /\ "ext_code" \in st <=> b.ext = TRUE

(* The bytes w take the status word from g to s, all of them right.         *)
Path(w, g, s, E) ==
  /\ E[0] = g /\ E[Len(w)] = s
  /\ \A i \in 1..Len(w) : E[i] = Effect(w[i], E[i - 1]) /\ Fits(w[i], E[i - 1])
Reaches(w, g, s) == \E E \in [0..Len(w) -> SUBSET Bits] : Path(w, g, s, E)

KeyInv ==
  /\ TypeOK
  /\ RightColumn
  /\ \E s \in SUBSET Bits : Reaches(wire, g_key_status, s) /\ Agrees(s, held, caps, shift_sent)

(* A byte of a scan code changes only the modifier bits.                    *)
LEMMA EffectBits ==
  ASSUME NEW b, NEW st \in SUBSET Bits
  PROVE  Effect(b, st) \in SUBSET Bits
BY DEF Effect, after_prefix, make_bits, break_bits, Side, Bits, Modifiers, Shifts, Alts

-----------------------------------------------------------------------------
(* No byte changes nothing.                                                 *)
LEMMA ReachEmpty ==
  ASSUME NEW g \in SUBSET Bits
  PROVE  Reaches(<<>>, g, g)
<1> DEFINE E == [i \in 0..0 |-> g]
<1>1. E \in [0..Len(<<>>) -> SUBSET Bits] /\ Path(<<>>, g, g, E)
  BY DEF Path
<1> QED
  BY <1>1 DEF Reaches

(* One byte more, that is right for the word which the others lead to.      *)
LEMMA ReachExtend ==
  ASSUME NEW w \in Seq(Byte), NEW g, NEW s, NEW b \in Byte, Reaches(w, g, s), Fits(b, s)
  PROVE  Reaches(Append(w, b), g, Effect(b, s))
<1> DEFINE n == Len(w)
           t == Effect(b, s)
<1>1. PICK E \in [0..n -> SUBSET Bits] : Path(w, g, s, E)
  BY DEF Reaches
<1>2. n \in Nat /\ E[n] = s /\ s \in SUBSET Bits
  BY <1>1 DEF Path
<1>3. t \in SUBSET Bits
  BY <1>2, EffectBits
<1> DEFINE v == Append(w, b)
<1>4. Len(v) = n + 1 /\ v[n + 1] = b /\ \A i \in 1..n : v[i] = w[i]
  OBVIOUS
<1> HIDE DEF t, v
<1> DEFINE H == [i \in 0..(n + 1) |-> IF i <= n THEN E[i] ELSE t]
<1>5. H \in [0..(n + 1) -> SUBSET Bits] /\ H[n + 1] = t /\ \A i \in 0..n : H[i] = E[i]
  BY <1>1, <1>2, <1>3
<1> HIDE DEF H
<1>6. H[0] = g /\ H[Len(v)] = t
  BY <1>1, <1>2, <1>4, <1>5 DEF Path
<1>7. ASSUME NEW i \in 1..(n + 1)
      PROVE  H[i] = Effect(v[i], H[i - 1]) /\ Fits(v[i], H[i - 1])
  <2>1. CASE i = n + 1
    <3>1. H[i - 1] = s /\ v[i] = b /\ H[i] = t
      BY <1>2, <1>4, <1>5, <2>1
    <3> QED
      BY <3>1 DEF t
  <2>2. CASE i # n + 1
    <3>1. i \in 1..n /\ i - 1 \in 0..n /\ i \in 0..n
      BY <1>2, <2>2
    <3>2. H[i] = E[i] /\ H[i - 1] = E[i - 1] /\ v[i] = w[i]
      BY <1>4, <1>5, <3>1
    <3> QED
      BY <1>1, <3>1, <3>2 DEF Path
  <2> QED
    BY <2>1, <2>2
<1>8. Path(v, g, t, H)
  BY <1>4, <1>6, <1>7 DEF Path
<1> QED
  BY <1>4, <1>5, <1>8 DEF Reaches, t, v

(* The first byte meets the word that the handler has.                      *)
LEMMA ReachHead ==
  ASSUME NEW w \in Seq(Byte), NEW g, NEW s, Reaches(w, g, s), w # <<>>
  PROVE  /\ Fits(Head(w), g) /\ Effect(Head(w), g) \in SUBSET Bits
         /\ Reaches(Tail(w), Effect(Head(w), g), s)
<1> DEFINE n == Len(w)
           v == Tail(w)
<1>1. PICK E \in [0..n -> SUBSET Bits] : Path(w, g, s, E)
  BY DEF Reaches
<1>2. n \in Nat /\ n > 0 /\ Head(w) = w[1] /\ Len(v) = n - 1 /\ \A i \in 1..(n - 1) : v[i] = w[i + 1]
  OBVIOUS
<1>3. E[1] = Effect(w[1], g) /\ Fits(w[1], g) /\ E[1] \in SUBSET Bits
  BY <1>1, <1>2 DEF Path
<1> HIDE DEF v
<1> DEFINE G == [i \in 0..(n - 1) |-> E[i + 1]]
<1>4. G \in [0..(n - 1) -> SUBSET Bits] /\ \A i \in 0..(n - 1) : G[i] = E[i + 1]
  <2> HIDE DEF n
  <2>1. \A i \in 0..(n - 1) : i + 1 \in 0..n
    BY <1>2
  <2> QED
    BY <1>1, <2>1
<1> HIDE DEF G
<1>5. G[0] = Effect(w[1], g) /\ G[n - 1] = s
  BY <1>1, <1>2, <1>3, <1>4 DEF Path
<1>6. ASSUME NEW i \in 1..(n - 1)
      PROVE  G[i] = Effect(v[i], G[i - 1]) /\ Fits(v[i], G[i - 1])
  <2>1. G[i] = E[i + 1] /\ G[i - 1] = E[i] /\ v[i] = w[i + 1] /\ i + 1 \in 1..n /\ (i + 1) - 1 = i
    BY <1>2, <1>4
  <2>2. E[i + 1] = Effect(w[i + 1], E[(i + 1) - 1]) /\ Fits(w[i + 1], E[(i + 1) - 1])
    BY <1>1, <2>1 DEF Path
  <2> QED
    BY <2>1, <2>2
<1>7. Path(v, Effect(w[1], g), s, G)
  BY <1>2, <1>5, <1>6 DEF Path
<1>8. Reaches(v, Effect(w[1], g), s)
  BY <1>2, <1>4, <1>7 DEF Reaches
<1> QED
  BY <1>2, <1>3, <1>8 DEF v

-----------------------------------------------------------------------------
(* key_output() chooses the column that the keys call for, as long as the   *)
(* last code of the left shift key is that of the key.                      *)
LEMMA ColumnAgrees ==
  ASSUME NEW st, NEW down, NEW lock \in BOOLEAN, NEW left,
         Agrees(st, down, lock, left), left = TRUE <=> "shift_l" \in down
  PROVE  key_output(st) = Column(down \intersect Shifts # {}, lock)
<1> DEFINE shift == st \intersect Shifts # {}
<1>1. shift <=> down \intersect Shifts # {}
  BY DEF Agrees, Shifts
<1>2. key_output(st) = IF lock = TRUE THEN (IF shift THEN 0 ELSE 1) ELSE (IF shift THEN 1 ELSE 0)
  BY DEF key_output, Agrees
<1>3. CASE shift
  <2>1. (down \intersect Shifts # {}) = TRUE
    BY <1>1, <1>3, Zenon
  <2>2. Column(TRUE, lock) = IF lock = TRUE THEN 0 ELSE 1
    BY Zenon DEF Column
  <2> QED
    BY <1>2, <1>3, <2>1, <2>2
<1>4. CASE ~shift
  <2>1. (down \intersect Shifts # {}) = FALSE
    BY <1>1, <1>4, Zenon
  <2>2. Column(FALSE, lock) = IF lock = TRUE THEN 1 ELSE 0
    BY Zenon DEF Column
  <2> QED
    BY <1>2, <1>4, <2>1, <2>2
<1> QED
  BY <1>3, <1>4

(* What the last code of the left shift key is after key k.                 *)
Left(k, make, sent) == IF k \in Fakes \union {"shift_l"} THEN make ELSE sent

(* The cases of the ctrl and alt keys.                                      *)
LEMMA CtrlAltBits ==
  ASSUME NEW ext, NEW st
  PROVE  /\ make_bits("ctrl_l", ext, st) = st \union {Side("ctrl_l", ext)}
         /\ make_bits("alt_l", ext, st) = st \union {Side("alt_l", ext)}
         /\ break_bits("ctrl_l", ext, st) = st \ {Side("ctrl_l", ext), Side("alt_l", ext)}
         /\ break_bits("alt_l", ext, st) = st \ {Side("alt_l", ext)}
BY DEF make_bits, break_bits, Shifts

(* Bytes that are appended together are appended one by one.                *)
LEMMA AppendTwo ==
  ASSUME NEW S, NEW w \in Seq(S), NEW a \in S, NEW b \in S
  PROVE  /\ w \o <<a, b>> = Append(Append(w, a), b)
         /\ w \o <<a, b>> \in Seq(S) /\ Len(w \o <<a, b>>) = Len(w) + 2
OBVIOUS

(* The same of four bytes.                                                  *)
LEMMA AppendFour ==
  ASSUME NEW S, NEW w \in Seq(S), NEW a \in S, NEW b \in S, NEW c \in S, NEW d \in S
  PROVE  /\ w \o <<a, b, c, d>> = Append(Append(Append(Append(w, a), b), c), d)
         /\ Len(w \o <<a, b, c, d>>) = Len(w) + 4 /\ Len(<<a, b, c, d>>) = 4
OBVIOUS

(* The word after the byte of key k, when nothing is said of the left shift *)
(* key's bit but what it is.                                                *)
LEMMA KeyByte ==
  ASSUME NEW k \in Keys, NEW b \in Byte, b.code = Code(k), NEW st \in SUBSET Bits,
         NEW down \in SUBSET Keys, NEW lock, NEW left,
         Agrees(st \ {"ext_code"}, down, lock, left),
         "ext_code" \in st <=> k \in Extended,
         NEW down2, NEW lock2, NEW left2,
         b.make = TRUE => down2 = down \union {k},
         b.make = FALSE => down2 = down \ {k},
         b.make = TRUE /\ k = "caps_lock" => (lock2 = TRUE <=> lock # TRUE),
         b.make = FALSE \/ k # "caps_lock" => lock2 = lock,
         left2 = IF k = "shift_l" THEN b.make ELSE left
  PROVE  Agrees(Effect(b, st), down2, lock2, left2)
<1> DEFINE old == st \ {"ext_code"}
           ext == "ext_code" \in st
<1>1. k # "0xe0" /\ b.code # "0xe0" /\ b.make \in {TRUE, FALSE}
  BY LettersAssumption DEF Code, Keys, Modifiers, Shifts, Alts, Byte, Plain
<1>2. after_prefix(st) = old
  BY DEF after_prefix
<1>3. Effect(b, st) = IF b.make THEN make_bits(b.code, ext, old) ELSE break_bits(b.code, ext, old)
  BY <1>1, <1>2 DEF Effect
<1>4. Effect(b, st) \in SUBSET Bits
  BY EffectBits
<1>5. "ext_code" \notin old /\ old \in SUBSET Bits
  OBVIOUS
<1> DEFINE up == make_bits(b.code, ext, old)
           dn == break_bits(b.code, ext, old)
<1>31. (b.make = TRUE => Effect(b, st) = up) /\ (b.make = FALSE => Effect(b, st) = dn)
  BY <1>3
<1>6. CASE k \in {"ctrl_l", "ctrl_r", "alt_l", "alt_r"}
  <2>1. Side(Code(k), ext) = k
    <3>1. k \in {"ctrl_l", "alt_l"} => ~ext
      BY LettersAssumption DEF Extended, Plain
    <3>2. k \in {"ctrl_r", "alt_r"} => ext
      BY DEF Extended
    <3> QED
      BY <1>6, <3>1, <3>2 DEF Side, Code
  <2>2. up = old \union {k}
    <3>1. b.code \in {"ctrl_l", "alt_l"}
      BY <1>6 DEF Code
    <3> HIDE DEF ext, old
    <3>2. make_bits(b.code, ext, old) = old \union {Side(b.code, ext)}
      BY <3>1, CtrlAltBits
    <3> QED
      BY <2>1, <3>2
  <2>3. dn \subseteq old \ {k} /\ old \ dn \subseteq Alts \union {k}
    <3>1. b.code \in {"ctrl_l", "alt_l"} /\ b.code = Code(k)
      BY <1>6 DEF Code
    <3>2. Side("alt_l", ext) \in Alts
      BY DEF Side, Alts
    <3> HIDE DEF ext, old
    <3>3. CASE b.code = "ctrl_l"
      <4>1. dn = old \ {k, Side("alt_l", ext)}
        BY <2>1, <3>1, <3>3, CtrlAltBits
      <4> QED
        BY <3>2, <4>1
    <3>4. CASE b.code = "alt_l"
      <4>1. dn = old \ {k}
        BY <2>1, <3>1, <3>4, CtrlAltBits
      <4> QED
        BY <4>1
    <3> QED
      BY <3>1, <3>3, <3>4
  <2>4. k # "caps_lock" /\ k # "shift_l" /\ k \in Bits
    BY <1>6 DEF Bits, Modifiers, Alts
  <2> HIDE DEF up, dn
  <2>5. Agrees(old \union {k}, down \union {k}, lock, left)
    BY <1>5, <1>6, <2>4 DEF Agrees, Alts
  <2>6. Agrees(dn, down \ {k}, lock, left)
    BY <1>5, <1>6, <2>3, <2>4 DEF Agrees, Alts
  <2>7. CASE b.make = TRUE
    BY <1>31, <2>2, <2>4, <2>5, <2>7
  <2>8. CASE b.make = FALSE
    BY <1>31, <2>4, <2>6, <2>8
  <2> QED
    BY <1>1, <2>7, <2>8
<1>7. CASE k \in Shifts
  <2>1. Code(k) = k
    BY <1>7 DEF Code, Shifts
  <2>2. up = old \union {k} /\ dn = old \ {k}
    BY <1>7, <2>1 DEF make_bits, break_bits, Shifts
  <2>3. k # "caps_lock" /\ k \in Bits
    BY <1>7 DEF Bits, Modifiers, Shifts
  <2> HIDE DEF up, dn
  <2>4. ASSUME b.make = TRUE PROVE Agrees(old \union {k}, down \union {k}, lock, left2)
    BY <1>5, <1>7, <2>3, <2>4 DEF Agrees, Alts, Shifts
  <2>5. ASSUME b.make = FALSE PROVE Agrees(old \ {k}, down \ {k}, lock, left2)
    BY <1>5, <1>7, <2>3, <2>5 DEF Agrees, Alts, Shifts
  <2>6. CASE b.make = TRUE
    BY <1>31, <2>2, <2>3, <2>4, <2>6
  <2>7. CASE b.make = FALSE
    BY <1>31, <2>2, <2>3, <2>5, <2>7
  <2> QED
    BY <1>1, <2>6, <2>7
<1>8. CASE k = "caps_lock"
  <2>1. Code(k) = k
    BY <1>8 DEF Code
  <2>2. dn = old
    BY <1>8, <2>1 DEF break_bits, Shifts
  <2>3. up = IF lock = TRUE THEN old \ {k} ELSE old \union {k}
    BY <1>8, <2>1 DEF make_bits, Shifts, Agrees
  <2> HIDE DEF up, dn
  <2>4. k \in Bits /\ k # "shift_l"
    BY <1>8 DEF Bits
  <2>5. ASSUME b.make = TRUE PROVE Agrees(up, down \union {k}, lock2, left)
    <3>0. lock2 = TRUE <=> lock # TRUE
      BY <1>8, <2>5
    <3>1. CASE lock = TRUE
      BY <1>5, <1>8, <2>3, <3>0, <3>1 DEF Agrees, Alts
    <3>2. CASE lock # TRUE
      BY <1>5, <1>8, <2>3, <2>4, <3>0, <3>2 DEF Agrees, Alts
    <3> QED
      BY <3>1, <3>2
  <2>6. Agrees(dn, down \ {k}, lock, left)
    BY <1>5, <1>8, <2>2 DEF Agrees, Alts
  <2>7. CASE b.make = TRUE
    BY <1>31, <2>4, <2>5, <2>7
  <2>8. CASE b.make = FALSE
    BY <1>31, <2>4, <2>6, <2>8
  <2> QED
    BY <1>1, <2>7, <2>8
<1>9. CASE k \in Plain
  <2>1. Code(k) = k /\ k \notin Modifiers /\ k # "caps_lock" /\ k # "shift_l"
    BY <1>9, LettersAssumption DEF Code, Modifiers, Shifts, Alts
  <2>2. up = old /\ dn = old
    BY <2>1 DEF make_bits, break_bits, Modifiers, Shifts, Alts
  <2> HIDE DEF up, dn
  <2>3. Agrees(old, down \union {k}, lock, left) /\ Agrees(old, down \ {k}, lock, left)
    BY <2>1 DEF Agrees, Modifiers, Shifts, Alts
  <2>4. CASE b.make = TRUE
    BY <1>31, <2>1, <2>2, <2>3, <2>4
  <2>5. CASE b.make = FALSE
    BY <1>31, <2>1, <2>2, <2>3, <2>5
  <2> QED
    BY <1>1, <2>4, <2>5
<1> QED
  BY <1>6, <1>7, <1>8, <1>9 DEF Keys, Modifiers, Shifts, Alts

(* A prefix byte sets ext_code and nothing else.                            *)
LEMMA PrefixByte ==
  ASSUME NEW st \in SUBSET Bits, "ext_code" \notin st
  PROVE  /\ Fits(Prefix, st) /\ Prefix \in Byte
         /\ Effect(Prefix, st) = st \union {"ext_code"}
         /\ Effect(Prefix, st) \ {"ext_code"} = st
<1>1. Prefix \in Byte /\ Prefix.make = FALSE /\ Prefix.ext = FALSE /\ Prefix.code = "0xe0"
  BY DEF Prefix, Byte
<1>2. Effect(Prefix, st) = st \union {"ext_code"}
  BY <1>1 DEF Effect
<1> QED
  BY <1>1, <1>2 DEF Fits

(* A fake shift code sets or clears the bit of the left shift key.          *)
LEMMA FakeByte ==
  ASSUME NEW make \in BOOLEAN, NEW st \in SUBSET Bits, "ext_code" \in st,
         NEW down \in SUBSET Keys, NEW lock \in BOOLEAN, NEW left \in BOOLEAN,
         Agrees(st \ {"ext_code"}, down, lock, left)
  PROVE  /\ Fits(FakeShift(make), st) /\ FakeShift(make) \in Byte
         /\ Agrees(Effect(FakeShift(make), st), down, lock, make)
<1> DEFINE b == FakeShift(make)
           old == st \ {"ext_code"}
<1>1. b \in Byte /\ b.make = make /\ b.ext = TRUE /\ b.code = "shift_l" /\ b.sure = FALSE
  BY DEF FakeShift, Byte, Keys, Modifiers, Shifts
<1>2. Fits(b, st)
  BY <1>1 DEF Fits
<1> HIDE DEF b
<1>3. Effect(b, st) = IF make THEN old \union {"shift_l"} ELSE old \ {"shift_l"}
  BY <1>1 DEF Effect, after_prefix, make_bits, break_bits, Shifts
<1>4. Agrees(Effect(b, st), down, lock, make)
  <2>1. CASE make = TRUE
    BY <1>3, <2>1 DEF Agrees, Alts, Bits, Modifiers, Shifts
  <2>2. CASE make = FALSE
    BY <1>3, <2>2 DEF Agrees, Alts, Bits, Modifiers, Shifts
  <2> QED
    BY <2>1, <2>2
<1> QED
  BY <1>1, <1>2, <1>4 DEF b

-----------------------------------------------------------------------------
(* The invariant holds at boot.                                             *)
LEMMA KeyInit == Init => KeyInv
<1> SUFFICES ASSUME Init PROVE KeyInv
  OBVIOUS
<1>1. wire = <<>> /\ Len(wire) = 0 /\ g_key_status = {} /\ held = {}
  BY DEF Init
<1>2. caps = FALSE /\ shift_sent = FALSE /\ sure = TRUE
  BY Zenon DEF Init
<1>3. TypeOK /\ RightColumn
  <2>1. wire \in Seq(Byte) /\ Len(wire) <= MAX_WIRE
    BY <1>1, WireAssumption
  <2>2. out = NoColumn /\ want = NoColumn
    BY DEF Init
  <2>3. caps \in BOOLEAN /\ shift_sent \in BOOLEAN /\ sure \in BOOLEAN
    BY <1>2, Zenon
  <2>4. out \in {0, 1, NoColumn} /\ want \in {0, 1, NoColumn} /\ RightColumn
    BY <2>2 DEF RightColumn
  <2> QED
    BY <1>1, <2>1, <2>3, <2>4 DEF TypeOK
<1>4. Agrees({}, held, caps, shift_sent)
  BY <1>1, <1>2 DEF Agrees
<1>5. Reaches(wire, g_key_status, {})
  BY <1>1, ReachEmpty
<1> QED
  BY <1>3, <1>4, <1>5 DEF KeyInv

(* An interrupt: the handler does what the path said it would.              *)
LEMMA ServiceKeeps ==
  ASSUME KeyInv, keyboard_service
  PROVE  KeyInv'
<1>1. PICK s \in SUBSET Bits : Reaches(wire, g_key_status, s) /\ Agrees(s, held, caps, shift_sent)
  BY DEF KeyInv
<1> DEFINE b == Head(wire)
<1>2. wire \in Seq(Byte) /\ wire # <<>> /\ wire' = Tail(wire) /\ Len(wire) <= MAX_WIRE
  BY DEF keyboard_service, KeyInv, TypeOK
<1>3. b \in Byte /\ wire' \in Seq(Byte) /\ Len(wire') = Len(wire) - 1 /\ Len(wire) \in Nat
  <2> HIDE DEF Byte
  <2> QED
    BY <1>2
<1>4. /\ Fits(b, g_key_status) /\ Effect(b, g_key_status) \in SUBSET Bits
      /\ Reaches(wire', Effect(b, g_key_status), s)
  BY <1>1, <1>2, ReachHead
<1>5. b.code \in TwoColumns => b.code # "0xe0"
  BY LettersAssumption DEF TwoColumns, Plain
<1>6. /\ g_key_status' = Effect(b, g_key_status)
      /\ UNCHANGED <<held, caps, shift_sent>>
      /\ \/ /\ b.make /\ b.code \in TwoColumns
            /\ out' = key_output(Effect(b, g_key_status)) /\ want' = b.want /\ sure' = b.sure
         \/ out' = NoColumn /\ want' = NoColumn /\ sure' = TRUE
  BY <1>5 DEF keyboard_service, Effect
<1>7. RightColumn' /\ out' \in {0, 1, NoColumn} /\ want' \in {0, 1, NoColumn} /\ sure' \in BOOLEAN
  <2> DEFINE e == Effect(b, g_key_status)
  <2>0. key_output(e) \in {0, 1} /\ b.want \in {0, 1} /\ b.sure \in BOOLEAN /\ b.make \in BOOLEAN
    BY <1>3 DEF key_output, Byte
  <2>1. CASE /\ b.make /\ b.code \in TwoColumns
             /\ out' = key_output(e) /\ want' = b.want /\ sure' = b.sure
    <3>1. b.sure = TRUE => key_output(e) = b.want
      BY <1>4, <2>0, <2>1 DEF Fits
    <3> HIDE DEF e, b
    <3> QED
      BY <2>0, <2>1, <3>1 DEF RightColumn
  <2>2. CASE out' = NoColumn /\ want' = NoColumn /\ sure' = TRUE
    BY <2>2 DEF RightColumn
  <2> QED
    BY <1>6, <2>1, <2>2
<1>8. TypeOK'
  <2>1. Len(wire') <= MAX_WIRE
    BY <1>2, <1>3, WireAssumption
  <2>2. g_key_status' \subseteq Bits
    BY <1>4, <1>6
  <2> QED
    BY <1>3, <1>6, <1>7, <2>1, <2>2 DEF KeyInv, TypeOK
<1>9. Reaches(wire', g_key_status', s) /\ Agrees(s, held', caps', shift_sent')
  BY <1>1, <1>4, <1>6
<1> QED
  BY <1>7, <1>8, <1>9 DEF KeyInv

(* A key is pressed, repeats or is released: the path grows by one, two or  *)
(* four bytes.                                                              *)
LEMMA SendKeeps ==
  ASSUME KeyInv, NEW k \in Keys, NEW make \in BOOLEAN,
         NEW down \in SUBSET Keys, NEW lock \in BOOLEAN, Send(k, make, down, lock),
         make = TRUE => down = held \union {k} /\ lock = (IF k = "caps_lock" THEN ~caps ELSE caps),
         make = FALSE => down = held \ {k} /\ lock = caps
  PROVE  KeyInv'
<1>1. PICK s \in SUBSET Bits : Reaches(wire, g_key_status, s) /\ Agrees(s, held, caps, shift_sent)
  BY DEF KeyInv
<1> DEFINE left == Left(k, make, shift_sent)
           w == Column(down \intersect Shifts # {}, lock)
           sr == (left <=> "shift_l" \in down)
           b == [code |-> Code(k), make |-> make, ext |-> k \in Extended, want |-> w, sure |-> sr]
<1>2. /\ held' = down /\ caps' = lock /\ shift_sent' = left
      /\ UNCHANGED <<g_key_status, out, want, sure>>
      /\ Len(wire) + Len(Bytes(k, b)) <= MAX_WIRE
      /\ wire' = wire \o Bytes(k, b)
  BY DEF Send, Left
<1>3. /\ wire \in Seq(Byte) /\ held \in SUBSET Keys /\ caps \in BOOLEAN /\ shift_sent \in BOOLEAN
      /\ left \in BOOLEAN
  BY DEF KeyInv, TypeOK, Left
<1>4. w \in {0, 1} /\ sr \in BOOLEAN
  BY Zenon DEF Column
<1>41. (k \in Extended) \in BOOLEAN /\ (sr = TRUE => (left = TRUE <=> "shift_l" \in down))
  <2>1. (k \in Extended) \in BOOLEAN
    BY SMT
  <2>2. sr = TRUE => (left = TRUE <=> "shift_l" \in down)
    <3> HIDE DEF left
    <3>1. CASE left = TRUE
      BY <3>1
    <3>2. CASE left = FALSE
      BY <3>2
    <3> QED
      BY <1>3, <3>1, <3>2
  <2> QED
    BY <2>1, <2>2
<1>5. /\ b \in Byte /\ b.code = Code(k) /\ b.make = make /\ b.want = w /\ b.sure = sr
      /\ b.ext = (k \in Extended)
  <2>1. Code(k) \in Keys
    BY DEF Code, Keys, Modifiers, Alts
  <2> HIDE DEF w, sr
  <2> QED
    BY <1>4, <1>41, <2>1 DEF Byte
<1>6. "ext_code" \notin s /\ s \ {"ext_code"} = s
  BY <1>1 DEF Agrees
<1> HIDE DEF b, w, sr, left
<1> DEFINE p == s \union {"ext_code"}
<1>7. /\ Fits(Prefix, s) /\ Prefix \in Byte /\ Effect(Prefix, s) = p /\ p \ {"ext_code"} = s
      /\ p \in SUBSET Bits /\ "ext_code" \in p
  BY <1>6, PrefixByte DEF Bits
\* it is enough to follow the bytes to a word that agrees with the keys
<1>8. SUFFICES \E t \in SUBSET Bits : /\ Reaches(wire', g_key_status, t) /\ Agrees(t, down, lock, left)
                                      /\ wire' \in Seq(Byte) /\ Len(wire') <= MAX_WIRE
  <2>1. PICK t \in SUBSET Bits : /\ Reaches(wire', g_key_status, t) /\ Agrees(t, down, lock, left)
                                 /\ wire' \in Seq(Byte) /\ Len(wire') <= MAX_WIRE
    BY <1>8
  <2>2. TypeOK'
    <3>1. caps' \in BOOLEAN /\ shift_sent' \in BOOLEAN /\ held' \subseteq Keys
      BY <1>2, <1>3
    <3> QED
      BY <1>2, <2>1, <3>1 DEF KeyInv, TypeOK
  <2>3. RightColumn'
    BY <1>2 DEF KeyInv, RightColumn
  <2>4. Reaches(wire', g_key_status', t) /\ Agrees(t, held', caps', shift_sent')
    BY <1>2, <2>1
  <2> QED
    BY <2>1, <2>2, <2>3, <2>4 DEF KeyInv
\* the byte of the key itself, when the word before it is st
<1>9. ASSUME NEW st \in SUBSET Bits, NEW l \in BOOLEAN,
             Agrees(st \ {"ext_code"}, held, caps, l),
             "ext_code" \in st <=> k \in Extended,
             k \in Fakes => l = TRUE \/ make = FALSE,
             k \notin Fakes => l = shift_sent
      PROVE  /\ Fits(b, st) /\ Effect(b, st) \in SUBSET Bits
             /\ Agrees(Effect(b, st), down, lock, IF k = "shift_l" THEN make ELSE l)
  <2>1. Agrees(Effect(b, st), down, lock, IF k = "shift_l" THEN make ELSE l)
    <3>1. b \in Byte /\ b.code = Code(k) /\ b.make = make
      BY <1>5
    <3>2. make = TRUE /\ k = "caps_lock" => (lock = TRUE <=> caps # TRUE)
      <4> SUFFICES ASSUME make = TRUE, k = "caps_lock" PROVE lock = TRUE <=> caps # TRUE
        OBVIOUS
      <4>1. lock = ~caps /\ caps \in BOOLEAN
        BY <1>3
      <4> QED
        BY <4>1, Zenon
    <3>20. make = FALSE \/ k # "caps_lock" => lock = caps
      BY <1>3
    <3>21. make = TRUE => down = held \union {k}
      OBVIOUS
    <3>22. make = FALSE => down = held \ {k}
      OBVIOUS
    <3> DEFINE l2 == IF k = "shift_l" THEN make ELSE l
    <3>3. l2 = IF k = "shift_l" THEN b.make ELSE l
      BY <3>1
    <3> HIDE DEF l2
    <3>4. Agrees(Effect(b, st), down, lock, l2)
      BY <1>3, <1>9, <3>1, <3>2, <3>20, <3>21, <3>22, <3>3, KeyByte
    <3> QED
      BY <3>4 DEF l2
  <2>2. b.make = TRUE => (IF k = "shift_l" THEN make ELSE l) = left
    <3>1. k \in Fakes => k # "shift_l"
      BY LettersAssumption DEF Plain
    <3> QED
      BY <1>5, <1>9, <3>1 DEF left, Left
  <2>3. b.make = TRUE /\ b.sure = TRUE => key_output(Effect(b, st)) = b.want
    <3> SUFFICES ASSUME b.make = TRUE, b.sure = TRUE PROVE key_output(Effect(b, st)) = w
      BY <1>5
    <3>1. Agrees(Effect(b, st), down, lock, left) /\ (left = TRUE <=> "shift_l" \in down)
      BY <1>41, <1>5, <2>1, <2>2
    <3>2. left \in BOOLEAN
      BY <1>3
    <3> DEFINE e == Effect(b, st)
    <3>3. Agrees(e, down, lock, left)
      BY <3>1
    <3> HIDE DEF e
    <3>4. key_output(e) = w
      BY <3>1, <3>2, <3>3, ColumnAgrees DEF w
    <3> QED
      BY <3>4 DEF e
  <2>4. "ext_code" \in st <=> b.ext = TRUE
    <3>1. CASE k \in Extended
      BY <1>5, <1>9, <3>1
    <3>2. CASE k \notin Extended
      BY <1>5, <1>9, <3>2
    <3> QED
      BY <3>1, <3>2
  <2>5. Fits(b, st)
    BY <1>5, <2>3, <2>4 DEF Fits
  <2> QED
    BY <2>1, <2>5, EffectBits
<1>10. CASE k \notin Extended
  <2>1. k \notin Fakes /\ Bytes(k, b) = <<b>>
    BY <1>10 DEF Bytes, Extended
  <2>2. wire' = Append(wire, b) /\ wire' \in Seq(Byte) /\ Len(wire') <= MAX_WIRE
    BY <1>2, <1>3, <1>5, <2>1
  <2>3. /\ Fits(b, s) /\ Effect(b, s) \in SUBSET Bits
        /\ Agrees(Effect(b, s), down, lock, IF k = "shift_l" THEN make ELSE shift_sent)
    BY <1>1, <1>3, <1>6, <1>9, <1>10, <2>1
  <2>4. left = IF k = "shift_l" THEN make ELSE shift_sent
    BY <2>1 DEF left, Left
  <2>5. Reaches(wire', g_key_status, Effect(b, s))
    BY <1>1, <1>3, <1>5, <2>2, <2>3, ReachExtend
  <2> QED
    BY <2>2, <2>3, <2>4, <2>5
<1>11. CASE k \in Extended \ Fakes
  <2>1. Bytes(k, b) = <<Prefix, b>> /\ k # "shift_l"
    <3>1. k # "shift_l"
      BY <1>11, LettersAssumption DEF Extended, Plain
    <3> QED
      BY <1>11, <3>1 DEF Bytes
  <2> DEFINE v == Append(wire, Prefix)
  <2>2. /\ wire' = Append(v, b) /\ v \in Seq(Byte) /\ wire' \in Seq(Byte) /\ Len(wire') <= MAX_WIRE
    BY <1>2, <1>3, <1>5, <1>7, <2>1, AppendTwo
  <2>3. Reaches(v, g_key_status, p)
    <3> HIDE DEF p
    <3> QED
      BY <1>1, <1>3, <1>7, ReachExtend
  <2>4. /\ Fits(b, p) /\ Effect(b, p) \in SUBSET Bits
        /\ Agrees(Effect(b, p), down, lock, IF k = "shift_l" THEN make ELSE shift_sent)
    <3> HIDE DEF p
    <3> QED
      BY <1>1, <1>3, <1>7, <1>9, <1>11
  <2>5. left = shift_sent
    BY <1>11, <2>1 DEF left, Left
  <2> HIDE DEF p, v
  <2>6. Reaches(wire', g_key_status, Effect(b, p))
    BY <1>5, <2>2, <2>3, <2>4, ReachExtend
  <2> QED
    BY <2>1, <2>2, <2>4, <2>5, <2>6
<1>12. CASE k \in Fakes /\ make = TRUE
  <2>1. Bytes(k, b) = <<Prefix, FakeShift(TRUE), Prefix, b>> /\ k # "shift_l" /\ k \in Extended
    <3>1. k # "shift_l" /\ k \in Extended
      BY <1>12, LettersAssumption DEF Extended, Plain
    <3> QED
      BY <1>5, <1>12, <3>1 DEF Bytes
  <2> DEFINE f == FakeShift(TRUE)
             s2 == Effect(f, p)
             p2 == s2 \union {"ext_code"}
  <2>2. Fits(f, p) /\ f \in Byte /\ Agrees(s2, held, caps, TRUE)
    <3> HIDE DEF p
    <3> QED
      BY <1>1, <1>3, <1>7, FakeByte
  <2>3. s2 \in SUBSET Bits /\ "ext_code" \notin s2
    BY <2>2 DEF Agrees
  <2> HIDE DEF f, s2, p
  <2>4. /\ Fits(Prefix, s2) /\ Effect(Prefix, s2) = p2 /\ p2 \ {"ext_code"} = s2
        /\ p2 \in SUBSET Bits /\ "ext_code" \in p2
    BY <2>3, PrefixByte DEF Bits
  <2> HIDE DEF p2
  <2>5. /\ Fits(b, p2) /\ Effect(b, p2) \in SUBSET Bits
        /\ Agrees(Effect(b, p2), down, lock, IF k = "shift_l" THEN make ELSE TRUE)
    BY <1>9, <1>12, <2>1, <2>2, <2>4
  <2> DEFINE w1 == Append(wire, Prefix)
             w2 == Append(w1, f)
             w3 == Append(w2, Prefix)
  <2>6. w1 \in Seq(Byte) /\ w2 \in Seq(Byte) /\ w3 \in Seq(Byte) /\ Append(w3, b) \in Seq(Byte)
    BY <1>3, <1>5, <1>7, <2>2
  <2>7. wire' = Append(w3, b) /\ Len(wire') <= MAX_WIRE
    <3>1. b \in Byte /\ Prefix \in Byte /\ f \in Byte /\ wire \in Seq(Byte)
      BY <1>3, <1>5, <1>7, <2>2
    <3>2. wire' = wire \o <<Prefix, f, Prefix, b>> /\ Len(wire) + Len(<<Prefix, f, Prefix, b>>) <= MAX_WIRE
      BY <1>2, <2>1 DEF f
    <3> HIDE DEF Byte
    <3>3. /\ wire \o <<Prefix, f, Prefix, b>> = Append(w3, b)
          /\ Len(wire \o <<Prefix, f, Prefix, b>>) = Len(wire) + 4 /\ Len(<<Prefix, f, Prefix, b>>) = 4
      BY <3>1, AppendFour
    <3> QED
      BY <3>2, <3>3
  <2>8. Reaches(w1, g_key_status, p)
    <3> HIDE DEF p
    <3> QED
      BY <1>1, <1>3, <1>7, ReachExtend
  <2> HIDE DEF w1
  <2>9. Reaches(w2, g_key_status, s2)
    BY <2>2, <2>6, <2>8, ReachExtend DEF s2
  <2> HIDE DEF w2
  <2>10. Reaches(w3, g_key_status, p2)
    BY <1>7, <2>4, <2>6, <2>9, ReachExtend
  <2> HIDE DEF w3
  <2>11. Reaches(wire', g_key_status, Effect(b, p2))
    BY <1>5, <2>5, <2>6, <2>7, <2>10, ReachExtend
  <2>12. left = TRUE
    BY <1>12 DEF left, Left
  <2> QED
    BY <2>1, <2>5, <2>6, <2>7, <2>11, <2>12
<1>13. CASE k \in Fakes /\ make = FALSE
  <2>1. Bytes(k, b) = <<Prefix, b, Prefix, FakeShift(FALSE)>> /\ k # "shift_l" /\ k \in Extended
    <3>1. k # "shift_l" /\ k \in Extended
      BY <1>13, LettersAssumption DEF Extended, Plain
    <3> QED
      BY <1>5, <1>13, <3>1 DEF Bytes
  <2> DEFINE f == FakeShift(FALSE)
             s2 == Effect(b, p)
             p2 == s2 \union {"ext_code"}
  <2> HIDE DEF p
  <2>2. Fits(b, p) /\ s2 \in SUBSET Bits /\ Agrees(s2, down, lock, shift_sent)
    <3>1. Agrees(p \ {"ext_code"}, held, caps, shift_sent)
      BY <1>1, <1>7
    <3>2. /\ Fits(b, p) /\ s2 \in SUBSET Bits
          /\ Agrees(s2, down, lock, IF k = "shift_l" THEN make ELSE shift_sent)
      <4> HIDE DEF s2
      <4> QED
        BY <1>3, <1>7, <1>9, <1>13, <2>1, <3>1 DEF s2
    <3> QED
      BY <2>1, <3>2
  <2>3. "ext_code" \notin s2
    BY <2>2 DEF Agrees
  <2> HIDE DEF s2
  <2>4. /\ Fits(Prefix, s2) /\ Effect(Prefix, s2) = p2 /\ p2 \ {"ext_code"} = s2
        /\ p2 \in SUBSET Bits /\ "ext_code" \in p2
    BY <2>2, <2>3, PrefixByte DEF Bits
  <2> HIDE DEF p2
  <2>5. Fits(f, p2) /\ f \in Byte /\ Agrees(Effect(f, p2), down, lock, FALSE)
    BY <1>3, <2>2, <2>4, FakeByte
  <2>6. Effect(f, p2) \in SUBSET Bits
    BY <2>4, EffectBits
  <2> DEFINE w1 == Append(wire, Prefix)
             w2 == Append(w1, b)
             w3 == Append(w2, Prefix)
  <2> HIDE DEF f
  <2>7. w1 \in Seq(Byte) /\ w2 \in Seq(Byte) /\ w3 \in Seq(Byte) /\ Append(w3, f) \in Seq(Byte)
    BY <1>3, <1>5, <1>7, <2>5
  <2>8. wire' = Append(w3, f) /\ Len(wire') <= MAX_WIRE
    <3>1. b \in Byte /\ Prefix \in Byte /\ f \in Byte /\ wire \in Seq(Byte)
      BY <1>3, <1>5, <1>7, <2>5
    <3>2. wire' = wire \o <<Prefix, b, Prefix, f>> /\ Len(wire) + Len(<<Prefix, b, Prefix, f>>) <= MAX_WIRE
      BY <1>2, <2>1 DEF f
    <3> HIDE DEF Byte
    <3>3. /\ wire \o <<Prefix, b, Prefix, f>> = Append(w3, f)
          /\ Len(wire \o <<Prefix, b, Prefix, f>>) = Len(wire) + 4 /\ Len(<<Prefix, b, Prefix, f>>) = 4
      BY <3>1, AppendFour
    <3> QED
      BY <3>2, <3>3
  <2>9. Reaches(w1, g_key_status, p)
    <3> HIDE DEF p
    <3> QED
      BY <1>1, <1>3, <1>7, ReachExtend
  <2> HIDE DEF w1
  <2>10. Reaches(w2, g_key_status, s2)
    BY <1>5, <2>2, <2>7, <2>9, ReachExtend DEF s2
  <2> HIDE DEF w2
  <2>11. Reaches(w3, g_key_status, p2)
    BY <1>7, <2>4, <2>7, <2>10, ReachExtend
  <2> HIDE DEF w3
  <2>12. Reaches(wire', g_key_status, Effect(f, p2))
    BY <2>5, <2>7, <2>8, <2>11, ReachExtend
  <2>13. left = FALSE
    BY <1>13 DEF left, Left
  <2> QED
    BY <2>5, <2>6, <2>7, <2>8, <2>12, <2>13
<1> QED
  BY <1>10, <1>11, <1>12, <1>13

(* Every key keeps the invariant.                                           *)
LEMMA KeyNext == KeyInv /\ [Next]_keyVars => KeyInv'
<1> SUFFICES ASSUME KeyInv, [Next]_keyVars PROVE KeyInv'
  OBVIOUS
<1>0. held \in SUBSET Keys /\ caps \in BOOLEAN
  BY DEF KeyInv, TypeOK
<1>1. ASSUME NEW k \in Keys, Press(k) PROVE KeyInv'
  <2> DEFINE down == held \union {k}
             lock == IF k = "caps_lock" THEN ~caps ELSE caps
  <2>1. down \in SUBSET Keys /\ Send(k, TRUE, down, lock)
    BY <1>0, <1>1 DEF Press
  <2>2. lock \in BOOLEAN
    BY <1>0, Zenon
  <2>3. TRUE # FALSE
    OBVIOUS
  <2> QED
    BY <2>1, <2>2, <2>3, SendKeeps
<1>2. ASSUME NEW k \in Keys, Release(k) PROVE KeyInv'
  <2> DEFINE down == held \ {k}
  <2>1. down \in SUBSET Keys /\ Send(k, FALSE, down, caps)
    BY <1>0, <1>2 DEF Release
  <2> QED
    BY <1>0, <2>1, SendKeeps
<1>3. CASE keyboard_service
  BY <1>3, ServiceKeeps
<1>4. CASE UNCHANGED keyVars
  BY <1>4 DEF keyVars, KeyInv, TypeOK, RightColumn
<1> QED
  BY <1>1, <1>2, <1>3, <1>4 DEF Next

(* The invariant of keyboard_service() and the bytes in flight.              *)
THEOREM KeyInvariant == Spec => []KeyInv
BY KeyInit, KeyNext, PTL DEF Spec

(* The bytes in flight are read in pairs if and only if they were sent so.  *)
LEMMA ReachNothing ==
  ASSUME NEW g, NEW s, Reaches(<<>>, g, s)
  PROVE  g = s
BY DEF Reaches, Path

(* ext_code is 1 exactly between the two interrupts of an extended code.    *)
THEOREM PrefixesPair == Spec => []PrefixPairs
<1>1. KeyInv => PrefixPairs
  <2> SUFFICES ASSUME KeyInv PROVE "ext_code" \in g_key_status <=> wire # <<>> /\ Head(wire).ext
    BY DEF PrefixPairs
  <2>1. PICK s \in SUBSET Bits : Reaches(wire, g_key_status, s) /\ Agrees(s, held, caps, shift_sent)
    BY DEF KeyInv
  <2>2. wire \in Seq(Byte)
    BY DEF KeyInv, TypeOK
  <2>3. CASE wire = <<>>
    <3>1. g_key_status = s
      BY <2>1, <2>3, ReachNothing
    <3> QED
      BY <2>1, <2>3, <3>1 DEF Agrees
  <2>4. CASE wire # <<>>
    <3>1. Fits(Head(wire), g_key_status)
      BY <2>1, <2>2, <2>4, ReachHead
    <3>2. Head(wire).ext \in BOOLEAN /\ ("ext_code" \in g_key_status <=> Head(wire).ext = TRUE)
      BY <3>1 DEF Fits, Byte
    <3> QED
      BY <2>4, <3>2, Zenon
  <2> QED
    BY <2>3, <2>4
<1> QED
  BY <1>1, KeyInvariant, PTL

(* No ctrl or right shift key sticks or is lost, and no alt key sticks.     *)
THEOREM NoModifierSticks == Spec => []CtrlShiftTracked
<1>1. KeyInv => CtrlShiftTracked
  <2> SUFFICES ASSUME KeyInv, wire = <<>>
               PROVE  /\ \A k \in {"ctrl_l", "ctrl_r", "shift_r"} : k \in g_key_status <=> k \in held
                      /\ "shift_l" \in g_key_status <=> shift_sent
                      /\ g_key_status \intersect Alts \subseteq held
    BY DEF CtrlShiftTracked
  <2>1. PICK s \in SUBSET Bits : Reaches(wire, g_key_status, s) /\ Agrees(s, held, caps, shift_sent)
    BY DEF KeyInv
  <2>2. Agrees(g_key_status, held, caps, shift_sent)
    BY <2>1, ReachNothing
  <2>3. "shift_l" \in g_key_status <=> shift_sent
    <3>1. shift_sent \in BOOLEAN /\ ("shift_l" \in g_key_status <=> shift_sent = TRUE)
      BY <2>2 DEF Agrees, KeyInv, TypeOK
    <3> QED
      BY <3>1, Zenon
  <2> QED
    BY <2>2, <2>3 DEF Agrees
<1> QED
  BY <1>1, KeyInvariant, PTL

(* Every key gives the character that was called for when it was pressed,   *)
(* unless a fake shift code was in force.                                   *)
THEOREM ColumnIsRight == Spec => []RightColumn
<1>1. KeyInv => RightColumn
  BY DEF KeyInv
<1> QED
  BY <1>1, KeyInvariant, PTL
=============================================================================
