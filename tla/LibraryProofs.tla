--------------------------- MODULE LibraryProofs ---------------------------
(***************************************************************************)
(* The search of bitmap_apply(), for a bitmap of any size, and the         *)
(* arithmetic of mil_sleep(), for any time and any width of a word; and    *)
(* what the other proofs need of numbers and lists.                        *)
(*                                                                         *)
(* Induction: every set of natural numbers that is not empty has a least   *)
(* element (LeastNat), so what holds of 0 and goes on from each number to  *)
(* the next holds of all (Upwards), and a function defined from its value  *)
(* one place before exists (RecursionExists).  The loop of bitmap_apply()  *)
(* is such a function: RoundKeeps is the invariant of one round, and since *)
(* each round starts from a later bit there are at most as many rounds as  *)
(* bits (ApplyFinds).                                                      *)
(***************************************************************************)
EXTENDS Library, FiniteSetTheorems, SequenceTheorems, TLAPS

(* Every set of natural numbers has a least one: induction without an       *)
(* operator as a parameter.                                                 *)
LEMMA LeastNat ==
  ASSUME NEW T \in SUBSET Nat, T # {}
  PROVE  \E x \in T : \A y \in T : x <= y
<1>1. PICK x \in T : \A y \in T : ~(<<y, x>> \in OpToRel(<, Nat))
  BY WFMin, NatLessThanWellFounded
<1>2. \A y \in T : ~(y < x)
  BY <1>1 DEF OpToRel
<1> QED
  BY <1>2

(* What holds of 0 and of the next number holds up to n.                    *)
LEMMA Upwards ==
  ASSUME NEW n \in Nat, NEW P \in SUBSET Nat, 0 \in P,
         \A i \in 0..(n - 1) : i \in P => i + 1 \in P
  PROVE  0..n \subseteq P
<1> DEFINE bad == {i \in 0..n : i \notin P}
<1> SUFFICES ASSUME bad # {} PROVE FALSE
  OBVIOUS
<1>1. PICK i \in bad : \A j \in bad : i <= j
  <2> HIDE DEF bad
  <2>1. bad \in SUBSET Nat
    BY DEF bad
  <2> QED
    BY <2>1, LeastNat
<1>2. i # 0 /\ i - 1 \in 0..(n - 1) /\ i - 1 \notin bad
  BY <1>1
<1> QED
  BY <1>1, <1>2

(* A function may be defined from its value at 0 and from a step.           *)
Recursive(f, n, S, a, G) ==
  f \in [0..n -> S] /\ f[0] = a /\ \A i \in 1..n : f[i] = G[<<i, f[i - 1]>>]

(* A function on 0..n defined from its value one place before exists: what  *)
(* a recursive definition on an initial segment of the numbers computes.    *)
LEMMA RecursionExists ==
  ASSUME NEW n \in Nat, NEW S, NEW a \in S, NEW G \in [(0..n) \X S -> S]
  PROVE  \E f : Recursive(f, n, S, a, G)
<1> DEFINE Upto(m) == \E f \in [0..m -> S] : f[0] = a /\ \A i \in 1..m : f[i] = G[<<i, f[i - 1]>>]
           P == {m \in Nat : Upto(m)}
<1>1. 0 \in P
  <2> DEFINE f == [i \in 0..0 |-> a]
  <2>1. f \in [0..0 -> S] /\ f[0] = a /\ \A i \in 1..0 : f[i] = G[<<i, f[i - 1]>>]
    OBVIOUS
  <2>2. Upto(0)
    BY <2>1
  <2> QED
    BY <2>2
<1>2. ASSUME NEW m \in 0..(n - 1), m \in P
      PROVE  m + 1 \in P
  <2>1. PICK f \in [0..m -> S] : f[0] = a /\ \A i \in 1..m : f[i] = G[<<i, f[i - 1]>>]
    BY <1>2
  <2> DEFINE g == [i \in 0..(m + 1) |-> IF i = m + 1 THEN G[<<m + 1, f[m]>>] ELSE f[i]]
  <2>2. f[m] \in S /\ m + 1 \in 0..n
    BY <2>1
  <2>3. G[<<m + 1, f[m]>>] \in S
    BY <2>2
  <2>4. g \in [0..(m + 1) -> S]
    BY <2>3
  <2>5. g[0] = a /\ \A i \in 1..(m + 1) : g[i] = G[<<i, g[i - 1]>>]
    <3>1. g[0] = a /\ g[m] = f[m]
      BY <2>1
    <3>2. g[m + 1] = G[<<m + 1, g[m]>>]
      BY <3>1, SMTT(30)
    <3>3. ASSUME NEW i \in 1..m PROVE g[i] = G[<<i, g[i - 1]>>]
      <4>1. i \in 0..(m + 1) /\ i # m + 1 /\ i - 1 \in 0..(m + 1) /\ i - 1 # m + 1
        OBVIOUS
      <4>2. g[i] = f[i] /\ g[i - 1] = f[i - 1]
        BY <4>1
      <4> HIDE DEF g
      <4> QED
        BY <2>1, <4>2
    <3> HIDE DEF g
    <3> SUFFICES ASSUME NEW i \in 1..(m + 1) PROVE g[i] = G[<<i, g[i - 1]>>]
      BY <3>1
    <3>4. CASE i = m + 1
      BY <3>2, <3>4
    <3>5. CASE i # m + 1
      BY <3>3, <3>5
    <3> QED
      BY <3>4, <3>5
  <2>6. Upto(m + 1)
    BY <2>4, <2>5
  <2> QED
    BY <2>6
<1>3. 0..n \subseteq P
  <2> HIDE DEF P
  <2>1. P \in SUBSET Nat
    BY DEF P
  <2> QED
    BY <1>1, <1>2, <2>1, Upwards
<1>4. n \in P
  <2> HIDE DEF P
  <2> QED
    BY <1>3
<1> QED
  BY <1>4 DEF Recursive

-----------------------------------------------------------------------------
(* Lists without repetitions.                                               *)
Elems(s) == {s[i] : i \in 1..Len(s)}
NoDup(s) == \A i, j \in 1..Len(s) : s[i] = s[j] => i = j

(* A list without duplicates has as many items as it has different ones.    *)
LEMMA ElemsCount ==
  ASSUME NEW S, NEW s \in Seq(S), NoDup(s)
  PROVE  IsFiniteSet(Elems(s)) /\ Cardinality(Elems(s)) = Len(s)
<1> DEFINE I == 1..Len(s)
<1>1. s \in [I -> Elems(s)]
  BY LenProperties DEF Elems
<1>2. s \in Bijection(I, Elems(s))
  <2>1. s \in Injection(I, Elems(s))
    BY <1>1 DEF NoDup, Injection, IsInjective
  <2>2. s \in Surjection(I, Elems(s))
    BY <1>1 DEF Elems, Surjection
  <2> QED
    BY <2>1, <2>2 DEF Bijection
<1>3. ExistsBijection(I, Elems(s))
  BY <1>2 DEF ExistsBijection
<1>4. IsFiniteSet(I) /\ Cardinality(I) = Len(s)
  <2>1. Len(s) \in Nat
    BY LenProperties
  <2> DEFINE n == Len(s)
  <2>2. IsFiniteSet(1..n) /\ Cardinality(1..n) = IF 1 > n THEN 0 ELSE n - 1 + 1
    <3> HIDE DEF n
    <3> QED
      BY <2>1, FS_Interval DEF n
  <2> QED
    BY <2>1, <2>2
<1> HIDE DEF I
<1> QED
  BY <1>3, <1>4, FS_Bijection

-----------------------------------------------------------------------------
(* Products and quotients.                                                  *)
LEMMA Products ==
  ASSUME NEW a \in Nat, NEW b \in Nat, NEW c \in Nat
  PROVE  /\ a * c \in Nat /\ b * c \in Nat
         /\ (a + 1) * c = a * c + c
         /\ a <= b => a * c <= b * c
         /\ a < b => a * c + c <= b * c
<1>1. a * c \in Nat /\ b * c \in Nat
  BY SMTT(30)
<1>2. (a + 1) * c = a * c + c
  BY SMTT(30)
<1>3. a <= b => a * c <= b * c
  BY SMTT(30)
<1>4. a + 1 <= b => (a + 1) * c <= b * c
  BY SMTT(30)
<1> QED
  BY <1>1, <1>2, <1>3, <1>4

(* Quotient and remainder.                                                  *)
LEMMA Divide ==
  ASSUME NEW n \in Nat, NEW b \in Nat \ {0}
  PROVE  /\ n \div b \in Nat /\ n % b \in 0..(b - 1)
         /\ (n \div b) * b \in Nat
         /\ (n \div b) * b + (n % b) = n
<1>1. n = (n \div b) * b + (n % b) /\ n \div b \in Nat /\ n % b \in 0..(b - 1)
  BY SMTT(30)
<1>2. (n \div b) * b \in Nat
  BY <1>1, Products
<1> QED
  BY <1>1, <1>2

(* Quotients are monotone.                                                  *)
LEMMA DivideMonotone ==
  ASSUME NEW q \in Nat, NEW b \in Nat \ {0}, NEW n \in Nat
  PROVE  /\ n < q * b + b => n \div b <= q
         /\ n >= q * b => n \div b >= q
<1> DEFINE d == n \div b
<1>1. d \in Nat /\ n % b \in 0..(b - 1) /\ d * b + (n % b) = n /\ d * b \in Nat
  BY Divide
<1> HIDE DEF d
<1>2. q * b \in Nat /\ (q < d => q * b + b <= d * b) /\ (d < q => d * b + b <= q * b)
  BY <1>1, Products
<1>3. (n < q * b + b => d <= q) /\ (n >= q * b => d >= q)
  BY <1>1, <1>2
<1> QED
  BY <1>3 DEF d

(* A number determines its quotient and remainder.                          *)
LEMMA DivideUnique ==
  ASSUME NEW q \in Nat, NEW b \in Nat \ {0}, NEW r \in 0..(b - 1)
  PROVE  (q * b + r) \div b = q /\ (q * b + r) % b = r
<1> DEFINE n == q * b + r
<1>1. q * b \in Nat /\ n \in Nat
  BY Products
<1>2. n \div b <= q /\ n \div b >= q
  <2>1. n < q * b + b /\ n >= q * b
    BY <1>1
  <2> HIDE DEF n
  <2> QED
    BY <1>1, <2>1, DivideMonotone
<1>3. n \div b \in Nat /\ (n \div b) * b + (n % b) = n /\ n % b \in 0..(b - 1)
  <2> HIDE DEF n
  <2> QED
    BY <1>1, Divide
<1>4. n \div b = q
  BY <1>2, <1>3
<1> QED
  BY <1>1, <1>3, <1>4

-----------------------------------------------------------------------------
(* The search of bitmap_apply() for n free bits.                            *)
Fits(map, bits, n) ==
  {b \in 0..(bits - 1) : b + n - 1 < bits - 1 /\ (b..(b + n - 1)) \intersect map = {}}

(* Least is the least element.                                              *)
LEMMA LeastIs ==
  ASSUME NEW S \in SUBSET Nat, S # {}
  PROVE  Least(S) \in S /\ \A j \in S : Least(S) <= j
BY LeastNat DEF Least

(* find_next_zero_bit() stops past the end, else it finds the next bit that *)
(* is clear, if there is one.                                               *)
LEMMA NextZero ==
  ASSUME NEW map, NEW bits \in Nat, NEW offset \in Nat
  PROVE  LET z == find_next_zero_bit(map, bits, offset)
         IN  /\ offset >= bits <=> z = STOP
             /\ z = NONE <=> offset < bits /\ offset..(bits - 1) \subseteq map
             /\ z # STOP /\ z # NONE => /\ z \in offset..(bits - 1) /\ z \notin map
                                       /\ offset..(z - 1) \subseteq map
<1> DEFINE z == find_next_zero_bit(map, bits, offset)
           zeroes == {i \in offset..(bits - 1) : ~test_bit(map, i)}
<1>1. CASE offset >= bits
  <2>1. z = STOP
    BY <1>1 DEF find_next_zero_bit
  <2> QED
    BY <1>1, <2>1 DEF STOP, NONE
<1>2. CASE offset < bits /\ zeroes = {}
  <2>1. z = NONE
    BY <1>2 DEF find_next_zero_bit
  <2> QED
    BY <1>2, <2>1 DEF STOP, NONE, test_bit
<1>3. CASE offset < bits /\ zeroes # {}
  <2>1. z = Least(zeroes)
    BY <1>3 DEF find_next_zero_bit
  <2>2. Least(zeroes) \in zeroes /\ \A j \in zeroes : Least(zeroes) <= j
    <3> HIDE DEF zeroes
    <3>1. zeroes \in SUBSET Nat
      BY DEF zeroes
    <3> QED
      BY <1>3, <3>1, LeastIs
  <2>3. z \in offset..(bits - 1) /\ z \notin map /\ z # STOP /\ z # NONE
    BY <2>1, <2>2 DEF test_bit, STOP, NONE
  <2>4. offset..(z - 1) \subseteq map
    <3> SUFFICES ASSUME NEW i \in offset..(z - 1), i \notin map PROVE FALSE
      OBVIOUS
    <3> HIDE DEF z
    <3>1. i \in zeroes /\ i < z
      BY <2>3 DEF test_bit
    <3> QED
      BY <2>1, <2>2, <2>3, <3>1
  <2>5. ~(offset..(bits - 1) \subseteq map)
    BY <2>3
  <2> HIDE DEF z
  <2> QED
    BY <1>3, <2>3, <2>4, <2>5 DEF z
<1> HIDE DEF z
<1> QED
  BY <1>1, <1>2, <1>3 DEF z

(* find_next_bit() looks at most max bits ahead for one that is set.        *)
LEMMA NextOne ==
  ASSUME NEW map, NEW bits \in Nat, NEW offset \in Nat, NEW max \in Nat
  PROVE  LET t == find_next_bit(map, bits, offset, max)
         IN  /\ offset >= bits <=> t = STOP
             /\ t = NONE => offset < bits /\ \A i \in offset..(bits - 1) : i < offset + max => i \notin map
             /\ t # STOP /\ t # NONE => /\ t \in offset..(bits - 1) /\ t \in map
                                       /\ t <= offset + max
                                       /\ (offset..(t - 1)) \intersect map = {}
<1> DEFINE t == find_next_bit(map, bits, offset, max)
           width == IF max = 0 THEN 1 ELSE max
           ones == {i \in offset..(offset + width - 1) : i < bits /\ test_bit(map, i)}
<1>0. width \in Nat \ {0} /\ width >= max /\ width <= max + 1
  OBVIOUS
<1>1. CASE offset >= bits
  <2>1. t = STOP
    BY <1>1 DEF find_next_bit
  <2> QED
    BY <1>1, <2>1 DEF STOP, NONE
<1>2. CASE offset < bits /\ ones = {}
  <2>1. t = NONE
    BY <1>2 DEF find_next_bit
  <2>2. \A i \in offset..(bits - 1) : i < offset + max => i \notin map
    BY <1>0, <1>2 DEF test_bit
  <2> QED
    BY <1>2, <2>1, <2>2 DEF STOP, NONE
<1>3. CASE offset < bits /\ ones # {}
  <2>1. t = Least(ones)
    BY <1>3 DEF find_next_bit
  <2>2. Least(ones) \in ones /\ \A j \in ones : Least(ones) <= j
    <3>1. ones \in SUBSET Nat
      BY <1>0
    <3> HIDE DEF ones
    <3> QED
      BY <1>3, <3>1, LeastIs
  <2>3. t \in offset..(bits - 1) /\ t \in map /\ t # STOP /\ t # NONE /\ t <= offset + max
    <3> HIDE DEF width
    <3> QED
      BY <1>0, <2>1, <2>2 DEF test_bit, STOP, NONE
  <2>4. (offset..(t - 1)) \intersect map = {}
    <3> HIDE DEF width
    <3> QED
      BY <1>0, <2>1, <2>2, <2>3 DEF test_bit
  <2> HIDE DEF t
  <2> QED
    BY <1>3, <2>3, <2>4 DEF t
<1> HIDE DEF t, ones
<1> QED
  BY <1>1, <1>2, <1>3 DEF t

(* Where a round of the loop may begin: at a free bit, with no room below   *)
(* it; or at -1, when there is no room at all.                              *)
LastBits(map, bits) == bits - 1 \in map \/ bits - 2 \in map \/ bits = 1

RoundFrom(map, bits, n, base) ==
  \/ base = NONE /\ Fits(map, bits, n) = {} /\ bits - 1 \in map
  \/ /\ base \in 0..(bits - 1) /\ base \notin map
     /\ \A b \in Fits(map, bits, n) : base <= b
     /\ base = bits - 1 => LastBits(map, bits)

(* What the loop may return.                                                *)
Returns(map, bits, n, p) ==
  \/ p \in Fits(map, bits, n) /\ \A b \in Fits(map, bits, n) : p <= b
  \/ p = NONE /\ Fits(map, bits, n) = {}
  \/ p = STOP /\ Fits(map, bits, n) = {} /\ LastBits(map, bits)

(* What it is to fit, bit by bit.                                           *)
LEMMA FitsMember ==
  ASSUME NEW map, NEW bits \in Nat, NEW n \in Nat \ {0}
  PROVE  \A b : b \in Fits(map, bits, n) <=>
           b \in 0..(bits - 1) /\ b + n - 1 < bits - 1 /\ \A k \in b..(b + n - 1) : k \notin map
BY DEF Fits

(* A round goes from base to r.                                              *)
RoundGood(map, bits, n, base, r) ==
  /\ r \in [done : BOOLEAN, base : Int]
  /\ r.done => Returns(map, bits, n, r.base)
  /\ ~r.done => RoundFrom(map, bits, n, r.base)
  /\ ~r.done /\ base # NONE /\ r.base # NONE => r.base > base

(* A round that returns.                                                    *)
LEMMA GoodReturn ==
  ASSUME NEW map, NEW bits, NEW n, NEW base, NEW p \in Int, Returns(map, bits, n, p)
  PROVE  RoundGood(map, bits, n, base, [done |-> TRUE, base |-> p])
BY DEF RoundGood

(* A round that goes on from a later bit.                                   *)
LEMMA GoodGoesOn ==
  ASSUME NEW map, NEW bits, NEW n, NEW base, NEW p \in Int, RoundFrom(map, bits, n, p),
         base # NONE /\ p # NONE => p > base
  PROVE  RoundGood(map, bits, n, base, [done |-> FALSE, base |-> p])
<1> DEFINE r == [done |-> FALSE, base |-> p]
<1>1. r.done = FALSE /\ r.base = p /\ r \in [done : BOOLEAN, base : Int]
  OBVIOUS
<1> HIDE DEF r
<1> QED
  BY <1>1 DEF RoundGood, r

(* One round of the loop of bitmap_apply(): it returns the first fit or an  *)
(* error, or goes on from a later clear bit below which nothing fits.       *)
LEMMA RoundKeeps ==
  ASSUME NEW map, NEW bits \in Nat \ {0}, NEW n \in Nat \ {0}, NEW base,
         RoundFrom(map, bits, n, base)
  PROVE  RoundGood(map, bits, n, base, apply_round(map, bits, n, base))
<1> DEFINE r == apply_round(map, bits, n, base)
           top == find_next_bit(map, bits, base + 1, n - 1)
           zero == find_next_zero_bit(map, bits, top + 1)
           F == Fits(map, bits, n)
           return(i) == [done |-> TRUE, base |-> i]
           Goal == RoundGood(map, bits, n, base, r)
<1>0. base \in -1..(bits - 1) /\ NONE = -1 /\ STOP = -2
  BY DEF RoundFrom, NONE, STOP
<1>1. /\ base + 1 >= bits <=> top = STOP
      /\ top = NONE => \A i \in (base + 1)..(bits - 1) : i < base + n => i \notin map
      /\ top # STOP /\ top # NONE => /\ top \in (base + 1)..(bits - 1) /\ top \in map
                                    /\ ((base + 1)..(top - 1)) \intersect map = {}
  <2>1. base + 1 \in Nat /\ n - 1 \in Nat /\ (base + 1) + (n - 1) = base + n
    BY <1>0
  <2>2. /\ base + 1 >= bits <=> top = STOP
        /\ top = NONE => /\ base + 1 < bits
                         /\ \A i \in (base + 1)..(bits - 1) : i < (base + 1) + (n - 1) => i \notin map
        /\ top # STOP /\ top # NONE => /\ top \in (base + 1)..(bits - 1) /\ top \in map
                                      /\ top <= (base + 1) + (n - 1)
                                      /\ ((base + 1)..(top - 1)) \intersect map = {}
    BY <2>1, NextOne, Zenon
  <2> HIDE DEF top
  <2> QED
    BY <2>1, <2>2
<1>2. \A b : b \in F <=> b \in 0..(bits - 1) /\ b + n - 1 < bits - 1 /\ \A k \in b..(b + n - 1) : k \notin map
  BY FitsMember
<1>3. base # NONE => base \in 0..(bits - 1) /\ base \notin map /\ \A b \in F : base <= b
  BY <1>0 DEF RoundFrom
<1>4. base = NONE => F = {} /\ bits - 1 \in map
  BY <1>0 DEF RoundFrom
<1>5. base = bits - 1 => LastBits(map, bits)
  BY <1>0 DEF RoundFrom
<1>r. r = CASE top = STOP -> return(STOP)
            [] top = NONE -> return(IF room(bits, base, n) THEN base ELSE NONE)
            [] top >= 0 /\ top - base >= n -> return(base)
            [] OTHER -> IF zero = STOP THEN return(STOP) ELSE [done |-> FALSE, base |-> zero]
  BY DEF apply_round
<1>z. top + 1 \in Nat =>
        /\ top + 1 >= bits <=> zero = STOP
        /\ zero = NONE <=> top + 1 < bits /\ (top + 1)..(bits - 1) \subseteq map
        /\ zero # STOP /\ zero # NONE => /\ zero \in (top + 1)..(bits - 1) /\ zero \notin map
                                        /\ (top + 1)..(zero - 1) \subseteq map
  <2> HIDE DEF top
  <2> QED
    BY NextZero
<1> SUFFICES Goal
  OBVIOUS
<1> HIDE DEF top, zero, r
<1>7. CASE top = STOP
  <2>1. r = return(STOP)
    BY <1>7, <1>0, <1>r
  <2>2. base = bits - 1 /\ F = {}
    BY <1>0, <1>1, <1>2, <1>3, <1>4, <1>7
  <2>3. Returns(map, bits, n, STOP) /\ STOP \in Int
    BY <1>0, <1>5, <2>2 DEF Returns
  <2> QED
    BY GoodReturn, <2>1, <2>3
<1>8. CASE top = NONE
  <2>1. r = return(IF room(bits, base, n) THEN base ELSE NONE)
    BY <1>8, <1>0, <1>r
  <2>2. CASE base = NONE
    <3>1. r = return(NONE)
      BY <2>1, <2>2
    <3>2. Returns(map, bits, n, NONE) /\ NONE \in Int
      BY <1>0, <1>4, <2>2 DEF Returns
    <3> QED
      BY GoodReturn, <3>1, <3>2
  <2>3. CASE base # NONE /\ room(bits, base, n)
    <3>1. base \in F
      <4>1. base + n - 1 < bits - 1
        BY <1>0, <2>3 DEF room
      <4> QED
        BY <1>0, <1>1, <1>2, <1>3, <1>8, <2>3, <4>1
    <3>2. Returns(map, bits, n, base) /\ base \in Int
      BY <1>0, <1>3, <2>3, <3>1 DEF Returns
    <3>3. r = return(base)
      BY <2>1, <2>3
    <3> QED
      BY GoodReturn, <3>2, <3>3
  <2>4. CASE base # NONE /\ ~room(bits, base, n)
    <3>1. F = {}
      BY <1>0, <1>2, <1>3, <2>4 DEF room
    <3>2. Returns(map, bits, n, NONE) /\ NONE \in Int
      BY <1>0, <3>1 DEF Returns
    <3>3. r = return(NONE)
      BY <2>1, <2>4
    <3> QED
      BY GoodReturn, <3>2, <3>3
  <2> QED
    BY <2>2, <2>3, <2>4
<1>9. CASE top # STOP /\ top # NONE
  <2>1. top \in (base + 1)..(bits - 1) /\ top \in map /\ \A i \in (base + 1)..(top - 1) : i \notin map
        /\ top >= 0
    BY <1>0, <1>1, <1>9
  <2>2. CASE top - base >= n
    <3>0. (top >= 0 /\ top - base >= n) = TRUE
      BY <1>0, <2>1, <2>2
    <3>1. r = return(base)
      BY <1>9, <3>0, <1>r
    <3>2. CASE base = NONE
      <4>1. Returns(map, bits, n, base) /\ base \in Int
        BY <1>0, <1>4, <3>2 DEF Returns
      <4> QED
        BY GoodReturn, <3>1, <4>1
    <3>3. CASE base # NONE
      <4>1. base + n - 1 < bits - 1 /\ base + n - 1 <= top - 1
        BY <1>0, <2>1, <2>2
      <4>2. base \in F
        BY <1>0, <1>2, <1>3, <2>1, <3>3, <4>1
      <4>3. Returns(map, bits, n, base) /\ base \in Int
        BY <1>0, <1>3, <3>3, <4>2 DEF Returns
      <4> QED
        BY GoodReturn, <3>1, <4>3
    <3> QED
      BY <3>2, <3>3
  <2>3. CASE top - base < n
    <3>0. ~(top - base >= n)
      BY <1>0, <2>1, <2>3
    <3>1. r = IF zero = STOP THEN return(STOP) ELSE [done |-> FALSE, base |-> zero]
      BY <1>9, <2>1, <3>0, <1>r
    <3>2. /\ top + 1 >= bits <=> zero = STOP
          /\ zero = NONE => top + 1 < bits /\ (top + 1)..(bits - 1) \subseteq map
          /\ zero # STOP /\ zero # NONE => /\ zero \in (top + 1)..(bits - 1) /\ zero \notin map
                                          /\ (top + 1)..(zero - 1) \subseteq map
      <4>1. top + 1 \in Nat
        BY <2>1, <1>0
      <4> QED
        BY <4>1, <1>z
    <3>3. ASSUME NEW b \in F PROVE b > top
      <4> SUFFICES ASSUME b <= top PROVE FALSE
        BY <1>2, <2>1
      <4>1. base # NONE /\ base <= b
        BY <1>3, <1>4
      <4>2. top \in b..(b + n - 1)
        BY <1>0, <1>2, <2>1, <2>3, <4>1
      <4> QED
        BY <1>2, <2>1, <4>2
    <3>4. CASE zero = STOP
      <4>1. top = bits - 1
        BY <2>1, <3>2, <3>4, <1>0
      <4>2. F = {} /\ LastBits(map, bits)
        BY <1>2, <2>1, <3>3, <4>1 DEF LastBits
      <4>3. Returns(map, bits, n, STOP) /\ STOP \in Int
        BY <1>0, <4>2 DEF Returns
      <4>4. r = return(STOP)
        BY <3>1, <3>4
      <4> QED
        BY GoodReturn, <4>3, <4>4
    <3>5. CASE zero = NONE
      <4>1. F = {} /\ bits - 1 \in map
        <5>1. bits - 1 \in map
          BY <2>1, <3>2, <3>5
        <5>2. ASSUME NEW b \in F PROVE FALSE
          <6>1. b \in (top + 1)..(bits - 1) /\ b \in b..(b + n - 1)
            BY <1>2, <2>1, <3>3
          <6> QED
            BY <1>2, <3>2, <3>5, <6>1
        <5> QED
          BY <5>1, <5>2
      <4>2. RoundFrom(map, bits, n, NONE)
        BY <4>1 DEF RoundFrom
      <4>3. r = [done |-> FALSE, base |-> NONE] /\ NONE \in Int
        BY <1>0, <3>1, <3>5
      <4> QED
        BY GoodGoesOn, <4>2, <4>3
    <3>6. CASE zero # STOP /\ zero # NONE
      <4>1. ASSUME NEW b \in F PROVE zero <= b
        <5> SUFFICES ASSUME b < zero PROVE FALSE
          BY <1>2, <2>1, <3>2, <3>6
        <5>1. b \in (top + 1)..(zero - 1) /\ b \in b..(b + n - 1)
          BY <1>2, <2>1, <3>2, <3>3, <3>6
        <5> QED
          BY <1>2, <3>2, <3>6, <5>1
      <4>2. zero = bits - 1 => LastBits(map, bits)
        <5> SUFFICES ASSUME zero = bits - 1 PROVE bits - 2 \in map
          BY DEF LastBits
        <5>1. top = bits - 2 \/ bits - 2 \in (top + 1)..(zero - 1)
          BY <2>1, <3>2, <3>6
        <5> QED
          BY <2>1, <3>2, <3>6, <5>1
      <4>3. zero \in 0..(bits - 1) /\ zero \notin map /\ zero > base /\ zero \in Int
        BY <1>0, <2>1, <3>2, <3>6
      <4>4. RoundFrom(map, bits, n, zero)
        BY <4>1, <4>2, <4>3 DEF RoundFrom
      <4>5. r = [done |-> FALSE, base |-> zero]
        BY <3>1, <3>6
      <4> QED
        BY GoodGoesOn, <4>3, <4>4, <4>5
    <3> QED
      BY <3>4, <3>5, <3>6
  <2> QED
    BY <1>0, <2>1, <2>2, <2>3
<1> QED
  BY <1>7, <1>8, <1>9

(* The loop of bitmap_apply() never leaves these states.                    *)
LoopStates(map, bits, n) ==
  {x \in [done : BOOLEAN, base : Int] :
     /\ x.done => Returns(map, bits, n, x.base)
     /\ ~x.done => RoundFrom(map, bits, n, x.base)}

(* The loop starts from the first clear bit, if there is one.               *)
LEMMA FirstRound ==
  ASSUME NEW map, NEW bits \in Nat \ {0}, NEW n \in Nat \ {0},
         NEW first, first = find_next_zero_bit(map, bits, 0)
  PROVE  /\ first = NONE => Fits(map, bits, n) = {}
         /\ first # NONE => first \in 0..(bits - 1) /\ RoundFrom(map, bits, n, first)
<1>1. /\ 0 >= bits <=> first = STOP
      /\ first = NONE <=> 0 < bits /\ 0..(bits - 1) \subseteq map
      /\ first # STOP /\ first # NONE => /\ first \in 0..(bits - 1) /\ first \notin map
                                        /\ 0..(first - 1) \subseteq map
  BY NextZero
<1>2. \A b : b \in Fits(map, bits, n) <=>
        b \in 0..(bits - 1) /\ b + n - 1 < bits - 1 /\ \A k \in b..(b + n - 1) : k \notin map
  BY FitsMember
<1>3. CASE first = NONE
  <2> SUFFICES ASSUME NEW b \in Fits(map, bits, n) PROVE FALSE
    BY <1>3
  <2>1. b \in 0..(bits - 1) /\ b \in b..(b + n - 1)
    BY <1>2
  <2> QED
    BY <1>1, <1>2, <1>3, <2>1
<1>4. CASE first # NONE
  <2>1. first \in 0..(bits - 1) /\ first \notin map /\ 0..(first - 1) \subseteq map
    BY <1>1, <1>4
  <2>2. ASSUME NEW b \in Fits(map, bits, n) PROVE first <= b
    <3> SUFFICES ASSUME b < first PROVE FALSE
      BY <1>2, <2>1
    <3>1. b \in 0..(first - 1) /\ b \in b..(b + n - 1)
      BY <1>2, <2>1
    <3> QED
      BY <1>2, <2>1, <3>1
  <2>3. first = bits - 1 => LastBits(map, bits)
    <3> SUFFICES ASSUME first = bits - 1, bits # 1 PROVE bits - 2 \in map
      BY DEF LastBits
    <3>1. bits - 2 \in 0..(first - 1)
      OBVIOUS
    <3> QED
      BY <2>1, <3>1
  <2> QED
    BY <1>4, <2>1, <2>2, <2>3 DEF RoundFrom
<1> QED
  BY <1>3, <1>4

(* Whatever the map, bitmap_apply() finds the first fit, if there is one;   *)
(* the ways in which it fails to return are at the end of the map.          *)
LEMMA ApplyFinds ==
  ASSUME NEW map, NEW bits \in Nat \ {0}, NEW n \in Nat \ {0}
  PROVE  \/ Returns(map, bits, n, bitmap_apply(map, bits, n))
         \/ /\ bitmap_apply(map, bits, n) = SPIN
            /\ Fits(map, bits, n) = {} /\ bits - 1 \in map
<1> DEFINE first == find_next_zero_bit(map, bits, 0)
           F == Fits(map, bits, n)
           S == LoopStates(map, bits, n)
           start == [done |-> FALSE, base |-> first]
           go(x) == IF x.done THEN x ELSE apply_round(map, bits, n, x.base)
           loop == CHOOSE f : f = [i \in 0..(bits + 1) |-> IF i = 0 THEN start
                                     ELSE IF f[i - 1].done THEN f[i - 1]
                                     ELSE apply_round(map, bits, n, f[i - 1].base)]
           G == [x \in (0..(bits + 1)) \X S |-> go(x[2])]
<1>1. bitmap_apply(map, bits, n) =
        IF first = NONE THEN NONE ELSE IF loop[bits + 1].done THEN loop[bits + 1].base ELSE SPIN
  BY DEF bitmap_apply
<1>2. /\ first = NONE => F = {}
      /\ first # NONE => first \in 0..(bits - 1) /\ RoundFrom(map, bits, n, first)
  <2> HIDE DEF first
  <2> QED
    BY FirstRound DEF first
<1> HIDE DEF first
<1>3. CASE first = NONE
  BY <1>1, <1>2, <1>3 DEF Returns
<1>4. CASE first # NONE
  <2>1. start \in S
    <3>1. start.done = FALSE /\ start.base = first /\ start \in [done : BOOLEAN, base : Int]
      BY <1>2, <1>4
    <3> HIDE DEF start
    <3> QED
      BY <1>2, <1>4, <3>1 DEF LoopStates
  <2>2. ASSUME NEW x \in S PROVE /\ go(x) \in S
                                 /\ ~x.done => RoundGood(map, bits, n, x.base, go(x))
    <3>1. CASE x.done
      BY <3>1
    <3>2. CASE ~x.done
      <4>1. RoundFrom(map, bits, n, x.base)
        BY <3>2 DEF LoopStates
      <4>2. RoundGood(map, bits, n, x.base, apply_round(map, bits, n, x.base))
        BY <4>1, RoundKeeps
      <4> QED
        BY <3>2, <4>2 DEF RoundGood, LoopStates
    <3> QED
      BY <3>1, <3>2
  <2>3. G \in [(0..(bits + 1)) \X S -> S]
    <3> HIDE DEF S, go
    <3> QED
      BY <2>2
  <2>4. PICK f : Recursive(f, bits + 1, S, start, G)
    <3> HIDE DEF S, start, G
    <3>1. bits + 1 \in Nat
      OBVIOUS
    <3> QED
      BY <2>1, <2>3, <3>1, RecursionExists
  <2>5. f \in [0..(bits + 1) -> S] /\ f[0] = start /\ \A i \in 1..(bits + 1) : f[i] = go(f[i - 1])
    <3> HIDE DEF S, start, go
    <3>1. f \in [0..(bits + 1) -> S] /\ f[0] = start /\ \A i \in 1..(bits + 1) : f[i] = G[<<i, f[i - 1]>>]
      <4> HIDE DEF G
      <4> QED
        BY <2>4 DEF Recursive
    <3>2. \A i \in 1..(bits + 1) : <<i, f[i - 1]>> \in (0..(bits + 1)) \X S
      BY <3>1
    <3> QED
      BY <3>1, <3>2
  <2>6. f = [i \in 0..(bits + 1) |-> IF i = 0 THEN start
                                     ELSE IF f[i - 1].done THEN f[i - 1]
                                     ELSE apply_round(map, bits, n, f[i - 1].base)]
    <3> HIDE DEF S, start
    <3> QED
      BY <2>5
  <2>7. loop = [i \in 0..(bits + 1) |-> IF i = 0 THEN start
                                     ELSE IF loop[i - 1].done THEN loop[i - 1]
                                     ELSE apply_round(map, bits, n, loop[i - 1].base)]
    <3> HIDE DEF start
    <3> QED
      BY <2>6, Zenon
  <2> HIDE DEF loop
  <2>8. loop[0] = start /\ \A i \in 0..bits : loop[i + 1] = go(loop[i])
    <3>1. loop[0] = start
      <4> HIDE DEF start
      <4> QED
        BY <2>7
    <3>2. ASSUME NEW i \in 0..bits PROVE loop[i + 1] = go(loop[i])
      <4>1. i + 1 \in 0..(bits + 1) /\ i + 1 # 0 /\ (i + 1) - 1 = i
        OBVIOUS
      <4> HIDE DEF start
      <4> QED
        BY <2>7, <4>1
    <3> HIDE DEF start, go
    <3> QED
      BY <3>1, <3>2
  <2> DEFINE late(i) == loop[i].base >= i \/ (F = {} /\ bits - 1 \in map)
             P == {i \in Nat : loop[i] \in S /\ (~loop[i].done => late(i))}
  <2>9. 0 \in P
    <3>1. start.base = first
      OBVIOUS
    <3> HIDE DEF start, S
    <3> QED
      BY <1>2, <1>4, <2>1, <2>8, <3>1
  <2>10. ASSUME NEW i \in 0..bits, i \in P PROVE i + 1 \in P
    <3> DEFINE x == loop[i]
               y == loop[i + 1]
    <3>1. x \in S /\ (~x.done => late(i)) /\ y = go(x) /\ i + 1 \in Nat
      BY <2>8, <2>10
    <3>2. y \in S /\ (~x.done => RoundGood(map, bits, n, x.base, y))
      <4> HIDE DEF S, go, x, y
      <4> QED
        BY <2>2, <3>1
    <3>3. CASE x.done
      <4>1. y = x
        BY <3>1, <3>3
      <4> HIDE DEF S
      <4> QED
        BY <3>1, <3>2, <3>3, <4>1
    <3>4. CASE ~x.done /\ ~y.done
      <4>1. RoundFrom(map, bits, n, y.base) /\ (x.base # NONE /\ y.base # NONE => y.base > x.base)
            /\ x.base \in Int /\ y.base \in Int
        BY <3>1, <3>2, <3>4 DEF RoundGood, LoopStates
      <4>2. late(i)
        BY <3>1, <3>4
      <4>3. CASE F = {} /\ bits - 1 \in map
        <5> HIDE DEF S
        <5> QED
          BY <3>1, <3>2, <4>3
      <4>4. CASE x.base >= i
        <5>1. CASE y.base = NONE
          <6>1. F = {} /\ bits - 1 \in map
            BY <4>1, <5>1 DEF RoundFrom, NONE
          <6> HIDE DEF S
          <6> QED
            BY <3>1, <3>2, <6>1
        <5>2. CASE y.base # NONE
          <6>1. y.base >= i + 1
            BY <4>1, <4>4, <5>2 DEF NONE
          <6> HIDE DEF S
          <6> QED
            BY <3>1, <3>2, <6>1
        <5> QED
          BY <5>1, <5>2
      <4> QED
        BY <4>2, <4>3, <4>4
    <3>5. CASE y.done
      <4> HIDE DEF S
      <4> QED
        BY <3>1, <3>2, <3>5
    <3> QED
      BY <3>3, <3>4, <3>5
  <2>11. bits + 1 \in P
    <3>1. P \in SUBSET Nat /\ bits + 1 \in Nat /\ (bits + 1) - 1 = bits
      OBVIOUS
    <3> HIDE DEF P
    <3>2. 0..(bits + 1) \subseteq P
      BY <2>9, <2>10, <3>1, Upwards
    <3> QED
      BY <3>2
  <2> DEFINE end == loop[bits + 1]
  <2>12. end \in S /\ (~end.done => end.base >= bits + 1 \/ (F = {} /\ bits - 1 \in map))
    BY <2>11
  <2> HIDE DEF end
  <2>13. CASE end.done
    <3>1. bitmap_apply(map, bits, n) = end.base
      BY <1>1, <1>4, <2>13 DEF end
    <3>2. Returns(map, bits, n, end.base)
      BY <2>12, <2>13 DEF LoopStates
    <3> QED
      BY <3>1, <3>2
  <2>14. CASE ~end.done
    <3>1. bitmap_apply(map, bits, n) = SPIN
      BY <1>1, <1>4, <2>14 DEF end
    <3>2. RoundFrom(map, bits, n, end.base) /\ end.base \in Int
      BY <2>12, <2>14 DEF LoopStates
    <3>3. ~(end.base >= bits + 1)
      BY <3>2 DEF RoundFrom, NONE
    <3> QED
      BY <2>12, <2>14, <3>1, <3>3
  <2> QED
    BY <2>13, <2>14
<1> QED
  BY <1>3, <1>4

(* Where a first fit search finds n free bits, when the last bit may be one *)
(* of them.                                                                 *)
LEMMA FirstFitIs ==
  ASSUME NEW map, NEW n \in 1..BITS
  PROVE  LET fit == FirstFit(map, n)
         IN  /\ fit = NONE \/ fit \in 0..(BITS - n)
             /\ fit # NONE => (fit..(fit + n - 1)) \intersect map = {}
             /\ \A b \in 0..(BITS - n) : (b..(b + n - 1)) \intersect map = {} => fit # NONE /\ fit <= b
<1> DEFINE fits == {b \in 0..(BITS - n) : (b..(b + n - 1)) \intersect map = {}}
<1>0. BITS \in Nat \ {0} /\ n \in Nat
  BY BitsAssumption
<1>1. FirstFit(map, n) = IF fits = {} THEN NONE ELSE Least(fits)
  BY DEF FirstFit
<1>2. fits \in SUBSET Nat
  BY <1>0
<1>3. fits # {} => Least(fits) \in fits /\ \A j \in fits : Least(fits) <= j
  <2> HIDE DEF fits
  <2> QED
    BY <1>2, LeastIs
<1>4. CASE fits = {}
  BY <1>1, <1>4
<1>5. CASE fits # {}
  <2> DEFINE least == Least(fits)
  <2>1. FirstFit(map, n) = least /\ least \in fits /\ \A j \in fits : least <= j
    BY <1>1, <1>3, <1>5
  <2> HIDE DEF least
  <2>2. least # NONE
    BY <2>1, <1>0 DEF NONE
  <2> QED
    BY <2>1, <2>2
<1> QED
  BY <1>4, <1>5

(* What bitmap_apply() hands out is the lowest run of free bits, and a run  *)
(* that leaves the last bit alone is found, in every map of every size,     *)
(* although its two cursors never look at most of the starting points.      *)
THEOREM ApplyFindsFirstFit == ApplyGivesLowest
<1> SUFFICES ASSUME NEW n \in 1..BITS
             PROVE  LET p == bitmap_apply(input.map, BITS, n)
                        fit == FirstFit(input.map, n)
                    IN  p >= 0 \/ (fit >= 0 /\ fit + n < BITS) => p = fit
  BY DEF ApplyGivesLowest
<1> DEFINE map == input.map
           p == bitmap_apply(map, BITS, n)
           fit == FirstFit(map, n)
           F == Fits(map, BITS, n)
<1>0. BITS \in Nat \ {0} /\ n \in Nat \ {0} /\ n <= BITS
  BY BitsAssumption
<1>1. \/ Returns(map, BITS, n, p)
      \/ p = SPIN /\ F = {}
  BY <1>0, ApplyFinds
<1>2. \A b : b \in F <=> b \in 0..(BITS - n) /\ b + n < BITS /\ (b..(b + n - 1)) \intersect map = {}
  <2>1. \A b : b \in 0..(BITS - 1) /\ b + n - 1 < BITS - 1 <=> b \in 0..(BITS - n) /\ b + n < BITS
    BY <1>0
  <2> QED
    BY <2>1 DEF Fits
<1>3. /\ fit = NONE \/ fit \in 0..(BITS - n)
      /\ fit # NONE => (fit..(fit + n - 1)) \intersect map = {}
      /\ \A b \in 0..(BITS - n) : (b..(b + n - 1)) \intersect map = {} => fit # NONE /\ fit <= b
  BY FirstFitIs
<1>4. \/ p \in F /\ \A b \in F : p <= b
      \/ p \in {NONE, STOP, SPIN} /\ F = {}
  BY <1>1 DEF Returns
<1> HIDE DEF map, p, F, fit
<1>5. CASE p \in F /\ \A b \in F : p <= b
  <2>1. p \in 0..(BITS - n) /\ p + n < BITS /\ fit # NONE /\ fit <= p
    BY <1>2, <1>3, <1>5
  <2>2. fit \in F
    BY <1>0, <1>2, <1>3, <2>1
  <2>3. p = fit
    BY <1>0, <1>3, <1>5, <2>1, <2>2
  <2> QED
    BY <2>3 DEF p, fit, map
<1>6. CASE p \in {NONE, STOP, SPIN} /\ F = {}
  <2>1. ~(p >= 0)
    BY <1>6 DEF NONE, STOP, SPIN
  <2>2. ~(fit >= 0 /\ fit + n < BITS)
    BY <1>0, <1>2, <1>3, <1>6 DEF NONE
  <2> QED
    BY <2>1, <2>2 DEF p, fit, map
<1> QED
  BY <1>4, <1>5, <1>6

(* bitmap_apply() does not return, for a map of any size, only if the last  *)
(* bit is in use.                                                           *)
THEOREM ApplySpinsOnlyWhenLastUsed == SpinsOnlyWhenLastUsed
<1> SUFFICES ASSUME NEW n \in 1..BITS, bitmap_apply(input.map, BITS, n) = SPIN
             PROVE  BITS - 1 \in input.map
  BY DEF SpinsOnlyWhenLastUsed
<1>1. BITS \in Nat \ {0} /\ n \in Nat \ {0}
  BY BitsAssumption
<1>2. ~Returns(input.map, BITS, n, SPIN)
  BY <1>1 DEF Returns, Fits, SPIN, NONE, STOP
<1> QED
  BY <1>1, <1>2, ApplyFinds

-----------------------------------------------------------------------------
(* mil_sleep(), with the frequencies of the code and words of any width.    *)
Frequencies == /\ INPUT_FREQUENCY = 1193180 /\ IRQ0_FREQUENCY = 100 /\ BYTE = 256
               /\ WORD >= 256

(* A clock interrupt comes every 155 pulses, not every 11931.               *)
LEMMA ClockPeriod ==
  ASSUME Frequencies
  PROVE  millisecond_per_intr = 10 /\ Pulses = 155 /\ WORD \in Nat
<1>1. COUNTER0_VALUE = 11931 /\ millisecond_per_intr = 10
  BY SMT DEF COUNTER0_VALUE, millisecond_per_intr, Frequencies
<1>2. low_byte(11931) = 155 /\ high_byte(11931) = 0
  BY SMT DEF low_byte, high_byte, Frequencies
<1>3. Pulses = 155
  BY <1>1, <1>2, SMT DEF Pulses, Frequencies
<1> QED
  BY <1>1, <1>3, FrequencyAssumption, SMT DEF Frequencies

(* A number less than twice the divisor.                                    *)
LEMMA WrapsOnce ==
  ASSUME NEW w \in Nat \ {0}, NEW x \in Nat
  PROVE  /\ x < w => x % w = x
         /\ w <= x /\ x < 2 * w => x % w = x - w
<1>1. ASSUME x < w PROVE x % w = x
  <2>1. x \in 0..(w - 1) /\ 0 * w + x = x
    BY <1>1, SMT
  <2> QED
    BY <2>1, DivideUnique, SMT
<1>2. ASSUME w <= x, x < 2 * w PROVE x % w = x - w
  <2> DEFINE r == x - w
  <2>1. r \in 0..(w - 1) /\ 1 * w + r = x
    BY <1>2, SMT
  <2> HIDE DEF r
  <2>2. (1 * w + r) % w = r
    BY <2>1, DivideUnique, SMT
  <2> QED
    BY <2>1, <2>2, SMT DEF r
<1> QED
  BY <1>1, <1>2, SMT

(* The loop of ticks_to_sleep() goes on for n ticks, wherever the counter   *)
(* of the ticks stands and although it wraps.                               *)
LEMMA SleepingCounts ==
  ASSUME NEW n \in Nat, NEW start \in 0..(WORD - 1), NEW gone \in 0..(WORD - 1), WORD \in Nat
  PROVE  sleeping((start + gone) % WORD, start, n) <=> gone < n
<1>0. start + gone \in Nat /\ WORD \in Nat \ {0} /\ start + gone < 2 * WORD
  BY SMT
<1>1. (((start + gone) % WORD) + WORD - start) % WORD = gone
  <2>1. CASE start + gone < WORD
    <3>1. (start + gone) % WORD = start + gone
      BY <1>0, <2>1, WrapsOnce, Zenon
    <3> DEFINE x == start + gone + WORD - start
    <3>2. x \in Nat /\ x = gone + WORD /\ WORD <= x /\ x < 2 * WORD /\ x - WORD = gone
      BY SMT
    <3> HIDE DEF x
    <3>3. x % WORD = gone
      BY <3>2, WrapsOnce, SMT
    <3> QED
      BY <3>1, <3>3, SMT DEF x
  <2>2. CASE ~(start + gone < WORD)
    <3>1. (start + gone) % WORD = start + gone - WORD
      <4> DEFINE z == start + gone
      <4>1. z \in Nat /\ WORD <= z /\ z < 2 * WORD
        BY <1>0, <2>2, SMT
      <4> HIDE DEF z
      <4>2. z % WORD = z - WORD
        BY <1>0, <4>1, WrapsOnce, Zenon
      <4> QED
        BY <4>2, SMT DEF z
    <3> DEFINE x == start + gone - WORD + WORD - start
    <3>2. x = gone /\ x \in Nat /\ x < WORD
      BY SMT
    <3> HIDE DEF x
    <3>3. x % WORD = gone
      BY <3>2, WrapsOnce, SMT
    <3> QED
      BY <3>1, <3>3, SMT DEF x
  <2> QED
    BY <2>1, <2>2, SMT
<1> QED
  BY <1>1, SMT DEF sleeping

(* The ticks of a sleep: ten for a millisecond, counted in what is left of  *)
(* 100 * ms in a word.                                                      *)
LEMMA SleepTicks ==
  ASSUME NEW ms \in Nat, Frequencies
  PROVE  /\ sleep_ticks(ms) \in Nat /\ 10 * sleep_ticks(ms) < WORD
         /\ ms * 100 + 10 <= WORD => sleep_ticks(ms) = 10 * ms
         /\ ms * 100 + 10 > WORD => sleep_ticks(ms) * 155000 < ms * 1193180
<1> DEFINE x == (ms * 100) % WORD
           y == (x + 9) % WORD
           n == sleep_ticks(ms)
<1>0. WORD \in Nat \ {0} /\ WORD >= 256 /\ millisecond_per_intr = 10 /\ ms * 100 \in Nat
  BY ClockPeriod, SMT DEF Frequencies
<1>1. n = y \div 10
  BY <1>0, SMT DEF sleep_ticks, DIV_ROUND_UP
<1>2. x \in 0..(WORD - 1)
  BY <1>0, Divide, SMT
<1>3. y \in 0..(WORD - 1)
  <2>1. x + 9 \in Nat
    BY <1>2, <1>0, SMT
  <2> QED
    BY <1>0, <2>1, Divide, SMT
<1>4. x + 9 < WORD => y = x + 9
  <2>1. x + 9 \in Nat
    BY <1>2, <1>0, SMT
  <2> QED
    BY <1>0, <2>1, WrapsOnce, SMT
<1>5. x + 9 >= WORD => y = x + 9 - WORD
  <2>1. x + 9 \in Nat /\ x + 9 < 2 * WORD
    BY <1>2, <1>0, SMT
  <2>2. WORD \in Nat \ {0}
    BY <1>0, SMT
  <2>3. \A z \in Nat : WORD <= z /\ z < 2 * WORD => z % WORD = z - WORD
    BY <2>2, WrapsOnce, Zenon
  <2>4. ASSUME x + 9 >= WORD PROVE (x + 9) % WORD = (x + 9) - WORD
    <3> DEFINE z == x + 9
    <3>1. z \in Nat /\ WORD <= z /\ z < 2 * WORD
      BY <2>1, <2>2, <2>4, SMT
    <3> HIDE DEF z
    <3>2. z % WORD = z - WORD
      BY <2>3, <3>1
    <3> QED
      BY <3>2 DEF z
  <2> HIDE DEF x
  <2> QED
    BY <1>0, <1>2, <2>4, SMT
<1>6. ms * 100 < WORD => x = ms * 100
  <2> DEFINE z == ms * 100
  <2>1. z \in Nat
    BY <1>0
  <2> HIDE DEF z
  <2>2. z < WORD => z % WORD = z
    BY <1>0, <2>1, WrapsOnce, SMT
  <2> QED
    BY <2>2, SMT DEF z
<1>7. ms * 100 >= WORD => x + WORD <= ms * 100
  <2> DEFINE q == (ms * 100) \div WORD
  <2>1. q \in Nat /\ q * WORD \in Nat /\ q * WORD + x = ms * 100
    BY <1>0, Divide, SMT
  <2>2. ms * 100 >= WORD => q # 0
    <3> HIDE DEF q, x
    <3> QED
      BY <1>0, <1>2, <2>1, SMT
  <2>3. 0 < q => 0 * WORD + WORD <= q * WORD
    <3> HIDE DEF q
    <3> QED
      BY <1>0, <2>1, Products, SMT
  <2> HIDE DEF q, x
  <2> QED
    BY <1>0, <1>2, <2>1, <2>2, <2>3, SMT
<1> HIDE DEF x, y, n
<1>8. n \in Nat /\ 10 * n <= y /\ y < 10 * n + 10
  BY <1>1, <1>3, SMT
<1>9. ms * 100 + 10 <= WORD => n = 10 * ms
  BY <1>0, <1>2, <1>4, <1>6, <1>8, SMT
<1>10. ms * 100 + 10 > WORD => n * 155000 < ms * 1193180
  <2>1. CASE x + 9 >= WORD
    BY <1>0, <1>2, <1>5, <1>7, <1>6, <1>8, <2>1, SMT
  <2>2. CASE x + 9 < WORD /\ ms * 100 >= WORD
    BY <1>0, <1>2, <1>4, <1>7, <1>8, <2>2, SMT
  <2>3. CASE x + 9 < WORD /\ ms * 100 < WORD
    BY <1>0, <1>2, <1>6, <1>8, <2>3, SMT
  <2> QED
    BY <1>0, <1>2, <2>1, <2>2, <2>3, SMT
<1> QED
  BY <1>0, <1>3, <1>8, <1>9, <1>10, SMT DEF n

(* mil_sleep() lasts as long as asked, at most 1.3 times as long, and is    *)
(* too short if it wraps: for every time and every width of a word, 2^32    *)
(* included, with the frequencies of the code.                              *)
THEOREM SleepLastsEnough ==
  ASSUME Frequencies, input.kind = "sleep" => input.ms \in Nat
  PROVE  SleepLasts
<1> SUFFICES ASSUME input.kind = "sleep"
             PROVE  SleepLasts
  BY SMT DEF SleepLasts
<1> DEFINE ms == input.ms
           n == sleep_ticks(ms)
           fits == ms * 100 + millisecond_per_intr <= WORD
<1>0. ms \in Nat /\ WORD \in Nat /\ WORD >= 256 /\ millisecond_per_intr = 10 /\ Pulses = 155
      /\ INPUT_FREQUENCY = 1193180
  BY ClockPeriod, SMT DEF Frequencies
<1>1. /\ n \in Nat /\ 10 * n < WORD
      /\ ms * 100 + 10 <= WORD => n = 10 * ms
      /\ ms * 100 + 10 > WORD => n * 155000 < ms * 1193180
  BY <1>0, SleepTicks, SMT
<1> HIDE DEF ms, n
<1>2. ms > 0 /\ fits => /\ n > 0
                        /\ n * Pulses * 1000 >= ms * INPUT_FREQUENCY
                        /\ n * Pulses * 1000 <= 13 * ms * (INPUT_FREQUENCY \div 10)
  BY <1>0, <1>1, SMT
<1>3. ~fits => n * Pulses * 1000 < ms * INPUT_FREQUENCY
  BY <1>0, <1>1, SMT
<1>4. ASSUME NEW start \in {0, n, WORD - 1},
             NEW gone \in {0, n, n + 1} \union (IF n > 0 THEN {n - 1} ELSE {})
      PROVE  sleeping((start + gone) % WORD, start, n) <=> gone < n
  <2>1. start \in 0..(WORD - 1) /\ gone \in 0..(WORD - 1)
    BY <1>0, <1>1, SMT
  <2>2. WORD \in Nat /\ n \in Nat
    BY <1>0, <1>1, SMT
  <2> QED
    BY <2>1, <2>2, SleepingCounts, Zenon
<1> HIDE DEF fits
<1> QED
  BY <1>2, <1>3, <1>4, SMT DEF SleepLasts, ms, n, fits
=============================================================================
