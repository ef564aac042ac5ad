-------------------------- MODULE AsyncFifoProofs --------------------------
(***************************************************************************)
(* AsyncFifo is a FIFO for every depth that is a power of two, in every    *)
(* interleaving of the two clocks.                                         *)
(***************************************************************************)
EXTENDS AsyncFifo, WellFoundedInduction, FiniteSetTheorems, SequenceTheorems, TLAPS

(***************************************************************************)
(* Arithmetic                                                              *)
(***************************************************************************)
\* Division is characterised by the interval the dividend lies in.
LEMMA DivIs ==
    ASSUME NEW p \in Nat, NEW w \in Nat \ {0}, NEW q \in Nat,
           q * w <= p, p < (q + 1) * w
    PROVE  p \div w = q
<1>1. /\ p \div w \in Int
      /\ w * (p \div w) <= p /\ p < w * (p \div w) + w
  OBVIOUS
<1>2. CASE p \div w < q
  <2>1. w * (p \div w) + w <= w * q BY <1>1, <1>2
  <2>. QED BY <2>1, <1>1
<1>3. CASE p \div w > q
  <2>1. w * (p \div w) >= w * (q + 1) BY <1>1, <1>3
  <2>. QED BY <2>1, <1>1
<1>. QED BY <1>1, <1>2, <1>3

\* Shifting by one more bit is halving.
LEMMA DivTwice ==
    ASSUME NEW p \in Nat, NEW w \in Nat \ {0}
    PROVE  p \div (2 * w) = (p \div w) \div 2
<1> DEFINE a == p \div w
           b == a \div 2
<1>1. a \in Nat /\ w * a <= p /\ p < w * a + w OBVIOUS
<1>2. b \in Nat /\ 2 * b <= a /\ a <= 2 * b + 1 BY <1>1
<1>3. w * (2 * b) <= w * a /\ w * a <= w * (2 * b + 1) BY <1>1, <1>2
<1>4. b * (2 * w) <= p /\ p < (b + 1) * (2 * w) BY <1>1, <1>2, <1>3
<1>. QED BY <1>2, <1>4, DivIs, 2 * w \in Nat \ {0}

LEMMA ModIs ==
    ASSUME NEW n \in Nat \ {0}, NEW x \in Nat
    PROVE  /\ x < n => x % n = x
           /\ n <= x /\ x < 2 * n => x % n = x - n
  OBVIOUS

(***************************************************************************)
(* The least-number principle, for sets.                                   *)
(***************************************************************************)
LEMMA Least ==
    ASSUME NEW S, S \subseteq Nat, NEW e \in S
    PROVE  \E m \in S : \A n \in S : m <= n
<1> DEFINE R == {ss \in Nat \X Nat : ss[1] < ss[2]}
<1>1. IsWellFoundedOn(R, Nat) BY NatLessThanWellFounded DEF OpToRel
<1>2. \E m \in S : \A n \in S : ~ (<<n, m>> \in R)
  <2>. HIDE DEF R
  <2>. QED BY <1>1, WFMin
<1>3. PICK m \in S : \A n \in S : ~ (<<n, m>> \in R) BY <1>2
<1>4. ASSUME NEW n \in S PROVE m <= n
  <2>1. <<n, m>> \in R <=> n < m OBVIOUS
  <2>. QED BY <2>1, <1>3
<1>. QED BY <1>4

(***************************************************************************)
(* The weights are positive, the pointers are naturals.                    *)
(***************************************************************************)
LEMMA WeightPositive == \A i \in 0 .. AddrBits : Weight[i] \in Nat \ {0}
<1> DEFINE Bad == {i \in 0 .. AddrBits : Weight[i] = 0}
<1>1. ASSUME NEW e \in Bad PROVE FALSE
  <2>0. Bad \subseteq Nat OBVIOUS
  <2>1. PICK m \in Bad : \A n \in Bad : m <= n
    <3>. HIDE DEF Bad
    <3>. QED BY <2>0, <1>1, Least
  <2>2. m # 0 BY <2>1, DepthAssumption
  <2>3. m - 1 \in 0 .. AddrBits - 1 BY <2>1, <2>2, DepthAssumption
  <2>4. Weight[m - 1] = 0
    <3>1. Weight[(m - 1) + 1] = 2 * Weight[m - 1] BY <2>3, DepthAssumption
    <3>2. (m - 1) + 1 = m BY <2>3
    <3>3. Weight[m - 1] \in Nat BY <2>3, DepthAssumption
    <3>. QED BY <3>1, <3>2, <3>3, <2>1
  <2>. QED BY <2>1, <2>3, <2>4, DepthAssumption
<1>. QED BY <1>1, DepthAssumption

LEMMA WeightDoubles ==
    ASSUME NEW i \in 0 .. AddrBits - 1
    PROVE  Weight[i + 1] = 2 * Weight[i] /\ Weight[i] \in Nat
<1>1. i \in 0 .. AddrBits BY DepthAssumption
<1>. QED BY <1>1, DepthAssumption

LEMMA DepthIs == /\ depth \in Nat \ {0}
                 /\ Weight[AddrBits] = 2 * depth
<1>1. AddrBits - 1 \in 0 .. AddrBits /\ (AddrBits - 1) + 1 = AddrBits BY DepthAssumption
<1>. QED BY <1>1, WeightPositive, DepthAssumption DEF depth

-----------------------------------------------------------------------------
(***************************************************************************)
(* Gray codes                                                              *)
(***************************************************************************)
Shift(p, i) == p \div Weight[i]
Top == AddrBits - 1

LEMMA ShiftType ==
    ASSUME NEW p \in Nat, NEW i \in 0 .. AddrBits
    PROVE  Shift(p, i) \in Nat /\ PointerBit(p, i) \in {0, 1}
BY WeightPositive DEF Shift, PointerBit

LEMMA ShiftZero == ASSUME NEW p \in Nat PROVE Shift(p, 0) = p
BY DepthAssumption DEF Shift

LEMMA ShiftNext ==
    ASSUME NEW p \in Nat, NEW i \in 0 .. AddrBits - 1
    PROVE  Shift(p, i + 1) = Shift(p, i) \div 2
<1>1. Weight[i] \in Nat \ {0} /\ Weight[i + 1] = 2 * Weight[i]
  BY WeightPositive, DepthAssumption
<1>. QED BY <1>1, DivTwice DEF Shift

\* No pointer has a bit beyond the last one.
LEMMA LastBit == ASSUME NEW p \in Pointers PROVE PointerBit(p, AddrBits) = 0
<1>1. p \in Nat /\ p < Weight[AddrBits] BY DepthIs DEF Pointers
<1>2. p \div Weight[AddrBits] = 0
  BY <1>1, DivIs, WeightPositive, DepthAssumption, 0 * Weight[AddrBits] <= p,
     p < (0 + 1) * Weight[AddrBits]
<1>. QED BY <1>2 DEF PointerBit

LEMMA GrayZero == Gray(0) = {}
<1>1. \A i \in 0 .. AddrBits : PointerBit(0, i) = 0
  <2>1. SUFFICES ASSUME NEW i \in 0 .. AddrBits PROVE PointerBit(0, i) = 0
    OBVIOUS
  <2>2. Weight[i] \in Nat \ {0} BY WeightPositive
  <2>3. 0 \div Weight[i] = 0 BY <2>2, DivIs
  <2>. QED BY <2>3 DEF PointerBit
<1>2. \A i \in 0 .. AddrBits - 1 : i \in 0 .. AddrBits /\ i + 1 \in 0 .. AddrBits
  BY DepthAssumption
<1>. QED BY <1>1, <1>2 DEF Gray

LEMMA GrayType == ASSUME NEW p PROVE Gray(p) \in Codes
BY DEF Gray, Codes

(***************************************************************************)
(* Adding the depth to a pointer changes its top bit and no other.         *)
(***************************************************************************)
LEMMA ShiftFar ==
    ASSUME NEW p \in Nat
    PROVE  \A i \in 0 .. Top :
             Shift(p + depth, i) = Shift(p, i) + Weight[Top - i]
<1> DEFINE Bad == {i \in 0 .. Top : Shift(p + depth, i) # Shift(p, i) + Weight[Top - i]}
<1>1. SUFFICES ASSUME NEW e \in Bad PROVE FALSE
  OBVIOUS
<1>2. Bad \subseteq Nat BY DepthAssumption DEF Top
<1>3. PICK m \in Bad : \A n \in Bad : m <= n
  <2>. HIDE DEF Bad
  <2>. QED BY <1>1, <1>2, Least
<1>. p + depth \in Nat BY DepthIs
<1>4. m # 0
  <2>1. Shift(p + depth, 0) = p + depth /\ Shift(p, 0) = p BY ShiftZero
  <2>2. Weight[Top - 0] = depth BY DepthAssumption DEF depth, Top
  <2>. QED BY <2>1, <2>2, <1>3
<1> DEFINE j == m - 1
<1>5. /\ j \in 0 .. Top /\ j + 1 = m /\ j \in 0 .. AddrBits - 1
      /\ j \notin Bad
  BY <1>3, <1>4, DepthAssumption DEF Top
<1>6. Shift(p + depth, j) = Shift(p, j) + Weight[Top - j] BY <1>5
<1>7. /\ Weight[Top - j] = 2 * Weight[Top - m]
      /\ Weight[Top - m] \in Nat
  <2>1. Top - m \in 0 .. AddrBits - 1 /\ (Top - m) + 1 = Top - j
    BY <1>3, <1>5, DepthAssumption DEF Top
  <2>2. /\ Weight[(Top - m) + 1] = 2 * Weight[Top - m]
        /\ Weight[Top - m] \in Nat
    BY <2>1, WeightDoubles
  <2>. QED BY <2>1, <2>2
<1>8. Shift(p, j) \in Nat BY <1>5, ShiftType, DepthAssumption
<1>9. /\ Shift(p + depth, m) = Shift(p + depth, j) \div 2
      /\ Shift(p, m) = Shift(p, j) \div 2
  BY <1>5, ShiftNext
<1>10. Shift(p + depth, m) = Shift(p, m) + Weight[Top - m]
  <2>1. \A a, b \in Nat : (a + 2 * b) \div 2 = (a \div 2) + b OBVIOUS
  <2>2. Shift(p + depth, m) = (Shift(p, j) + 2 * Weight[Top - m]) \div 2
    BY <1>6, <1>7, <1>9
  <2>. QED BY <2>1, <2>2, <1>7, <1>8, <1>9
<1>. QED BY <1>10, <1>3

LEMMA BitFar ==
    ASSUME NEW p \in Nat, NEW i \in 0 .. Top
    PROVE  PointerBit(p + depth, i) = PointerBit(p, i) <=> i # Top
<1>0. i \in 0 .. AddrBits BY DepthAssumption DEF Top
<1>1. Shift(p, i) \in Nat BY <1>0, ShiftType
<1>2. Shift(p + depth, i) = Shift(p, i) + Weight[Top - i] BY ShiftFar
<1>3. CASE i = Top
  <2>1. Weight[Top - i] = 1 BY <1>3, DepthAssumption DEF Top
  <2>2. (Shift(p, i) + 1) % 2 # Shift(p, i) % 2 BY <1>1
  <2>. QED BY <1>2, <1>3, <2>1, <2>2 DEF PointerBit, Shift
<1>4. CASE i # Top
  <2>1. Top - i - 1 \in 0 .. AddrBits - 1 /\ (Top - i - 1) + 1 = Top - i
    BY <1>4, DepthAssumption DEF Top
  <2>2. /\ Weight[(Top - i - 1) + 1] = 2 * Weight[Top - i - 1]
        /\ Weight[Top - i - 1] \in Nat
    BY <2>1, WeightDoubles
  <2>3. \A a, b \in Nat : (a + 2 * b) % 2 = a % 2 OBVIOUS
  <2>. QED BY <1>1, <1>2, <1>4, <2>1, <2>2, <2>3 DEF PointerBit, Shift
<1>. QED BY <1>3, <1>4

(***************************************************************************)
(* What the comparison of write_logic relies on: pointers half a round     *)
(* apart have Gray codes that differ in the top two bits and no other.     *)
(***************************************************************************)
LEMMA GrayFarOne ==
    ASSUME NEW p \in Nat, p < depth
    PROVE  Xor(Gray(p + depth), Gray(p)) = {AddrBits - 1, AddrBits - 2}
<1> DEFINE q == p + depth
<1>0. p \in Pointers /\ q \in Pointers BY DepthIs DEF Pointers
<1>1. PointerBit(p, AddrBits) = PointerBit(q, AddrBits) BY <1>0, LastBit
<1>2. \A i \in 0 .. Top : /\ PointerBit(q, i) = PointerBit(p, i) <=> i # Top
                          /\ PointerBit(q, i) \in {0, 1} /\ PointerBit(p, i) \in {0, 1}
  <2>1. SUFFICES ASSUME NEW i \in 0 .. Top
                 PROVE  /\ PointerBit(q, i) = PointerBit(p, i) <=> i # Top
                        /\ PointerBit(q, i) \in {0, 1} /\ PointerBit(p, i) \in {0, 1}
    OBVIOUS
  <2>2. i \in 0 .. AddrBits BY DepthAssumption DEF Top
  <2>3. q \in Nat BY <1>0 DEF Pointers
  <2>. QED BY <2>2, <2>3, BitFar, ShiftType
<1>3. \A i \in 0 .. AddrBits - 1 :
        i \in Xor(Gray(q), Gray(p)) <=> i \in {AddrBits - 1, AddrBits - 2}
  <2>1. SUFFICES ASSUME NEW i \in 0 .. AddrBits - 1
                 PROVE  i \in Xor(Gray(q), Gray(p)) <=> i \in {AddrBits - 1, AddrBits - 2}
    OBVIOUS
  <2>. HIDE DEF q
  <2>2. i \in Xor(Gray(q), Gray(p)) <=> ((PointerBit(q, i) # PointerBit(q, i + 1)) # (PointerBit(p, i) # PointerBit(p, i + 1)))
    BY DEF Xor, Gray
  <2>3. CASE i = Top
    <3>1. i + 1 = AddrBits /\ i \in 0 .. Top BY <2>3, DepthAssumption DEF Top
    <3>. QED BY <2>2, <2>3, <3>1, <1>1, <1>2, LastBit, <1>0 DEF Top
  <2>4. CASE i = Top - 1
    <3>1. i + 1 = Top /\ i \in 0 .. Top /\ Top \in 0 .. Top /\ i # Top
      BY <2>4, DepthAssumption DEF Top
    <3>2. i \in {AddrBits - 1, AddrBits - 2} BY <2>4, DepthAssumption DEF Top
    <3>3. PointerBit(q, i) = PointerBit(p, i) /\ PointerBit(q, i + 1) # PointerBit(p, i + 1)
      BY <3>1, <1>2
    <3>. QED BY <2>2, <3>1, <3>2, <3>3, <1>2
  <2>5. CASE i # Top /\ i # Top - 1
    <3>1. i + 1 \in 0 .. Top /\ i \in 0 .. Top /\ i + 1 # Top
      BY <2>5, DepthAssumption DEF Top
    <3>2. i \notin {AddrBits - 1, AddrBits - 2} BY <2>5, DepthAssumption DEF Top
    <3>. QED BY <2>2, <2>5, <3>1, <3>2, <1>2
  <2>. QED BY <2>3, <2>4, <2>5
<1>4. Xor(Gray(q), Gray(p)) \subseteq 0 .. AddrBits - 1 BY DEF Xor, Gray
<1>5. {AddrBits - 1, AddrBits - 2} \subseteq 0 .. AddrBits - 1 BY DepthAssumption
<1>. QED BY <1>3, <1>4, <1>5

LEMMA GrayFar ==
    ASSUME NEW p \in Pointers, NEW q \in Pointers, Ahead(p, q) = depth
    PROVE  Xor(Gray(p), Gray(q)) = {AddrBits - 1, AddrBits - 2}
<1>1. CASE p >= q
  <2>1. q \in Nat /\ q < depth /\ p = q + depth
    BY <1>1, DepthIs DEF Ahead, Pointers
  <2>. QED BY <2>1, GrayFarOne
<1>2. CASE p < q
  <2>1. p \in Nat /\ p < depth /\ q = p + depth
    BY <1>2, DepthIs DEF Ahead, Pointers
  <2>2. Xor(Gray(p), Gray(q)) = Xor(Gray(q), Gray(p)) BY DEF Xor
  <2>. QED BY <2>1, <2>2, GrayFarOne
<1>. QED BY <1>1, <1>2 DEF Pointers

(***************************************************************************)
(* Incrementing a pointer changes one bit of its Gray code.  A carry runs  *)
(* up from bit 0 and, once it has stopped, does not start again; a bit of  *)
(* the code changes where it stops.                                        *)
(***************************************************************************)
Carry(p, i) == Shift(p + 1, i) = Shift(p, i) + 1

LEMMA CarryOrNot ==
    ASSUME NEW p \in Nat
    PROVE  \A i \in 0 .. AddrBits : Carry(p, i) \/ Shift(p + 1, i) = Shift(p, i)
<1> DEFINE Bad == {i \in 0 .. AddrBits : ~ (Carry(p, i) \/ Shift(p + 1, i) = Shift(p, i))}
<1>1. SUFFICES ASSUME NEW e \in Bad PROVE FALSE
  OBVIOUS
<1>2. Bad \subseteq Nat BY DepthAssumption
<1>3. PICK m \in Bad : \A n \in Bad : m <= n
  <2>. HIDE DEF Bad
  <2>. QED BY <1>1, <1>2, Least
<1>4. m # 0 BY <1>3, ShiftZero, p + 1 \in Nat DEF Carry
<1>5. /\ m - 1 \in 0 .. AddrBits - 1 /\ m - 1 \in 0 .. AddrBits
      /\ (m - 1) + 1 = m /\ m - 1 \notin Bad
  BY <1>3, <1>4, DepthAssumption
<1>6. /\ Shift(p + 1, m) = Shift(p + 1, m - 1) \div 2
      /\ Shift(p, m) = Shift(p, m - 1) \div 2
  BY <1>5, ShiftNext, p + 1 \in Nat
<1>7. Shift(p, m - 1) \in Nat BY <1>5, ShiftType
<1>8. \A a \in Nat : (a + 1) \div 2 \in {a \div 2, (a \div 2) + 1} OBVIOUS
<1>. QED BY <1>3, <1>5, <1>6, <1>7, <1>8 DEF Carry

LEMMA CarryStops ==
    ASSUME NEW p \in Nat, NEW i \in 0 .. AddrBits, ~ Carry(p, i)
    PROVE  \A j \in i .. AddrBits : ~ Carry(p, j)
<1> DEFINE Bad == {j \in i .. AddrBits : Carry(p, j)}
<1>1. SUFFICES ASSUME NEW e \in Bad PROVE FALSE
  OBVIOUS
<1>2. Bad \subseteq Nat BY DepthAssumption
<1>3. PICK m \in Bad : \A n \in Bad : m <= n
  <2>. HIDE DEF Bad
  <2>. QED BY <1>1, <1>2, Least
<1>5. /\ m - 1 \in i .. AddrBits /\ m - 1 \in 0 .. AddrBits - 1 /\ m - 1 \in 0 .. AddrBits
      /\ m \in 0 .. AddrBits /\ (m - 1) + 1 = m /\ m - 1 \notin Bad
  BY <1>3, DepthAssumption, SMTT(30)
<1>6. Shift(p + 1, m - 1) = Shift(p, m - 1) BY <1>5, CarryOrNot
<1>7. Shift(p + 1, m) = Shift(p, m) BY <1>5, <1>6, ShiftNext, p + 1 \in Nat
<1>8. Shift(p, m) \in Nat BY <1>5, ShiftType
<1>. QED BY <1>3, <1>7, <1>8 DEF Carry

LEMMA CarryFlips ==
    ASSUME NEW p \in Nat, NEW i \in 0 .. AddrBits
    PROVE  Carry(p, i) <=> PointerBit(p + 1, i) # PointerBit(p, i)
<1>1. Shift(p, i) \in Nat BY ShiftType
<1>2. Carry(p, i) \/ Shift(p + 1, i) = Shift(p, i) BY CarryOrNot
<1>3. \A a \in Nat : (a + 1) % 2 # a % 2 OBVIOUS
<1>4. Carry(p, i) => Shift(p + 1, i) # Shift(p, i) BY <1>1 DEF Carry
<1>. QED BY <1>1, <1>2, <1>3, <1>4 DEF Carry, PointerBit, Shift

LEMMA IncIs ==
    ASSUME NEW p \in Pointers
    PROVE  /\ Inc(p) \in Pointers
           /\ Inc(p) = IF p = 2 * depth - 1 THEN 0 ELSE p + 1
<1>1. 2 * depth \in Nat \ {0} /\ p + 1 \in Nat BY DepthIs DEF Pointers
<1>2. CASE p = 2 * depth - 1
  <2>1. p + 1 = 2 * depth BY <1>1, <1>2
  <2>2. (p + 1) % (2 * depth) = 0 BY <1>1, <2>1, ModIs
  <2>. QED BY <1>1, <1>2, <2>2 DEF Inc, Pointers
<1>3. CASE p # 2 * depth - 1
  <2>1. p + 1 < 2 * depth BY <1>1, <1>3 DEF Pointers
  <2>2. (p + 1) % (2 * depth) = p + 1 BY <1>1, <2>1, ModIs
  <2>. QED BY <1>1, <1>3, <2>1, <2>2 DEF Inc, Pointers
<1>. QED BY <1>2, <1>3

\* The last pointer is all ones.
LEMMA AllOnes == Gray(2 * depth - 1) \subseteq {Top}
<1> DEFINE p == 2 * depth - 1
<1>1. p \in Nat /\ p \in Pointers /\ p + 1 = 2 * depth BY DepthIs DEF Pointers
<1>2. ASSUME NEW i \in 0 .. Top PROVE PointerBit(2 * depth, i) = 0
  <2>0. i \in 0 .. AddrBits BY DepthAssumption DEF Top
  <2>1. depth \in Nat /\ 0 + depth = depth /\ depth + depth = 2 * depth BY DepthIs
  <2>2. PointerBit(0 + depth, i) = PointerBit(0, i) <=> i # Top BY BitFar
  <2>3. PointerBit(depth + depth, i) = PointerBit(depth, i) <=> i # Top BY BitFar, <2>1
  <2>4. PointerBit(0, i) = 0
    <3>1. 0 \div Weight[i] = 0 BY <2>0, WeightPositive, DivIs
    <3>. QED BY <3>1 DEF PointerBit
  <2>5. /\ PointerBit(0 + depth, i) \in {0, 1} /\ PointerBit(depth + depth, i) \in {0, 1}
    BY <2>0, <2>1, ShiftType
  <2>. QED BY <2>1, <2>2, <2>3, <2>4, <2>5
<1>3. PointerBit(2 * depth, AddrBits) = 1
  <2>1. Weight[AddrBits] = 2 * depth /\ 2 * depth \in Nat \ {0} BY DepthIs
  <2>2. (2 * depth) \div (2 * depth) = 1
    BY <2>1, DivIs, 1 * (2 * depth) <= 2 * depth, 2 * depth < (1 + 1) * (2 * depth)
  <2>. QED BY <2>1, <2>2 DEF PointerBit
<1>4. PointerBit(p, AddrBits) = 0 BY <1>1, LastBit
<1>5. AddrBits \in 0 .. AddrBits BY DepthAssumption
<1>6. Carry(p, AddrBits) BY <1>1, <1>3, <1>4, <1>5, CarryFlips
<1>7. ASSUME NEW i \in 0 .. Top PROVE PointerBit(p, i) = 1
  <2>1. i \in 0 .. AddrBits /\ AddrBits \in i .. AddrBits BY DepthAssumption DEF Top
  <2>2. Carry(p, i) BY <1>1, <1>6, <2>1, CarryStops
  <2>3. PointerBit(p + 1, i) # PointerBit(p, i) BY <1>1, <2>1, <2>2, CarryFlips
  <2>4. PointerBit(p, i) \in {0, 1} BY <1>1, <2>1, ShiftType
  <2>. QED BY <1>1, <1>2, <2>3, <2>4
<1>8. ASSUME NEW i \in 0 .. AddrBits - 1, i # Top PROVE i \notin Gray(p)
  <2>1. i \in 0 .. Top /\ i + 1 \in 0 .. Top BY <1>8, DepthAssumption DEF Top
  <2>. QED BY <2>1, <1>7 DEF Gray
<1>. QED BY <1>8 DEF Gray

LEMMA AtMostOne ==
    ASSUME NEW S, \A x, y \in S : x = y
    PROVE  Cardinality(S) <= 1
<1>1. CASE S = {} BY <1>1, FS_EmptySet
<1>2. CASE S # {}
  <2>1. PICK x \in S : TRUE BY <1>2
  <2>2. S = {x} BY <2>1
  <2>. QED BY <2>2, FS_Singleton
<1>. QED BY <1>1, <1>2

LEMMA GrayStep ==
    ASSUME NEW p \in Pointers
    PROVE  OneBit(Gray(p), Gray(Inc(p)))
<1>1. p \in Nat /\ p + 1 \in Nat BY DepthIs DEF Pointers
<1>2. CASE p = 2 * depth - 1
  <2>1. Inc(p) = 0 BY <1>2, IncIs
  <2>2. Xor(Gray(p), Gray(Inc(p))) \subseteq {Top}
    BY <1>2, <2>1, GrayZero, AllOnes DEF Xor
  <2>. QED BY <2>2, AtMostOne DEF OneBit
<1>3. CASE p # 2 * depth - 1
  <2>1. Inc(p) = p + 1 /\ p + 1 \in Pointers BY <1>3, IncIs
  <2>2. ~ Carry(p, AddrBits)
    <3>1. AddrBits \in 0 .. AddrBits BY DepthAssumption
    <3>2. PointerBit(p + 1, AddrBits) = PointerBit(p, AddrBits) BY <2>1, LastBit
    <3>. QED BY <1>1, <3>1, <3>2, CarryFlips
  <2>3. \A i \in 0 .. AddrBits - 1 :
          i \in Xor(Gray(p), Gray(p + 1)) <=> ~ (Carry(p, i) <=> Carry(p, i + 1))
    <3>1. SUFFICES ASSUME NEW i \in 0 .. AddrBits - 1
                   PROVE  i \in Xor(Gray(p), Gray(p + 1)) <=> ~ (Carry(p, i) <=> Carry(p, i + 1))
      OBVIOUS
    <3>2. i \in 0 .. AddrBits /\ i + 1 \in 0 .. AddrBits BY DepthAssumption
    <3>3. /\ Carry(p, i) <=> PointerBit(p + 1, i) # PointerBit(p, i)
          /\ Carry(p, i + 1) <=> PointerBit(p + 1, i + 1) # PointerBit(p, i + 1)
      BY <1>1, <3>2, CarryFlips
    <3>4. /\ PointerBit(p + 1, i) \in {0, 1} /\ PointerBit(p, i) \in {0, 1}
          /\ PointerBit(p + 1, i + 1) \in {0, 1} /\ PointerBit(p, i + 1) \in {0, 1}
      BY <1>1, <3>2, ShiftType
    <3>5. /\ i \in Gray(p) <=> PointerBit(p, i) # PointerBit(p, i + 1)
          /\ i \in Gray(p + 1) <=> PointerBit(p + 1, i) # PointerBit(p + 1, i + 1)
      BY DEF Gray
    <3>6. i \in Xor(Gray(p), Gray(p + 1)) <=> ~ (i \in Gray(p) <=> i \in Gray(p + 1))
      BY DEF Xor
    <3>. QED BY <3>3, <3>4, <3>5, <3>6
  <2>4. ASSUME NEW i \in 0 .. AddrBits - 1, NEW j \in 0 .. AddrBits - 1,
               i \in Xor(Gray(p), Gray(p + 1)), j \in Xor(Gray(p), Gray(p + 1)), i < j
        PROVE  FALSE
    <3>1. /\ i \in 0 .. AddrBits /\ i + 1 \in 0 .. AddrBits /\ i + 1 \in i .. AddrBits
          /\ j \in i + 1 .. AddrBits /\ j + 1 \in i + 1 .. AddrBits
      BY <2>4, DepthAssumption
    <3>2. CASE Carry(p, i + 1)
      <4>1. ~ Carry(p, i) BY <2>3, <2>4, <3>2
      <4>. QED BY <4>1, <3>1, <3>2, <1>1, CarryStops
    <3>3. CASE ~ Carry(p, i + 1)
      <4>1. ~ Carry(p, j) /\ ~ Carry(p, j + 1) BY <3>1, <3>3, <1>1, CarryStops
      <4>. QED BY <4>1, <2>3, <2>4
    <3>. QED BY <3>2, <3>3
  <2>5. Xor(Gray(p), Gray(p + 1)) \subseteq 0 .. AddrBits - 1 BY DEF Xor, Gray
  <2>6. \A i, j \in Xor(Gray(p), Gray(p + 1)) : i = j
    <3>1. SUFFICES ASSUME NEW i \in Xor(Gray(p), Gray(p + 1)), NEW j \in Xor(Gray(p), Gray(p + 1)),
                          i # j
                   PROVE  FALSE
      OBVIOUS
    <3>2. i \in 0 .. AddrBits - 1 /\ j \in 0 .. AddrBits - 1 BY <2>5
    <3>3. i < j \/ j < i BY <3>1, <3>2
    <3>. QED BY <3>2, <3>3, <2>4
  <2>. QED BY <2>1, <2>6, AtMostOne DEF OneBit
<1>. QED BY <1>2, <1>3

-----------------------------------------------------------------------------
(***************************************************************************)
(* Type correctness                                                        *)
(***************************************************************************)
LEMMA SlotIs ==
    ASSUME NEW p \in Pointers
    PROVE  /\ Slot(p) \in 0 .. depth - 1
           /\ Slot(p) = IF p < depth THEN p ELSE p - depth
<1>1. depth \in Nat \ {0} /\ p \in Nat /\ p < 2 * depth BY DepthIs DEF Pointers
<1>2. CASE p < depth
  <2>1. p % depth = p BY <1>1, <1>2, ModIs
  <2>. QED BY <1>1, <1>2, <2>1 DEF Slot
<1>3. CASE ~ (p < depth)
  <2>0. depth <= p /\ p < 2 * depth BY <1>1, <1>3
  <2>1. p % depth = p - depth BY <1>1, <2>0, ModIs
  <2>. QED BY <1>1, <1>3, <2>1 DEF Slot
<1>. QED BY <1>2, <1>3

LEMMA WriteLogicType ==
    ASSUME CdcTypeOK, NEW g \in Codes, WriteLogic(g)
    PROVE  /\ mem' \in [0 .. depth - 1 -> Data] /\ wptr' \in Pointers
           /\ wgray' \in Codes /\ rgray_s1' \in Codes /\ rgray_s2' \in Codes
<1>1. CASE ResetWriter
  BY <1>1, DepthIs DEF ResetWriter, CdcTypeOK, Pointers, Codes
<1>2. ASSUME NEW d \in Data, AcceptWord(d, g)
      PROVE  /\ mem' \in [0 .. depth - 1 -> Data] /\ wptr' \in Pointers
             /\ wgray' \in Codes /\ rgray_s1' \in Codes /\ rgray_s2' \in Codes
  BY <1>2, IncIs, GrayType, SlotIs DEF AcceptWord, SampleReader, CdcTypeOK
<1>3. CASE IdleWriter(g)
  BY <1>3 DEF IdleWriter, SampleReader, CdcTypeOK
<1>. QED BY <1>1, <1>2, <1>3 DEF WriteLogic

LEMMA ReadLogicType ==
    ASSUME CdcTypeOK, NEW g \in Codes, ReadLogic(g)
    PROVE  /\ rptr' \in Pointers /\ taken' \in Data
           /\ rgray' \in Codes /\ wgray_s1' \in Codes /\ wgray_s2' \in Codes
<1>1. CASE ResetReader
  BY <1>1, DepthIs DEF ResetReader, CdcTypeOK, Pointers, Codes
<1>2. CASE Take(g)
  BY <1>2, IncIs, GrayType, SlotIs DEF Take, SampleWriter, CdcTypeOK, rdata
<1>3. CASE IdleReader(g)
  BY <1>3 DEF IdleReader, SampleWriter, CdcTypeOK
<1>. QED BY <1>1, <1>2, <1>3 DEF ReadLogic

LEMMA InitType == CdcInit => CdcTypeOK
<1>1. Zero \in Data /\ 0 \in Pointers BY DepthIs, DepthAssumption DEF Pointers
<1>. QED BY <1>1 DEF CdcInit, CdcTypeOK, Codes

LEMMA NextType == CdcTypeOK /\ [CdcNext]_cdcVars => CdcTypeOK'
<1>. SUFFICES ASSUME CdcTypeOK, [CdcNext]_cdcVars PROVE CdcTypeOK'
  OBVIOUS
<1>0. wgray \in Codes /\ rgray \in Codes BY DEF CdcTypeOK
<1>1. CASE WriteEdge
  BY <1>0, <1>1, WriteLogicType DEF WriteEdge, CdcTypeOK, reader
<1>2. CASE ReadEdge
  BY <1>0, <1>2, ReadLogicType DEF ReadEdge, CdcTypeOK, writer
<1>3. CASE BothEdges
  <2>1. wrst' \in BOOLEAN /\ rrst' \in BOOLEAN /\ held' = {}
    BY <1>3 DEF BothEdges, CdcTypeOK
  <2>2. CASE WriteLogic(rgray) /\ ReadLogic(wgray)
    BY <1>0, <2>1, <2>2, WriteLogicType, ReadLogicType DEF CdcTypeOK
  <2>3. CASE ReadLogic(wgray) /\ WriteLogic(rgray')
    <3>1. rgray' \in Codes BY <1>0, <2>3, ReadLogicType
    <3>. QED BY <1>0, <2>1, <2>3, <3>1, WriteLogicType, ReadLogicType DEF CdcTypeOK
  <2>4. CASE WriteLogic(rgray) /\ ReadLogic(wgray')
    <3>1. wgray' \in Codes BY <1>0, <2>4, WriteLogicType
    <3>. QED BY <1>0, <2>1, <2>4, <3>1, WriteLogicType, ReadLogicType DEF CdcTypeOK
  <2>. QED BY <1>3, <2>2, <2>3, <2>4 DEF BothEdges
<1>4. CASE AssertReset
  BY <1>4 DEF AssertReset, CdcTypeOK, writer, reader
<1>5. CASE ReleaseWriter
  BY <1>5 DEF ReleaseWriter, CdcTypeOK, writer, reader
<1>6. CASE ReleaseReader
  BY <1>6 DEF ReleaseReader, CdcTypeOK, writer, reader
<1>7. CASE UNCHANGED cdcVars
  BY <1>7 DEF cdcVars, CdcTypeOK, writer, reader
<1>. QED BY <1>1, <1>2, <1>3, <1>4, <1>5, <1>6, <1>7 DEF CdcNext

(***************************************************************************)
(* Pointers stay pointers, codes stay codes and memory holds words, for    *)
(* every depth and word type.                                              *)
(***************************************************************************)
THEOREM TypeCorrect == CdcSpec => []CdcTypeOK
BY InitType, NextType, PTL DEF CdcSpec

-----------------------------------------------------------------------------
(***************************************************************************)
(* The inductive invariant.  Outside a reset the pointers of the reader    *)
(* that the writer has heard of, a1 and a2, lag behind the reader's, those *)
(* of the writer that the reader has heard of, b1 and b2, lag behind the   *)
(* writer's, and even by the oldest news the writer is at most the depth   *)
(* ahead:                                                                  *)
(*           a2 <= a1 <= rptr <= b2 <= b1 <= wptr <= a2 + depth            *)
(* on the circle of pointers.                                              *)
(***************************************************************************)
Order(w, r, a1, a2, b1, b2) ==
    /\ Ahead(w, r) <= Ahead(w, a1) /\ Ahead(w, a1) <= Ahead(w, a2)
    /\ Ahead(w, a2) <= depth
    /\ Ahead(b2, r) <= Ahead(b1, r) /\ Ahead(b1, r) <= Ahead(w, r)

LEMMA AheadType == \A p, q \in Pointers : Ahead(p, q) \in Nat
BY DepthIs DEF Ahead, Pointers

LEMMA WriterStep ==
    ASSUME NEW w \in Pointers, NEW r \in Pointers, NEW a1 \in Pointers, NEW a2 \in Pointers,
           NEW b1 \in Pointers, NEW b2 \in Pointers, NEW s \in Pointers,
           Order(w, r, a1, a2, b1, b2),
           Ahead(w, r) <= Ahead(w, s), Ahead(w, s) <= Ahead(w, a1)
    PROVE  /\ Order(w, r, s, a1, b1, b2)
           /\ Ahead(w, a2) # depth => Order(Inc(w), r, s, a1, b1, b2)
<1>1. depth \in Nat \ {0} BY DepthIs
<1>2. Order(w, r, s, a1, b1, b2) BY <1>1 DEF Order, Ahead, Pointers
<1>3. ASSUME Ahead(w, a2) # depth PROVE Order(Inc(w), r, s, a1, b1, b2)
  BY <1>1, <1>3, IncIs DEF Order, Ahead, Pointers
<1>. QED BY <1>2, <1>3

LEMMA ReaderStep ==
    ASSUME NEW w \in Pointers, NEW r \in Pointers, NEW a1 \in Pointers, NEW a2 \in Pointers,
           NEW b1 \in Pointers, NEW b2 \in Pointers, NEW s \in Pointers,
           Order(w, r, a1, a2, b1, b2),
           Ahead(b1, r) <= Ahead(s, r), Ahead(s, r) <= Ahead(w, r)
    PROVE  /\ Order(w, r, a1, a2, s, b1)
           /\ b2 # r => Order(w, Inc(r), a1, a2, s, b1)
<1>1. depth \in Nat \ {0} BY DepthIs
<1>2. Order(w, r, a1, a2, s, b1) BY <1>1 DEF Order, Ahead, Pointers
<1>3. ASSUME b2 # r PROVE Order(w, Inc(r), a1, a2, s, b1)
  BY <1>1, <1>3, IncIs DEF Order, Ahead, Pointers
<1>. QED BY <1>2, <1>3

(***************************************************************************)
(* What an edge of one clock does to its own side and to the order.        *)
(***************************************************************************)
WriterCleared == wptr = 0 /\ wgray = {} /\ rgray_s1 = {} /\ rgray_s2 = {}
ReaderCleared == rptr = 0 /\ rgray = {} /\ wgray_s1 = {} /\ wgray_s2 = {}

LEMMA WriteEffect ==
    ASSUME CdcTypeOK, wrst => WriterCleared,
           NEW a1 \in Pointers, NEW a2 \in Pointers, NEW s \in Pointers,
           wgray = Gray(wptr), rgray_s1 = Gray(a1), rgray_s2 = Gray(a2),
           WriteLogic(Gray(s))
    PROVE  \E c1, c2 \in Pointers :
             /\ wgray' = Gray(wptr') /\ rgray_s1' = Gray(c1) /\ rgray_s2' = Gray(c2)
             /\ \A r, b1, b2 \in Pointers :
                   /\ Order(wptr, r, a1, a2, b1, b2)
                   /\ Ahead(wptr, r) <= Ahead(wptr, s) /\ Ahead(wptr, s) <= Ahead(wptr, a1)
                   => /\ Order(wptr', r, c1, c2, b1, b2)
                      /\ Ahead(wptr, r) <= Ahead(wptr', r)
<1>0. wptr \in Pointers BY DEF CdcTypeOK
<1>1. CASE ResetWriter
  <2>1. /\ wptr' = wptr /\ wgray' = wgray
        /\ rgray_s1' = Gray(a1) /\ rgray_s2' = Gray(a2)
    BY <1>1 DEF ResetWriter, WriterCleared
  <2>2. \A r \in Pointers : Ahead(wptr, r) <= Ahead(wptr', r)
    BY <1>0, <2>1, DepthIs DEF Ahead, Pointers
  <2>. QED BY <2>1, <2>2
<1>2. ASSUME NEW d \in Data, AcceptWord(d, Gray(s))
      PROVE  /\ wgray' = Gray(wptr') /\ rgray_s1' = Gray(s) /\ rgray_s2' = Gray(a1)
             /\ \A r, b1, b2 \in Pointers :
                   /\ Order(wptr, r, a1, a2, b1, b2)
                   /\ Ahead(wptr, r) <= Ahead(wptr, s) /\ Ahead(wptr, s) <= Ahead(wptr, a1)
                   => /\ Order(wptr', r, s, a1, b1, b2)
                      /\ Ahead(wptr, r) <= Ahead(wptr', r)
  <2>1. /\ wptr' = Inc(wptr) /\ wgray' = Gray(wptr')
        /\ rgray_s1' = Gray(s) /\ rgray_s2' = Gray(a1)
    BY <1>2 DEF AcceptWord, SampleReader
  <2>2. Ahead(wptr, a2) # depth
    BY <1>0, <1>2, GrayFar DEF AcceptWord, full
  <2>3. ASSUME NEW r \in Pointers, NEW b1 \in Pointers, NEW b2 \in Pointers,
               Order(wptr, r, a1, a2, b1, b2)
        PROVE  Ahead(wptr, r) <= Ahead(wptr', r)
    BY <1>0, <2>1, <2>2, <2>3, IncIs, DepthIs DEF Order, Ahead, Pointers
  <2>. QED BY <1>0, <2>1, <2>2, <2>3, WriterStep
<1>3. ASSUME IdleWriter(Gray(s))
      PROVE  /\ wgray' = Gray(wptr') /\ rgray_s1' = Gray(s) /\ rgray_s2' = Gray(a1)
             /\ \A r, b1, b2 \in Pointers :
                   /\ Order(wptr, r, a1, a2, b1, b2)
                   /\ Ahead(wptr, r) <= Ahead(wptr, s) /\ Ahead(wptr, s) <= Ahead(wptr, a1)
                   => /\ Order(wptr', r, s, a1, b1, b2)
                      /\ Ahead(wptr, r) <= Ahead(wptr', r)
  <2>1. /\ wptr' = wptr /\ wgray' = Gray(wptr')
        /\ rgray_s1' = Gray(s) /\ rgray_s2' = Gray(a1)
    BY <1>3 DEF IdleWriter, SampleReader
  <2>2. \A r \in Pointers : Ahead(wptr, r) <= Ahead(wptr', r)
    BY <1>0, <2>1, DepthIs DEF Ahead, Pointers
  <2>. QED BY <1>0, <2>1, <2>2, WriterStep
<1>. QED BY <1>1, <1>2, <1>3 DEF WriteLogic

LEMMA ReadEffect ==
    ASSUME CdcTypeOK, rrst => ReaderCleared,
           NEW b1 \in Pointers, NEW b2 \in Pointers, NEW s \in Pointers,
           rgray = Gray(rptr), wgray_s1 = Gray(b1), wgray_s2 = Gray(b2),
           ReadLogic(Gray(s))
    PROVE  \E c1, c2 \in Pointers :
             /\ rgray' = Gray(rptr') /\ wgray_s1' = Gray(c1) /\ wgray_s2' = Gray(c2)
             /\ \A w, a1, a2 \in Pointers :
                   /\ Order(w, rptr, a1, a2, b1, b2)
                   /\ Ahead(b1, rptr) <= Ahead(s, rptr) /\ Ahead(s, rptr) <= Ahead(w, rptr)
                   => /\ Order(w, rptr', a1, a2, c1, c2)
                      /\ Ahead(w, rptr') <= Ahead(w, rptr)
<1>0. rptr \in Pointers BY DEF CdcTypeOK
<1>1. CASE ResetReader
  <2>1. /\ rptr' = rptr /\ rgray' = rgray
        /\ wgray_s1' = Gray(b1) /\ wgray_s2' = Gray(b2)
    BY <1>1 DEF ResetReader, ReaderCleared
  <2>2. \A w \in Pointers : Ahead(w, rptr') <= Ahead(w, rptr)
    BY <1>0, <2>1, DepthIs DEF Ahead, Pointers
  <2>. QED BY <2>1, <2>2
<1>2. ASSUME Take(Gray(s))
      PROVE  /\ rgray' = Gray(rptr') /\ wgray_s1' = Gray(s) /\ wgray_s2' = Gray(b1)
             /\ \A w, a1, a2 \in Pointers :
                   /\ Order(w, rptr, a1, a2, b1, b2)
                   /\ Ahead(b1, rptr) <= Ahead(s, rptr) /\ Ahead(s, rptr) <= Ahead(w, rptr)
                   => /\ Order(w, rptr', a1, a2, s, b1)
                      /\ Ahead(w, rptr') <= Ahead(w, rptr)
  <2>1. /\ rptr' = Inc(rptr) /\ rgray' = Gray(rptr')
        /\ wgray_s1' = Gray(s) /\ wgray_s2' = Gray(b1)
    BY <1>2 DEF Take, SampleWriter
  <2>2. b2 # rptr BY <1>2 DEF Take, empty
  <2>3. ASSUME NEW w \in Pointers, NEW a1 \in Pointers, NEW a2 \in Pointers,
               Order(w, rptr, a1, a2, b1, b2)
        PROVE  Ahead(w, rptr') <= Ahead(w, rptr)
    BY <1>0, <2>1, <2>2, <2>3, IncIs, DepthIs DEF Order, Ahead, Pointers
  <2>. QED BY <1>0, <2>1, <2>2, <2>3, ReaderStep, ZenonT(60)
<1>3. ASSUME IdleReader(Gray(s))
      PROVE  /\ rgray' = Gray(rptr') /\ wgray_s1' = Gray(s) /\ wgray_s2' = Gray(b1)
             /\ \A w, a1, a2 \in Pointers :
                   /\ Order(w, rptr, a1, a2, b1, b2)
                   /\ Ahead(b1, rptr) <= Ahead(s, rptr) /\ Ahead(s, rptr) <= Ahead(w, rptr)
                   => /\ Order(w, rptr', a1, a2, s, b1)
                      /\ Ahead(w, rptr') <= Ahead(w, rptr)
  <2>1. /\ rptr' = rptr /\ rgray' = Gray(rptr')
        /\ wgray_s1' = Gray(s) /\ wgray_s2' = Gray(b1)
    BY <1>3 DEF IdleReader, SampleWriter
  <2>2. \A w \in Pointers : Ahead(w, rptr') <= Ahead(w, rptr)
    BY <1>0, <2>1, DepthIs DEF Ahead, Pointers
  <2>. QED BY <1>0, <2>1, <2>2, ReaderStep
<1>. QED BY <1>1, <1>2, <1>3 DEF ReadLogic

Linked(a1, a2, b1, b2) ==
    /\ wgray = Gray(wptr) /\ rgray_s1 = Gray(a1) /\ rgray_s2 = Gray(a2)
    /\ rgray = Gray(rptr) /\ wgray_s1 = Gray(b1) /\ wgray_s2 = Gray(b2)
    /\ Order(wptr, rptr, a1, a2, b1, b2)
InOrder == \E a1, a2, b1, b2 \in Pointers : Linked(a1, a2, b1, b2)

ResetInv == /\ held # {} => wrst /\ rrst
            /\ wrst /\ "w" \notin held => WriterCleared
            /\ rrst /\ "r" \notin held => ReaderCleared

FifoInv == /\ CdcTypeOK /\ ResetInv
           /\ held = {} => InOrder

LEMMA ClearedInOrder == WriterCleared /\ ReaderCleared => InOrder
<1>. SUFFICES ASSUME WriterCleared, ReaderCleared PROVE InOrder
  OBVIOUS
<1>1. 0 \in Pointers /\ Ahead(0, 0) = 0 BY DepthIs DEF Pointers, Ahead
<1>2. Order(0, 0, 0, 0, 0, 0) BY <1>1, DepthIs DEF Order
<1>3. Linked(0, 0, 0, 0) BY <1>2, GrayZero DEF Linked, WriterCleared, ReaderCleared
<1>. QED BY <1>1, <1>3 DEF InOrder

LEMMA InitInv == CdcInit => FifoInv
<1>. SUFFICES ASSUME CdcInit PROVE FifoInv
  OBVIOUS
<1>1. CdcTypeOK BY InitType
<1>2. WriterCleared /\ ReaderCleared BY DEF CdcInit, WriterCleared, ReaderCleared
<1>3. ResetInv BY DEF CdcInit, ResetInv
<1>. QED BY <1>1, <1>2, <1>3, ClearedInOrder DEF FifoInv

\* A side in reset is clear after its edge, whatever it was before.
LEMMA WriterInReset ==
    ASSUME NEW g, WriteLogic(g), wrst PROVE WriterCleared'
BY DEF WriteLogic, ResetWriter, AcceptWord, IdleWriter, WriterCleared

LEMMA ReaderInReset ==
    ASSUME NEW g, ReadLogic(g), rrst PROVE ReaderCleared'
BY DEF ReadLogic, ResetReader, Take, IdleReader, ReaderCleared

LEMMA NextReset == FifoInv /\ [CdcNext]_cdcVars => ResetInv'
<1>. SUFFICES ASSUME FifoInv, [CdcNext]_cdcVars PROVE ResetInv'
  OBVIOUS
<1>. ResetInv BY DEF FifoInv
<1>1. CASE WriteEdge
  <2>1. /\ held' = held \ {"w"} /\ wrst' = wrst /\ rrst' = rrst
        /\ ReaderCleared => ReaderCleared'
    BY <1>1 DEF WriteEdge, reader, ReaderCleared
  <2>2. wrst => WriterCleared' BY <1>1, WriterInReset DEF WriteEdge
  <2>. QED BY <2>1, <2>2 DEF ResetInv
<1>2. CASE ReadEdge
  <2>1. /\ held' = held \ {"r"} /\ wrst' = wrst /\ rrst' = rrst
        /\ WriterCleared => WriterCleared'
    BY <1>2 DEF ReadEdge, writer, WriterCleared
  <2>2. rrst => ReaderCleared' BY <1>2, ReaderInReset DEF ReadEdge
  <2>. QED BY <2>1, <2>2 DEF ResetInv
<1>3. CASE BothEdges
  <2>1. held' = {} /\ wrst' = wrst /\ rrst' = rrst BY <1>3 DEF BothEdges
  <2>2. /\ wrst => WriterCleared'
        /\ rrst => ReaderCleared'
    BY <1>3, WriterInReset, ReaderInReset DEF BothEdges
  <2>. QED BY <2>1, <2>2 DEF ResetInv
<1>4. CASE AssertReset
  BY <1>4 DEF AssertReset, ResetInv
<1>5. CASE ReleaseWriter
  BY <1>5 DEF ReleaseWriter, ResetInv, WriterCleared, ReaderCleared, writer, reader
<1>6. CASE ReleaseReader
  BY <1>6 DEF ReleaseReader, ResetInv, WriterCleared, ReaderCleared, writer, reader
<1>7. CASE UNCHANGED cdcVars
  BY <1>7 DEF cdcVars, ResetInv, WriterCleared, ReaderCleared, writer, reader
<1>. QED BY <1>1, <1>2, <1>3, <1>4, <1>5, <1>6, <1>7 DEF CdcNext

LEMMA NextOrder == FifoInv /\ [CdcNext]_cdcVars /\ held' = {} => InOrder'
<1>. SUFFICES ASSUME FifoInv, [CdcNext]_cdcVars, held' = {} PROVE InOrder'
  OBVIOUS
<1>. CdcTypeOK /\ ResetInv BY DEF FifoInv
<1>0. wptr \in Pointers /\ rptr \in Pointers BY DEF CdcTypeOK
<1>1. CASE held # {}
  <2>0. wrst /\ rrst BY <1>1 DEF ResetInv
  <2>1. CASE WriteEdge
    <3>1. "r" \notin held /\ ReaderCleared' /\ WriterCleared'
      BY <2>0, <2>1, WriterInReset DEF WriteEdge, reader, ResetInv, ReaderCleared
    <3>. QED BY <3>1, ClearedInOrder, PTL
  <2>2. CASE ReadEdge
    <3>1. "w" \notin held /\ ReaderCleared' /\ WriterCleared'
      BY <2>0, <2>2, ReaderInReset DEF ReadEdge, writer, ResetInv, WriterCleared
    <3>. QED BY <3>1, ClearedInOrder, PTL
  <2>3. CASE BothEdges
    <3>1. ReaderCleared' /\ WriterCleared'
      BY <2>0, <2>3, ReaderInReset, WriterInReset DEF BothEdges
    <3>. QED BY <3>1, ClearedInOrder, PTL
  <2>4. ~ AssertReset /\ ~ ReleaseWriter /\ ~ ReleaseReader /\ ~ UNCHANGED cdcVars
    BY <1>1 DEF AssertReset, ReleaseWriter, ReleaseReader, cdcVars
  <2>. QED BY <2>1, <2>2, <2>3, <2>4 DEF CdcNext
<1>2. CASE held = {}
  <2>1. PICK a1 \in Pointers, a2 \in Pointers, b1 \in Pointers, b2 \in Pointers :
           Linked(a1, a2, b1, b2)
    BY <1>2 DEF FifoInv, InOrder
  <2>2. /\ wrst => WriterCleared
        /\ rrst => ReaderCleared
    BY <1>2 DEF ResetInv
  <2>3. /\ wgray = Gray(wptr) /\ rgray_s1 = Gray(a1) /\ rgray_s2 = Gray(a2)
        /\ rgray = Gray(rptr) /\ wgray_s1 = Gray(b1) /\ wgray_s2 = Gray(b2)
        /\ Order(wptr, rptr, a1, a2, b1, b2)
    BY <2>1 DEF Linked
  <2>4. /\ Ahead(wptr, rptr) <= Ahead(wptr, rptr) /\ Ahead(wptr, rptr) <= Ahead(wptr, a1)
        /\ Ahead(b1, rptr) <= Ahead(wptr, rptr) /\ Ahead(wptr, rptr) <= Ahead(wptr, rptr)
    BY <2>3, <1>0, DepthIs DEF Order, Ahead, Pointers
  <2>5. CASE WriteEdge
    <3>1. PICK c1 \in Pointers, c2 \in Pointers :
             /\ wgray' = Gray(wptr') /\ rgray_s1' = Gray(c1) /\ rgray_s2' = Gray(c2)
             /\ Order(wptr', rptr, c1, c2, b1, b2)
      <4>1. WriteLogic(Gray(rptr)) BY <2>3, <2>5 DEF WriteEdge
      <4>. QED BY <4>1, <1>0, <2>2, <2>3, <2>4, WriteEffect
    <3>2. rptr' = rptr /\ rgray' = rgray /\ wgray_s1' = wgray_s1 /\ wgray_s2' = wgray_s2
      BY <2>5 DEF WriteEdge, reader
    <3>3. Linked(c1, c2, b1, b2)' BY <2>3, <3>1, <3>2 DEF Linked
    <3>. QED BY <3>3 DEF InOrder
  <2>6. CASE ReadEdge
    <3>1. PICK c1 \in Pointers, c2 \in Pointers :
             /\ rgray' = Gray(rptr') /\ wgray_s1' = Gray(c1) /\ wgray_s2' = Gray(c2)
             /\ Order(wptr, rptr', a1, a2, c1, c2)
      <4>1. ReadLogic(Gray(wptr)) BY <2>3, <2>6 DEF ReadEdge
      <4>. QED BY <4>1, <1>0, <2>2, <2>3, <2>4, ReadEffect
    <3>2. wptr' = wptr /\ wgray' = wgray /\ rgray_s1' = rgray_s1 /\ rgray_s2' = rgray_s2
      BY <2>6 DEF ReadEdge, writer
    <3>3. Linked(a1, a2, c1, c2)' BY <2>3, <3>1, <3>2 DEF Linked
    <3>. QED BY <3>3 DEF InOrder
  <2>7. CASE BothEdges
    <3>0. wptr' \in Pointers /\ rptr' \in Pointers BY NextType DEF CdcTypeOK
    <3>1. CASE WriteLogic(rgray) /\ ReadLogic(wgray)
      <4>1. WriteLogic(Gray(rptr)) /\ ReadLogic(Gray(wptr)) BY <2>3, <3>1
      <4>2. PICK d1 \in Pointers, d2 \in Pointers :
               /\ rgray' = Gray(rptr') /\ wgray_s1' = Gray(d1) /\ wgray_s2' = Gray(d2)
               /\ Order(wptr, rptr', a1, a2, d1, d2)
               /\ Ahead(wptr, rptr') <= Ahead(wptr, rptr)
        BY <4>1, <1>0, <2>2, <2>3, <2>4, ReadEffect
      <4>3. PICK c1 \in Pointers, c2 \in Pointers :
               /\ wgray' = Gray(wptr') /\ rgray_s1' = Gray(c1) /\ rgray_s2' = Gray(c2)
               /\ Order(wptr', rptr', c1, c2, d1, d2)
        BY <4>1, <4>2, <1>0, <3>0, <2>2, <2>3, <2>4, WriteEffect
      <4>4. Linked(c1, c2, d1, d2)' BY <4>2, <4>3 DEF Linked
      <4>. QED BY <4>4 DEF InOrder
    <3>2. CASE ReadLogic(wgray) /\ WriteLogic(rgray')
      <4>1. ReadLogic(Gray(wptr)) BY <2>3, <3>2
      <4>2. PICK d1 \in Pointers, d2 \in Pointers :
               /\ rgray' = Gray(rptr') /\ wgray_s1' = Gray(d1) /\ wgray_s2' = Gray(d2)
               /\ Order(wptr, rptr', a1, a2, d1, d2)
        BY <4>1, <1>0, <2>2, <2>3, <2>4, ReadEffect
      <4>3. WriteLogic(Gray(rptr')) BY <3>2, <4>2
      <4>4. Ahead(wptr, rptr') <= Ahead(wptr, rptr') /\ Ahead(wptr, rptr') <= Ahead(wptr, a1)
        BY <4>2, <1>0, <3>0, AheadType DEF Order
      <4>5. PICK c1 \in Pointers, c2 \in Pointers :
               /\ wgray' = Gray(wptr') /\ rgray_s1' = Gray(c1) /\ rgray_s2' = Gray(c2)
               /\ Order(wptr', rptr', c1, c2, d1, d2)
        BY <4>2, <4>3, <4>4, <3>0, <2>2, <2>3, WriteEffect
      <4>6. Linked(c1, c2, d1, d2)' BY <4>2, <4>5 DEF Linked
      <4>. QED BY <4>6 DEF InOrder
    <3>3. CASE WriteLogic(rgray) /\ ReadLogic(wgray')
      <4>1. WriteLogic(Gray(rptr)) BY <2>3, <3>3
      <4>2. PICK c1 \in Pointers, c2 \in Pointers :
               /\ wgray' = Gray(wptr') /\ rgray_s1' = Gray(c1) /\ rgray_s2' = Gray(c2)
               /\ Order(wptr', rptr, c1, c2, b1, b2)
        BY <4>1, <1>0, <2>2, <2>3, <2>4, WriteEffect
      <4>3. ReadLogic(Gray(wptr')) BY <3>3, <4>2
      <4>4. Ahead(b1, rptr) <= Ahead(wptr', rptr) /\ Ahead(wptr', rptr) <= Ahead(wptr', rptr)
        BY <4>2, <1>0, <3>0, AheadType DEF Order
      <4>5. PICK d1 \in Pointers, d2 \in Pointers :
               /\ rgray' = Gray(rptr') /\ wgray_s1' = Gray(d1) /\ wgray_s2' = Gray(d2)
               /\ Order(wptr', rptr', c1, c2, d1, d2)
        BY <4>2, <4>3, <4>4, <3>0, <2>2, <2>3, ReadEffect
      <4>6. Linked(c1, c2, d1, d2)' BY <4>2, <4>5 DEF Linked
      <4>. QED BY <4>6 DEF InOrder
    <3>. QED BY <2>7, <3>1, <3>2, <3>3 DEF BothEdges
  <2>8. CASE AssertReset
    BY <2>8 DEF AssertReset
  <2>9. CASE ReleaseWriter \/ ReleaseReader \/ UNCHANGED cdcVars
    <3>1. Linked(a1, a2, b1, b2)'
      BY <2>3, <2>9 DEF ReleaseWriter, ReleaseReader, cdcVars, writer, reader, Linked
    <3>. QED BY <3>1 DEF InOrder
  <2>. QED BY <2>5, <2>6, <2>7, <2>8, <2>9 DEF CdcNext
<1>. QED BY <1>1, <1>2

LEMMA NextInv == FifoInv /\ [CdcNext]_cdcVars => FifoInv'
BY NextType, NextReset, NextOrder DEF FifoInv

LEMMA InvHolds == CdcSpec => []FifoInv
BY InitInv, NextInv, PTL DEF CdcSpec

LEMMA OrderIsSafe == FifoInv => FlagsAreSafe
<1>. SUFFICES ASSUME FifoInv, held = {} PROVE FlagsAreSafe
  BY DEF FlagsAreSafe
<1>1. PICK a1 \in Pointers, a2 \in Pointers, b1 \in Pointers, b2 \in Pointers :
         Linked(a1, a2, b1, b2)
  BY DEF FifoInv, InOrder
<1>2. wptr \in Pointers /\ rptr \in Pointers BY DEF FifoInv, CdcTypeOK
<1>3. Order(wptr, rptr, a1, a2, b1, b2) BY <1>1 DEF Linked
<1>4. ~ full => Ahead(wptr, a2) # depth
  BY <1>1, <1>2, GrayFar DEF full, Linked
<1>5. ~ empty => b2 # rptr BY <1>1 DEF empty, Linked
<1>. QED BY <1>2, <1>3, <1>4, <1>5, DepthIs DEF FlagsAreSafe, Order, Ahead, Pointers, used

(***************************************************************************)
(* Whenever full is low there is room and whenever empty is low there is a *)
(* word, however late the news of the other side is.                       *)
(***************************************************************************)
THEOREM FlagsNeverLie == CdcSpec => []FlagsAreSafe
BY InvHolds, OrderIsSafe, PTL

-----------------------------------------------------------------------------
(***************************************************************************)
(* One bit at a time                                                       *)
(***************************************************************************)
LEMMA OneBitSame == \A g : OneBit(g, g)
<1>1. \A g : Xor(g, g) = {} BY DEF Xor
<1>. QED BY <1>1, FS_EmptySet DEF OneBit

LEMMA WriterOneBit ==
    ASSUME wptr \in Pointers, wgray = Gray(wptr), ~ wrst, NEW g, WriteLogic(g)
    PROVE  OneBit(wgray, wgray')
<1>1. wgray' = wgray \/ wgray' = Gray(Inc(wptr))
  BY DEF WriteLogic, ResetWriter, AcceptWord, IdleWriter
<1>. QED BY <1>1, OneBitSame, GrayStep

LEMMA ReaderOneBit ==
    ASSUME rptr \in Pointers, rgray = Gray(rptr), ~ rrst, NEW g, ReadLogic(g)
    PROVE  OneBit(rgray, rgray')
<1>1. rgray' = rgray \/ rgray' = Gray(Inc(rptr))
  BY DEF ReadLogic, ResetReader, Take, IdleReader
<1>. QED BY <1>1, OneBitSame, GrayStep

LEMMA StepOneBit ==
    ASSUME FifoInv, [CdcNext]_cdcVars
    PROVE  /\ ~ wrst => OneBit(wgray, wgray')
           /\ ~ rrst => OneBit(rgray, rgray')
<1>0. wptr \in Pointers /\ rptr \in Pointers BY DEF FifoInv, CdcTypeOK
<1>1. ~ wrst \/ ~ rrst => wgray = Gray(wptr) /\ rgray = Gray(rptr)
  BY DEF FifoInv, ResetInv, InOrder, Linked
<1>2. CASE WriteEdge
  <2>1. rgray' = rgray /\ WriteLogic(rgray) BY <1>2 DEF WriteEdge, reader
  <2>. QED BY <2>1, <1>0, <1>1, WriterOneBit, OneBitSame
<1>3. CASE ReadEdge
  <2>1. wgray' = wgray /\ ReadLogic(wgray) BY <1>3 DEF ReadEdge, writer
  <2>. QED BY <2>1, <1>0, <1>1, ReaderOneBit, OneBitSame
<1>4. CASE BothEdges
  BY <1>4, <1>0, <1>1, WriterOneBit, ReaderOneBit DEF BothEdges
<1>5. CASE AssertReset \/ ReleaseWriter \/ ReleaseReader \/ UNCHANGED cdcVars
  <2>1. wgray' = wgray /\ rgray' = rgray
    BY <1>5 DEF AssertReset, ReleaseWriter, ReleaseReader, cdcVars, writer, reader
  <2>. QED BY <2>1, OneBitSame
<1>. QED BY <1>2, <1>3, <1>4, <1>5 DEF CdcNext

(***************************************************************************)
(* Outside a reset the code that crosses to the other domain changes in at *)
(* most one bit at an edge, so that a flip-flop that samples it while it   *)
(* changes cannot read a code that was never there.                        *)
(***************************************************************************)
THEOREM OneBitAtATime == CdcSpec => OneBitCrosses
BY InvHolds, StepOneBit, PTL DEF CdcSpec, OneBitCrosses

-----------------------------------------------------------------------------
(***************************************************************************)
(* The two sides together are a FIFO                                       *)
(***************************************************************************)
\* What lies in memory m from the reader's pointer to the writer's.
Content(m, w, r) == [i \in 1 .. Ahead(w, r) |-> m[Slot((r + i - 1) % (2 * depth))]]

LEMMA Around ==
    ASSUME NEW r \in Pointers, NEW i \in Nat, i <= 2 * depth
    PROVE  /\ (r + i) % (2 * depth) \in Pointers
           /\ (r + i) % (2 * depth) = IF r + i < 2 * depth THEN r + i ELSE r + i - 2 * depth
<1> DEFINE n == 2 * depth
           x == r + i
<1>1. n \in Nat \ {0} /\ x \in Nat /\ x < 2 * n /\ Pointers = 0 .. n - 1
  BY DepthIs DEF Pointers
<1>. HIDE DEF n, x
<1>2. /\ x < n => x % n = x
      /\ n <= x => x % n = x - n
  BY <1>1, ModIs
<1>3. /\ x % n = IF x < n THEN x ELSE x - n
      /\ x % n \in 0 .. n - 1
  BY <1>1, <1>2
<1>. QED BY <1>1, <1>3 DEF n, x

LEMMA AheadInc ==
    ASSUME NEW p \in Pointers, NEW q \in Pointers
    PROVE  /\ Ahead(p, q) \in 0 .. 2 * depth - 1
           /\ Ahead(p, q) < depth => Ahead(Inc(p), q) = Ahead(p, q) + 1
           /\ Ahead(p, q) > 0 => Ahead(p, Inc(q)) = Ahead(p, q) - 1
           /\ p = IF q + Ahead(p, q) < 2 * depth THEN q + Ahead(p, q)
                                                 ELSE q + Ahead(p, q) - 2 * depth
<1>1. depth \in Nat \ {0} BY DepthIs
<1>2. /\ Ahead(p, q) \in 0 .. 2 * depth - 1
      /\ p = IF q + Ahead(p, q) < 2 * depth THEN q + Ahead(p, q)
                                            ELSE q + Ahead(p, q) - 2 * depth
  BY <1>1 DEF Ahead, Pointers
<1>3. ASSUME Ahead(p, q) < depth PROVE Ahead(Inc(p), q) = Ahead(p, q) + 1
  BY <1>1, <1>3, IncIs DEF Ahead, Pointers
<1>4. ASSUME Ahead(p, q) > 0 PROVE Ahead(p, Inc(q)) = Ahead(p, q) - 1
  BY <1>1, <1>4, IncIs DEF Ahead, Pointers
<1>. QED BY <1>2, <1>3, <1>4

LEMMA ContentIs ==
    ASSUME NEW m \in [0 .. depth - 1 -> Data], NEW w \in Pointers, NEW r \in Pointers
    PROVE  /\ Content(m, w, r) \in Seq(Data)
           /\ Len(Content(m, w, r)) = Ahead(w, r)
           /\ \A i \in 1 .. Ahead(w, r) :
                 Content(m, w, r)[i] = m[Slot((r + i - 1) % (2 * depth))]
<1>1. Ahead(w, r) \in Nat /\ Ahead(w, r) <= 2 * depth
  BY DepthIs DEF Ahead, Pointers
<1>2. ASSUME NEW i \in 1 .. Ahead(w, r)
      PROVE  m[Slot((r + i - 1) % (2 * depth))] \in Data
  <2>1. i - 1 \in Nat /\ i - 1 <= 2 * depth /\ r + i - 1 = r + (i - 1)
    BY <1>1, DepthIs DEF Pointers
  <2>. QED BY <2>1, Around, SlotIs
<1>3. Content(m, w, r) \in [1 .. Ahead(w, r) -> Data] BY <1>2 DEF Content
<1>. QED BY <1>1, <1>3 DEF Content

\* The slot the writer writes is not among those it may not touch yet.
LEMMA SlotIsFree ==
    ASSUME NEW w \in Pointers, NEW r \in Pointers, Ahead(w, r) < depth,
           NEW i \in 1 .. Ahead(w, r)
    PROVE  /\ Slot((r + i - 1) % (2 * depth)) # Slot(w)
           /\ Slot((r + i - 1) % (2 * depth)) \in 0 .. depth - 1
<1>1. i - 1 \in Nat /\ i - 1 <= 2 * depth /\ r + i - 1 = r + (i - 1)
  BY DepthIs DEF Pointers, Ahead
<1> DEFINE x == (r + i - 1) % (2 * depth)
<1>2. /\ x \in Pointers
      /\ x = IF r + i - 1 < 2 * depth THEN r + i - 1 ELSE r + i - 1 - 2 * depth
  BY <1>1, Around
<1>3. /\ Slot(x) \in 0 .. depth - 1
      /\ Slot(x) = IF x < depth THEN x ELSE x - depth
      /\ Slot(w) = IF w < depth THEN w ELSE w - depth
  BY <1>2, SlotIs
<1>. HIDE DEF x
<1>4. Slot(x) # Slot(w) BY <1>2, <1>3, DepthIs DEF Pointers, Ahead
<1>. QED BY <1>3, <1>4 DEF x

LEMMA ContentPush ==
    ASSUME NEW m \in [0 .. depth - 1 -> Data], NEW w \in Pointers, NEW r \in Pointers,
           Ahead(w, r) < depth, NEW d \in Data
    PROVE  Content([m EXCEPT ![Slot(w)] = d], Inc(w), r) = Append(Content(m, w, r), d)
<1> DEFINE n == [m EXCEPT ![Slot(w)] = d]
           c == Content(m, w, r)
           s == Content(n, Inc(w), r)
           t == Append(c, d)
           k == Ahead(w, r)
           at(i) == Slot((r + i - 1) % (2 * depth))
<1>1. /\ Inc(w) \in Pointers /\ k \in Nat /\ k <= 2 * depth
      /\ Ahead(Inc(w), r) = k + 1
  BY IncIs, AheadInc, DepthIs
<1>2. /\ n \in [0 .. depth - 1 -> Data] /\ n[Slot(w)] = d
      /\ \A a \in 0 .. depth - 1 : a # Slot(w) => n[a] = m[a]
  BY SlotIs
<1>3. \A i \in 1 .. k : at(i) # Slot(w) /\ at(i) \in 0 .. depth - 1
  BY SlotIsFree
<1>4. at(k + 1) = Slot(w)
  <2>1. (r + k) % (2 * depth) = IF r + k < 2 * depth THEN r + k ELSE r + k - 2 * depth
    BY <1>1, Around
  <2>2. (r + k) % (2 * depth) = w BY <2>1, AheadInc
  <2>3. r + (k + 1) - 1 = r + k BY <1>1, DepthIs DEF Pointers
  <2>. QED BY <2>2, <2>3
<1>5. c \in Seq(Data) /\ Len(c) = k /\ \A i \in 1 .. k : c[i] = m[at(i)]
  BY ContentIs
<1>6. /\ s \in Seq(Data) /\ Len(s) = Ahead(Inc(w), r)
      /\ \A i \in 1 .. Ahead(Inc(w), r) : s[i] = n[at(i)]
  <2>. HIDE DEF n
  <2>. QED BY <1>1, <1>2, ContentIs
<1>. HIDE DEF c, s, n, k, at
<1>7. /\ t \in Seq(Data) /\ Len(t) = k + 1
      /\ \A i \in 1 .. k : t[i] = c[i]
      /\ t[k + 1] = d
  BY <1>5, AppendProperties
<1>. HIDE DEF t
<1>8. ASSUME NEW i \in 1 .. k + 1 PROVE s[i] = t[i]
  <2>1. s[i] = n[at(i)] BY <1>1, <1>6
  <2>2. CASE i = k + 1
    BY <2>1, <2>2, <1>2, <1>4, <1>7
  <2>3. CASE i # k + 1
    <3>1. i \in 1 .. k BY <2>3, <1>1
    <3>. QED BY <2>1, <3>1, <1>2, <1>3, <1>5, <1>7
  <2>. QED BY <2>2, <2>3
<1>9. s = t
  <2>1. Len(s) = k + 1 /\ Len(t) = k + 1 BY <1>1, <1>6, <1>7
  <2>. QED BY <2>1, <1>6, <1>7, <1>8, SeqEqual
<1>. QED BY <1>9 DEF s, t, c, n

LEMMA ContentPop ==
    ASSUME NEW m \in [0 .. depth - 1 -> Data], NEW w \in Pointers, NEW r \in Pointers,
           Ahead(w, r) > 0
    PROVE  /\ Content(m, w, r) # << >>
           /\ Head(Content(m, w, r)) = m[Slot(r)]
           /\ Tail(Content(m, w, r)) = Content(m, w, Inc(r))
           /\ Ahead(w, Inc(r)) = Ahead(w, r) - 1
<1> DEFINE s == Content(m, w, r)
           t == Content(m, w, Inc(r))
<1>1. /\ Inc(r) \in Pointers /\ Ahead(w, r) \in Nat
      /\ Ahead(w, r) < 2 * depth
      /\ Ahead(w, Inc(r)) = Ahead(w, r) - 1
  BY IncIs, AheadInc, DepthIs
<1>2. /\ s \in Seq(Data) /\ Len(s) = Ahead(w, r)
      /\ \A i \in 1 .. Ahead(w, r) : s[i] = m[Slot((r + i - 1) % (2 * depth))]
  BY ContentIs
<1>3. /\ t \in Seq(Data) /\ Len(t) = Ahead(w, r) - 1
      /\ \A i \in 1 .. Ahead(w, r) - 1 : t[i] = m[Slot((Inc(r) + i - 1) % (2 * depth))]
  BY <1>1, ContentIs, ZenonT(30)
<1>4. s[1] = m[Slot(r)]
  <2>1. r \in Nat /\ r < 2 * depth /\ 2 * depth \in Nat \ {0} /\ r + 1 - 1 = r
    BY DepthIs DEF Pointers
  <2>2. r % (2 * depth) = r BY <2>1, ModIs
  <2>3. 1 \in 1 .. Ahead(w, r) BY <1>1
  <2>. QED BY <1>2, <2>1, <2>2, <2>3
<1>5. ASSUME NEW i \in 1 .. Ahead(w, r) - 1 PROVE s[i + 1] = t[i]
  <2>1. /\ i \in Nat /\ i - 1 \in Nat /\ i <= 2 * depth /\ i - 1 <= 2 * depth
        /\ r + (i + 1) - 1 = r + i /\ Inc(r) + i - 1 = Inc(r) + (i - 1)
        /\ i \in 1 .. Ahead(w, r) - 1 /\ i + 1 \in 1 .. Ahead(w, r)
    BY <1>1, DepthIs DEF Pointers
  <2>2. (r + i) % (2 * depth) = IF r + i < 2 * depth THEN r + i ELSE r + i - 2 * depth
    BY <2>1, Around
  <2>3. (Inc(r) + (i - 1)) % (2 * depth)
           = IF Inc(r) + (i - 1) < 2 * depth THEN Inc(r) + (i - 1)
                                             ELSE Inc(r) + (i - 1) - 2 * depth
    BY <1>1, <2>1, Around
  <2>4. (r + i) % (2 * depth) = (Inc(r) + (i - 1)) % (2 * depth)
    <3>1. 2 * depth \in Nat /\ r \in Nat /\ r < 2 * depth /\ i < 2 * depth
      BY <1>1, <2>1, DepthIs DEF Pointers
    <3>2. Inc(r) = IF r = 2 * depth - 1 THEN 0 ELSE r + 1 BY IncIs
    <3>. HIDE DEF s, t
    <3>. QED BY <3>1, <3>2, <2>1, <2>2, <2>3
  <2>. QED BY <1>2, <1>3, <2>1, <2>4
<1>. HIDE DEF s, t
<1>6. s # << >> BY <1>1, <1>2
<1>7. /\ Head(s) = s[1] /\ Tail(s) \in Seq(Data) /\ Len(Tail(s)) = Len(s) - 1
      /\ \A i \in 1 .. Len(Tail(s)) : Tail(s)[i] = s[i + 1]
  BY <1>2, <1>6, HeadTailProperties
<1>8. \A i \in 1 .. Len(Tail(s)) : Tail(s)[i] = t[i] BY <1>1, <1>2, <1>5, <1>7
<1>9. Tail(s) = t BY <1>1, <1>2, <1>3, <1>7, <1>8, SeqEqual
<1>. QED BY <1>1, <1>4, <1>6, <1>7, <1>9 DEF s, t

\* What an edge does to the content, outside a reset or on its way out of it.
WriterStays == wptr' = wptr /\ mem' = mem
WriterPushes(d) == /\ used < depth
                   /\ wptr' = Inc(wptr) /\ mem' = [mem EXCEPT ![Slot(wptr)] = d]
ReaderStays == rptr' = rptr /\ taken' = taken
ReaderPops == used > 0 /\ rptr' = Inc(rptr) /\ taken' = mem[Slot(rptr)]

LEMMA WriteIsPush ==
    ASSUME FifoInv, held = {}, NEW g, WriteLogic(g)
    PROVE  WriterStays \/ \E d \in Data : WriterPushes(d)
<1>1. ~ full => used < depth BY OrderIsSafe DEF FlagsAreSafe
<1>2. wrst => wptr = 0 BY DEF FifoInv, ResetInv, WriterCleared
<1>3. CASE ResetWriter
  BY <1>2, <1>3 DEF ResetWriter, WriterStays
<1>4. ASSUME NEW d \in Data, AcceptWord(d, g) PROVE WriterPushes(d)
  BY <1>1, <1>4 DEF AcceptWord, WriterPushes
<1>5. CASE IdleWriter(g)
  BY <1>5 DEF IdleWriter, WriterStays
<1>. QED BY <1>3, <1>4, <1>5 DEF WriteLogic

LEMMA ReadIsPop ==
    ASSUME FifoInv, held = {}, NEW g, ReadLogic(g)
    PROVE  ReaderStays \/ ReaderPops
<1>1. ~ empty => used > 0 BY OrderIsSafe DEF FlagsAreSafe
<1>2. rrst => rptr = 0 BY DEF FifoInv, ResetInv, ReaderCleared
<1>3. CASE ResetReader
  BY <1>2, <1>3 DEF ResetReader, ReaderStays
<1>4. CASE Take(g)
  BY <1>1, <1>4 DEF Take, ReaderPops, rdata
<1>5. CASE IdleReader(g)
  BY <1>5 DEF IdleReader, ReaderStays
<1>. QED BY <1>3, <1>4, <1>5 DEF ReadLogic

queue == IF held = {} THEN content ELSE << >>

LEMMA QueueIs == held = {} => queue = Content(mem, wptr, rptr)
BY DEF queue, content, Content, used

LEMMA QueueIsNext == held' = {} => queue' = Content(mem', wptr', rptr')
BY DEF queue, content, Content, used

LEMMA ContentNone == \A m, w : w \in Pointers => Content(m, w, w) = << >>
<1>. SUFFICES ASSUME NEW m, NEW w \in Pointers PROVE Content(m, w, w) = << >>
  OBVIOUS
<1>1. Ahead(w, w) = 0 BY DepthIs DEF Ahead, Pointers
<1>. QED BY <1>1 DEF Content

\* Steps of the two sides, alone or together, are steps of a FIFO.
LEMMA EdgesAreFifo ==
    ASSUME CdcTypeOK, held = {}, held' = {},
           WriterStays \/ \E d \in Data : WriterPushes(d),
           ReaderStays \/ ReaderPops
    PROVE  [Fifo!Next]_<<queue, taken>>
<1> DEFINE c == Content(mem, wptr, rptr)
           cc == Content(mem', wptr', rptr')
<1>0. /\ wptr \in Pointers /\ rptr \in Pointers /\ Inc(rptr) \in Pointers
      /\ mem \in [0 .. depth - 1 -> Data]
      /\ used = Ahead(wptr, rptr)
  BY IncIs DEF CdcTypeOK, used
<1>1. queue = c /\ queue' = cc BY QueueIs, QueueIsNext
<1>2. Len(c) = Ahead(wptr, rptr) BY <1>0, ContentIs
<1>. HIDE DEF c, cc
<1>3. CASE WriterStays /\ ReaderStays
  <2>1. cc = c BY <1>3 DEF WriterStays, ReaderStays, c, cc
  <2>. QED BY <1>1, <1>3, <2>1 DEF ReaderStays
<1>4. ASSUME NEW d \in Data, WriterPushes(d), ReaderStays PROVE Fifo!Push(d)
  <2>1. cc = Append(c, d)
    BY <1>0, <1>4, ContentPush DEF WriterPushes, ReaderStays, c, cc
  <2>. QED BY <1>0, <1>1, <1>2, <1>4, <2>1 DEF Fifo!Push, WriterPushes, ReaderStays, queue
<1>5. CASE WriterStays /\ ReaderPops
  <2>1. c # << >> /\ Head(c) = taken' /\ cc = Tail(c)
    BY <1>0, <1>5, ContentPop DEF WriterStays, ReaderPops, c, cc
  <2>. QED BY <1>1, <2>1 DEF Fifo!Next, Fifo!Pop, queue
<1>6. ASSUME NEW d \in Data, WriterPushes(d), ReaderPops PROVE Fifo!PushPop(d)
  <2>1. c # << >> /\ Head(c) = taken' /\ Tail(c) = Content(mem, wptr, Inc(rptr))
        /\ Ahead(wptr, Inc(rptr)) = Ahead(wptr, rptr) - 1
    BY <1>0, <1>6, ContentPop DEF ReaderPops, c
  <2>2. Ahead(wptr, Inc(rptr)) < depth
    BY <1>0, <1>6, <2>1, AheadInc, DepthIs DEF WriterPushes
  <2>3. cc = Append(Tail(c), d)
    <3>1. cc = Content([mem EXCEPT ![Slot(wptr)] = d], Inc(wptr), Inc(rptr))
      BY <1>6 DEF WriterPushes, ReaderPops, cc
    <3>2. Content([mem EXCEPT ![Slot(wptr)] = d], Inc(wptr), Inc(rptr))
             = Append(Content(mem, wptr, Inc(rptr)), d)
      BY <1>0, <2>2, ContentPush
    <3>. QED BY <2>1, <3>1, <3>2
  <2>. QED BY <1>0, <1>1, <1>2, <1>6, <2>1, <2>3 DEF Fifo!PushPop, WriterPushes, queue
<1>. QED BY <1>3, <1>4, <1>5, <1>6 DEF Fifo!Next

LEMMA NextFifo == FifoInv /\ [CdcNext]_cdcVars => [Fifo!Next]_<<queue, taken>>
<1>. SUFFICES ASSUME FifoInv, [CdcNext]_cdcVars PROVE [Fifo!Next]_<<queue, taken>>
  OBVIOUS
<1>. CdcTypeOK /\ ResetInv BY DEF FifoInv
<1>1. CASE held # {}
  <2>1. wrst /\ rrst /\ queue = << >> BY <1>1 DEF ResetInv, queue
  <2>2. taken' = taken
    BY <2>1 DEF CdcNext, WriteEdge, ReadEdge, BothEdges, ReadLogic, ResetReader, Take, IdleReader,
                AssertReset, ReleaseWriter, ReleaseReader, cdcVars
  <2>3. held' = {} => wptr' = 0 /\ rptr' = 0
    <3>. SUFFICES ASSUME held' = {} PROVE wptr' = 0 /\ rptr' = 0
      OBVIOUS
    <3>1. CASE WriteEdge
      BY <1>1, <2>1, <3>1, WriterInReset
         DEF WriteEdge, reader, ResetInv, ReaderCleared, WriterCleared
    <3>2. CASE ReadEdge
      BY <1>1, <2>1, <3>2, ReaderInReset
         DEF ReadEdge, writer, ResetInv, ReaderCleared, WriterCleared
    <3>3. CASE BothEdges
      BY <2>1, <3>3, ReaderInReset, WriterInReset DEF BothEdges, ReaderCleared, WriterCleared
    <3>. QED BY <1>1, <3>1, <3>2, <3>3
            DEF CdcNext, AssertReset, ReleaseWriter, ReleaseReader, cdcVars
  <2>4. queue' = << >>
    <3>1. CASE held' = {}
      <4>1. 0 \in Pointers BY DepthIs DEF Pointers
      <4>. QED BY <3>1, <4>1, <2>3, QueueIsNext, ContentNone
    <3>2. CASE held' # {}
      BY <3>2 DEF queue
    <3>. QED BY <3>1, <3>2
  <2>. QED BY <2>1, <2>2, <2>4
<1>2. CASE held = {}
  <2>1. CASE WriteEdge
    <3>1. ReaderStays /\ held' = {} BY <1>2, <2>1 DEF WriteEdge, reader, ReaderStays
    <3>2. WriterStays \/ \E d \in Data : WriterPushes(d)
      BY <1>2, <2>1, WriteIsPush DEF WriteEdge
    <3>. QED BY <1>2, <3>1, <3>2, EdgesAreFifo
  <2>2. CASE ReadEdge
    <3>1. WriterStays /\ held' = {} BY <1>2, <2>2 DEF ReadEdge, writer, WriterStays
    <3>2. ReaderStays \/ ReaderPops BY <1>2, <2>2, ReadIsPop DEF ReadEdge
    <3>. QED BY <1>2, <3>1, <3>2, EdgesAreFifo
  <2>3. CASE BothEdges
    <3>1. held' = {} /\ \E g, h : WriteLogic(g) /\ ReadLogic(h)
      BY <2>3 DEF BothEdges
    <3>2. WriterStays \/ \E d \in Data : WriterPushes(d)
      BY <1>2, <3>1, WriteIsPush
    <3>3. ReaderStays \/ ReaderPops BY <1>2, <3>1, ReadIsPop
    <3>. QED BY <1>2, <3>1, <3>2, <3>3, EdgesAreFifo
  <2>4. CASE AssertReset
    <3>1. queue' = << >> /\ taken' = taken BY <2>4 DEF AssertReset, queue
    <3>. QED BY <3>1 DEF Fifo!Next, Fifo!Clear, queue
  <2>5. CASE ReleaseWriter \/ ReleaseReader \/ UNCHANGED cdcVars
    <3>1. WriterStays /\ ReaderStays /\ held' = {}
      BY <1>2, <2>5 DEF ReleaseWriter, ReleaseReader, cdcVars, writer, reader,
                        WriterStays, ReaderStays
    <3>. QED BY <1>2, <3>1, EdgesAreFifo
  <2>. QED BY <2>1, <2>2, <2>3, <2>4, <2>5 DEF CdcNext
<1>. QED BY <1>1, <1>2

LEMMA InitFifo == CdcInit => Fifo!Init
<1>. SUFFICES ASSUME CdcInit PROVE Fifo!Init
  OBVIOUS
<1>1. 0 \in Pointers /\ Zero \in Data BY DepthIs, DepthAssumption DEF Pointers
<1>2. queue = << >> BY <1>1, QueueIs, ContentNone DEF CdcInit
<1>. QED BY <1>1, <1>2 DEF CdcInit, Fifo!Init, queue

(***************************************************************************)
(* For every depth, every word that is accepted is read once, in order and *)
(* unchanged, and there are never more than depth of them inside: the two  *)
(* sides implement BoundedFifo whatever the two clocks do, also when both  *)
(* rise at one instant, in any of the orders of the back ends.             *)
(***************************************************************************)
THEOREM ImplementsFifo == CdcSpec => IsFifo
<1>1. CdcInit => Fifo!Init BY InitFifo
<1>2. FifoInv /\ [CdcNext]_cdcVars => [Fifo!Next]_(Fifo!vars)
  BY NextFifo DEF Fifo!vars, queue
<1>. QED BY <1>1, <1>2, InvHolds, PTL DEF CdcSpec, IsFifo, Fifo!Spec
=============================================================================
