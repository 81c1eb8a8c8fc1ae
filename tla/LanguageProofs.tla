--------------------------- MODULE LanguageProofs ---------------------------
(***************************************************************************)
(* Proofs about the simulation language: what its arithmetic, its          *)
(* functions, its data structures and its assignments make of values of    *)
(* the types that were calculated for them, and that objects therefore     *)
(* have what AstObjectProofs takes for granted (LanguageIsSound).          *)
(*                                                                         *)
(* The virtual functions are parameters.  That they are the                *)
(* implementations is the hypothesis MethodsAreImplemented; since each of  *)
(* these calls the virtual functions for the parts of an expression, the   *)
(* proofs are by induction on how deep expressions are nested, which the   *)
(* parser bounds.                                                          *)
(***************************************************************************)
EXTENDS Language, AstObjectProofs

-----------------------------------------------------------------------------
(* Arithmetic.                                                             *)

\* A product of naturals is one.
LEMMA NatProduct ==
    ASSUME NEW a \in Nat, NEW b \in Nat
    PROVE  a * b \in Nat
  OBVIOUS

\* A product grows with its factors.
LEMMA ProductMonotone ==
    ASSUME NEW a \in Nat, NEW c \in Nat, NEW b \in Nat, a <= c
    PROVE  a * b <= c * b
<1>1. (c - a) * b \in Nat
  BY NatProduct, c - a \in Nat
<1>2. (c - a) * b = c * b - a * b
  OBVIOUS
<1> QED
  BY <1>1, <1>2

\* A quotient is between zero and what is divided.
LEMMA DivBounds ==
    ASSUME NEW m \in Nat, NEW b \in Nat, b > 0
    PROVE  /\ m \div b \in Nat
           /\ (m \div b) * b <= m
           /\ m < (m \div b) * b + b
  OBVIOUS

\* Multiplication against division: the test the code makes before it
\* multiplies.
LEMMA TestOfProduct ==
    ASSUME NEW a \in Nat, NEW b \in Nat, b > 0, NEW m \in Nat
    PROVE  (a <= m \div b) <=> (a * b <= m)
<1> DEFINE q == m \div b
<1>1. q \in Nat /\ q * b <= m /\ m < q * b + b
  BY DivBounds
<1> HIDE DEF q
<1>2. CASE a <= q
  <2>1. a * b <= q * b
    BY <1>1, <1>2, ProductMonotone
  <2>2. a * b \in Int /\ q * b \in Int
    BY <1>1
  <2> QED
    BY <1>1, <1>2, <2>1, <2>2 DEF q
<1>3. CASE q + 1 <= a
  <2>1. (q + 1) * b <= a * b
    BY <1>1, <1>3, ProductMonotone
  <2>2. (q + 1) * b = q * b + b
    BY <1>1
  <2>3. a * b \in Int /\ q * b \in Int
    BY <1>1
  <2>4. ~(a * b <= m)
    BY <1>1, <2>1, <2>2, <2>3
  <2>5. ~(a <= q)
    BY <1>1, <1>3
  <2> QED
    BY <2>4, <2>5 DEF q
<1> QED
  BY <1>1, <1>2, <1>3

\* The absolute value of an integer, and of one in a range.
LEMMA AbsFacts ==
    ASSUME NEW n \in Int
    PROVE  /\ Abs(n) \in Nat
           /\ n = Abs(n) \/ n = -Abs(n)
           /\ n # 0 => Abs(n) > 0
           /\ n < 0 => Abs(n) = 0 - n
  BY DEF Abs

\* Products keep or change their sign with the signs of the factors.
LEMMA AbsOfProduct ==
    ASSUME NEW l \in Int, NEW r \in Int, r # 0
    PROVE  /\ (l >= 0) = (r >= 0) => l * r = Abs(l) * Abs(r)
           /\ (l >= 0) # (r >= 0) => l * r = -(Abs(l) * Abs(r))
<1>1. CASE l >= 0 /\ r >= 0
  BY <1>1 DEF Abs
<1>2. CASE l >= 0 /\ r < 0
  <2>1. l * r = -(l * (-r))
    OBVIOUS
  <2> QED
    BY <1>2, <2>1 DEF Abs
<1>3. CASE l < 0 /\ r >= 0
  <2>1. l * r = -((-l) * r)
    OBVIOUS
  <2> QED
    BY <1>3, <2>1 DEF Abs
<1>4. CASE l < 0 /\ r < 0
  <2>1. l * r = (-l) * (-r)
    OBVIOUS
  <2> QED
    BY <1>4, <2>1 DEF Abs
<1> QED
  BY <1>1, <1>2, <1>3, <1>4

\* The test before a signed multiplication divides the greatest value by the
\* signed factor, and compares magnitudes.
LEMMA AbsOfQuotient ==
    ASSUME NEW max \in Nat, NEW r \in Int, r # 0
    PROVE  Abs(Quotient(max, r)) = max \div Abs(r)
<1>1. Abs(r) \in Nat /\ Abs(r) > 0
  BY AbsFacts
<1>2. max \div Abs(r) \in Nat
  BY <1>1, DivBounds
<1>3. Abs(max) = max
  BY DEF Abs
<1>4. Quotient(max, r) = max \div Abs(r) \/ Quotient(max, r) = -(max \div Abs(r))
  BY <1>3 DEF Quotient
<1> QED
  BY <1>2, <1>4 DEF Abs

\* Unsigned arithmetic never wraps around: every operator gives the exact
\* result, or the end of the type it passes.
THEOREM UnsignedSaturates ==
    ASSUME NEW max \in Nat, NEW l \in 0..max, NEW r \in 0..max
    PROVE  /\ UnsignedTimes(l, r, max) = Saturated(l * r, 0, max)
           /\ UnsignedPlus(l, r, max)  = Saturated(l + r, 0, max)
           /\ UnsignedMinus(l, r)      = Saturated(l - r, 0, max)
<1>1. UnsignedPlus(l, r, max) = Saturated(l + r, 0, max)
  BY DEF UnsignedPlus, Saturated
<1>2. UnsignedMinus(l, r) = Saturated(l - r, 0, max)
  BY DEF UnsignedMinus, Saturated
<1>3. UnsignedTimes(l, r, max) = Saturated(l * r, 0, max)
  <2>1. CASE r = 0
    <3>1. l * r = 0
      BY <2>1
    <3> QED
      BY <2>1, <3>1 DEF UnsignedTimes, Saturated
  <2>2. CASE r # 0
    <3>1. l * r \in Nat
      BY NatProduct
    <3>2. (l <= max \div r) <=> (l * r <= max)
      BY <2>2, TestOfProduct
    <3> QED
      BY <2>2, <3>1, <3>2 DEF UnsignedTimes, Saturated
  <2> QED
    BY <2>1, <2>2
<1> QED
  BY <1>1, <1>2, <1>3

\* Signed arithmetic never wraps around either, apart from the products of
\* the least value of a wide type, which C leaves undefined.
THEOREM SignedSaturates ==
    ASSUME NEW max \in Nat, NEW wide \in BOOLEAN,
           NEW l \in Least(max)..max, NEW r \in Least(max)..max
    PROVE  /\ ~TimesOverflows(l, r, max, wide) =>
                SignedTimes(l, r, max, wide)
                  = {Saturated(l * r, Least(max), max)}
           /\ SignedPlus(l, r, max)  = Saturated(l + r, Least(max), max)
           /\ SignedMinus(l, r, max) = Saturated(l - r, Least(max), max)
<1>1. SignedPlus(l, r, max) = Saturated(l + r, Least(max), max)
  BY DEF SignedPlus, Saturated, Least
<1>2. SignedMinus(l, r, max) = Saturated(l - r, Least(max), max)
  BY DEF SignedMinus, Saturated, Least
<1>3. ASSUME ~TimesOverflows(l, r, max, wide)
      PROVE  SignedTimes(l, r, max, wide)
               = {Saturated(l * r, Least(max), max)}
  <2>1. CASE r = 0
    <3>1. l * r = 0
      BY <2>1 DEF Least
    <3> QED
      BY <1>3, <2>1, <3>1 DEF SignedTimes, Saturated, Least
  <2>2. CASE r # 0
    <3> DEFINE p == Abs(l) * Abs(r)
    <3>1. /\ l \in Int /\ r \in Int
          /\ Abs(l) \in Nat /\ Abs(r) \in Nat /\ Abs(r) > 0
      BY <2>2, AbsFacts DEF Least
    <3>2. p \in Nat
      BY <3>1, NatProduct
    <3>3. (Abs(l) <= Abs(Quotient(max, r))) <=> (p <= max)
      <4>1. Abs(Quotient(max, r)) = max \div Abs(r)
        BY <2>2, <3>1, AbsOfQuotient
      <4>2. (Abs(l) <= max \div Abs(r)) <=> (p <= max)
        BY <3>1, TestOfProduct
      <4> QED
        BY <4>1, <4>2
    <3>4. /\ (l >= 0) = (r >= 0) => l * r = p
          /\ (l >= 0) # (r >= 0) => l * r = -p
      BY <2>2, <3>1, AbsOfProduct
    <3>5. l * r \in Int
      BY <3>1
    <3> HIDE DEF p
    <3>6. CASE p <= max
      <4>1. SignedTimes(l, r, max, wide) = {l * r}
        BY <1>3, <2>2, <3>3, <3>6 DEF SignedTimes
      <4>2. Saturated(l * r, Least(max), max) = l * r
        BY <3>2, <3>4, <3>5, <3>6 DEF Saturated, Least
      <4> QED
        BY <4>1, <4>2
    <3>7. CASE p > max /\ (l >= 0) = (r >= 0)
      <4>1. SignedTimes(l, r, max, wide) = {max}
        BY <1>3, <2>2, <3>2, <3>3, <3>7 DEF SignedTimes
      <4>2. Saturated(l * r, Least(max), max) = max
        BY <3>2, <3>4, <3>5, <3>7 DEF Saturated, Least
      <4> QED
        BY <4>1, <4>2
    <3>8. CASE p > max /\ (l >= 0) # (r >= 0)
      <4>1. SignedTimes(l, r, max, wide) = {Least(max)}
        BY <1>3, <2>2, <3>2, <3>3, <3>8 DEF SignedTimes
      <4>2. Saturated(l * r, Least(max), max) = Least(max)
        BY <3>2, <3>4, <3>5, <3>8 DEF Saturated, Least
      <4> QED
        BY <4>1, <4>2
    <3> QED
      BY <3>2, <3>6, <3>7, <3>8
  <2> QED
    BY <2>1, <2>2
<1> QED
  BY <1>1, <1>2, <1>3

\* C's quotient and remainder, from those of absolute values.
LEMMA DivModFacts ==
    ASSUME NEW a \in Nat, NEW b \in Nat, b > 0
    PROVE  /\ a \div b \in Nat /\ a % b \in Nat
           /\ a = (a \div b) * b + (a % b)
           /\ a % b < b
           /\ a \div b <= a
<1>1. a \div b \in Nat /\ a % b \in Nat /\ a = (a \div b) * b + (a % b) /\ a % b < b
  <2>1. a \div b \in Nat
    BY DivBounds
  <2>2. a % b \in 0..(b - 1)
    OBVIOUS
  <2>3. a = (a \div b) * b + (a % b)
    OBVIOUS
  <2>4. a % b \in Nat /\ a % b < b
    BY <2>2
  <2> QED
    BY <2>1, <2>3, <2>4
<1>2. (a \div b) * 1 <= (a \div b) * b
  <2>1. 1 * (a \div b) <= b * (a \div b)
    BY <1>1, ProductMonotone
  <2> QED
    BY <1>1, <2>1
<1> QED
  BY <1>1, <1>2

\* Division and remainder go together as the comment above the operators says:
\* truncated towards zero, the remainder with the sign of the dividend.  The
\* least value divided by -1 is the exception: its quotient saturates.
THEOREM DivisionRestores ==
    ASSUME NEW max \in Nat, NEW wide \in BOOLEAN,
           NEW l \in Least(max)..max, NEW r \in Least(max)..max, r # 0,
           ~ModulusOverflows(l, r, max, wide),
           ~(l = Least(max) /\ r = -1)
    PROVE  \E m \in Least(max)..max :
              /\ SignedModulus(l, r, max, wide) = {m}
              /\ IsDivision(SignedDivide(l, r, max), m, l, r)
<1> DEFINE a == Abs(l)
           b == Abs(r)
           d == a \div b
           c == a % b
           m == IF l >= 0 THEN c ELSE -c
<1>1. l \in Int /\ r \in Int /\ a \in Nat /\ b \in Nat /\ b > 0
  BY AbsFacts DEF Least
<1>2. d \in Nat /\ c \in Nat /\ a = d * b + c /\ c < b /\ d <= a
  BY <1>1, DivModFacts
<1>3. SignedModulus(l, r, max, wide) = {m}
  BY DEF SignedModulus
<1>4. SignedDivide(l, r, max) = IF (l >= 0) = (r >= 0) THEN d ELSE -d
  BY DEF SignedDivide, Quotient
<1>5. /\ l = (IF l >= 0 THEN a ELSE -a)
      /\ r = (IF r >= 0 THEN b ELSE -b)
      /\ a <= max + 1 /\ b <= max + 1
  BY <1>1 DEF Abs, Least
<1> HIDE DEF a, b, d, c
<1>6. c <= a
  <2>1. d * b \in Nat
    BY <1>1, <1>2, NatProduct
  <2> QED
    BY <1>1, <1>2, <2>1
<1>7. m \in Least(max)..max
  BY <1>1, <1>2, <1>5, <1>6 DEF Least
<1>8. l = SignedDivide(l, r, max) * r + m
  <2>1. d * b \in Nat
    BY <1>1, <1>2, NatProduct
  <2>2. (-d) * b = -(d * b) /\ d * (-b) = -(d * b) /\ (-d) * (-b) = d * b
    BY <1>1, <1>2
  <2>3. SignedDivide(l, r, max) * r = IF l >= 0 THEN d * b ELSE -(d * b)
    BY <1>1, <1>2, <1>4, <1>5, <2>2
  <2> QED
    BY <1>1, <1>2, <1>5, <2>1, <2>3
<1>9. Abs(m) < Abs(r)
  <2>1. Abs(m) = c
    BY <1>2 DEF Abs
  <2> QED
    BY <1>2, <2>1 DEF b
<1>10. m = 0 \/ (m > 0) = (l > 0)
  BY <1>1, <1>2, <1>5, <1>6
<1> QED
  BY <1>3, <1>7, <1>8, <1>9, <1>10 DEF IsDivision

\* A division never leaves its type: the one quotient that does not fit, and
\* a division by zero, give an end of it, and 0/0 is zero.
THEOREM DivisionSaturates ==
    ASSUME NEW max \in Nat, max > 0,
           NEW l \in Least(max)..max, NEW r \in Least(max)..max
    PROVE  /\ r # 0 => SignedDivide(l, r, max)
                         = Saturated(Quotient(l, r), Least(max), max)
           /\ r = 0 => SignedDivide(l, r, max)
                         = IF l = 0 THEN 0
                           ELSE IF l > 0 THEN max ELSE Least(max)
<1>1. ASSUME r # 0
      PROVE  SignedDivide(l, r, max)
               = Saturated(Quotient(l, r), Least(max), max)
  <2>1. l \in Int /\ r \in Int /\ Abs(l) \in Nat /\ Abs(r) \in Nat /\ Abs(r) > 0
    BY <1>1, AbsFacts DEF Least
  <2>2. CASE l = Least(max) /\ r = -1
    <3>1. Abs(l) = max + 1 /\ Abs(r) = 1
      <4>1. l < 0 /\ 0 - l = max + 1
        BY <2>2 DEF Least
      <4>2. r < 0 /\ 0 - r = 1
        BY <2>2
      <4> QED
        BY <2>1, <4>1, <4>2, AbsFacts
    <3>2. Quotient(l, r) = max + 1
      BY <2>1, <2>2, <3>1 DEF Quotient, Least
    <3> QED
      BY <1>1, <2>2, <3>2 DEF SignedDivide, Saturated, Least
  <2>3. CASE ~(l = Least(max) /\ r = -1)
    <3> DEFINE d == Abs(l) \div Abs(r)
    <3>1. d \in Nat /\ d <= Abs(l)
      BY <2>1, DivModFacts
    <3>2. Quotient(l, r) = IF (l >= 0) = (r >= 0) THEN d ELSE -d
      BY DEF Quotient
    <3>3. Abs(l) <= max + 1 /\ (Abs(l) = max + 1 => l = Least(max))
      BY DEF Abs, Least
    <3>4. ASSUME l = Least(max), r < 0
          PROVE  d <= max
      <4>1. Abs(l) = max + 1 /\ Abs(r) >= 2
        BY <2>3, <3>4 DEF Abs, Least
      <4>2. 2 * d <= Abs(r) * d
        BY <2>1, <3>1, <4>1, ProductMonotone
      <4>3. Abs(l) = d * Abs(r) + (Abs(l) % Abs(r)) /\ Abs(l) % Abs(r) \in Nat
        BY <2>1, DivModFacts
      <4>4. d * Abs(r) = Abs(r) * d /\ d * Abs(r) \in Nat
        BY <2>1, <3>1, NatProduct
      <4> DEFINE p == d * Abs(r)
                 w == Abs(l) % Abs(r)
      <4>5. p \in Nat /\ w \in Nat /\ 2 * d <= p /\ max + 1 = p + w
        <5>1. p \in Nat /\ w \in Nat
          BY <4>3, <4>4
        <5>2. 2 * d <= p
          BY <4>2, <4>4
        <5>3. max + 1 = p + w
          <6>1. Abs(l) = p + w
            BY <4>3
          <6> QED
            BY <4>1, <6>1
        <5> QED
          BY <5>1, <5>2, <5>3
      <4> HIDE DEF d, p, w
      <4>6. 2 * d <= max + 1
        BY <3>1, <4>5
      <4> QED
        BY <3>1, <4>6
    <3> HIDE DEF d
    <3>5. Least(max) <= Quotient(l, r) /\ Quotient(l, r) <= max
      BY <2>1, <3>1, <3>2, <3>3, <3>4 DEF Least
    <3>6. Quotient(l, r) \in Int
      BY <3>1, <3>2
    <3>7. SignedDivide(l, r, max) = Quotient(l, r)
      BY <1>1, <2>3 DEF SignedDivide
    <3>8. Saturated(Quotient(l, r), Least(max), max) = Quotient(l, r)
      BY <3>5, <3>6 DEF Saturated, Least
    <3> QED
      BY <3>7, <3>8
  <2> QED
    BY <2>2, <2>3
<1> QED
  BY <1>1 DEF SignedDivide

\* A result that is cut off at the ends of a range is in it.
LEMMA SaturatedIsInRange ==
    ASSUME NEW min \in Int, NEW max \in Int, min <= max, NEW n \in Int
    PROVE  Saturated(n, min, max) \in min..max
  BY DEF Saturated

\* The five unsigned operators stay in the range of their type.
LEMMA UnsignedInRange ==
    ASSUME NEW max \in Nat, NEW l \in 0..max, NEW r \in 0..max
    PROVE  /\ UnsignedTimes(l, r, max) \in 0..max
           /\ UnsignedDivide(l, r, max) \in 0..max
           /\ UnsignedModulus(l, r) \in 0..max
           /\ UnsignedPlus(l, r, max) \in 0..max
           /\ UnsignedMinus(l, r) \in 0..max
<1>1. UnsignedTimes(l, r, max) \in 0..max
  <2>1. l * r \in Int /\ 0 \in Int /\ max \in Int /\ 0 <= max
    OBVIOUS
  <2>2. Saturated(l * r, 0, max) \in 0..max
    BY <2>1, SaturatedIsInRange, Zenon
  <2>3. UnsignedTimes(l, r, max) = Saturated(l * r, 0, max)
    BY UnsignedSaturates
  <2> QED BY <2>2, <2>3, Zenon
<1>2. UnsignedPlus(l, r, max) \in 0..max /\ UnsignedMinus(l, r) \in 0..max
  BY DEF UnsignedPlus, UnsignedMinus
<1>3. ASSUME r # 0
      PROVE  l \div r \in 0..max /\ l % r \in 0..max
  <2>1. l \in Nat /\ r \in Nat /\ r > 0
    BY <1>3
  <2>2. l \div r \in Nat /\ l % r \in Nat /\ l % r < r /\ l \div r <= l
    BY <2>1, DivModFacts
  <2> DEFINE q == l \div r
             m == l % r
  <2>3. q \in Nat /\ m \in Nat /\ m < r /\ q <= l
    BY <2>2
  <2> HIDE DEF q, m
  <2>4. q \in 0..max /\ m \in 0..max
    BY <2>1, <2>3
  <2> QED BY <2>4 DEF q, m
<1>4. UnsignedDivide(l, r, max) \in 0..max
  <2>1. CASE r # 0
    BY <1>3, <2>1 DEF UnsignedDivide
  <2>2. CASE r = 0
    BY <2>2 DEF UnsignedDivide
  <2> QED BY <2>1, <2>2
<1>5. UnsignedModulus(l, r) \in 0..max
  <2>1. CASE r # 0
    BY <1>3, <2>1 DEF UnsignedModulus
  <2>2. CASE r = 0
    BY <2>2 DEF UnsignedModulus
  <2> QED BY <2>1, <2>2
<1> QED BY <1>1, <1>2, <1>4, <1>5

\* The five signed operators stay in the range of their type.
LEMMA SignedInRange ==
    ASSUME NEW max \in Nat, max > 0, NEW wide \in BOOLEAN,
           NEW l \in Least(max)..max, NEW r \in Least(max)..max
    PROVE  /\ SignedTimes(l, r, max, wide) \subseteq Least(max)..max
           /\ SignedDivide(l, r, max) \in Least(max)..max
           /\ SignedModulus(l, r, max, wide) \subseteq Least(max)..max
           /\ SignedPlus(l, r, max) \in Least(max)..max
           /\ SignedMinus(l, r, max) \in Least(max)..max
<1>1. /\ l \in Int /\ r \in Int /\ Least(max) \in Int /\ max \in Int /\ Least(max) <= max
      /\ 0 \in Least(max)..max /\ max \in Least(max)..max /\ Least(max) \in Least(max)..max
  BY DEF Least
<1>2. SignedTimes(l, r, max, wide) \subseteq Least(max)..max
  <2>1. CASE TimesOverflows(l, r, max, wide)
    BY <2>1 DEF SignedTimes
  <2>2. CASE ~TimesOverflows(l, r, max, wide)
    <3>1. SignedTimes(l, r, max, wide) = {Saturated(l * r, Least(max), max)}
      BY <2>2, SignedSaturates
    <3>2. l * r \in Int
      BY <1>1
    <3>3. Saturated(l * r, Least(max), max) \in Least(max)..max
      BY <1>1, <3>2, SaturatedIsInRange
    <3> QED BY <3>1, <3>3, Zenon
  <2> QED BY <2>1, <2>2
<1>3. SignedPlus(l, r, max) \in Least(max)..max /\ SignedMinus(l, r, max) \in Least(max)..max
  BY DEF SignedPlus, SignedMinus, Least
<1>4. SignedDivide(l, r, max) \in Least(max)..max
  <2>1. CASE r # 0
    <3>1. Abs(l) \in Nat /\ Abs(r) \in Nat /\ Abs(r) > 0
      BY <1>1, <2>1, AbsFacts
    <3>2. Abs(l) \div Abs(r) \in Nat
      BY <3>1, DivModFacts
    <3>3. Quotient(l, r) \in Int
      BY <3>2 DEF Quotient
    <3>4. SignedDivide(l, r, max) = Saturated(Quotient(l, r), Least(max), max)
      BY <2>1, DivisionSaturates
    <3> QED BY <1>1, <3>3, <3>4, SaturatedIsInRange
  <2>2. CASE r = 0
    <3>1. SignedDivide(l, r, max) = IF l = 0 THEN 0 ELSE IF l > 0 THEN max ELSE Least(max)
      BY <2>2, DivisionSaturates
    <3> QED BY <1>1, <3>1
  <2> QED BY <2>1, <2>2
<1>5. SignedModulus(l, r, max, wide) \subseteq Least(max)..max
  <2>1. CASE ModulusOverflows(l, r, max, wide)
    BY <2>1 DEF SignedModulus
  <2>2. CASE ~ModulusOverflows(l, r, max, wide) /\ r = 0
    <3>1. SignedModulus(l, r, max, wide) = {0}
      BY <2>2 DEF SignedModulus
    <3> QED BY <1>1, <3>1
  <2>3. CASE ~ModulusOverflows(l, r, max, wide) /\ r # 0
    <3> DEFINE m == Abs(l) % Abs(r)
    <3>1. Abs(l) \in Nat /\ Abs(r) \in Nat /\ Abs(r) > 0
      BY <1>1, <2>3, AbsFacts
    <3>2. m \in Nat /\ m < Abs(r)
      BY <3>1, DivModFacts
    <3>3. Abs(r) <= max + 1
      BY DEF Abs, Least
    <3>4. SignedModulus(l, r, max, wide) \in {{m}, {-m}}
      BY <2>3, Zenon DEF SignedModulus
    <3> HIDE DEF m
    <3>5. m \in Least(max)..max /\ -m \in Least(max)..max
      BY <3>1, <3>2, <3>3 DEF Least
    <3> QED BY <3>4, <3>5
  <2> QED BY <2>1, <2>2, <2>3
<1> QED BY <1>2, <1>3, <1>4, <1>5

\* The payloads of each type.
LEMMA Ranges ==
    ASSUME NEW p
    PROVE  /\ \A t \in UnsignedTypes : InRange(t, p) <=> p \in 0..GreatestValue[t]
           /\ \A t \in SignedTypes : InRange(t, p) <=> p \in Least(GreatestValue[t])..GreatestValue[t]
           /\ InRange("b", p) <=> p \in BOOLEAN
           /\ InRange("o", p) <=> p \in ObjectPaths
           /\ InRange("g", p) <=> p \in Signatures
           /\ InRange("s", p) <=> IsSequence(p)
           /\ InRange("d", p)
  BY DEF InRange, UnsignedTypes, SignedTypes

\* A numeric operator on integers of a type gives an integer of the type.
LEMMA CalculatedIsInRange ==
    ASSUME NEW op \in NumericOperators, NEW t \in IntegerTypes,
           NEW l, InRange(t, l), NEW r, InRange(t, r), NEW n \in Calculate(op, t, l, r)
    PROVE  InRange(t, n)
<1> DEFINE max == GreatestValue[t]
           wide == t \in WideTypes
<1>1. max \in Nat /\ max > 0 /\ wide \in BOOLEAN
  BY WidthsAssumption
<1>2. op \in {"*", "/", "%", "+", "-"}
  BY DEF NumericOperators
<1>3. CASE t \in UnsignedTypes
  <2>1. \A p : InRange(t, p) <=> p \in 0..max
    BY <1>3, Ranges, Zenon
  <2>2. l \in 0..max /\ r \in 0..max
    BY <2>1
  <2>3. n \in {UnsignedTimes(l, r, max), UnsignedDivide(l, r, max), UnsignedModulus(l, r),
               UnsignedPlus(l, r, max), UnsignedMinus(l, r)}
    BY <1>2, <1>3, Zenon DEF Calculate
  <2> HIDE DEF max, wide
  <2>4. n \in 0..max
    BY <1>1, <2>2, <2>3, UnsignedInRange
  <2> QED BY <2>1, <2>4
<1>4. CASE t \notin UnsignedTypes
  <2>0. t \in SignedTypes
    BY <1>4 DEF IntegerTypes
  <2>1. \A p : InRange(t, p) <=> p \in Least(max)..max
    BY <2>0, Ranges, Zenon
  <2>2. l \in Least(max)..max /\ r \in Least(max)..max
    BY <2>1
  <2>3. n \in SignedTimes(l, r, max, wide) \cup {SignedDivide(l, r, max)}
              \cup SignedModulus(l, r, max, wide)
              \cup {SignedPlus(l, r, max), SignedMinus(l, r, max)}
    BY <1>2, <1>4, Zenon DEF Calculate
  <2> HIDE DEF max, wide
  <2>4. n \in Least(max)..max
    BY <1>1, <2>2, <2>3, SignedInRange
  <2> QED BY <2>1, <2>4
<1> QED BY <1>3, <1>4

-----------------------------------------------------------------------------
(* The virtual functions.                                                  *)

\* Every virtual function is the implementation.
MethodsAreImplemented ==
    /\ \A e : PreCheck(e) = pre_check(e)
    /\ \A e, all : Check(e, all) = check(e, all)
    /\ \A e, all : CalculateType(e, all) = calculate_type(e, all)
    /\ \A e, env : Evaluate(e, env) = evaluate(e, env)
    /\ \A d, env : ToVariant(d, env) = class_evaluate(<<"data", d>>, env)
    /\ \A e : IsVariable(e) = is_variable(e)
    /\ \A d, env, v : SetFromVariant(d, env, v) = set_from_variant(d, env, v)
    /\ \A t, super : IsSubtype(t, super) = is_subtype_of(t, super)
    /\ \A t : IsDefinite(t) = is_definite(t)
    /\ \A t : IsType(t) = is_type(t)
    /\ \A v : IsValue(v) = is_value(v)
    /\ \A d : IsBuilt(d) = is_built(d)
    /\ \A e, all : PlacesFit(e, all) = places_fit(e, all)
    /\ \A n \in Nat : \A e : IsParsed(n, e) = is_parsed(n, e)

-----------------------------------------------------------------------------
(* Types.                                                                  *)

\* Wildcards and errors differ from types and from each other.
LEMMA TypesDiffer ==
    ASSUME NEW x, NEW y
    PROVE  /\ Array(x) \notin {AnyType, AnyBasic, AnyTuple, NoType, Broken}
           /\ Tuple(x) \notin {AnyType, AnyBasic, AnyTuple, NoType, Broken}
           /\ Entry(x, y) \notin {AnyType, AnyBasic, AnyTuple, NoType, Broken}
  BY SMT DEF Array, Tuple, Entry, AnyType, AnyBasic, AnyTuple, NoType, Broken

\* What container types are made of.
LEMMA TypeParts ==
    ASSUME NEW x, NEW y
    PROVE  /\ Array(x)[1] = "a" /\ Array(x)[2] = x /\ DOMAIN Array(x) = 1..2
           /\ Tuple(x)[1] = "r" /\ Tuple(x)[2] = x /\ DOMAIN Tuple(x) = 1..2
           /\ Entry(x, y)[1] = "e" /\ Entry(x, y)[2] = x /\ Entry(x, y)[3] = y
           /\ DOMAIN Entry(x, y) = 1..3
           /\ Components(Array(x)) = <<x>> /\ Components(Tuple(x)) = x
           /\ Components(Entry(x, y)) = <<x, y>>
<1>1. /\ Array(x)[1] = "a" /\ Array(x)[2] = x /\ DOMAIN Array(x) = 1..2
      /\ Tuple(x)[1] = "r" /\ Tuple(x)[2] = x /\ DOMAIN Tuple(x) = 1..2
      /\ Entry(x, y)[1] = "e" /\ Entry(x, y)[2] = x /\ Entry(x, y)[3] = y
      /\ DOMAIN Entry(x, y) = 1..3
  BY SMT DEF Array, Tuple, Entry
<1>2. "a" # "r" /\ "a" # "e" /\ "r" # "e"
  OBVIOUS
<1>3. Tuple(x) # AnyTuple
  BY TypesDiffer
<1> QED BY <1>1, <1>2, <1>3, Zenon DEF Components

\* A sequence of one.
LEMMA Singles ==
    ASSUME NEW c
    PROVE  <<c>>[1] = c /\ DOMAIN <<c>> = {1} /\ DOMAIN <<c>> # 1..2 /\ DOMAIN <<c>> # 1..3
  BY SMT

\* A sequence of two.
LEMMA Pairs ==
    ASSUME NEW a, NEW b
    PROVE  /\ <<a, b>>[1] = a /\ <<a, b>>[2] = b /\ DOMAIN <<a, b>> = {1, 2}
           /\ Len(<<a, b>>) = 2 /\ IsSequence(<<a, b>>) /\ ToSet(<<a, b>>) = {a, b}
<1> DEFINE s == <<a, b>>
<1>1. s \in Seq({a, b}) /\ DOMAIN s = {1, 2} /\ s[1] = a /\ s[2] = b /\ Len(s) = 2
  BY SMT
<1>2. IsSequence(s)
  BY <1>1, SequenceOver
<1> HIDE DEF s
<1>3. ToSet(s) = {a, b}
  BY <1>1 DEF ToSet
<1> QED BY <1>1, <1>2, <1>3 DEF s

\* Whether types made of types are definite.
LEMMA Definite ==
    ASSUME MethodsAreImplemented
    PROVE  /\ ~IsDefinite(AnyType) /\ ~IsDefinite(AnyBasic) /\ ~IsDefinite(AnyTuple)
           /\ \A x : IsDefinite(Array(x)) <=> IsDefinite(x)
           /\ \A x, y : IsDefinite(Entry(x, y)) <=> IsDefinite(x) /\ IsDefinite(y)
           /\ \A ts : IsDefinite(Tuple(ts)) <=> \A k \in DOMAIN ts : IsDefinite(ts[k])
           /\ \A c \in BasicTypes \cup {"v"} : IsDefinite(<<c>>)
<1>1. \A t : IsDefinite(t) = is_definite(t)
  BY DEF MethodsAreImplemented
<1>2. ~IsDefinite(AnyType) /\ ~IsDefinite(AnyBasic) /\ ~IsDefinite(AnyTuple)
  BY <1>1, Zenon DEF is_definite
<1>3. ASSUME NEW x PROVE IsDefinite(Array(x)) <=> IsDefinite(x)
  <2>1. is_definite(Array(x)) <=> \A k \in DOMAIN <<x>> : IsDefinite(<<x>>[k])
    BY TypesDiffer, TypeParts, Zenon DEF is_definite
  <2> QED BY <1>1, <2>1, Singles, Zenon
<1>4. ASSUME NEW x, NEW y PROVE IsDefinite(Entry(x, y)) <=> IsDefinite(x) /\ IsDefinite(y)
  <2> DEFINE t == Entry(x, y)
             s == <<x, y>>
  <2>1. t \notin {AnyType, AnyBasic, AnyTuple} /\ Components(t) = s
    BY TypesDiffer, TypeParts
  <2>2. DOMAIN s = {1, 2} /\ s[1] = x /\ s[2] = y
    BY Pairs
  <2> HIDE DEF t, s
  <2>3. is_definite(t) <=> \A k \in DOMAIN s : IsDefinite(s[k])
    BY <2>1, Zenon DEF is_definite
  <2>4. is_definite(t) <=> IsDefinite(x) /\ IsDefinite(y)
    BY <2>2, <2>3
  <2> QED BY <1>1, <2>4, Zenon DEF t
<1>5. ASSUME NEW ts PROVE IsDefinite(Tuple(ts)) <=> \A k \in DOMAIN ts : IsDefinite(ts[k])
  <2>1. is_definite(Tuple(ts)) <=> \A k \in DOMAIN ts : IsDefinite(ts[k])
    BY TypesDiffer, TypeParts, Zenon DEF is_definite
  <2> QED BY <1>1, <2>1, Zenon
<1>6. ASSUME NEW c \in BasicTypes \cup {"v"} PROVE IsDefinite(<<c>>)
  <2>1. c \notin {"*", "?", "a", "e", "r"}
    BY DEF BasicTypes, IntegerTypes, UnsignedTypes, SignedTypes
  <2>2. <<c>> \notin {AnyType, AnyBasic, AnyTuple}
    BY <2>1, Singles DEF AnyType, AnyBasic, AnyTuple
  <2>3. Components(<<c>>) = <<>>
    BY <2>1, Singles, Zenon DEF Components
  <2>4. DOMAIN <<>> = {}
    BY SMT
  <2> QED BY <1>1, <2>2, <2>3, <2>4, Zenon DEF is_definite
<1> QED BY <1>2, <1>3, <1>4, <1>5, <1>6, Zenon

\* The types that values can have, by their first character.
LEMMA TypeCases ==
    ASSUME MethodsAreImplemented, NEW t, IsType(t)
    PROVE  /\ IsDefinite(t) /\ t \notin {NoType, Broken, <<"aborted">>}
           /\ \/ \E c \in BasicTypes \cup {"v"} : t = <<c>> /\ t[1] = c
              \/ t[1] = "a" /\ t = Array(t[2]) /\ IsType(t[2])
              \/ /\ t[1] = "r" /\ t = Tuple(t[2]) /\ IsSequence(t[2])
                 /\ \A k \in DOMAIN t[2] : IsType(t[2][k])
              \/ t[1] = "e" /\ t = Entry(t[2], t[3]) /\ IsType(t[2]) /\ IsType(t[3])
<1>1. is_type(t)
  BY DEF MethodsAreImplemented
<1>2. IsDefinite(t)
  BY <1>1 DEF is_type
<1>3. \/ \E c \in BasicTypes \cup {"v"} : t = <<c>> /\ t[1] = c
      \/ t[1] = "a" /\ t = Array(t[2]) /\ IsType(t[2])
      \/ /\ t[1] = "r" /\ t = Tuple(t[2]) /\ IsSequence(t[2])
         /\ \A k \in DOMAIN t[2] : IsType(t[2][k])
      \/ t[1] = "e" /\ t = Entry(t[2], t[3]) /\ IsType(t[2]) /\ IsType(t[3])
  <2>1. CASE \E c \in BasicTypes \cup {"v"} : t = <<c>>
    BY <2>1, Singles
  <2>2. CASE /\ DOMAIN t = 1..2 /\ t[1] \in {"a", "r"}
             /\ t \in {Array(t[2]), Tuple(t[2])}
             /\ IsTuple(t) => t[2] \in Seq(ToSet(t[2]))
             /\ \A k \in DOMAIN Components(t) : IsType(Components(t)[k])
    <3> DEFINE u == t[2]
    <3> HIDE DEF u
    <3>1. CASE t = Array(u)
      <4>1. t[1] = "a" /\ Components(t) = <<u>>
        BY <3>1, TypeParts
      <4> QED BY <2>2, <3>1, <4>1, Singles DEF u
    <3>2. CASE t = Tuple(u)
      <4>1. t[1] = "r" /\ Components(t) = u
        BY <3>2, TypeParts
      <4> QED BY <2>2, <3>2, <4>1 DEF IsTuple, IsSequence, u
    <3> QED BY <2>2, <3>1, <3>2 DEF u
  <2>3. CASE DOMAIN t = 1..3 /\ t = Entry(t[2], t[3]) /\ IsType(t[2]) /\ IsType(t[3])
    <3> DEFINE x == t[2]
               y == t[3]
    <3> HIDE DEF x, y
    <3>1. t = Entry(x, y)
      BY <2>3 DEF x, y
    <3>2. t[1] = "e"
      BY <3>1, TypeParts
    <3> QED BY <2>3, <3>2
  <2> QED BY <1>1, <2>1, <2>2, <2>3 DEF is_type
<1>4. t[1] \notin {"none", "broken", "aborted"}
  <2>1. \A c \in BasicTypes \cup {"v"} : c \notin {"none", "broken", "aborted"}
    BY DEF BasicTypes, IntegerTypes, UnsignedTypes, SignedTypes
  <2>2. {"a", "r", "e"} \cap {"none", "broken", "aborted"} = {}
    BY SMT
  <2> QED BY <1>3, <2>1, <2>2
<1>5. t \notin {NoType, Broken, <<"aborted">>}
  BY <1>4, Singles DEF NoType, Broken
<1> QED BY <1>2, <1>3, <1>5

\* How the types of values are made.
LEMMA TypesMade ==
    ASSUME MethodsAreImplemented
    PROVE  /\ \A x : IsType(x) => IsType(Array(x))
           /\ \A x, y : IsType(x) /\ IsType(y) => IsType(Entry(x, y))
           /\ \A ts : IsSequence(ts) /\ (\A k \in DOMAIN ts : IsType(ts[k])) => IsType(Tuple(ts))
           /\ \A c \in BasicTypes \cup {"v"} : IsType(<<c>>)
<1>1. \A t : IsType(t) = is_type(t)
  BY DEF MethodsAreImplemented
<1>2. ASSUME NEW x, IsType(x) PROVE IsType(Array(x))
  <2>1. IsDefinite(Array(x))
    BY <1>2, TypeCases, Definite
  <2>2. ~IsTuple(Array(x))
    BY TypeParts DEF IsTuple
  <2>3. \A k \in DOMAIN Components(Array(x)) : IsType(Components(Array(x))[k])
    BY <1>2, TypeParts, Singles
  <2> DEFINE t == Array(x)
  <2>4. DOMAIN t = 1..2 /\ t[1] = "a" /\ t[2] = x /\ t = Array(t[2])
    BY TypeParts
  <2>5. IsDefinite(t) /\ ~IsTuple(t) /\ \A k \in DOMAIN Components(t) : IsType(Components(t)[k])
    BY <2>1, <2>2, <2>3
  <2> HIDE DEF t
  <2>6. is_type(t)
    BY <2>4, <2>5 DEF is_type
  <2> QED BY <1>1, <2>6 DEF t
<1>3. ASSUME NEW x, NEW y, IsType(x), IsType(y) PROVE IsType(Entry(x, y))
  <2> DEFINE t == Entry(x, y)
  <2>1. IsDefinite(t)
    BY <1>3, TypeCases, Definite
  <2>2. DOMAIN t = 1..3 /\ t[2] = x /\ t[3] = y /\ t = Entry(t[2], t[3])
    BY TypeParts
  <2> HIDE DEF t
  <2>3. is_type(t)
    BY <1>3, <2>1, <2>2 DEF is_type
  <2> QED BY <1>1, <2>3 DEF t
<1>4. ASSUME NEW ts, IsSequence(ts), \A k \in DOMAIN ts : IsType(ts[k]) PROVE IsType(Tuple(ts))
  <2> DEFINE t == Tuple(ts)
  <2>1. IsDefinite(t)
    <3>1. \A k \in DOMAIN ts : IsDefinite(ts[k])
      BY <1>4, TypeCases
    <3> QED BY <3>1, Definite
  <2>2. DOMAIN t = 1..2 /\ t[1] = "r" /\ t[2] = ts /\ t = Tuple(t[2]) /\ Components(t) = ts
    BY TypeParts
  <2> HIDE DEF t
  <2>3. is_type(t)
    BY <1>4, <2>1, <2>2 DEF is_type, IsSequence
  <2> QED BY <1>1, <2>3 DEF t
<1>5. ASSUME NEW c \in BasicTypes \cup {"v"} PROVE IsType(<<c>>)
  <2>1. IsDefinite(<<c>>)
    BY Definite
  <2>2. is_type(<<c>>)
    BY <2>1, Zenon DEF is_type
  <2> QED BY <1>1, <2>2
<1> QED BY <1>2, <1>3, <1>4, <1>5

\* A type is a subtype of itself, and of no other without wildcards.
LEMMA SubtypeFacts ==
    ASSUME MethodsAreImplemented, NEW t, NEW super
    PROVE  /\ IsSubtype(t, t)
           /\ IsSubtype(t, super) /\ IsDefinite(super) => t = super
           /\ IsSubtype(t, super) =>
                \/ t = super
                \/ super \in {AnyType, AnyBasic}
                \/ super = AnyTuple /\ t[1] = "r"
                \/ /\ super[1] \in {"a", "e", "r"} /\ t[1] = super[1]
                   /\ Len(Components(t)) = Len(Components(super))
                   /\ \A k \in DOMAIN Components(t) : IsSubtype(Components(t)[k], Components(super)[k])
<1>1. \A x, y : IsSubtype(x, y) = is_subtype_of(x, y)
  BY DEF MethodsAreImplemented
<1>2. IsSubtype(t, t)
  BY <1>1, Zenon DEF is_subtype_of
<1>3. ASSUME IsSubtype(t, super), IsDefinite(super) PROVE t = super
  <2>1. super \notin {AnyType, AnyBasic, AnyTuple}
    BY <1>3, Definite
  <2> QED BY <1>1, <1>3, <2>1, Zenon DEF is_subtype_of
<1>4. ASSUME IsSubtype(t, super)
      PROVE  \/ t = super
             \/ super \in {AnyType, AnyBasic}
             \/ super = AnyTuple /\ t[1] = "r"
             \/ /\ super[1] \in {"a", "e", "r"} /\ t[1] = super[1]
                /\ Len(Components(t)) = Len(Components(super))
                /\ \A k \in DOMAIN Components(t) : IsSubtype(Components(t)[k], Components(super)[k])
  BY <1>1, <1>4, Zenon DEF is_subtype_of, IsTuple
<1> QED BY <1>2, <1>3, <1>4

\* What is a subtype of a type of arrays.
LEMMA SubtypeOfArray ==
    ASSUME MethodsAreImplemented, NEW t, NEW x, IsType(t), IsSubtype(t, Array(x))
    PROVE  t[1] = "a" /\ t = Array(t[2]) /\ IsType(t[2]) /\ IsSubtype(t[2], x)
<1> DEFINE super == Array(x)
           u == t[2]
<1>1. /\ super[1] = "a" /\ super[2] = x /\ Components(super) = <<x>>
      /\ super \notin {AnyType, AnyBasic, AnyTuple}
  BY TypeParts, TypesDiffer
<1>2. IsSubtype(t, super)
  OBVIOUS
<1> HIDE DEF super
<1>3. t[1] = "a"
  BY <1>1, <1>2, SubtypeFacts
<1>4. t = Array(u) /\ IsType(u)
  <2>1. \A c \in BasicTypes \cup {"v"} : c # "a"
    BY DEF BasicTypes, IntegerTypes, UnsignedTypes, SignedTypes
  <2> QED BY <1>3, <2>1, TypeCases
<1>5. IsSubtype(u, x)
  <2>1. CASE t = super
    BY <1>1, <2>1, SubtypeFacts
  <2>2. CASE t # super
    <3> HIDE DEF u
    <3>1. \A k \in DOMAIN Components(t) : IsSubtype(Components(t)[k], Components(super)[k])
      BY <1>1, <1>2, <2>2, SubtypeFacts
    <3>2. Components(t) = <<u>>
      BY <1>4, TypeParts
    <3>3. <<u>>[1] = u /\ DOMAIN <<u>> = {1} /\ <<x>>[1] = x
      BY Singles
    <3> QED BY <1>1, <3>1, <3>2, <3>3
  <2> QED BY <2>1, <2>2
<1> QED BY <1>3, <1>4, <1>5

\* What is a subtype of a type of dictionary entries.
LEMMA SubtypeOfEntry ==
    ASSUME MethodsAreImplemented, NEW t, NEW x, NEW y, IsType(t), IsSubtype(t, Entry(x, y))
    PROVE  /\ t[1] = "e" /\ t = Entry(t[2], t[3]) /\ IsType(t[2]) /\ IsType(t[3])
           /\ IsSubtype(t[2], x) /\ IsSubtype(t[3], y)
<1> DEFINE super == Entry(x, y)
           u == t[2]
           w == t[3]
<1>1. /\ super[1] = "e" /\ super[2] = x /\ super[3] = y /\ Components(super) = <<x, y>>
      /\ super \notin {AnyType, AnyBasic, AnyTuple}
  BY TypeParts, TypesDiffer
<1>2. IsSubtype(t, super)
  OBVIOUS
<1> HIDE DEF super
<1>3. t[1] = "e"
  BY <1>1, <1>2, SubtypeFacts
<1>4. t = Entry(u, w) /\ IsType(u) /\ IsType(w)
  <2>1. \A c \in BasicTypes \cup {"v"} : c # "e"
    BY DEF BasicTypes, IntegerTypes, UnsignedTypes, SignedTypes
  <2> QED BY <1>3, <2>1, TypeCases
<1>5. IsSubtype(u, x) /\ IsSubtype(w, y)
  <2>1. CASE t = super
    BY <1>1, <2>1, SubtypeFacts
  <2>2. CASE t # super
    <3> HIDE DEF u, w
    <3>1. \A k \in DOMAIN Components(t) : IsSubtype(Components(t)[k], Components(super)[k])
      BY <1>1, <1>2, <2>2, SubtypeFacts
    <3>2. Components(t) = <<u, w>>
      BY <1>4, TypeParts
    <3>3. /\ <<u, w>>[1] = u /\ <<u, w>>[2] = w /\ DOMAIN <<u, w>> = {1, 2}
          /\ <<x, y>>[1] = x /\ <<x, y>>[2] = y
      BY Pairs
    <3> QED BY <1>1, <3>1, <3>2, <3>3
  <2> QED BY <2>1, <2>2
<1> QED BY <1>3, <1>4, <1>5

\* Tuples of types: ones with as many components.
LEMMA TupleTypes ==
    ASSUME MethodsAreImplemented, NEW t, IsType(t), t[1] = "r"
    PROVE  t = Tuple(t[2]) /\ IsSequence(t[2]) /\ \A k \in DOMAIN t[2] : IsType(t[2][k])
<1>1. \A c \in BasicTypes \cup {"v"} : c # "r"
  BY DEF BasicTypes, IntegerTypes, UnsignedTypes, SignedTypes
<1> QED BY <1>1, TypeCases

\* What is a subtype of a type of tuples.
LEMMA SubtypeOfTuple ==
    ASSUME MethodsAreImplemented, NEW t, NEW xs, IsSequence(xs), IsType(t), IsSubtype(t, Tuple(xs))
    PROVE  /\ t[1] = "r" /\ t = Tuple(t[2]) /\ IsSequence(t[2]) /\ Len(t[2]) = Len(xs)
           /\ \A k \in 1..Len(xs) : IsType(t[2][k]) /\ IsSubtype(t[2][k], xs[k])
<1> DEFINE super == Tuple(xs)
           us == t[2]
<1>1. /\ super[1] = "r" /\ super[2] = xs /\ Components(super) = xs
      /\ super \notin {AnyType, AnyBasic, AnyTuple}
  BY TypeParts, TypesDiffer
<1>2. IsSubtype(t, super)
  OBVIOUS
<1> HIDE DEF super
<1>3. t[1] = "r"
  BY <1>1, <1>2, SubtypeFacts
<1>4. t = Tuple(us) /\ IsSequence(us) /\ \A k \in DOMAIN us : IsType(us[k])
  BY <1>3, TupleTypes
<1>5. Len(us) = Len(xs) /\ \A k \in DOMAIN us : IsSubtype(us[k], xs[k])
  <2>1. CASE t = super
    BY <1>1, <2>1, SubtypeFacts
  <2>2. CASE t # super
    <3> HIDE DEF us
    <3>1. /\ Len(Components(t)) = Len(Components(super))
          /\ \A k \in DOMAIN Components(t) : IsSubtype(Components(t)[k], Components(super)[k])
      BY <1>1, <1>2, <2>2, SubtypeFacts
    <3>2. Components(t) = us
      BY <1>4, TypeParts
    <3> QED BY <1>1, <3>1, <3>2
  <2> QED BY <2>1, <2>2
<1>6. DOMAIN us = 1..Len(us)
  BY <1>4, SequenceFacts
<1> QED BY <1>3, <1>4, <1>5, <1>6

\* What is a subtype of the type of all tuples.
LEMMA SubtypeOfAnyTuple ==
    ASSUME MethodsAreImplemented, NEW t, IsType(t), IsSubtype(t, AnyTuple)
    PROVE  t = Tuple(t[2]) /\ IsSequence(t[2]) /\ \A k \in DOMAIN t[2] : IsType(t[2][k])
<1>1. t # AnyTuple
  BY Definite, TypeCases
<1>2. AnyTuple \notin {AnyType, AnyBasic} /\ AnyTuple[1] = "r"
  BY SMT DEF AnyTuple, AnyType, AnyBasic
<1>3. t[1] = "r"
  BY <1>1, <1>2, SubtypeFacts
<1> QED BY <1>3, TupleTypes

-----------------------------------------------------------------------------
(* Values.                                                                 *)

\* A value of type t.
HasType(v, t) == TypeOfValue(v) = t /\ IsValue(v)

\* The parts of a value.
LEMMA VariantParts ==
    ASSUME NEW t, NEW p
    PROVE  TypeOfValue(Variant(t, p)) = t /\ Payload(Variant(t, p)) = p
  BY DEF TypeOfValue, Variant, Payload

\* What is not a basic type.
LEMMA NotBasic == /\ "a" \notin BasicTypes /\ "e" \notin BasicTypes /\ "r" \notin BasicTypes
                  /\ "v" \notin BasicTypes
  BY DEF BasicTypes, IntegerTypes, UnsignedTypes, SignedTypes

\* A value is made of its type and its payload, and is no failure.
LEMMA ValueFacts ==
    ASSUME MethodsAreImplemented, NEW v, IsValue(v)
    PROVE  /\ v = Variant(TypeOfValue(v), Payload(v)) /\ IsType(TypeOfValue(v)) /\ ~IsAbort(v)
           /\ TypeOfValue(v)[1] \in BasicTypes => InRange(TypeOfValue(v)[1], Payload(v))
           /\ TypeOfValue(v)[1] = "v" => IsValue(Payload(v))
<1>1. is_value(v)
  BY DEF MethodsAreImplemented
<1>2. v = Variant(TypeOfValue(v), Payload(v)) /\ IsType(TypeOfValue(v))
  BY <1>1, Zenon DEF is_value
<1>3. TypeOfValue(v) # <<"aborted">>
  BY <1>2, TypeCases
<1>4. ~IsAbort(v)
  BY <1>3 DEF IsAbort, TypeOfValue
<1> DEFINE c == TypeOfValue(v)[1]
<1>5. ASSUME c \in BasicTypes PROVE InRange(c, Payload(v))
  <2>1. c # "v" /\ c # "a" /\ c # "e" /\ c # "r"
    BY <1>5, NotBasic
  <2> QED BY <1>1, <1>5, <2>1, Zenon DEF is_value
<1>6. ASSUME c = "v" PROVE IsValue(Payload(v))
  BY <1>1, <1>6, NotBasic, Zenon DEF is_value
<1> QED BY <1>2, <1>4, <1>5, <1>6

\* When something is a value of a type of arrays.
LEMMA ArrayValue ==
    ASSUME MethodsAreImplemented, NEW v, NEW x
    PROVE  HasType(v, Array(x)) <=>
             /\ v = Variant(Array(x), Payload(v)) /\ IsType(Array(x)) /\ IsSequence(Payload(v))
             /\ \A k \in DOMAIN Payload(v) : HasType(Payload(v)[k], x)
<1> DEFINE t == Array(x)
<1>1. t[1] = "a" /\ t[2] = x
  BY TypeParts
<1> HIDE DEF t
<1>2. ASSUME TypeOfValue(v) = t
      PROVE  is_value(v) <=>
               /\ v = Variant(t, Payload(v)) /\ IsType(t) /\ IsSequence(Payload(v))
               /\ \A k \in DOMAIN Payload(v) : HasType(Payload(v)[k], x)
  BY <1>1, <1>2, NotBasic, Zenon DEF is_value, HasType
<1>3. IsValue(v) = is_value(v)
  BY DEF MethodsAreImplemented
<1>4. v = Variant(t, Payload(v)) => TypeOfValue(v) = t
  BY VariantParts
<1> QED BY <1>2, <1>3, <1>4 DEF HasType, t

\* When something is a value of a type of dictionary entries.
LEMMA EntryValue ==
    ASSUME MethodsAreImplemented, NEW v, NEW x, NEW y
    PROVE  HasType(v, Entry(x, y)) <=>
             /\ v = Variant(Entry(x, y), Payload(v)) /\ IsType(Entry(x, y)) /\ IsSequence(Payload(v))
             /\ Len(Payload(v)) = 2 /\ HasType(Payload(v)[1], x) /\ HasType(Payload(v)[2], y)
<1> DEFINE t == Entry(x, y)
<1>1. t[1] = "e" /\ t[2] = x /\ t[3] = y
  BY TypeParts
<1> HIDE DEF t
<1>2. ASSUME TypeOfValue(v) = t
      PROVE  is_value(v) <=>
               /\ v = Variant(t, Payload(v)) /\ IsType(t) /\ IsSequence(Payload(v))
               /\ Len(Payload(v)) = 2 /\ HasType(Payload(v)[1], x) /\ HasType(Payload(v)[2], y)
  BY <1>1, <1>2, NotBasic, Zenon DEF is_value, HasType
<1>3. IsValue(v) = is_value(v)
  BY DEF MethodsAreImplemented
<1>4. v = Variant(t, Payload(v)) => TypeOfValue(v) = t
  BY VariantParts
<1> QED BY <1>2, <1>3, <1>4 DEF HasType, t

\* When something is a value of a type of tuples.
LEMMA TupleValue ==
    ASSUME MethodsAreImplemented, NEW v, NEW ts
    PROVE  HasType(v, Tuple(ts)) <=>
             /\ v = Variant(Tuple(ts), Payload(v)) /\ IsType(Tuple(ts)) /\ IsSequence(Payload(v))
             /\ Len(Payload(v)) = Len(ts)
             /\ \A k \in DOMAIN Payload(v) : HasType(Payload(v)[k], ts[k])
<1> DEFINE t == Tuple(ts)
<1>1. t[1] = "r" /\ t[2] = ts
  BY TypeParts
<1> HIDE DEF t
<1>2. ASSUME TypeOfValue(v) = t
      PROVE  is_value(v) <=>
               /\ v = Variant(t, Payload(v)) /\ IsType(t) /\ IsSequence(Payload(v))
               /\ Len(Payload(v)) = Len(ts)
               /\ \A k \in DOMAIN Payload(v) : HasType(Payload(v)[k], ts[k])
  BY <1>1, <1>2, NotBasic, Zenon DEF is_value, HasType
<1>3. IsValue(v) = is_value(v)
  BY DEF MethodsAreImplemented
<1>4. v = Variant(t, Payload(v)) => TypeOfValue(v) = t
  BY VariantParts
<1> QED BY <1>2, <1>3, <1>4 DEF HasType, t

\* When something is a value of a basic type.
LEMMA BasicValue ==
    ASSUME MethodsAreImplemented, NEW c \in BasicTypes
    PROVE  /\ \A v : HasType(v, <<c>>) => v = Variant(<<c>>, Payload(v)) /\ InRange(c, Payload(v))
           /\ \A p : InRange(c, p) => HasType(Variant(<<c>>, p), <<c>>)
<1>1. <<c>>[1] = c
  BY Singles
<1>2. ASSUME NEW v, HasType(v, <<c>>) PROVE v = Variant(<<c>>, Payload(v)) /\ InRange(c, Payload(v))
  BY <1>1, <1>2, ValueFacts DEF HasType
<1>3. ASSUME NEW p, InRange(c, p) PROVE HasType(Variant(<<c>>, p), <<c>>)
  <2> DEFINE v == Variant(<<c>>, p)
             t == <<c>>
  <2>1. TypeOfValue(v) = t /\ Payload(v) = p
    BY VariantParts
  <2>2. v = Variant(t, p) /\ IsType(t) /\ t[1] \in BasicTypes /\ t[1] = c
    BY <1>1, TypesMade
  <2> HIDE DEF v, t
  <2>3. InRange(t[1], p)
    BY <1>3, <2>2
  <2>4. t[1] # "v" /\ t[1] # "a" /\ t[1] # "e" /\ t[1] # "r"
    BY <2>2, NotBasic
  <2>5. is_value(v)
    BY <2>1, <2>2, <2>3, <2>4, Zenon DEF is_value
  <2> QED BY <2>1, <2>5 DEF MethodsAreImplemented, HasType, v, t
<1> QED BY <1>2, <1>3

\* When something is a value that holds another of any type.
LEMMA BoxedValue ==
    ASSUME MethodsAreImplemented
    PROVE  /\ \A v : HasType(v, <<"v">>) => IsValue(Payload(v))
           /\ \A w : IsValue(w) => HasType(Variant(<<"v">>, w), <<"v">>)
<1>1. <<"v">>[1] = "v"
  BY Singles
<1>2. ASSUME NEW v, HasType(v, <<"v">>) PROVE IsValue(Payload(v))
  BY <1>1, <1>2, ValueFacts DEF HasType
<1>3. ASSUME NEW w, IsValue(w) PROVE HasType(Variant(<<"v">>, w), <<"v">>)
  <2> DEFINE t == <<"v">>
             v == Variant(t, w)
  <2>1. TypeOfValue(v) = t /\ Payload(v) = w
    BY VariantParts
  <2>2. v = Variant(t, w) /\ IsType(t) /\ t[1] = "v"
    BY <1>1, TypesMade
  <2> HIDE DEF v, t
  <2>3. is_value(v)
    BY <1>3, <2>1, <2>2, NotBasic, Zenon DEF is_value
  <2> QED BY <2>1, <2>3 DEF MethodsAreImplemented, HasType, v, t
<1> QED BY <1>2, <1>3

\* A truth value is a value.
LEMMA BooleanValue ==
    ASSUME MethodsAreImplemented, NEW b \in BOOLEAN
    PROVE  HasType(Boolean(b), <<"b">>)
<1>1. "b" \in BasicTypes /\ InRange("b", b)
  BY Ranges DEF BasicTypes
<1> QED BY <1>1, BasicValue DEF Boolean

\* The values in a value.
LEMMA ContentsAreValues ==
    ASSUME MethodsAreImplemented, NEW v, IsValue(v)
    PROVE  /\ IsSequence(Contents(v)) /\ \A k \in DOMAIN Contents(v) : IsValue(Contents(v)[k])
           /\ TypeOfValue(v)[1] \in {"a", "e", "r"} => Contents(v) = Payload(v)
<1> DEFINE t == TypeOfValue(v)
<1>1. /\ HasType(v, t) /\ IsType(t)
      /\ t[1] = "v" => IsValue(Payload(v))
  BY ValueFacts DEF HasType
<1>2. v[1] = t /\ v[2] = Payload(v)
  BY DEF TypeOfValue, Payload
<1> HIDE DEF t
<1>3. CASE t[1] \in {"a", "e", "r"}
  <2>1. Contents(v) = Payload(v)
    BY <1>2, <1>3, Zenon DEF Contents
  <2>2. \A c \in BasicTypes \cup {"v"} : c \notin {"a", "e", "r"}
    BY NotBasic
  <2>3. CASE t[1] = "a"
    <3>1. t = Array(t[2])
      BY <1>1, <2>2, <2>3, TypeCases
    <3> QED BY <1>1, <2>1, <3>1, ArrayValue DEF HasType, t
  <2>4. CASE t[1] = "e"
    <3>1. t = Entry(t[2], t[3])
      BY <1>1, <2>2, <2>4, TypeCases
    <3>2. /\ IsSequence(Payload(v)) /\ Len(Payload(v)) = 2
          /\ IsValue(Payload(v)[1]) /\ IsValue(Payload(v)[2])
      BY <1>1, <3>1, EntryValue DEF HasType
    <3>3. DOMAIN Payload(v) = 1..2 /\ 1..2 = {1, 2}
      BY <3>2, SequenceFacts, SMT
    <3> QED BY <2>1, <3>2, <3>3
  <2>5. CASE t[1] = "r"
    <3>1. t = Tuple(t[2])
      BY <1>1, <2>5, TupleTypes
    <3> QED BY <1>1, <2>1, <3>1, TupleValue DEF HasType
  <2> QED BY <1>3, <2>3, <2>4, <2>5, <2>1
<1>4. CASE t[1] = "v"
  <2>1. Contents(v) = <<Payload(v)>>
    BY <1>2, <1>4, Zenon DEF Contents
  <2>2. DOMAIN <<Payload(v)>> = {1} /\ <<Payload(v)>>[1] = Payload(v)
    BY Singles
  <2> QED BY <1>1, <1>4, <2>1, <2>2, SingleSequence DEF t
<1>5. CASE t[1] \notin {"a", "e", "r", "v"}
  <2>1. Contents(v) = <<>>
    BY <1>2, <1>5, Zenon DEF Contents
  <2>2. <<>> \in Seq({}) /\ DOMAIN <<>> = {}
    BY SMT
  <2>3. IsSequence(<<>>)
    BY <2>2, SequenceOver
  <2> QED BY <1>5, <2>1, <2>2, <2>3 DEF t
<1> QED BY <1>3, <1>4, <1>5 DEF t

-----------------------------------------------------------------------------
(* Sequences of values and of outcomes.                                    *)

\* FlattenSeq () joins the sequences of a sequence.
LEMMA FlattenOver ==
    ASSUME NEW ss, IsSequence(ss), \A k \in DOMAIN ss : IsSequence(ss[k])
    PROVE  /\ IsSequence(FlattenSeq(ss))
           /\ \A x \in ToSet(FlattenSeq(ss)) : \E k \in DOMAIN ss : x \in ToSet(ss[k])
<1> DEFINE S == UNION {ToSet(ss[k]) : k \in DOMAIN ss}
<1>1. ASSUME NEW k \in DOMAIN ss PROVE ss[k] \in Seq(S)
  <2>1. ss[k] \in Seq(ToSet(ss[k])) /\ ToSet(ss[k]) \subseteq S
    BY DEF IsSequence
  <2> QED BY <2>1, SeqMonotonic, Zenon
<1> HIDE DEF S
<1>2. ss \in Seq(Seq(S))
  <2>1. ss \in Seq(ToSet(ss)) /\ ToSet(ss) \subseteq Seq(S)
    BY <1>1 DEF IsSequence, ToSet
  <2> QED BY <2>1, SeqMonotonic, Zenon
<1>3. FlattenSeq(ss) \in Seq(S) /\ ToSet(FlattenSeq(ss)) = S
  BY <1>2, FlattenMembers, Zenon DEF S
<1>4. IsSequence(FlattenSeq(ss))
  BY <1>3, SequenceOver, Zenon
<1> QED BY <1>3, <1>4 DEF S

\* What is left of a sequence without one of its elements.
LEMMA RemovedMembers ==
    ASSUME NEW s, IsSequence(s), NEW i \in 1..Len(s)
    PROVE  IsSequence(RemoveAt(s, i)) /\ ToSet(RemoveAt(s, i)) \subseteq ToSet(s)
<1> DEFINE S == ToSet(s)
           n == Len(s)
           j == i + 1
           front == SubSeq(s, 1, i - 1)
           back == SubSeq(s, j, n)
<1>1. s \in Seq(S) /\ n \in Nat
  BY SequenceFacts
<1>2. i \in 1..(n + 1) /\ j \in 1..(n + 1)
  BY <1>1, SMT
<1>3. RemoveAt(s, i) = front \o back
  BY DEF RemoveAt
<1> HIDE DEF S, j
<1>4. front \in Seq(S)
  BY <1>1, <1>2, Parts
<1>5. back \in Seq(S)
  BY <1>1, <1>2, Parts
<1> HIDE DEF front, back
<1>6. front \o back \in Seq(S)
  BY <1>4, <1>5, ConcatMembers, Zenon
<1> QED BY <1>3, <1>6, SequenceOver DEF S

\* The elements of a sequence into which one is inserted.
LEMMA InsertedMembers ==
    ASSUME NEW s, IsSequence(s), NEW x, NEW i \in 1..(Len(s) + 1)
    PROVE  IsSequence(InsertAt(s, i, x)) /\ ToSet(InsertAt(s, i, x)) \subseteq ToSet(s) \cup {x}
<1> DEFINE S == ToSet(s) \cup {x}
<1>1. s \in Seq(S) /\ x \in S
  BY SeqMonotonic DEF IsSequence
<1> HIDE DEF S
<1>2. InsertAt(s, i, x) \in Seq(S)
  BY <1>1, Inserted
<1> QED BY <1>2, SequenceOver DEF S

\* The elements of a sequence of which one is replaced.
LEMMA ReplacedMembers ==
    ASSUME NEW s, IsSequence(s), NEW x, NEW i \in DOMAIN s
    PROVE  IsSequence(ReplaceAt(s, i, x)) /\ ToSet(ReplaceAt(s, i, x)) \subseteq ToSet(s) \cup {x}
<1> DEFINE r == ReplaceAt(s, i, x)
<1>1. r = [k \in DOMAIN s |-> r[k]] /\ DOMAIN r = DOMAIN s
  BY DEF ReplaceAt
<1>2. \A k \in DOMAIN s : r[k] \in ToSet(s) \cup {x}
  BY DEF ReplaceAt, ToSet
<1> HIDE DEF r
<1>3. IsSequence(r) /\ ToSet(r) = {r[k] : k \in DOMAIN s}
  BY <1>1, MappedSequence
<1> QED BY <1>2, <1>3 DEF r

\* The entries of a dictionary from which a key is taken.
LEMMA WithoutMembers ==
    ASSUME NEW s, IsSequence(s), NEW key
    PROVE  IsSequence(Without(s, key)) /\ ToSet(Without(s, key)) \subseteq ToSet(s)
<1> DEFINE n == Len(s)
           S == ToSet(s)
<1>1. PICK f : Without(s, key) = f[n] /\ Keeps(f, s, key)
  BY WithoutRecursion
<1>2. n \in Nat /\ \A k \in 1..n : s[k] \in S
  BY SequenceFacts
<1> DEFINE P == {k \in 0..n : f[k] \in Seq(S)}
<1> HIDE DEF S
<1>3. 0 \in P
  <2>1. 0 \in 0..n /\ <<>> \in Seq(S)
    BY <1>2, SMT
  <2> QED BY <1>1, <2>1 DEF Keeps
<1>4. ASSUME NEW k \in 0..(n - 1), k \in P PROVE k + 1 \in P
  <2>1. k + 1 \in 1..n /\ k + 1 \in 0..n /\ (k + 1) - 1 = k
    BY <1>2, SMT
  <2>2. f[k + 1] \in {f[k], Append(f[k], s[k + 1])}
    BY <1>1, <2>1 DEF Keeps
  <2>3. f[k] \in Seq(S) /\ s[k + 1] \in S
    BY <1>2, <1>4, <2>1
  <2>4. Append(f[k], s[k + 1]) \in Seq(S)
    BY <2>3, AppendProperties
  <2> QED BY <2>1, <2>2, <2>3, <2>4
<1>5. n \in P
  <2> HIDE DEF P, n
  <2>1. \A k \in 0..(n - 1) : k \in P => k + 1 \in P
    BY <1>4
  <2>2. 0 \in Nat /\ 0 <= n /\ n \in 0..n
    BY <1>2, SMT
  <2>3. \A k \in 0..n : k \in P
    BY <1>2, <1>3, <2>1, <2>2, UpTo, Zenon
  <2> QED BY <2>2, <2>3
<1> QED BY <1>1, <1>5, SequenceOver DEF S

\* What several evaluations one after the other come to.
Turns(f, all) ==
    /\ f[0] = {Sequence(<<>>)}
    /\ \A k \in 1..Len(all) : f[k] = OneMore(all[k], f[k - 1])

\* What follows the first k of several things done in turn.
LEMMA InTurnRecursion ==
    ASSUME NEW all, IsSequence(all)
    PROVE  \E f : InTurn(all) = f[Len(all)] /\ Turns(f, all)
<1> DEFINE n == Len(all)
           base == {Sequence(<<>>)}
           J(done, k) == OneMore(all[k], done)
           Body(f, m) == [k \in 0..m |-> IF k = 0 THEN base ELSE J(f[k - 1], k)]
           P == {m \in 0..n : \E f : f = Body(f, m)}
<1>1. n \in Nat /\ 0 \in 0..n /\ n \in 0..n /\ 0 \in Nat /\ 0 <= n
  BY SequenceFacts
<1>2. InTurn(all) = (CHOOSE f : f = Body(f, n))[n]
  BY Zenon DEF InTurn
<1> HIDE DEF J, base
<1>3. 0 \in P
  <2> DEFINE f == [k \in 0..0 |-> base]
  <2>1. f = Body(f, 0)
    BY SMT
  <2> QED BY <1>1, <2>1
<1>4. ASSUME NEW m \in 0..(n - 1), m \in P PROVE m + 1 \in P
  <2>1. PICK f : f = Body(f, m)
    BY <1>4
  <2> DEFINE g == [k \in 0..(m + 1) |-> IF k = m + 1 THEN J(f[m], m + 1) ELSE f[k]]
  <2>2. ASSUME NEW k \in 0..(m + 1)
        PROVE  g[k] = IF k = 0 THEN base ELSE J(g[k - 1], k)
    <3>1. CASE k = m + 1
      <4>1. k # 0 /\ k - 1 = m /\ m \in 0..(m + 1) /\ m # m + 1
        BY <3>1, <1>1, SMT
      <4> QED BY <3>1, <4>1
    <3>2. CASE k # m + 1
      <4>1. k \in 0..m /\ (k # 0 => k - 1 \in 0..(m + 1) /\ k - 1 # m + 1)
        BY <3>2, <1>1, SMT
      <4>2. f[k] = IF k = 0 THEN base ELSE J(f[k - 1], k)
        BY <2>1, <4>1
      <4> QED BY <3>2, <4>1, <4>2
    <3> QED BY <3>1, <3>2
  <2>3. g = Body(g, m + 1)
    BY <2>2
  <2>4. m + 1 \in 0..n
    BY <1>1, SMT
  <2> QED BY <2>3, <2>4
<1>5. n \in P
  <2> HIDE DEF P
  <2>1. \A k \in 0..(n - 1) : k \in P => k + 1 \in P
    BY <1>4
  <2>2. \A k \in 0..n : k \in P
    BY <1>1, <1>3, <2>1, UpTo, Zenon
  <2> QED BY <1>1, <2>2
<1>6. PICK w : w = Body(w, n)
  BY <1>5
<1> DEFINE h == CHOOSE f : f = Body(f, n)
<1>7. h = Body(h, n)
  BY <1>6, Zenon
<1> HIDE DEF h
<1>8. h[0] = base /\ \A k \in 1..n : h[k] = J(h[k - 1], k)
  <2>1. \A k \in 0..n : h[k] = IF k = 0 THEN base ELSE J(h[k - 1], k)
    BY <1>7
  <2>2. \A k \in 1..n : k \in 0..n /\ k # 0
    BY <1>1, SMT
  <2> QED BY <1>1, <2>1, <2>2
<1>9. InTurn(all) = h[n]
  BY <1>2 DEF h
<1>10. Turns(h, all)
  BY <1>8 DEF J, base, Turns
<1> QED BY <1>9, <1>10

\* The parts of a sequence of results.
LEMMA SequenceParts ==
    ASSUME NEW s
    PROVE  ~IsAbort(Sequence(s)) /\ Payload(Sequence(s)) = s
<1>1. <<"sequence">>[1] = "sequence" /\ <<"aborted">>[1] = "aborted" /\ "sequence" # "aborted"
  BY Singles
<1> QED BY <1>1 DEF IsAbort, Sequence, Variant, Payload

\* The first k of several outcomes, none of which is an end; or an end.
AreFirst(x, all, k) ==
    IF IsAbort(x) THEN \E j \in 1..Len(all) : x \in all[j]
    ELSE /\ IsSequence(Payload(x)) /\ Len(Payload(x)) = k
         /\ \A j \in 1..k : Payload(x)[j] \in all[j] /\ ~IsAbort(Payload(x)[j])

\* What is done in turn: either all has a result, or one of them fails.
LEMMA InTurnMembers ==
    ASSUME NEW all, IsSequence(all), NEW x \in InTurn(all)
    PROVE  AreFirst(x, all, Len(all))
<1> DEFINE n == Len(all)
<1>1. n \in Nat
  BY SequenceFacts
<1>2. PICK f : InTurn(all) = f[n] /\ Turns(f, all)
  BY InTurnRecursion
<1> DEFINE P == {k \in 0..n : \A y \in f[k] : AreFirst(y, all, k)}
<1>3. 0 \in P
  <2>1. <<>> \in Seq({}) /\ Len(<<>>) = 0 /\ 1..0 = {} /\ 0 \in 0..n
    BY <1>1, SMT
  <2>2. AreFirst(Sequence(<<>>), all, 0)
    BY <2>1, SequenceParts, SequenceOver DEF AreFirst
  <2> QED BY <1>2, <2>1, <2>2 DEF Turns
<1>4. ASSUME NEW k \in 0..(n - 1), k \in P PROVE k + 1 \in P
  <2>1. k + 1 \in 1..n /\ k + 1 \in 0..n /\ (k + 1) - 1 = k /\ 1..(k + 1) = 1..k \cup {k + 1}
        /\ k + 1 \notin 1..k /\ k \in Nat
    BY <1>1, SMT
  <2>2. f[k + 1] = OneMore(all[k + 1], f[k])
    BY <1>2, <2>1 DEF Turns
  <2>3. ASSUME NEW y \in f[k + 1] PROVE AreFirst(y, all, k + 1)
    <3>1. PICK s \in f[k] :
             IF IsAbort(s) THEN y = s
             ELSE \E o \in all[k + 1] : y = IF IsAbort(o) THEN o ELSE Sequence(Append(Payload(s), o))
      BY <2>2, <2>3 DEF OneMore, Then
    <3>2. AreFirst(s, all, k)
      BY <1>4
    <3>3. CASE IsAbort(s)
      BY <3>1, <3>2, <3>3 DEF AreFirst
    <3>4. CASE ~IsAbort(s)
      <4>1. PICK o \in all[k + 1] : y = IF IsAbort(o) THEN o ELSE Sequence(Append(Payload(s), o))
        BY <3>1, <3>4
      <4>2. CASE IsAbort(o)
        BY <2>1, <4>1, <4>2 DEF AreFirst
      <4>3. CASE ~IsAbort(o)
        <5> DEFINE p == Payload(s)
                   q == Append(p, o)
        <5>1. y = Sequence(q) /\ IsSequence(p) /\ Len(p) = k
          BY <3>2, <3>4, <4>1, <4>3 DEF AreFirst
        <5>2. ~IsAbort(y) /\ Payload(y) = q
          BY <5>1, SequenceParts
        <5>3. IsSequence(q)
          BY <5>1, AppendedOutput, Zenon
        <5>4. Len(q) = k + 1 /\ q[k + 1] = o /\ \A j \in 1..k : q[j] = p[j]
          <6> DEFINE S == ToSet(p) \cup {o}
          <6>1. p \in Seq(S) /\ o \in S
            BY <5>1, SeqMonotonic DEF IsSequence
          <6> HIDE DEF S, p
          <6>2. /\ Len(Append(p, o)) = Len(p) + 1
                /\ \A j \in 1..Len(p) : Append(p, o)[j] = p[j]
                /\ Append(p, o)[Len(p) + 1] = o
            BY <6>1, AppendProperties
          <6> QED BY <5>1, <6>2
        <5>5. \A j \in 1..k : p[j] \in all[j] /\ ~IsAbort(p[j])
          BY <3>2, <3>4 DEF AreFirst
        <5> HIDE DEF q, p
        <5>6. \A j \in 1..(k + 1) : q[j] \in all[j] /\ ~IsAbort(q[j])
          BY <2>1, <4>3, <5>4, <5>5
        <5> QED BY <5>2, <5>3, <5>4, <5>6 DEF AreFirst
      <4> QED BY <4>2, <4>3
    <3> QED BY <3>3, <3>4
  <2> QED BY <2>1, <2>3
<1>5. n \in P
  <2> HIDE DEF P, n
  <2>1. \A k \in 0..(n - 1) : k \in P => k + 1 \in P
    BY <1>4
  <2>2. 0 \in Nat /\ 0 <= n /\ n \in 0..n
    BY <1>1, SMT
  <2>3. \A k \in 0..n : k \in P
    BY <1>1, <1>3, <2>1, <2>2, UpTo, Zenon
  <2> QED BY <2>2, <2>3
<1> QED BY <1>2, <1>5

-----------------------------------------------------------------------------
(* Functions.                                                              *)

\* What evaluating something of type t may come to, where some variables may
\* be unset.
IsOutcome(o, t, unset) == IF IsAbort(o) THEN Payload(o) \in AbortsOfUse(unset) ELSE HasType(o, t)

\* How a function is typed and evaluated for parameters of type t.
IsSound(f, t, unset) ==
    LET type == function_calculate_type(f, t)
    IN  /\ IsType(type)
        /\ \A ps, held : (\A p \in ps : IsOutcome(p, t, unset)) =>
             \A o \in function_evaluate(f, t, ps, held) : IsOutcome(o, type, unset)

\* A value of the right type is a sound outcome.
LEMMA ValuesAreOutcomes ==
    ASSUME NEW unset, MethodsAreImplemented, NEW o, NEW t
    PROVE  /\ HasType(o, t) => IsOutcome(o, t, unset)
           /\ IsOutcome(o, t, unset) => IF IsAbort(o) THEN Payload(o) \in AbortsOfUse(unset) ELSE HasType(o, t)
  BY ValueFacts DEF IsOutcome, HasType

\* The parts of a failed assertion.
LEMMA AbortParts ==
    ASSUME NEW reason
    PROVE  IsAbort(Aborts(reason)) /\ Payload(Aborts(reason)) = reason
  BY DEF IsAbort, Aborts, Variant, Payload

\* The parameters of a function that takes m of them.
LEMMA Parameters ==
    ASSUME MethodsAreImplemented, NEW t, NEW xs, IsSequence(xs), IsType(t), IsSubtype(t, Tuple(xs))
    PROVE  /\ t = Tuple(t[2]) /\ \A k \in 1..Len(xs) : IsType(t[2][k]) /\ IsSubtype(t[2][k], xs[k])
           /\ \A p : HasType(p, t) => \A k \in 1..Len(xs) : HasType(Child(p, k), t[2][k])
<1> DEFINE us == t[2]
           n == Len(xs)
<1>1. /\ t = Tuple(us) /\ IsSequence(us) /\ Len(us) = n
      /\ \A k \in 1..n : IsType(us[k]) /\ IsSubtype(us[k], xs[k])
  BY SubtypeOfTuple
<1> HIDE DEF us, n
<1>2. ASSUME NEW p, HasType(p, t), NEW k \in 1..n PROVE HasType(Child(p, k), us[k])
  <2>1. /\ IsSequence(Payload(p)) /\ Len(Payload(p)) = n
        /\ \A j \in DOMAIN Payload(p) : HasType(Payload(p)[j], us[j])
    BY <1>1, <1>2, TupleValue
  <2>2. DOMAIN Payload(p) = 1..n
    BY <2>1, SequenceFacts
  <2>3. Child(p, k) = Payload(p)[k]
    BY DEF Child, Payload
  <2> QED BY <2>1, <2>2, <2>3
<1> QED BY <1>1, <1>2 DEF us, n

\* Sequences of two and of three.
LEMMA TwoParameters ==
    ASSUME NEW a, NEW b
    PROVE  /\ IsSequence(<<a, b>>) /\ Len(<<a, b>>) = 2 /\ 1 \in 1..2 /\ 2 \in 1..2
           /\ <<a, b>>[1] = a /\ <<a, b>>[2] = b
  BY Pairs, SMT

\* The parameters of a function of three.
LEMMA ThreeParameters ==
    ASSUME NEW a, NEW b, NEW c
    PROVE  /\ IsSequence(<<a, b, c>>) /\ Len(<<a, b, c>>) = 3
           /\ 1 \in 1..3 /\ 2 \in 1..3 /\ 3 \in 1..3
           /\ <<a, b, c>>[1] = a /\ <<a, b, c>>[2] = b /\ <<a, b, c>>[3] = c
<1> DEFINE s == <<a, b, c>>
<1>1. s \in Seq({a, b, c}) /\ Len(s) = 3 /\ s[1] = a /\ s[2] = b /\ s[3] = c
  BY SMT
<1> HIDE DEF s
<1>2. IsSequence(s)
  BY <1>1, SequenceOver
<1>3. 1 \in 1..3 /\ 2 \in 1..3 /\ 3 \in 1..3
  BY SMT
<1> QED BY <1>1, <1>2, <1>3 DEF s

\* The parameter of a function of one.
LEMMA OneParameter ==
    ASSUME NEW a
    PROVE  IsSequence(<<a>>) /\ Len(<<a>>) = 1 /\ 1 \in 1..1 /\ <<a>>[1] = a
  BY SingleSequence, SMT

\* The entries of a dictionary.
LEMMA DictTypes ==
    ASSUME MethodsAreImplemented, NEW t, IsType(t), NEW x, NEW y, IsSubtype(t, Dict(x, y))
    PROVE  /\ t = Dict(t[2][2], t[2][3]) /\ t[2] = Entry(t[2][2], t[2][3])
           /\ IsType(t[2][2]) /\ IsType(t[2][3])
           /\ IsSubtype(t[2][2], x) /\ IsSubtype(t[2][3], y)
<1>1. t = Array(t[2]) /\ IsType(t[2]) /\ IsSubtype(t[2], Entry(x, y))
  BY SubtypeOfArray DEF Dict
<1> DEFINE u == t[2]
<1> HIDE DEF u
<1>2. IsType(u) /\ IsSubtype(u, Entry(x, y))
  BY <1>1 DEF u
<1>3. u = Entry(u[2], u[3]) /\ IsType(u[2]) /\ IsType(u[3]) /\ IsSubtype(u[2], x) /\ IsSubtype(u[3], y)
  BY <1>2, SubtypeOfEntry
<1> QED BY <1>1, <1>3 DEF Dict, u

\* The entries of a dictionary are values of their type.
LEMMA DictValue ==
    ASSUME MethodsAreImplemented, NEW v, NEW x, NEW y, HasType(v, Dict(x, y))
    PROVE  /\ v = Variant(Dict(x, y), Payload(v)) /\ IsSequence(Payload(v))
           /\ \A k \in DOMAIN Payload(v) :
                /\ HasType(Payload(v)[k], Entry(x, y))
                /\ HasType(Child(Payload(v)[k], 1), x) /\ HasType(Child(Payload(v)[k], 2), y)
<1>1. /\ v = Variant(Dict(x, y), Payload(v)) /\ IsSequence(Payload(v))
      /\ \A k \in DOMAIN Payload(v) : HasType(Payload(v)[k], Entry(x, y))
  BY ArrayValue DEF Dict
<1>2. ASSUME NEW e, HasType(e, Entry(x, y)) PROVE HasType(Child(e, 1), x) /\ HasType(Child(e, 2), y)
  BY <1>2, EntryValue DEF Child, Payload
<1> QED BY <1>1, <1>2

\* An entry of a dictionary, made of a key and a value of its types.
LEMMA EntryIsMade ==
    ASSUME MethodsAreImplemented, NEW x, NEW y, NEW key, NEW w, HasType(key, x), HasType(w, y)
    PROVE  HasType(EntryOf(Entry(x, y), key, w), Entry(x, y))
<1> DEFINE v == EntryOf(Entry(x, y), key, w)
<1>1. v = Variant(Entry(x, y), <<key, w>>) /\ Payload(v) = <<key, w>>
  BY VariantParts DEF EntryOf
<1>2. IsType(x) /\ IsType(y)
  BY ValueFacts DEF HasType
<1>3. IsType(Entry(x, y))
  BY <1>2, TypesMade
<1>4. /\ IsSequence(<<key, w>>) /\ Len(<<key, w>>) = 2
      /\ <<key, w>>[1] = key /\ <<key, w>>[2] = w
  BY Pairs
<1> DEFINE s == <<key, w>>
<1> HIDE DEF v, s
<1>5. v = Variant(Entry(x, y), s) /\ Payload(v) = s /\ IsSequence(s) /\ Len(s) = 2 /\ s[1] = key /\ s[2] = w
  BY <1>1, <1>4 DEF s
<1>6. HasType(v, Entry(x, y))
  BY <1>3, <1>5, EntryValue
<1> QED BY <1>6 DEF v

\* An array of values of a type.
LEMMA ArrayIsMade ==
    ASSUME MethodsAreImplemented, NEW x, IsType(x), NEW p, IsSequence(p),
           \A w \in ToSet(p) : HasType(w, x)
    PROVE  HasType(Variant(Array(x), p), Array(x))
<1> DEFINE v == Variant(Array(x), p)
<1>1. v = Variant(Array(x), p) /\ Payload(v) = p
  BY VariantParts
<1>2. IsType(Array(x))
  BY TypesMade
<1>3. \A k \in DOMAIN p : HasType(p[k], x)
  BY DEF ToSet
<1> HIDE DEF v
<1>4. HasType(v, Array(x))
  BY <1>1, <1>2, <1>3, ArrayValue
<1> QED BY <1>4 DEF v

\* An array made of values of its type is a value.
LEMMA ArrayMembers ==
    ASSUME MethodsAreImplemented, NEW v, NEW x, HasType(v, Array(x))
    PROVE  /\ TypeOfValue(v) = Array(x) /\ IsType(x) /\ IsSequence(Payload(v))
           /\ \A w \in ToSet(Payload(v)) : HasType(w, x)
<1>1. IsType(Array(x)) /\ TypeOfValue(v) = Array(x)
  BY ValueFacts DEF HasType
<1>2. IsSequence(Payload(v)) /\ \A k \in DOMAIN Payload(v) : HasType(Payload(v)[k], x)
  BY ArrayValue
<1>3. IsType(x)
  <2> DEFINE t == Array(x)
  <2>1. t[1] = "a" /\ t[2] = x /\ IsType(t)
    BY <1>1, TypeParts
  <2>2. \A c \in BasicTypes \cup {"v"} : c # "a"
    BY NotBasic
  <2> HIDE DEF t
  <2> QED BY <2>1, <2>2, TypeCases
<1> QED BY <1>1, <1>2, <1>3 DEF ToSet

\* An index is a natural number.
LEMMA IndexValue ==
    ASSUME MethodsAreImplemented, NEW v, HasType(v, <<"u">>)
    PROVE  Payload(v) \in Nat
<1>1. "u" \in BasicTypes /\ "u" \in UnsignedTypes /\ "u" \in IntegerTypes
  BY DEF BasicTypes, IntegerTypes, UnsignedTypes
<1>2. InRange("u", Payload(v))
  BY <1>1, BasicValue
<1>3. Payload(v) \in 0..GreatestValue["u"]
  BY <1>1, <1>2, Ranges
<1>4. GreatestValue["u"] \in Nat
  BY <1>1, WidthsAssumption
<1> QED BY <1>3, <1>4, SMT

\* An annotation of a parameter without wildcards leaves one type.
LEMMA BasicSubtype ==
    ASSUME MethodsAreImplemented, NEW t, NEW c \in BasicTypes, IsSubtype(t, <<c>>)
    PROVE  t = <<c>>
<1>1. IsDefinite(<<c>>)
  BY Definite
<1> QED BY <1>1, SubtypeFacts

\* The type of a call that has one, and what it returns.
LEMMA TypeOfCall ==
    ASSUME NEW unset, NEW f, NEW t, function_calculate_type(f, t) # NoType
    PROVE  /\ IsSubtype(t, ParametersSupertype[f])
           /\ f = "keys" => function_calculate_type(f, t) = _keys_calculate_type(t)
           /\ f = "pairKeys" => function_calculate_type(f, t) = _pair_keys_calculate_type(t)
           /\ f = "inArray" => function_calculate_type(f, t) = _in_array_calculate_type(t)
           /\ f = "arrayGet" => function_calculate_type(f, t) = _array_get_calculate_type(t)
           /\ f = "arrayInsert" => function_calculate_type(f, t) = _array_insert_calculate_type(t)
           /\ f = "arrayRemove" => function_calculate_type(f, t) = _array_remove_calculate_type(t)
           /\ f = "dictSet" => function_calculate_type(f, t) = _dict_set_calculate_type(t)
           /\ f = "dictUnset" => function_calculate_type(f, t) = _dict_unset_calculate_type(t)
           /\ f = "dictGet" => function_calculate_type(f, t) = _dict_get_calculate_type(t)
           /\ f = "dictToTupleArray" =>
                function_calculate_type(f, t) = _dict_to_tuple_array_calculate_type(t)
           /\ f = "structHead" => function_calculate_type(f, t) = _struct_head_calculate_type(t)
           /\ f = "stringJoin" => function_calculate_type(f, t) = _string_join_calculate_type(t)
<1>1. IsSubtype(t, ParametersSupertype[f])
  BY Zenon DEF function_calculate_type
<1> QED BY <1>1, SMT DEF function_calculate_type

\* A function called with a value of a type it takes.
LEMMA ResultOfCall ==
    ASSUME NEW unset, NEW f, NEW p, NEW type, NEW ps, NEW held
    PROVE  LET result == Returned(f, p, type, ps, held)
           IN  /\ f = "keys" => result = _keys_evaluate(p, type, held)
               /\ f = "pairKeys" => result = _pair_keys_evaluate(p, type, ps)
               /\ f = "inArray" => result = _in_array_evaluate(Child(p, 1), Child(p, 2))
               /\ f = "arrayGet" =>
                    result = _array_get_evaluate(Child(p, 1), Child(p, 2), Child(p, 3))
               /\ f = "arrayInsert" =>
                    result = {_array_insert_evaluate(Child(p, 1), Child(p, 2), Child(p, 3))}
               /\ f = "arrayRemove" => result = {_array_remove_evaluate(Child(p, 1), Child(p, 2))}
               /\ f = "dictSet" =>
                    result = {_dict_set_evaluate(Child(p, 1), Child(p, 2), Child(p, 3))}
               /\ f = "dictUnset" => result = {_dict_unset_evaluate(Child(p, 1), Child(p, 2))}
               /\ f = "dictGet" =>
                    result = {_dict_get_evaluate(Child(p, 1), Child(p, 2), Child(p, 3))}
               /\ f = "dictToTupleArray" => result = {_dict_to_tuple_array_evaluate(Child(p, 1), type)}
               /\ f = "structHead" => result = {Child(Child(p, 1), 1)}
               /\ f = "stringJoin" => result = {_string_join_evaluate(Child(p, 1), Child(p, 2))}
  BY SMT DEF Returned

\* It is enough that a call returns what it should for parameters that have values.
LEMMA SoundIf ==
    ASSUME NEW unset, MethodsAreImplemented, NEW f, NEW t, IsType(function_calculate_type(f, t)),
           \A ps, held : (\A p \in ps : IsOutcome(p, t, unset)) =>
             \A p \in ps : HasType(p, t) =>
               \A o \in Returned(f, p, function_calculate_type(f, t), ps, held) :
                 IsOutcome(o, function_calculate_type(f, t), unset)
    PROVE  IsSound(f, t, unset)
<1> DEFINE type == function_calculate_type(f, t)
<1> SUFFICES ASSUME NEW ps, NEW held, \A p \in ps : IsOutcome(p, t, unset),
                    NEW o \in function_evaluate(f, t, ps, held)
             PROVE  IsOutcome(o, type, unset)
  BY DEF IsSound
<1>1. PICK p \in ps : IF IsAbort(p) THEN o = p ELSE o \in Returned(f, p, type, ps, held)
  BY DEF function_evaluate, Then
<1>2. CASE IsAbort(p)
  BY <1>1, <1>2 DEF IsOutcome
<1>3. CASE ~IsAbort(p)
  <2>1. HasType(p, t)
    BY <1>3 DEF IsOutcome
  <2> QED BY <1>1, <1>3, <2>1
<1> QED BY <1>2, <1>3

\* keys () has results of the type calculated for it.
LEMMA KeysIsSound ==
    ASSUME NEW unset, MethodsAreImplemented, NEW t, IsType(t),
           function_calculate_type("keys", t) \notin {NoType, Broken}
    PROVE  IsSound("keys", t, unset)
<1> DEFINE x == t[2][2]
           y == t[2][3]
           type == function_calculate_type("keys", t)
<1>1. t = Dict(x, y) /\ IsType(x) /\ IsType(y)
  <2>1. ParametersSupertype["keys"] = Dict(AnyBasic, AnyType)
    BY DEF ParametersSupertype, AnyDict
  <2> QED BY <2>1, TypeOfCall, DictTypes
<1>2. type = Array(x)
  BY TypeOfCall DEF _keys_calculate_type
<1> HIDE DEF x, y, type
<1>3. ASSUME NEW p, HasType(p, t) PROVE HasType(Variant(type, KeysOf(p)), type)
  <2>1. /\ IsSequence(Payload(p))
        /\ \A k \in DOMAIN Payload(p) : HasType(Child(Payload(p)[k], 1), x)
    BY <1>1, <1>3, DictValue
  <2> DEFINE keys == KeysOf(p)
  <2>2. /\ keys = [k \in DOMAIN Payload(p) |-> keys[k]] /\ DOMAIN keys = DOMAIN Payload(p)
        /\ \A k \in DOMAIN Payload(p) : keys[k] = Child(Payload(p)[k], 1)
    BY DEF KeysOf, Key, Child, Payload
  <2> HIDE DEF keys
  <2>3. IsSequence(keys) /\ ToSet(keys) = {keys[k] : k \in DOMAIN Payload(p)}
    BY <2>1, <2>2, MappedSequence
  <2>4. \A w \in ToSet(keys) : HasType(w, x)
    BY <2>1, <2>2, <2>3
  <2> QED BY <1>1, <1>2, <2>3, <2>4, ArrayIsMade DEF keys
<1>4. ASSUME NEW ps, NEW held, NEW p \in ps, HasType(p, t), NEW o \in Returned("keys", p, type, ps, held)
      PROVE  IsOutcome(o, type, unset)
  <2>1. o \in _keys_evaluate(p, type, held)
    BY <1>4, ResultOfCall
  <2>2. o = Variant(type, KeysOf(p)) \/ o = Aborts("dictionary freed")
    BY <2>1 DEF _keys_evaluate
  <2> QED BY <1>3, <1>4, <2>2, AbortParts, ValuesAreOutcomes DEF IsOutcome, AbortsOfUse
<1>5. IsType(type)
  BY <1>1, <1>2, TypesMade
<1> QED BY <1>4, <1>5, SoundIf DEF type

\* pairKeys () has results of the type calculated for it.
LEMMA PairKeysIsSound ==
    ASSUME NEW unset, MethodsAreImplemented, NEW t, IsType(t),
           function_calculate_type("pairKeys", t) \notin {NoType, Broken}
    PROVE  IsSound("pairKeys", t, unset)
<1> DEFINE x == t[2][1][2]
           y == t[2][2]
           type == function_calculate_type("pairKeys", t)
           a == Array(AnyBasic)
<1>1. /\ t[2][1] = Array(x) /\ IsType(x) /\ IsType(y)
      /\ \A p : HasType(p, t) => HasType(Child(p, 1), Array(x)) /\ HasType(Child(p, 2), y)
  <2>1. ParametersSupertype["pairKeys"] = Tuple(<<a, AnyType>>)
    BY DEF ParametersSupertype
  <2> DEFINE xs == <<a, AnyType>>
  <2>2. IsSequence(xs) /\ Len(xs) = 2 /\ 1 \in 1..2 /\ 2 \in 1..2 /\ xs[1] = a
    BY TwoParameters
  <2>3. IsSubtype(t, Tuple(xs))
    BY <2>1, TypeOfCall
  <2> HIDE DEF xs, a, x, y
  <2>4. /\ IsType(t[2][1]) /\ IsSubtype(t[2][1], a) /\ IsType(t[2][2])
        /\ \A p : HasType(p, t) => HasType(Child(p, 1), t[2][1]) /\ HasType(Child(p, 2), t[2][2])
    BY <2>2, <2>3, Parameters
  <2>5. t[2][1] = Array(t[2][1][2]) /\ IsType(t[2][1][2])
    BY <2>4, SubtypeOfArray DEF a
  <2> QED BY <2>4, <2>5 DEF x, y
<1>2. type = Dict(x, y)
  BY TypeOfCall DEF _pair_keys_calculate_type
<1> HIDE DEF x, y, type
<1>3. type = Array(Entry(x, y)) /\ type[2] = Entry(x, y) /\ IsType(Entry(x, y)) /\ IsType(type)
  BY <1>1, <1>2, TypeParts, TypesMade DEF Dict
<1>4. ASSUME NEW ps, \A p \in ps : IsOutcome(p, t, unset), NEW held, NEW p \in ps, HasType(p, t),
             NEW o \in Returned("pairKeys", p, type, ps, held)
      PROVE  IsOutcome(o, type, unset)
  <2> DEFINE Pair(key) == Then(ps, LAMBDA again : {EntryOf(type[2], key, Child(again, 2))})
             keys == Payload(Child(p, 1))
             all == [k \in DOMAIN keys |-> Pair(keys[k])]
  <2>0. o \in _pair_keys_evaluate(p, type, ps)
    BY <1>4, ResultOfCall
  <2>1. o \in Then(InTurn(all), LAMBDA entries : {Variant(type, Payload(entries))})
    BY <2>0, Zenon DEF _pair_keys_evaluate
  <2>2. PICK s \in InTurn(all) : IF IsAbort(s) THEN o = s ELSE o = Variant(type, Payload(s))
    BY <2>1 DEF Then
  <2>3. IsSequence(keys) /\ \A k \in DOMAIN keys : HasType(keys[k], x)
    <3>1. HasType(Child(p, 1), Array(x))
      BY <1>1, <1>4
    <3> QED BY <3>1, ArrayValue
  <2>4. ASSUME NEW key, HasType(key, x), NEW e \in Pair(key) PROVE IsOutcome(e, Entry(x, y), unset)
    <3>1. PICK again \in ps : IF IsAbort(again) THEN e = again
                              ELSE e = EntryOf(type[2], key, Child(again, 2))
      BY <2>4 DEF Then
    <3>2. CASE IsAbort(again)
      BY <1>4, <3>1, <3>2 DEF IsOutcome
    <3>3. CASE ~IsAbort(again)
      <4>1. HasType(Child(again, 2), y)
        BY <1>1, <1>4, <3>3 DEF IsOutcome
      <4>2. HasType(EntryOf(Entry(x, y), key, Child(again, 2)), Entry(x, y))
        BY <2>4, <4>1, EntryIsMade
      <4> QED BY <1>3, <3>1, <3>3, <4>2, ValuesAreOutcomes
    <3> QED BY <3>2, <3>3
  <2> HIDE DEF keys, Pair
  <2>5. IsSequence(all) /\ Len(all) = Len(keys) /\ DOMAIN all = DOMAIN keys
    <3> DEFINE g == all
    <3>1. DOMAIN g = DOMAIN keys /\ g = [k \in DOMAIN keys |-> g[k]]
      OBVIOUS
    <3> HIDE DEF g
    <3>2. IsSequence(g) /\ Len(g) = Len(keys) /\ DOMAIN g = DOMAIN keys
      BY <2>3, <3>1, MappedSequence
    <3> QED BY <3>2 DEF g
  <2>6. \A k \in DOMAIN keys : all[k] = Pair(keys[k])
    OBVIOUS
  <2> HIDE DEF all
  <2>7. AreFirst(s, all, Len(all))
    BY <2>5, InTurnMembers
  <2>8. DOMAIN keys = 1..Len(all)
    BY <2>3, <2>5, SequenceFacts
  <2>9. \A k \in 1..Len(all) : \A e \in all[k] : IsOutcome(e, Entry(x, y), unset)
    BY <2>3, <2>4, <2>6, <2>8
  <2>10. CASE IsAbort(s)
    BY <2>2, <2>7, <2>9, <2>10 DEF AreFirst, IsOutcome
  <2>11. CASE ~IsAbort(s)
    <3> DEFINE q == Payload(s)
    <3>1. IsSequence(q) /\ Len(q) = Len(all) /\ \A j \in 1..Len(all) : q[j] \in all[j] /\ ~IsAbort(q[j])
      BY <2>7, <2>11 DEF AreFirst
    <3> HIDE DEF q
    <3>2. \A j \in 1..Len(q) : HasType(q[j], Entry(x, y))
      BY <2>9, <3>1 DEF IsOutcome
    <3>3. \A w \in ToSet(q) : HasType(w, Entry(x, y))
      BY <3>1, <3>2, SequenceFacts
    <3>4. HasType(Variant(type, q), type)
      BY <1>3, <3>1, <3>3, ArrayIsMade
    <3> QED BY <2>2, <2>11, <3>4, ValuesAreOutcomes DEF q
  <2> QED BY <2>10, <2>11
<1> QED BY <1>3, <1>4, SoundIf DEF type

\* The parameters of a function that takes one, two or three.
LEMMA OneType ==
    ASSUME MethodsAreImplemented, NEW t, IsType(t), NEW a, IsSubtype(t, Tuple(<<a>>))
    PROVE  /\ IsType(t[2][1]) /\ IsSubtype(t[2][1], a)
           /\ \A p : HasType(p, t) => HasType(Child(p, 1), t[2][1])
<1> DEFINE xs == <<a>>
<1>1. IsSequence(xs) /\ Len(xs) = 1 /\ 1 \in 1..1 /\ xs[1] = a
  BY OneParameter
<1>2. IsSubtype(t, Tuple(xs))
  OBVIOUS
<1> HIDE DEF xs
<1> QED BY <1>1, <1>2, Parameters

\* The types of two parameters.
LEMMA TwoTypes ==
    ASSUME MethodsAreImplemented, NEW t, IsType(t), NEW a, NEW b, IsSubtype(t, Tuple(<<a, b>>))
    PROVE  /\ IsType(t[2][1]) /\ IsType(t[2][2]) /\ Len(t[2]) = 2
           /\ IsSubtype(t[2][1], a) /\ IsSubtype(t[2][2], b)
           /\ \A p : HasType(p, t) => HasType(Child(p, 1), t[2][1]) /\ HasType(Child(p, 2), t[2][2])
<1> DEFINE xs == <<a, b>>
<1>1. IsSequence(xs) /\ Len(xs) = 2 /\ 1 \in 1..2 /\ 2 \in 1..2 /\ xs[1] = a /\ xs[2] = b
  BY TwoParameters
<1>2. IsSubtype(t, Tuple(xs))
  OBVIOUS
<1> HIDE DEF xs
<1> QED BY <1>1, <1>2, Parameters, SubtypeOfTuple

\* The types of three parameters.
LEMMA ThreeTypes ==
    ASSUME MethodsAreImplemented, NEW t, IsType(t), NEW a, NEW b, NEW c,
           IsSubtype(t, Tuple(<<a, b, c>>))
    PROVE  /\ IsType(t[2][1]) /\ IsType(t[2][2]) /\ IsType(t[2][3]) /\ Len(t[2]) = 3
           /\ IsSubtype(t[2][1], a) /\ IsSubtype(t[2][2], b) /\ IsSubtype(t[2][3], c)
           /\ \A p : HasType(p, t) =>
                /\ HasType(Child(p, 1), t[2][1]) /\ HasType(Child(p, 2), t[2][2])
                /\ HasType(Child(p, 3), t[2][3])
<1> DEFINE xs == <<a, b, c>>
<1>1. /\ IsSequence(xs) /\ Len(xs) = 3 /\ 1 \in 1..3 /\ 2 \in 1..3 /\ 3 \in 1..3
      /\ xs[1] = a /\ xs[2] = b /\ xs[3] = c
  BY ThreeParameters
<1>2. IsSubtype(t, Tuple(xs))
  OBVIOUS
<1> HIDE DEF xs
<1> QED BY <1>1, <1>2, Parameters, SubtypeOfTuple

\* A type that fits one that values can have is it.
LEMMA SameType ==
    ASSUME MethodsAreImplemented, NEW t, NEW super, IsType(super), IsSubtype(t, super)
    PROVE  t = super
  BY SubtypeFacts, TypeCases

\* inArray () has results of the type calculated for it.
LEMMA InArrayIsSound ==
    ASSUME NEW unset, MethodsAreImplemented, NEW t, IsType(t),
           function_calculate_type("inArray", t) \notin {NoType, Broken}
    PROVE  IsSound("inArray", t, unset)
<1> DEFINE type == function_calculate_type("inArray", t)
<1>1. type = <<"b">>
  BY TypeOfCall DEF _in_array_calculate_type, If
<1>2. IsType(type)
  BY <1>1, TypesMade DEF BasicTypes
<1> HIDE DEF type
<1>3. ASSUME NEW ps, NEW held, NEW p \in ps, NEW o \in Returned("inArray", p, type, ps, held)
      PROVE  IsOutcome(o, type, unset)
  <2>1. o \in _in_array_evaluate(Child(p, 1), Child(p, 2))
    BY <1>3, ResultOfCall
  <2>2. \E b \in BOOLEAN : o = Boolean(b)
    BY <2>1 DEF _in_array_evaluate
  <2>3. HasType(o, <<"b">>)
    BY <2>2, BooleanValue
  <2> QED BY <1>1, <2>3, ValuesAreOutcomes
<1> QED BY <1>2, <1>3, SoundIf DEF type

\* The parameters of the functions on an array, an index and an element.
LEMMA ElementTypes ==
    ASSUME MethodsAreImplemented, NEW t, IsType(t),
           IsSubtype(t, Tuple(<<Array(AnyType), <<"u">>, AnyType>>)),
           IsSubtype(t[2][3], t[2][1][2])
    PROVE  /\ IsType(t[2][1]) /\ IsType(t[2][3]) /\ t[2][1] = Array(t[2][3])
           /\ \A p : HasType(p, t) =>
                /\ HasType(Child(p, 1), Array(t[2][3])) /\ HasType(Child(p, 2), <<"u">>)
                /\ HasType(Child(p, 3), t[2][3])
<1> DEFINE a == t[2][1]
           x == t[2][3]
<1>1. /\ IsType(a) /\ IsType(t[2][2]) /\ IsType(x)
      /\ IsSubtype(a, Array(AnyType)) /\ IsSubtype(t[2][2], <<"u">>)
      /\ \A p : HasType(p, t) => /\ HasType(Child(p, 1), a) /\ HasType(Child(p, 2), t[2][2])
                                 /\ HasType(Child(p, 3), x)
  BY ThreeTypes
<1>2. t[2][2] = <<"u">>
  BY <1>1, BasicSubtype DEF BasicTypes, IntegerTypes, UnsignedTypes
<1>3. IsSubtype(x, a[2])
  OBVIOUS
<1> HIDE DEF a, x
<1>4. a = Array(a[2]) /\ IsType(a[2])
  BY <1>1, SubtypeOfArray
<1>5. x = a[2]
  BY <1>3, <1>4, SameType
<1> QED BY <1>1, <1>2, <1>4, <1>5 DEF a, x

\* arrayGet () has results of the type calculated for it.
LEMMA ArrayGetIsSound ==
    ASSUME NEW unset, MethodsAreImplemented, NEW t, IsType(t),
           function_calculate_type("arrayGet", t) \notin {NoType, Broken}
    PROVE  IsSound("arrayGet", t, unset)
<1> DEFINE x == t[2][3]
           type == function_calculate_type("arrayGet", t)
<1>1. type = If(IsSubtype(t[2][3], t[2][1][2]), t[2][3])
  BY TypeOfCall DEF _array_get_calculate_type
<1>2. type = x /\ IsSubtype(t[2][3], t[2][1][2])
  BY <1>1 DEF If
<1>3. IsSubtype(t, Tuple(<<Array(AnyType), <<"u">>, AnyType>>))
  BY TypeOfCall DEF ParametersSupertype
<1>4. /\ IsType(x)
      /\ \A p : HasType(p, t) => /\ HasType(Child(p, 1), Array(x)) /\ HasType(Child(p, 2), <<"u">>)
                                 /\ HasType(Child(p, 3), x)
  BY <1>2, <1>3, ElementTypes
<1> HIDE DEF x, type
<1>5. ASSUME NEW ps, NEW held, NEW p \in ps, HasType(p, t), NEW o \in Returned("arrayGet", p, type, ps, held)
      PROVE  IsOutcome(o, type, unset)
  <2> DEFINE array == Child(p, 1)
             i == Payload(Child(p, 2))
             default == Child(p, 3)
  <2>1. HasType(array, Array(x)) /\ HasType(default, x) /\ i \in Nat
    BY <1>4, <1>5, IndexValue
  <2>2. o \in _array_get_evaluate(array, Child(p, 2), default)
    BY <1>5, ResultOfCall
  <2>3. o = IF i >= Len(Payload(array)) THEN default ELSE Child(array, i + 1)
    BY <2>2 DEF _array_get_evaluate
  <2> HIDE DEF array, i, default
  <2>4. IsSequence(Payload(array)) /\ \A w \in ToSet(Payload(array)) : HasType(w, x)
    BY <2>1, ArrayMembers
  <2>5. HasType(o, x)
    <3>1. CASE i >= Len(Payload(array))
      BY <2>1, <2>3, <3>1
    <3>2. CASE ~(i >= Len(Payload(array)))
      <4>1. i + 1 \in 1..Len(Payload(array))
        BY <2>1, <2>4, <3>2, SequenceFacts
      <4>2. o = Payload(array)[i + 1]
        BY <2>3, <3>2 DEF Child, Payload
      <4> QED BY <2>4, <4>1, <4>2, SequenceFacts
    <3> QED BY <3>1, <3>2
  <2> QED BY <1>2, <2>5, ValuesAreOutcomes DEF type, x
<1>6. IsType(type)
  BY <1>2, <1>4 DEF type, x
<1> QED BY <1>5, <1>6, SoundIf DEF type

\* The smaller of two numbers.
LEMMA SmallerFacts ==
    ASSUME NEW m \in Nat, NEW n \in Nat
    PROVE  Smaller(m, n) \in Nat /\ Smaller(m, n) <= n /\ Smaller(m, n) <= m
  BY DEF Smaller

\* arrayInsert () has results of the type calculated for it.
LEMMA ArrayInsertIsSound ==
    ASSUME NEW unset, MethodsAreImplemented, NEW t, IsType(t),
           function_calculate_type("arrayInsert", t) \notin {NoType, Broken}
    PROVE  IsSound("arrayInsert", t, unset)
<1> DEFINE x == t[2][3]
           type == function_calculate_type("arrayInsert", t)
<1>1. type = If(IsSubtype(t[2][3], t[2][1][2]), t[2][1])
  BY TypeOfCall DEF _array_insert_calculate_type
<1>2. type = t[2][1] /\ IsSubtype(t[2][3], t[2][1][2])
  BY <1>1 DEF If
<1>3. IsSubtype(t, Tuple(<<Array(AnyType), <<"u">>, AnyType>>))
  BY TypeOfCall DEF ParametersSupertype
<1>4. /\ IsType(x) /\ IsType(t[2][1]) /\ t[2][1] = Array(x)
      /\ \A p : HasType(p, t) => /\ HasType(Child(p, 1), Array(x)) /\ HasType(Child(p, 2), <<"u">>)
                                 /\ HasType(Child(p, 3), x)
  BY <1>2, <1>3, ElementTypes
<1>5. type = Array(x) /\ IsType(type)
  BY <1>2, <1>4
<1> HIDE DEF x, type
<1>6. ASSUME NEW ps, NEW held, NEW p \in ps, HasType(p, t), NEW o \in Returned("arrayInsert", p, type, ps, held)
      PROVE  IsOutcome(o, type, unset)
  <2> DEFINE array == Child(p, 1)
             i == Payload(Child(p, 2))
             w == Child(p, 3)
             s == Payload(array)
             at == Smaller(i, Len(s)) + 1
             r == InsertAt(s, at, w)
  <2>1. HasType(array, Array(x)) /\ HasType(w, x) /\ i \in Nat
    BY <1>4, <1>6, IndexValue
  <2>2. o = _array_insert_evaluate(array, Child(p, 2), w)
    BY <1>6, ResultOfCall
  <2>3. o = Variant(TypeOfValue(array), r)
    BY <2>2 DEF _array_insert_evaluate
  <2> HIDE DEF array, i, w
  <2>4. /\ IsSequence(s) /\ TypeOfValue(array) = Array(x)
        /\ \A y \in ToSet(s) : HasType(y, x)
    BY <2>1, ArrayMembers
  <2> HIDE DEF s
  <2>5. at \in 1..(Len(s) + 1)
    <3>1. Len(s) \in Nat
      BY <2>4, SequenceFacts
    <3>2. Smaller(i, Len(s)) \in Nat /\ Smaller(i, Len(s)) <= Len(s)
      BY <2>1, <3>1, SmallerFacts
    <3> QED BY <3>1, <3>2
  <2> HIDE DEF at
  <2>6. IsSequence(r) /\ ToSet(r) \subseteq ToSet(s) \cup {w}
    BY <2>4, <2>5, InsertedMembers
  <2> HIDE DEF r
  <2>7. HasType(Variant(Array(x), r), Array(x))
    BY <1>4, <2>1, <2>4, <2>6, ArrayIsMade
  <2> QED BY <1>5, <2>3, <2>4, <2>7, ValuesAreOutcomes DEF type
<1> QED BY <1>5, <1>6, SoundIf DEF type

\* arrayRemove () has results of the type calculated for it.
LEMMA ArrayRemoveIsSound ==
    ASSUME NEW unset, MethodsAreImplemented, NEW t, IsType(t),
           function_calculate_type("arrayRemove", t) \notin {NoType, Broken}
    PROVE  IsSound("arrayRemove", t, unset)
<1> DEFINE a == t[2][1]
           type == function_calculate_type("arrayRemove", t)
<1>1. type = a
  BY TypeOfCall DEF _array_remove_calculate_type
<1>2. IsSubtype(t, Tuple(<<Array(AnyType), <<"u">>>>))
  BY TypeOfCall DEF ParametersSupertype
<1>3. /\ IsType(a) /\ IsSubtype(a, Array(AnyType))
      /\ IsSubtype(t[2][2], <<"u">>)
      /\ \A p : HasType(p, t) => HasType(Child(p, 1), a) /\ HasType(Child(p, 2), t[2][2])
  BY <1>2, TwoTypes
<1>4. t[2][2] = <<"u">>
  BY <1>3, BasicSubtype DEF BasicTypes, IntegerTypes, UnsignedTypes
<1> HIDE DEF a, type
<1>5. a = Array(a[2]) /\ IsType(a[2])
  BY <1>3, SubtypeOfArray
<1> DEFINE x == a[2]
<1>6. ASSUME NEW ps, NEW held, NEW p \in ps, HasType(p, t), NEW o \in Returned("arrayRemove", p, type, ps, held)
      PROVE  IsOutcome(o, type, unset)
  <2> DEFINE array == Child(p, 1)
             i == Payload(Child(p, 2))
             s == Payload(array)
             n == Len(s)
             at == Smaller(i, n - 1) + 1
             r == RemoveAt(s, at)
  <2>1. HasType(array, Array(x)) /\ i \in Nat
    BY <1>3, <1>4, <1>5, <1>6, IndexValue
  <2>2. o = _array_remove_evaluate(array, Child(p, 2))
    BY <1>6, ResultOfCall
  <2>3. o = IF n = 0 THEN array ELSE Variant(TypeOfValue(array), r)
    BY <2>2 DEF _array_remove_evaluate
  <2> HIDE DEF array, i, x
  <2>4. /\ IsSequence(s) /\ TypeOfValue(array) = Array(x) /\ IsType(x)
        /\ \A y \in ToSet(s) : HasType(y, x)
    BY <2>1, ArrayMembers
  <2> HIDE DEF s
  <2>5. CASE n = 0
    BY <1>1, <1>5, <2>1, <2>3, <2>5, ValuesAreOutcomes DEF type, x
  <2>6. CASE n # 0
    <3>1. at \in 1..n
      <4>1. n \in Nat /\ n - 1 \in Nat
        BY <2>4, <2>6, SequenceFacts
      <4>2. Smaller(i, n - 1) \in Nat /\ Smaller(i, n - 1) <= n - 1
        BY <2>1, <4>1, SmallerFacts
      <4> QED BY <4>1, <4>2
    <3> HIDE DEF at
    <3>2. IsSequence(r) /\ ToSet(r) \subseteq ToSet(s)
      BY <2>4, <3>1, RemovedMembers
    <3> HIDE DEF r
    <3>3. HasType(Variant(Array(x), r), Array(x))
      BY <2>4, <3>2, ArrayIsMade
    <3>4. o = Variant(Array(x), r)
      BY <2>3, <2>4, <2>6
    <3> QED BY <1>1, <1>5, <3>3, <3>4, ValuesAreOutcomes DEF type, x
  <2> QED BY <2>5, <2>6
<1>7. IsType(type)
  BY <1>1, <1>3 DEF type, a
<1> QED BY <1>6, <1>7, SoundIf DEF type

\* The parameters of the functions on a dictionary and a key of it.
LEMMA DictParameters ==
    ASSUME MethodsAreImplemented, NEW t, IsType(t[2][1]), IsSubtype(t[2][1], AnyDict)
    PROVE  /\ t[2][1] = Dict(t[2][1][2][2], t[2][1][2][3])
           /\ t[2][1][2] = Entry(t[2][1][2][2], t[2][1][2][3])
           /\ IsType(t[2][1][2][2]) /\ IsType(t[2][1][2][3])
<1> DEFINE u == t[2][1]
<1>1. IsType(u) /\ IsSubtype(u, Dict(AnyBasic, AnyType))
  BY DEF AnyDict
<1> HIDE DEF u
<1>2. u = Dict(u[2][2], u[2][3]) /\ u[2] = Entry(u[2][2], u[2][3]) /\ IsType(u[2][2]) /\ IsType(u[2][3])
  BY <1>1, DictTypes
<1> QED BY <1>2 DEF u

\* They fit if they are of the types of the dictionary's keys and values.
LEMMA DictFitsTwo ==
    ASSUME MethodsAreImplemented, NEW t, IsType(t), IsSubtype(t, Tuple(<<AnyDict, AnyBasic>>)),
           FitsDict(t)
    PROVE  \E x, y : /\ t[2][1] = Dict(x, y) /\ IsType(x) /\ IsType(y) /\ IsType(t[2][1])
                     /\ \A p : HasType(p, t) => HasType(Child(p, 1), Dict(x, y)) /\ HasType(Child(p, 2), x)
<1> DEFINE d == t[2][1]
           x == d[2][2]
           y == d[2][3]
<1>1. /\ IsType(d) /\ IsSubtype(d, AnyDict) /\ Len(t[2]) = 2
      /\ \A p : HasType(p, t) => HasType(Child(p, 1), d) /\ HasType(Child(p, 2), t[2][2])
  BY TwoTypes
<1>2. d = Dict(x, y) /\ IsType(x) /\ IsType(y)
  BY <1>1, DictParameters
<1>3. t[2][2] = x
  <2>1. 2 \in 2..2
    BY SMT
  <2>2. IsSubtype(t[2][2], d[2][2])
    BY <1>1, <2>1 DEF FitsDict
  <2> QED BY <1>2, <2>2, SameType
<1> HIDE DEF d, x, y
<1>4. t[2][1] = d
  BY DEF d
<1> QED BY <1>1, <1>2, <1>3, <1>4

\* A dictionary, a key and a value whose types agree.
LEMMA DictFitsThree ==
    ASSUME MethodsAreImplemented, NEW t, IsType(t),
           IsSubtype(t, Tuple(<<AnyDict, AnyBasic, AnyType>>)), FitsDict(t)
    PROVE  \E x, y : /\ t[2][1] = Dict(x, y) /\ IsType(x) /\ IsType(y) /\ t[2][3] = y /\ IsType(t[2][1])
                     /\ \A p : HasType(p, t) =>
                          /\ HasType(Child(p, 1), Dict(x, y)) /\ HasType(Child(p, 2), x)
                          /\ HasType(Child(p, 3), y)
<1> DEFINE d == t[2][1]
           x == d[2][2]
           y == d[2][3]
<1>1. /\ IsType(d) /\ IsSubtype(d, AnyDict) /\ Len(t[2]) = 3
      /\ \A p : HasType(p, t) => /\ HasType(Child(p, 1), d) /\ HasType(Child(p, 2), t[2][2])
                                 /\ HasType(Child(p, 3), t[2][3])
  BY ThreeTypes
<1>2. d = Dict(x, y) /\ IsType(x) /\ IsType(y)
  BY <1>1, DictParameters
<1>3. t[2][2] = x /\ t[2][3] = y
  <2>1. 2 \in 2..3 /\ 3 \in 2..3
    BY SMT
  <2>2. IsSubtype(t[2][2], d[2][2]) /\ IsSubtype(t[2][3], d[2][3])
    BY <1>1, <2>1 DEF FitsDict
  <2> QED BY <1>2, <2>2, SameType
<1> HIDE DEF d, x, y
<1>4. t[2][1] = d
  BY DEF d
<1> QED BY <1>1, <1>2, <1>3, <1>4

\* The dictionary's type and entries.
LEMMA DictMembers ==
    ASSUME MethodsAreImplemented, NEW v, NEW x, NEW y, HasType(v, Dict(x, y))
    PROVE  /\ TypeOfValue(v) = Dict(x, y) /\ TypeOfValue(v)[2] = Entry(x, y)
           /\ IsType(Entry(x, y)) /\ IsSequence(Payload(v))
           /\ \A w \in ToSet(Payload(v)) : HasType(w, Entry(x, y))
  BY ArrayMembers, TypeParts DEF Dict

\* dictSet () has results of the type calculated for it.
LEMMA DictSetIsSound ==
    ASSUME NEW unset, MethodsAreImplemented, NEW t, IsType(t),
           function_calculate_type("dictSet", t) \notin {NoType, Broken}
    PROVE  IsSound("dictSet", t, unset)
<1> DEFINE type == function_calculate_type("dictSet", t)
<1>1. type = If(FitsDict(t), t[2][1])
  BY TypeOfCall DEF _dict_set_calculate_type
<1>2. type = t[2][1] /\ FitsDict(t)
  BY <1>1 DEF If
<1>3. IsSubtype(t, Tuple(<<AnyDict, AnyBasic, AnyType>>))
  BY TypeOfCall DEF ParametersSupertype
<1> HIDE DEF type
<1>4. PICK x, y : /\ type = Dict(x, y) /\ IsType(type)
                  /\ \A p : HasType(p, t) => /\ HasType(Child(p, 1), Dict(x, y))
                                             /\ HasType(Child(p, 2), x) /\ HasType(Child(p, 3), y)
  BY <1>2, <1>3, DictFitsThree
<1>5. ASSUME NEW ps, NEW held, NEW p \in ps, HasType(p, t), NEW o \in Returned("dictSet", p, type, ps, held)
      PROVE  IsOutcome(o, type, unset)
  <2> DEFINE dict == Child(p, 1)
             key == Child(p, 2)
             w == Child(p, 3)
             s == Payload(dict)
             new == EntryOf(TypeOfValue(dict)[2], key, w)
             places == Places(dict, key)
             at == CHOOSE k \in places : TRUE
  <2>1. HasType(dict, Dict(x, y)) /\ HasType(key, x) /\ HasType(w, y)
    BY <1>4, <1>5
  <2>2. o = _dict_set_evaluate(dict, key, w)
    BY <1>5, ResultOfCall
  <2>3. o = IF Cardinality(places) > 1 THEN Aborts("key found twice")
            ELSE Variant(TypeOfValue(dict), IF places = {} THEN Append(s, new) ELSE ReplaceAt(s, at, new))
    BY <2>2, Zenon DEF _dict_set_evaluate
  <2>4. /\ TypeOfValue(dict) = Dict(x, y) /\ TypeOfValue(dict)[2] = Entry(x, y)
        /\ IsType(Entry(x, y)) /\ IsSequence(s) /\ \A e \in ToSet(s) : HasType(e, Entry(x, y))
    BY <2>1, DictMembers
  <2>5. HasType(new, Entry(x, y))
    BY <2>1, <2>4, EntryIsMade
  <2>6. places \subseteq DOMAIN s
    BY DEF Places
  <2>7. places # {} => at \in places
    OBVIOUS
  <2> HIDE DEF dict, key, w, s, new, places, at
  <2>8. ASSUME NEW r, IsSequence(r), ToSet(r) \subseteq ToSet(s) \cup {new}
        PROVE  HasType(Variant(Dict(x, y), r), Dict(x, y))
    BY <2>4, <2>5, <2>8, ArrayIsMade DEF Dict
  <2>9. CASE Cardinality(places) > 1
    BY <2>3, <2>9, AbortParts DEF IsOutcome, AbortsOfUse
  <2>10. CASE ~(Cardinality(places) > 1)
    <3>1. CASE places = {}
      <4>1. IsSequence(Append(s, new)) /\ ToSet(Append(s, new)) = ToSet(s) \cup {new}
        BY <2>4, AppendedOutput
      <4>2. o = Variant(Dict(x, y), Append(s, new))
        BY <2>3, <2>4, <2>10, <3>1
      <4> QED BY <1>4, <2>8, <4>1, <4>2, ValuesAreOutcomes
    <3>2. CASE places # {}
      <4>1. /\ IsSequence(ReplaceAt(s, at, new))
            /\ ToSet(ReplaceAt(s, at, new)) \subseteq ToSet(s) \cup {new}
        BY <2>4, <2>6, <2>7, <3>2, ReplacedMembers
      <4>2. o = Variant(Dict(x, y), ReplaceAt(s, at, new))
        BY <2>3, <2>4, <2>10, <3>2
      <4> QED BY <1>4, <2>8, <4>1, <4>2, ValuesAreOutcomes
    <3> QED BY <3>1, <3>2
  <2> QED BY <2>9, <2>10
<1> QED BY <1>4, <1>5, SoundIf DEF type

\* dictUnset () has results of the type calculated for it.
LEMMA DictUnsetIsSound ==
    ASSUME NEW unset, MethodsAreImplemented, NEW t, IsType(t),
           function_calculate_type("dictUnset", t) \notin {NoType, Broken}
    PROVE  IsSound("dictUnset", t, unset)
<1> DEFINE type == function_calculate_type("dictUnset", t)
<1>1. type = If(FitsDict(t), t[2][1])
  BY TypeOfCall DEF _dict_unset_calculate_type
<1>2. type = t[2][1] /\ FitsDict(t)
  BY <1>1 DEF If
<1>3. IsSubtype(t, Tuple(<<AnyDict, AnyBasic>>))
  BY TypeOfCall DEF ParametersSupertype
<1> HIDE DEF type
<1>4. PICK x, y : /\ type = Dict(x, y) /\ IsType(type)
                  /\ \A p : HasType(p, t) => HasType(Child(p, 1), Dict(x, y)) /\ HasType(Child(p, 2), x)
  BY <1>2, <1>3, DictFitsTwo
<1>5. ASSUME NEW ps, NEW held, NEW p \in ps, HasType(p, t), NEW o \in Returned("dictUnset", p, type, ps, held)
      PROVE  IsOutcome(o, type, unset)
  <2> DEFINE dict == Child(p, 1)
             s == Payload(dict)
             r == Without(s, Child(p, 2))
  <2>1. HasType(dict, Dict(x, y))
    BY <1>4, <1>5
  <2>2. o = _dict_unset_evaluate(dict, Child(p, 2))
    BY <1>5, ResultOfCall
  <2>3. o = Variant(TypeOfValue(dict), r)
    BY <2>2 DEF _dict_unset_evaluate
  <2>4. /\ TypeOfValue(dict) = Dict(x, y) /\ IsType(Entry(x, y)) /\ IsSequence(s)
        /\ \A e \in ToSet(s) : HasType(e, Entry(x, y))
    BY <2>1, DictMembers
  <2>5. IsSequence(r) /\ ToSet(r) \subseteq ToSet(s)
    BY <2>4, WithoutMembers
  <2> HIDE DEF r, s, dict
  <2>6. HasType(Variant(Dict(x, y), r), Dict(x, y))
    BY <2>4, <2>5, ArrayIsMade DEF Dict
  <2> QED BY <1>4, <2>3, <2>4, <2>6, ValuesAreOutcomes
<1> QED BY <1>4, <1>5, SoundIf DEF type

\* dictGet () has results of the type calculated for it.
LEMMA DictGetIsSound ==
    ASSUME NEW unset, MethodsAreImplemented, NEW t, IsType(t),
           function_calculate_type("dictGet", t) \notin {NoType, Broken}
    PROVE  IsSound("dictGet", t, unset)
<1> DEFINE type == function_calculate_type("dictGet", t)
<1>1. type = If(FitsDict(t), t[2][3])
  BY TypeOfCall DEF _dict_get_calculate_type
<1>2. type = t[2][3] /\ FitsDict(t)
  BY <1>1 DEF If
<1>3. IsSubtype(t, Tuple(<<AnyDict, AnyBasic, AnyType>>))
  BY TypeOfCall DEF ParametersSupertype
<1> HIDE DEF type
<1>4. PICK x, y : /\ type = y /\ IsType(y)
                  /\ \A p : HasType(p, t) => /\ HasType(Child(p, 1), Dict(x, y))
                                             /\ HasType(Child(p, 2), x) /\ HasType(Child(p, 3), y)
  BY <1>2, <1>3, DictFitsThree
<1>5. ASSUME NEW ps, NEW held, NEW p \in ps, HasType(p, t), NEW o \in Returned("dictGet", p, type, ps, held)
      PROVE  IsOutcome(o, type, unset)
  <2> DEFINE dict == Child(p, 1)
             key == Child(p, 2)
             default == Child(p, 3)
             places == PlacesIn(Payload(dict), key)
  <2>1. HasType(dict, Dict(x, y)) /\ HasType(default, y)
    BY <1>4, <1>5
  <2>2. o = _dict_get_evaluate(dict, key, default)
    BY <1>5, ResultOfCall
  <2> HIDE DEF dict, key, default
  <2>3. /\ IsSequence(Payload(dict))
        /\ \A k \in DOMAIN Payload(dict) : HasType(Child(Payload(dict)[k], 2), y)
    BY <2>1, DictValue
  <2>4. places \in SUBSET Nat /\ places \subseteq DOMAIN Payload(dict)
    BY <2>3, PlacesFacts, SequenceFacts DEF PlacesIn
  <2>5. CASE places = {}
    <3>1. o = default
      BY <2>2, <2>3, <2>5, GetFacts
    <3> QED BY <1>4, <2>1, <3>1, ValuesAreOutcomes
  <2>6. CASE places # {}
    <3> HIDE DEF places
    <3>1. Min(places) \in places /\ \A k \in places : Min(places) <= k
      BY <2>4, <2>6, LeastNatural
    <3>2. o = Child(Payload(dict)[Min(places)], 2)
      BY <2>2, <2>3, <3>1, GetFacts DEF places
    <3>3. HasType(o, y)
      BY <2>3, <2>4, <3>1, <3>2
    <3> QED BY <1>4, <3>3, ValuesAreOutcomes
  <2> QED BY <2>5, <2>6
<1> QED BY <1>4, <1>5, SoundIf DEF type

\* dictToTupleArray () has results of the type calculated for it.
LEMMA DictToTupleArrayIsSound ==
    ASSUME NEW unset, MethodsAreImplemented, NEW t, IsType(t),
           function_calculate_type("dictToTupleArray", t) \notin {NoType, Broken}
    PROVE  IsSound("dictToTupleArray", t, unset)
<1> DEFINE x == t[2][1][2][2]
           y == t[2][1][2][3]
           xs == <<x, y>>
           type == function_calculate_type("dictToTupleArray", t)
<1>1. type = Array(Tuple(xs))
  BY TypeOfCall, Zenon DEF _dict_to_tuple_array_calculate_type
<1>2. IsSubtype(t, Tuple(<<AnyDict>>))
  BY TypeOfCall DEF ParametersSupertype
<1>3. /\ IsType(t[2][1]) /\ IsSubtype(t[2][1], AnyDict)
      /\ \A p : HasType(p, t) => HasType(Child(p, 1), t[2][1])
  BY <1>2, OneType
<1>4. t[2][1] = Dict(x, y) /\ IsType(x) /\ IsType(y)
  BY <1>3, DictParameters
<1>5. IsSequence(xs) /\ Len(xs) = 2 /\ DOMAIN xs = {1, 2} /\ xs[1] = x /\ xs[2] = y
  BY Pairs
<1> HIDE DEF type, xs, x, y
<1>6. IsType(Tuple(xs)) /\ IsType(type) /\ type[2] = Tuple(xs)
  <2>1. \A k \in DOMAIN xs : IsType(xs[k])
    BY <1>4, <1>5
  <2>2. IsType(Tuple(xs))
    BY <1>5, <2>1, TypesMade
  <2> QED BY <1>1, <2>2, TypesMade, TypeParts
<1>7. ASSUME NEW ps, NEW held, NEW p \in ps, HasType(p, t),
             NEW o \in Returned("dictToTupleArray", p, type, ps, held)
      PROVE  IsOutcome(o, type, unset)
  <2> DEFINE dict == Child(p, 1)
             s == Payload(dict)
             r == [k \in DOMAIN s |-> Variant(type[2], Payload(Child(dict, k)))]
  <2>1. HasType(dict, Dict(x, y))
    BY <1>3, <1>4, <1>7
  <2>2. o = _dict_to_tuple_array_evaluate(dict, type)
    BY <1>7, ResultOfCall
  <2>3. o = Variant(type, r)
    BY <2>2, Zenon DEF _dict_to_tuple_array_evaluate
  <2>4. \A k \in DOMAIN s : Child(dict, k) = s[k]
    BY DEF Child, Payload
  <2>5. r = [k \in DOMAIN s |-> r[k]] /\ DOMAIN r = DOMAIN s
    OBVIOUS
  <2>6. \A k \in DOMAIN s : r[k] = Variant(Tuple(xs), Payload(s[k]))
    BY <1>6, <2>4
  <2> HIDE DEF dict, r
  <2>7. IsSequence(s) /\ \A k \in DOMAIN s : HasType(s[k], Entry(x, y))
    BY <2>1, DictValue
  <2> HIDE DEF s
  <2>8. ASSUME NEW k \in DOMAIN s PROVE HasType(r[k], Tuple(xs))
    <3> DEFINE q == Payload(s[k])
    <3>1. IsSequence(q) /\ Len(q) = 2 /\ HasType(q[1], x) /\ HasType(q[2], y)
      BY <2>7, EntryValue
    <3>2. r[k] = Variant(Tuple(xs), q)
      BY <2>6
    <3> HIDE DEF q
    <3>3. Payload(r[k]) = q
      BY <3>2, VariantParts
    <3>4. DOMAIN q = {1, 2}
      <4>1. DOMAIN q = 1..2 /\ 1..2 = {1, 2}
        BY <3>1, SequenceFacts, SMT
      <4> QED BY <4>1
    <3>5. \A j \in DOMAIN q : HasType(q[j], xs[j])
      BY <1>5, <3>1, <3>4
    <3> QED BY <1>5, <1>6, <3>1, <3>2, <3>3, <3>5, TupleValue
  <2>9. IsSequence(r) /\ ToSet(r) = {r[k] : k \in DOMAIN s}
    BY <2>5, <2>7, MappedSequence
  <2>10. HasType(Variant(Array(Tuple(xs)), r), Array(Tuple(xs)))
    BY <1>6, <2>8, <2>9, ArrayIsMade
  <2> QED BY <1>1, <2>3, <2>10, ValuesAreOutcomes
<1> QED BY <1>6, <1>7, SoundIf DEF type

\* structHead () has results of the type calculated for it.
LEMMA StructHeadIsSound ==
    ASSUME NEW unset, MethodsAreImplemented, NEW t, IsType(t),
           function_calculate_type("structHead", t) \notin {NoType, Broken}
    PROVE  IsSound("structHead", t, unset)
<1> DEFINE u == t[2][1]
           ts == u[2]
           type == function_calculate_type("structHead", t)
<1>1. type = ts[1] /\ u # Unit
  <2>1. type = IF u = Unit THEN Broken ELSE ts[1]
    BY TypeOfCall DEF _struct_head_calculate_type
  <2> QED BY <2>1
<1>2. IsSubtype(t, Tuple(<<AnyTuple>>))
  BY TypeOfCall DEF ParametersSupertype
<1>3. IsType(u) /\ IsSubtype(u, AnyTuple) /\ \A p : HasType(p, t) => HasType(Child(p, 1), u)
  BY <1>2, OneType
<1> HIDE DEF u, type
<1>4. u = Tuple(ts) /\ IsSequence(ts) /\ \A k \in DOMAIN ts : IsType(ts[k])
  BY <1>3, SubtypeOfAnyTuple
<1> HIDE DEF ts
<1>5. 1 \in 1..Len(ts)
  <2>1. ts # <<>>
    BY <1>1, <1>4 DEF Unit, Tuple
  <2>2. ts \in Seq(ToSet(ts))
    BY <1>4, SequenceFacts
  <2>3. Len(ts) \in Nat /\ Len(ts) # 0
    BY <2>1, <2>2, EmptySeq
  <2> QED BY <2>3, SMT
<1>6. 1 \in DOMAIN ts
  BY <1>4, <1>5, SequenceFacts
<1>7. ASSUME NEW ps, NEW held, NEW p \in ps, HasType(p, t), NEW o \in Returned("structHead", p, type, ps, held)
      PROVE  IsOutcome(o, type, unset)
  <2>1. HasType(Child(p, 1), Tuple(ts))
    BY <1>3, <1>4, <1>7
  <2> DEFINE q == Payload(Child(p, 1))
  <2>2. o = q[1]
    <3>1. o = Child(Child(p, 1), 1)
      BY <1>7, ResultOfCall
    <3> QED BY <3>1 DEF Child, Payload
  <2>3. IsSequence(q) /\ Len(q) = Len(ts) /\ \A k \in DOMAIN q : HasType(q[k], ts[k])
    BY <2>1, TupleValue
  <2> HIDE DEF q
  <2>4. HasType(q[1], ts[1])
    BY <1>5, <2>3, SequenceFacts
  <2> QED BY <1>1, <2>2, <2>4, ValuesAreOutcomes
<1>8. IsType(type)
  BY <1>1, <1>4, <1>6
<1> QED BY <1>7, <1>8, SoundIf DEF type

\* stringJoin () has results of the type calculated for it.
LEMMA StringJoinIsSound ==
    ASSUME NEW unset, MethodsAreImplemented, NEW t, IsType(t),
           function_calculate_type("stringJoin", t) \notin {NoType, Broken}
    PROVE  IsSound("stringJoin", t, unset)
<1> DEFINE type == function_calculate_type("stringJoin", t)
           str == <<"s">>
<1>1. type = str
  BY TypeOfCall DEF _string_join_calculate_type
<1>2. "s" \in BasicTypes
  BY DEF BasicTypes
<1>3. IsType(str) /\ IsType(Array(str))
  BY <1>2, TypesMade
<1>4. IsSubtype(t, Tuple(<<str, Array(str)>>))
  BY TypeOfCall DEF ParametersSupertype
<1> HIDE DEF type, str
<1>5. /\ IsSubtype(t[2][1], str) /\ IsSubtype(t[2][2], Array(str))
      /\ \A p : HasType(p, t) => HasType(Child(p, 1), t[2][1]) /\ HasType(Child(p, 2), t[2][2])
  BY <1>4, TwoTypes
<1>6. t[2][1] = str /\ t[2][2] = Array(str)
  BY <1>3, <1>5, SameType
<1>7. /\ \A v : HasType(v, str) => IsSequence(Payload(v))
      /\ \A p : IsSequence(p) => HasType(Variant(str, p), str)
  BY <1>2, BasicValue, Ranges DEF str
<1>8. ASSUME NEW ps, NEW held, NEW p \in ps, HasType(p, t), NEW o \in Returned("stringJoin", p, type, ps, held)
      PROVE  IsOutcome(o, type, unset)
  <2> DEFINE separator == Child(p, 1)
             strings == Child(p, 2)
             n == Len(Payload(strings))
             m == IF n = 0 THEN 0 ELSE 2 * n - 1
             ss == [k \in 1..m |-> IF k % 2 = 0 THEN Payload(separator)
                                   ELSE Payload(Child(strings, (k + 1) \div 2))]
  <2>1. HasType(separator, str) /\ HasType(strings, Array(str))
    BY <1>5, <1>6, <1>8
  <2>2. o = _string_join_evaluate(separator, strings)
    BY <1>8, ResultOfCall
  <2>3. o = Variant(str, FlattenSeq(ss))
    BY <2>2, Zenon DEF _string_join_evaluate, str
  <2>4. \A k : Child(strings, k) = Payload(strings)[k]
    BY DEF Child, Payload
  <2> HIDE DEF separator, strings
  <2>5. IsSequence(Payload(strings)) /\ \A k \in DOMAIN Payload(strings) : HasType(Payload(strings)[k], str)
    BY <2>1, ArrayValue
  <2>6. n \in Nat /\ m \in Nat /\ DOMAIN Payload(strings) = 1..n
    BY <2>5, SequenceFacts
  <2>7. ASSUME NEW k \in 1..m PROVE IsSequence(ss[k])
    <3>1. CASE k % 2 = 0
      BY <1>7, <2>1, <3>1
    <3>2. CASE k % 2 # 0
      <4> DEFINE j == (k + 1) \div 2
      <4>1. j \in 1..n
        <5> HIDE DEF n
        <5> QED BY <2>6, SMT
      <4>2. ss[k] = Payload(Payload(strings)[j])
        BY <2>4, <3>2
      <4> HIDE DEF j, ss
      <4> QED BY <1>7, <2>5, <2>6, <4>1, <4>2
    <3> QED BY <3>1, <3>2
  <2>8. DOMAIN ss = 1..m /\ ss = [k \in 1..m |-> ss[k]]
    OBVIOUS
  <2> HIDE DEF ss, m
  <2>9. IsSequence(ss)
    <3> DEFINE S == {ss[k] : k \in 1..m}
    <3>1. ss \in Seq(S)
      BY <2>6, <2>8, IsASeq
    <3> HIDE DEF S
    <3> QED BY <3>1, SequenceOver
  <2>10. IsSequence(FlattenSeq(ss))
    BY <2>7, <2>8, <2>9, FlattenOver
  <2> QED BY <1>1, <1>7, <2>3, <2>10, ValuesAreOutcomes
<1> QED BY <1>1, <1>3, <1>8, SoundIf DEF type

\* Every function that accepts its parameters has a result of the type
\* calculated for it, or aborts for a reason that is known.
LEMMA FunctionsAreSound ==
    ASSUME NEW unset, MethodsAreImplemented, NEW f \in FunctionNames, NEW t, IsType(t),
           function_calculate_type(f, t) \notin {NoType, Broken}
    PROVE  IsSound(f, t, unset)
  BY KeysIsSound, PairKeysIsSound, InArrayIsSound, ArrayGetIsSound, ArrayInsertIsSound,
     ArrayRemoveIsSound, DictSetIsSound, DictUnsetIsSound, DictGetIsSound,
     DictToTupleArrayIsSound, StructHeadIsSound, StringJoinIsSound DEF FunctionNames

-----------------------------------------------------------------------------
(* Expressions and their parts.                                            *)

\* What is shown of every expression that has passed its checks: it has a
\* type, and evaluating it comes to values of it.
HasSoundValue(e, env, unset) ==
    (PreCheck(e) /\ Check(e, env.types) = "ok") =>
      /\ IsType(CalculateType(e, env.types))
      /\ \A o \in Evaluate(e, env) : IsOutcome(o, CalculateType(e, env.types), unset)

\* The parts of a data structure, by its kind.
LEMMA DataChildren ==
    ASSUME NEW d
    PROVE  /\ d.kind \in {"a", "r"} => Children(<<"data", d>>) = d.val
           /\ d.kind = "v" => Children(<<"data", d>>) = <<d.val>>
           /\ d.kind = "e" => Children(<<"data", d>>) = Entries(d)
           /\ d.kind \notin {"a", "r", "v", "e"} => Children(<<"data", d>>) = <<>>
           /\ IsData(<<"data", d>>)
<1> DEFINE e == <<"data", d>>
<1>1. e[1] = "data" /\ e[2] = d
  BY Pairs
<1> HIDE DEF e
<1>2. /\ d.kind \in {"a", "r"} => Children(e) = d.val
      /\ d.kind = "v" => Children(e) = <<d.val>>
      /\ d.kind = "e" => Children(e) = Entries(d)
      /\ d.kind \notin {"a", "r", "v", "e"} => Children(e) = <<>>
  BY <1>1, Zenon DEF Children, IsData
<1>3. IsData(e)
  BY <1>1 DEF IsData
<1> QED BY <1>2, <1>3 DEF e

\* The empty sequence.
LEMMA EmptySequence == IsSequence(<<>>) /\ DOMAIN <<>> = {} /\ Len(<<>>) = 0 /\ ToSet(<<>>) = {}
<1>1. <<>> \in Seq({}) /\ DOMAIN <<>> = {} /\ Len(<<>>) = 0
  BY SMT
<1> QED BY <1>1, SequenceOver

\* A function on the numbers up to m is a sequence.
LEMMA NumberedSequence ==
    ASSUME NEW m \in Nat, NEW s, DOMAIN s = 1..m, s = [k \in 1..m |-> s[k]]
    PROVE  IsSequence(s) /\ Len(s) = m
<1> DEFINE S == {s[k] : k \in 1..m}
<1>1. s \in [1..m -> S]
  OBVIOUS
<1> HIDE DEF S
<1>2. s \in Seq(S) /\ Len(s) = m
  BY <1>1, SMT
<1> QED BY <1>2, SequenceOver

\* The keys and values of a dictionary, in turn.
LEMMA EntriesFacts ==
    ASSUME NEW d, IsSequence(d.val)
    PROVE  /\ IsSequence(Entries(d)) /\ Len(Entries(d)) = 2 * Len(d.val) /\ Len(d.val) \in Nat
           /\ \A k \in 1..Len(d.val) :
                /\ 2 * k - 1 \in DOMAIN Entries(d) /\ 2 * k \in DOMAIN Entries(d)
                /\ Entries(d)[2 * k - 1] = d.val[k][1] /\ Entries(d)[2 * k] = d.val[k][2]
<1> DEFINE n == Len(d.val)
           m == 2 * n
           s == Entries(d)
<1>1. n \in Nat /\ m \in Nat
  BY SequenceFacts
<1>2. DOMAIN s = 1..m /\ s = [k \in 1..m |-> s[k]]
  BY DEF Entries
<1>3. ASSUME NEW k \in 1..n
      PROVE  /\ 2 * k - 1 \in DOMAIN s /\ 2 * k \in DOMAIN s
             /\ s[2 * k - 1] = d.val[k][1] /\ s[2 * k] = d.val[k][2]
  <2>1. 2 * k - 1 \in 1..m /\ 2 * k \in 1..m
    <3> HIDE DEF n
    <3> QED BY <1>1
  <2>2. /\ ((2 * k - 1) + 1) \div 2 = k /\ (2 * k - 1) % 2 = 1
        /\ (2 * k + 1) \div 2 = k /\ (2 * k) % 2 # 1
    <3> HIDE DEF n
    <3>1. k \in Nat
      BY <1>1, SMT
    <3> QED BY <3>1, SMT
  <2>3. \A j \in 1..m : s[j] = d.val[(j + 1) \div 2][IF j % 2 = 1 THEN 1 ELSE 2]
    BY DEF Entries
  <2> DEFINE a == 2 * k - 1
             b == 2 * k
  <2>4. /\ a \in 1..m /\ b \in 1..m /\ (a + 1) \div 2 = k /\ a % 2 = 1
        /\ (b + 1) \div 2 = k /\ b % 2 # 1
    BY <2>1, <2>2
  <2> HIDE DEF a, b, s, m
  <2>5. s[a] = d.val[k][1] /\ s[b] = d.val[k][2]
    BY <2>3, <2>4
  <2> QED BY <1>2, <2>4, <2>5 DEF a, b
<1> HIDE DEF s, m
<1>4. IsSequence(s) /\ Len(s) = m
  BY <1>1, <1>2, NumberedSequence
<1> QED BY <1>1, <1>3, <1>4 DEF s, m

\* The parts of an expression are a sequence of expressions, nested less deeply.
LEMMA ParsedParts ==
    ASSUME NEW m, NEW e, is_parsed(m, e)
    PROVE  /\ \/ e[1] = "data" /\ e = <<"data", e[2]>> /\ DataIsParsed(e[2]) /\ IsData(e)
              \/ e[1] = "binary" /\ Children(e) = <<e[3], e[4]>> /\ e[2] \in Operators /\ ~IsData(e)
              \/ e[1] = "not" /\ Children(e) = <<e[2]>> /\ ~IsData(e)
              \/ e[1] = "call" /\ Children(e) = <<e[3]>> /\ ~IsData(e)
           /\ IsSequence(Children(e))
           /\ \A k \in DOMAIN Children(e) : IsParsed(m - 1, Children(e)[k])
<1>1. e[1] \in {"data", "binary", "not", "call"}
  BY Zenon DEF is_parsed
<1>2. \A k \in DOMAIN Children(e) : IsParsed(m - 1, Children(e)[k])
  BY DEF is_parsed
<1>3. CASE e[1] = "data"
  <2>1. e = <<"data", e[2]>> /\ DataIsParsed(e[2])
    BY <1>3, Zenon DEF is_parsed
  <2> DEFINE d == e[2]
  <2> HIDE DEF d
  <2>2. e = <<"data", d>> /\ d.kind \in {"a", "r", "e", "s"} => IsSequence(d.val)
    BY <2>1 DEF DataIsParsed, d
  <2>3. IsSequence(Children(e))
    <3>1. CASE d.kind \in {"a", "r"}
      BY <2>1, <2>2, <3>1, DataChildren DEF d
    <3>2. CASE d.kind = "v"
      BY <2>1, <2>2, <3>2, DataChildren, SingleSequence DEF d
    <3>3. CASE d.kind = "e"
      BY <2>1, <2>2, <3>3, DataChildren, EntriesFacts DEF d
    <3>4. CASE d.kind \notin {"a", "r", "v", "e"}
      BY <2>1, <2>2, <3>4, DataChildren, EmptySequence DEF d
    <3> QED BY <3>1, <3>2, <3>3, <3>4
  <2> QED BY <1>2, <1>3, <2>1, <2>3 DEF IsData
<1>4. CASE e[1] = "binary"
  <2>1. Children(e) = <<e[3], e[4]>>
    BY <1>4, Zenon DEF Children, IsData
  <2>2. e[2] \in Operators
    BY <1>4, Zenon DEF is_parsed
  <2> DEFINE a == e[3]
             b == e[4]
  <2>3. IsSequence(<<a, b>>)
    BY Pairs
  <2> QED BY <1>2, <1>4, <2>1, <2>2, <2>3 DEF IsData
<1>5. CASE e[1] = "not"
  <2>1. Children(e) = <<e[2]>>
    BY <1>5, Zenon DEF Children, IsData
  <2> QED BY <1>2, <1>5, <2>1, SingleSequence DEF IsData
<1>6. CASE e[1] = "call"
  <2>1. Children(e) = <<e[3]>>
    BY <1>6, Zenon DEF Children, IsData
  <2> QED BY <1>2, <1>6, <2>1, SingleSequence DEF IsData
<1> QED BY <1>1, <1>3, <1>4, <1>5, <1>6

\* An expression that has passed its checks has parts that have.
LEMMA CheckedParts ==
    ASSUME MethodsAreImplemented, NEW e, NEW all, IsSequence(Children(e)),
           PreCheck(e), Check(e, all) = "ok"
    PROVE  /\ IsData(e) => DataIsSane(e[2])
           /\ e[1] = "call" => e[2] \in FunctionNames
           /\ \A k \in DOMAIN Children(e) :
                PreCheck(Children(e)[k]) /\ Check(Children(e)[k], all) = "ok"
           /\ CheckOver(e, ChildTypes(e, all), all) = "ok"
<1> DEFINE cs == Children(e)
           verdicts == [k \in DOMAIN cs |-> Check(cs[k], all)]
<1>1. pre_check(e) /\ check(e, all) = "ok"
  BY DEF MethodsAreImplemented
<1>2. FirstFault(verdicts) = "ok" /\ CheckOver(e, ChildTypes(e, all), all) = "ok"
  <2>1. LET children == FirstFault(verdicts)
        IN  (IF children # "ok" THEN children ELSE CheckOver(e, ChildTypes(e, all), all)) = "ok"
    BY <1>1, Zenon DEF check
  <2> HIDE DEF verdicts
  <2> QED BY <2>1
<1>3. DOMAIN verdicts = DOMAIN cs /\ verdicts = [k \in DOMAIN cs |-> verdicts[k]]
  OBVIOUS
<1>4. \A k \in DOMAIN cs : verdicts[k] = Check(cs[k], all)
  OBVIOUS
<1> HIDE DEF verdicts
<1>5. IsSequence(verdicts)
  BY <1>3, MappedSequence
<1>6. \A k \in DOMAIN cs : Check(cs[k], all) = "ok"
  BY <1>2, <1>3, <1>4, <1>5, FirstFaultOk
<1> QED BY <1>1, <1>2, <1>6 DEF pre_check

\* Weighting a literal changes nothing of what is checked of it.
LEMMA WeightedFacts ==
    ASSUME MethodsAreImplemented, NEW m \in Nat, NEW e, IsParsed(m, e), IsData(e)
    PROVE  /\ IsParsed(m, MoreWeighted(e)) /\ PreCheck(MoreWeighted(e)) = PreCheck(e)
           /\ \A all : /\ Check(MoreWeighted(e), all) = Check(e, all)
                       /\ CalculateType(MoreWeighted(e), all) = CalculateType(e, all)
<1> DEFINE d == e[2]
           new == [d EXCEPT !.weighted = TRUE]
           w == <<"data", new>>
<1>1. is_parsed(m, e)
  BY DEF MethodsAreImplemented
<1>2. e = <<"data", d>> /\ DataIsParsed(d) /\ m > 0
  BY <1>1, ParsedParts DEF is_parsed, IsData
<1>3. MoreWeighted(e) = w
  BY DEF MoreWeighted
<1> HIDE DEF d
<1> DEFINE kind == d.kind
           val == d.val
           annotation == d.annotation
           weighted == d.weighted
<1>0. d = [kind |-> kind, val |-> val, annotation |-> annotation, weighted |-> weighted]
  BY <1>2 DEF DataIsParsed
<1> HIDE DEF kind, val, annotation, weighted
<1>4. /\ d = [kind |-> d.kind, val |-> d.val, annotation |-> d.annotation, weighted |-> d.weighted]
      /\ new.kind = d.kind /\ new.val = d.val /\ new.annotation = d.annotation
      /\ new = [kind |-> new.kind, val |-> new.val, annotation |-> new.annotation,
                weighted |-> new.weighted]
      /\ new.weighted = TRUE
  <2> DEFINE yes == TRUE
             r == [kind |-> kind, val |-> val, annotation |-> annotation, weighted |-> yes]
             S == [kind : {kind}, val : {val}, annotation : {annotation}, weighted : {weighted}]
             R == [kind : {kind}, val : {val}, annotation : {annotation}, weighted : {yes}]
  <2>5. d \in S
    BY <1>0, SMT
  <2>6. new \in R
    BY <2>5, Zenon
  <2>1. new = r
    <3> HIDE DEF new, yes
    <3> QED BY <2>6, SMT
  <2>2. r.kind = kind /\ r.val = val /\ r.annotation = annotation /\ r.weighted = TRUE
    OBVIOUS
  <2>3. d.kind = kind /\ d.val = val /\ d.annotation = annotation /\ d.weighted = weighted
    BY <1>0
  <2> HIDE DEF new
  <2>4. r = [kind |-> r.kind, val |-> r.val, annotation |-> r.annotation, weighted |-> r.weighted]
    BY <2>2
  <2> HIDE DEF r
  <2> QED BY <1>0, <2>1, <2>2, <2>3, <2>4
<1> HIDE DEF new
<1>5. e[1] = "data" /\ e[2] = d /\ w[1] = "data" /\ w[2] = new
  BY <1>2, Pairs
<1>6. Children(w) = Children(e)
  <2>1. Entries(new) = Entries(d)
    BY <1>4 DEF Entries
  <2>2. CASE d.kind \in {"a", "r"}
    BY <1>2, <1>4, <2>2, DataChildren
  <2>3. CASE d.kind = "v"
    BY <1>2, <1>4, <2>3, DataChildren
  <2>4. CASE d.kind = "e"
    BY <1>2, <1>4, <2>1, <2>4, DataChildren
  <2>5. CASE d.kind \notin {"a", "r", "v", "e"}
    BY <1>2, <1>4, <2>5, DataChildren
  <2> QED BY <2>2, <2>3, <2>4, <2>5
<1>7. DataIsParsed(new)
  BY <1>2, <1>4 DEF DataIsParsed
<1>8. Kind(new) = Kind(d)
  BY <1>4, Zenon DEF Kind
<1>9. Literal(new) = Literal(d)
  BY <1>4, <1>8, Zenon DEF Literal
<1>10. DataIsSane(new) = DataIsSane(d)
  BY <1>4, <1>8, <1>9, Zenon DEF DataIsSane
<1>11. ASSUME NEW ts, NEW all PROVE DataType(new, ts, all) = DataType(d, ts, all)
  <2>1. InferredType(new, ts, all) = InferredType(d, ts, all)
    <3>1. ContainerType(new, ts) = ContainerType(d, ts)
      BY <1>4, Zenon DEF ContainerType
    <3> QED BY <1>4, <1>8, <3>1, Zenon DEF InferredType
  <2> QED BY <1>4, <2>1, Zenon DEF DataType
<1> HIDE DEF w
<1>12. is_parsed(m, w)
  <2>1. w = <<"data", w[2]>>
    BY <1>5 DEF w
  <2> QED BY <1>1, <1>2, <1>5, <1>6, <1>7, <2>1, Zenon DEF is_parsed
<1>13. pre_check(w) = pre_check(e)
  BY <1>5, <1>6, <1>10, Zenon DEF pre_check, IsData
<1>14. ASSUME NEW all
       PROVE  check(w, all) = check(e, all) /\ calculate_type(w, all) = calculate_type(e, all)
  <2>1. ChildTypes(w, all) = ChildTypes(e, all)
    BY <1>6, Zenon DEF ChildTypes
  <2> DEFINE ts == ChildTypes(e, all)
  <2>2. CheckOver(w, ts, all) = CheckOver(e, ts, all)
    BY <1>4, <1>5, <1>11, Zenon DEF CheckOver, IsData
  <2>3. TypeOver(w, ts, all) = TypeOver(e, ts, all)
    BY <1>5, <1>11, Zenon DEF TypeOver, IsData
  <2>4. TypeOf(w, all) = TypeOf(e, all)
    BY <2>1, <2>3, Zenon DEF TypeOf
  <2>5. check(w, all) = check(e, all)
    BY <1>6, <2>1, <2>2, Zenon DEF check
  <2>6. calculate_type(w, all) = calculate_type(e, all)
    BY <2>4, Zenon DEF calculate_type
  <2> QED BY <2>5, <2>6
<1>15. /\ IsParsed(m, w) /\ PreCheck(w) = PreCheck(e)
       /\ \A all : Check(w, all) = Check(e, all) /\ CalculateType(w, all) = CalculateType(e, all)
  BY <1>12, <1>13, <1>14 DEF MethodsAreImplemented
<1> QED BY <1>3, <1>15

\* An annotation makes a number or a string of another kind of it.
LEMMA KindFacts ==
    ASSUME NEW d
    PROVE  /\ d.kind \in BasicTypes => Kind(d) \in BasicTypes
           /\ d.kind \notin BasicTypes => Kind(d) = d.kind
           /\ Kind(d) \in {"b", "d", "s"} => d.kind = Kind(d)
<1>1. CASE d.kind \in IntegerTypes /\ d.annotation[1] \in IntegerTypes
  <2>1. Kind(d) = d.annotation[1]
    BY <1>1, Zenon DEF Kind
  <2>2. IntegerTypes \subseteq BasicTypes /\ IntegerTypes \cap {"b", "d", "s"} = {}
    BY DEF BasicTypes, IntegerTypes, UnsignedTypes, SignedTypes
  <2> QED BY <1>1, <2>1, <2>2
<1>2. CASE ~(d.kind \in IntegerTypes /\ d.annotation[1] \in IntegerTypes)
  <2> DEFINE p == <<d.kind, d.annotation>>
  <2>1. CASE p \in {<<"s", <<"o">>>>, <<"s", <<"g">>>>}
    <3>1. Kind(d) = d.annotation[1]
      BY <1>2, <2>1, Zenon DEF Kind
    <3>2. p[1] = d.kind /\ p[2] = d.annotation
      BY Pairs
    <3>3. p[1] = "s" /\ p[2] \in {<<"o">>, <<"g">>}
      <4> HIDE DEF p
      <4> QED BY <2>1, SMT
    <3>4. Kind(d) \in {"o", "g"} /\ d.kind = "s"
      BY <3>1, <3>2, <3>3, Singles
    <3> QED BY <3>4 DEF BasicTypes
  <2>2. CASE p \notin {<<"s", <<"o">>>>, <<"s", <<"g">>>>}
    <3>1. Kind(d) = d.kind
      BY <1>2, <2>2, Zenon DEF Kind
    <3> QED BY <3>1
  <2> QED BY <2>1, <2>2
<1> QED BY <1>1, <1>2

\* What a data structure is inferred to be, by its kind.
LEMMA Inferred ==
    ASSUME NEW d, NEW ts, NEW all
    PROVE  /\ d.kind = "v" => InferredType(d, ts, all) = <<"v">>
           /\ d.kind = "h" => InferredType(d, ts, all) = <<"u">>
           /\ d.kind = "variable" =>
                InferredType(d, ts, all) = IF d.val \in DOMAIN all THEN all[d.val] ELSE Broken
           /\ d.kind \in BasicTypes => InferredType(d, ts, all) = <<Kind(d)>>
           /\ (d.kind \in {"r", "a", "e"} /\ ~Contains(ts, Broken)) =>
                InferredType(d, ts, all) = ContainerType(d, ts)
<1>1. {"h", "variable", "v", "r", "a", "e"} \cap BasicTypes = {}
  BY DEF BasicTypes, IntegerTypes, UnsignedTypes, SignedTypes
<1>2. ASSUME d.kind \in {"v", "h", "variable"}
      PROVE  /\ d.kind \notin BasicTypes /\ d.kind \notin {"r", "a", "e"}
  BY <1>1, <1>2
<1>3. ASSUME d.kind = "v" PROVE InferredType(d, ts, all) = <<"v">>
  BY <1>2, <1>3, Zenon DEF InferredType
<1>4. ASSUME d.kind = "h" PROVE InferredType(d, ts, all) = <<"u">>
  BY <1>2, <1>4, Zenon DEF InferredType
<1>5. ASSUME d.kind = "variable"
      PROVE  InferredType(d, ts, all) = IF d.val \in DOMAIN all THEN all[d.val] ELSE Broken
  BY <1>2, <1>5, Zenon DEF InferredType
<1>6. ASSUME d.kind \in BasicTypes PROVE InferredType(d, ts, all) = <<Kind(d)>>
  <2>1. d.kind \notin {"v", "h", "variable"} /\ d.kind \notin {"r", "a", "e"}
    BY <1>1, <1>6
  <2> QED BY <1>6, <2>1, Zenon DEF InferredType
<1>7. ASSUME d.kind \in {"r", "a", "e"}, ~Contains(ts, Broken)
      PROVE  InferredType(d, ts, all) = ContainerType(d, ts)
  <2>1. d.kind \notin {"v", "h", "variable"} /\ d.kind \notin BasicTypes
    BY <1>1, <1>7
  <2> QED BY <1>7, <2>1, Zenon DEF InferredType
<1> QED BY <1>3, <1>4, <1>5, <1>6, <1>7, Zenon

\* A supertype is the first type, or the wildcard.
LEMMA SupertypeCases ==
    ASSUME NEW ts, NEW wildcard
    PROVE  Supertype(ts, wildcard) \in {ts[1], wildcard}
  BY DEF Supertype

\* A container whose parts have types has a type if what is inferred has no
\* wildcards.
LEMMA ContainerTypes ==
    ASSUME MethodsAreImplemented, NEW d, d.kind \in {"a", "r", "e"}, IsSequence(d.val),
           NEW ts, IsSequence(ts), \A k \in DOMAIN ts : IsType(ts[k]),
           d.kind = "e" => Len(ts) = 2 * Len(d.val), IsDefinite(ContainerType(d, ts))
    PROVE  IsType(ContainerType(d, ts))
<1>1. Len(ts) \in Nat /\ DOMAIN ts = 1..Len(ts) /\ (ts # <<>> => Len(ts) # 0)
  <2>1. Len(ts) \in Nat /\ DOMAIN ts = 1..Len(ts) /\ ts \in Seq(ToSet(ts))
    BY SequenceFacts
  <2> QED BY <2>1, EmptySeq
<1>2. ~IsDefinite(AnyType) /\ ~IsDefinite(AnyBasic)
  BY Definite
<1>3. CASE d.kind = "r"
  <2>1. ContainerType(d, ts) = Tuple(ts)
    BY <1>3, Zenon DEF ContainerType
  <2> QED BY <2>1, TypesMade
<1>4. CASE d.kind = "a"
  <2> DEFINE x == IF ts = <<>> THEN AnyType ELSE Supertype(ts, AnyType)
  <2>1. ContainerType(d, ts) = Array(x)
    BY <1>4, Zenon DEF ContainerType
  <2>2. x = AnyType \/ (x = ts[1] /\ ts # <<>>)
    BY SupertypeCases
  <2> HIDE DEF x
  <2>3. IsDefinite(x)
    BY <2>1, Definite
  <2>4. ASSUME ts # <<>> PROVE IsType(ts[1])
    <3>1. Len(ts) \in Nat /\ Len(ts) # 0 /\ DOMAIN ts = 1..Len(ts)
      BY <1>1, <2>4, Zenon
    <3> DEFINE n == Len(ts)
    <3>2. 1 \in 1..n
      <4>1. n \in Nat /\ n # 0
        BY <3>1
      <4> HIDE DEF n
      <4> QED BY <4>1
    <3> QED BY <3>1, <3>2
  <2>5. IsType(x)
    BY <1>2, <2>2, <2>3, <2>4
  <2> QED BY <2>1, <2>5, TypesMade
<1>5. CASE d.kind = "e"
  <2>1. CASE ts = <<>>
    <3>1. ContainerType(d, ts) = AnyDict
      BY <1>5, <2>1, Zenon DEF ContainerType
    <3>2. ~IsDefinite(AnyDict)
      BY <1>2, Definite DEF AnyDict, Dict
    <3> QED BY <3>1, <3>2
  <2>2. CASE ts # <<>>
    <3> DEFINE keys == [k \in DOMAIN d.val |-> ts[2 * k - 1]]
               vals == [k \in DOMAIN d.val |-> ts[2 * k]]
               x == Supertype(keys, AnyBasic)
               y == Supertype(vals, AnyType)
    <3>1. ContainerType(d, ts) = Dict(x, y)
      BY <1>5, <2>2, Zenon DEF ContainerType
    <3>2. x \in {keys[1], AnyBasic} /\ y \in {vals[1], AnyType}
      BY SupertypeCases
    <3>3. 1 \in DOMAIN d.val /\ 1 \in DOMAIN ts /\ 2 \in DOMAIN ts
      <4>1. Len(d.val) \in Nat /\ DOMAIN d.val = 1..Len(d.val) /\ Len(ts) = 2 * Len(d.val)
        BY <1>5, SequenceFacts
      <4> QED BY <1>1, <2>2, <4>1
    <3>4. keys[1] = ts[1] /\ vals[1] = ts[2]
      BY <3>3
    <3> HIDE DEF keys, vals, x, y
    <3>5. IsDefinite(x) /\ IsDefinite(y)
      BY <3>1, Definite DEF Dict
    <3>6. IsType(x) /\ IsType(y)
      BY <1>2, <3>2, <3>3, <3>4, <3>5
    <3> QED BY <3>1, <3>6, TypesMade DEF Dict
  <2> QED BY <2>1, <2>2
<1> QED BY <1>3, <1>4, <1>5

\* What can be said of a data structure that has a type.
LEMMA TypeOfData ==
    ASSUME MethodsAreImplemented, NEW d, DataIsParsed(d), d.annotation # InvalidType,
           NEW ts, IsSequence(ts), \A k \in DOMAIN ts : IsType(ts[k]),
           d.kind = "e" => Len(ts) = 2 * Len(d.val),
           NEW all, \A v \in DOMAIN all : IsType(all[v]),
           NEW t, t = DataType(d, ts, all), t \notin {NoType, Broken}
    PROVE  /\ IsType(t) /\ IsSubtype(t, InferredType(d, ts, all)) /\ InferredType(d, ts, all) # Broken
           /\ IsType(InferredType(d, ts, all)) => t = InferredType(d, ts, all)
           /\ d.kind \in {"a", "r", "e"} => InferredType(d, ts, all) = ContainerType(d, ts)
<1> DEFINE inferred == InferredType(d, ts, all)
           type == IF d.annotation = NoAnnotation THEN inferred ELSE d.annotation
<1>1. inferred # Broken /\ t = type /\ IsSubtype(t, inferred) /\ IsDefinite(t)
  BY Zenon DEF DataType
<1>2. ~Contains(ts, Broken)
  <2>1. \A k \in 1..Len(ts) : IsType(ts[k])
    BY SequenceFacts
  <2>2. \A k \in 1..Len(ts) : ts[k] # Broken
    BY <2>1, TypeCases
  <2> QED BY <2>2 DEF Contains
<1>3. d.kind \in {"a", "r", "e"} => inferred = ContainerType(d, ts)
  BY <1>2, Inferred
<1>4. d.kind \in BasicTypes \cup {"a", "r", "e", "v", "h", "variable"}
  BY DEF DataIsParsed, Kinds
<1>5. ASSUME d.annotation = NoAnnotation PROVE IsType(inferred)
  <2>0. IsDefinite(inferred)
    BY <1>1, <1>5
  <2>1. CASE d.kind \in BasicTypes
    <3>1. inferred = <<Kind(d)>> /\ Kind(d) \in BasicTypes
      BY <2>1, Inferred, KindFacts
    <3> QED BY <3>1, TypesMade
  <2>2. CASE d.kind \in {"a", "r", "e"}
    <3>1. IsSequence(d.val)
      BY <2>2 DEF DataIsParsed
    <3> QED BY <1>3, <2>0, <2>2, <3>1, ContainerTypes
  <2>3. CASE d.kind = "v"
    <3>1. inferred = <<"v">>
      BY <2>3, Inferred
    <3> QED BY <3>1, TypesMade
  <2>4. CASE d.kind = "h"
    <3>1. inferred = <<"u">>
      BY <2>4, Inferred
    <3>2. "u" \in BasicTypes
      BY DEF BasicTypes, IntegerTypes, UnsignedTypes
    <3> QED BY <3>1, <3>2, TypesMade
  <2>5. CASE d.kind = "variable"
    <3>1. inferred = IF d.val \in DOMAIN all THEN all[d.val] ELSE Broken
      BY <2>5, Inferred
    <3> HIDE DEF inferred
    <3> QED BY <1>1, <3>1
  <2> QED BY <1>4, <2>1, <2>2, <2>3, <2>4, <2>5
<1>6. IsType(t)
  <2>1. CASE d.annotation = NoAnnotation
    BY <1>1, <1>5, <2>1
  <2>2. CASE d.annotation # NoAnnotation
    <3>1. t = d.annotation
      BY <1>1, <2>2
    <3> QED BY <1>1, <2>2, <3>1 DEF DataIsParsed
  <2> QED BY <2>1, <2>2
<1>7. IsType(inferred) => t = inferred
  BY <1>1, SameType
<1> QED BY <1>1, <1>3, <1>6, <1>7

-----------------------------------------------------------------------------
(* Values of data structures.                                              *)

\* What evaluating an expression of any type may come to, and what a part of
\* a container may become.
IsResult(o, unset) == IF IsAbort(o) THEN Payload(o) \in AbortsOfUse(unset) ELSE IsValue(o)

\* What an element of a container becomes: some values, or a failure.
IsBatch(o, unset) ==
    IF IsAbort(o) THEN Payload(o) \in AbortsOfUse(unset)
    ELSE IsSequence(Payload(o)) /\ \A w \in ToSet(Payload(o)) : IsValue(w)

\* A container is built of those of its children that are of the right type.
LEMMA FittingMembers ==
    ASSUME MethodsAreImplemented, NEW x, IsType(x), NEW s, IsSequence(s),
           \A w \in ToSet(s) : IsValue(w)
    PROVE  IsSequence(Fitting(s, x)) /\ \A w \in ToSet(Fitting(s, x)) : HasType(w, x)
<1> DEFINE ss == [k \in DOMAIN s |-> IF Fits(s[k], x) THEN <<s[k]>> ELSE <<>>]
<1>1. DOMAIN ss = DOMAIN s /\ ss = [k \in DOMAIN s |-> ss[k]]
  OBVIOUS
<1>2. \A k \in DOMAIN s : ss[k] = IF Fits(s[k], x) THEN <<s[k]>> ELSE <<>>
  OBVIOUS
<1>3. Fitting(s, x) = FlattenSeq(ss)
  BY Zenon DEF Fitting
<1> HIDE DEF ss
<1>4. IsSequence(ss)
  BY <1>1, MappedSequence
<1>5. ASSUME NEW k \in DOMAIN s
      PROVE  IsSequence(ss[k]) /\ \A w \in ToSet(ss[k]) : HasType(w, x)
  <2>1. CASE Fits(s[k], x)
    <3>1. IsSequence(ss[k]) /\ ToSet(ss[k]) = {s[k]}
      BY <1>2, <2>1, SingleSequence
    <3>2. IsValue(s[k])
      BY DEF ToSet
    <3>3. TypeOfValue(s[k]) = x
      BY <2>1, SameType DEF Fits
    <3> QED BY <3>1, <3>2, <3>3 DEF HasType
  <2>2. CASE ~Fits(s[k], x)
    BY <1>2, <2>2, EmptySequence
  <2> QED BY <2>1, <2>2
<1>6. /\ IsSequence(FlattenSeq(ss))
      /\ \A w \in ToSet(FlattenSeq(ss)) : \E k \in DOMAIN ss : w \in ToSet(ss[k])
  BY <1>1, <1>4, <1>5, FlattenOver
<1> QED BY <1>1, <1>3, <1>5, <1>6

\* A container that is built of values has the type it is built with.
LEMMA BuiltIsSound ==
    ASSUME NEW unset, MethodsAreImplemented, NEW t, IsType(t), t = Array(t[2]), IsType(t[2]),
           NEW parts, IsSequence(parts), \A k \in DOMAIN parts : \A b \in parts[k] : IsBatch(b, unset),
           NEW fuzzed, NEW o \in Built(t, parts, fuzzed)
    PROVE  IsOutcome(o, t, unset)
<1> DEFINE x == t[2]
<1> HIDE DEF x
<1>0. t = Array(x) /\ IsType(x)
  BY DEF x
<1>1. ASSUME NEW p, IsSequence(p), \A w \in ToSet(p) : IsValue(w)
      PROVE  IsOutcome(Variant(t, Fitting(p, x)), t, unset)
  <2> DEFINE q == Fitting(p, x)
  <2>1. IsSequence(q) /\ \A w \in ToSet(q) : HasType(w, x)
    BY <1>0, <1>1, FittingMembers
  <2> HIDE DEF q
  <2>2. HasType(Variant(Array(x), q), Array(x))
    BY <1>0, <2>1, ArrayIsMade
  <2> QED BY <1>0, <2>2, ValuesAreOutcomes DEF q
<1>2. IsOutcome(Variant(t, <<>>), t, unset)
  <2>1. HasType(Variant(Array(x), <<>>), Array(x))
    BY <1>0, EmptySequence, ArrayIsMade
  <2> QED BY <1>0, <2>1, ValuesAreOutcomes
<1> DEFINE All(s) == FlattenSeq([k \in DOMAIN Payload(s) |-> Payload(Child(s, k))])
<1>3. \/ o = Variant(t, <<>>)
      \/ \E s \in InTurn(parts) : IF IsAbort(s) THEN o = s ELSE o = Variant(t, Fitting(All(s), x))
  BY DEF Built, Then, x
<1>4. ASSUME NEW s \in InTurn(parts), IF IsAbort(s) THEN o = s ELSE o = Variant(t, Fitting(All(s), x))
      PROVE  IsOutcome(o, t, unset)
  <2>1. AreFirst(s, parts, Len(parts))
    BY InTurnMembers
  <2>2. DOMAIN parts = 1..Len(parts)
    BY SequenceFacts
  <2>3. CASE IsAbort(s)
    BY <1>4, <2>1, <2>2, <2>3 DEF AreFirst, IsBatch, IsOutcome
  <2>4. CASE ~IsAbort(s)
    <3> DEFINE q == Payload(s)
               ss == [k \in DOMAIN q |-> Payload(Child(s, k))]
    <3>1. /\ IsSequence(q) /\ Len(q) = Len(parts)
          /\ \A j \in 1..Len(parts) : q[j] \in parts[j] /\ ~IsAbort(q[j])
      BY <2>1, <2>4 DEF AreFirst
    <3>2. \A k : Child(s, k) = q[k]
      BY DEF Child, Payload
    <3>3. DOMAIN ss = DOMAIN q /\ ss = [k \in DOMAIN q |-> ss[k]] /\ \A k \in DOMAIN q : ss[k] = Payload(q[k])
      BY <3>2
    <3>4. All(s) = FlattenSeq(ss)
      OBVIOUS
    <3> HIDE DEF ss, q, All
    <3>5. IsSequence(ss)
      BY <3>1, <3>3, MappedSequence
    <3>6. DOMAIN q = 1..Len(parts)
      BY <3>1, SequenceFacts
    <3>7. ASSUME NEW k \in DOMAIN ss PROVE IsSequence(ss[k]) /\ \A w \in ToSet(ss[k]) : IsValue(w)
      <4>1. k \in DOMAIN parts /\ q[k] \in parts[k] /\ ~IsAbort(q[k]) /\ ss[k] = Payload(q[k])
        BY <2>2, <3>1, <3>3, <3>6
      <4>2. IsBatch(q[k], unset)
        BY <4>1
      <4> QED BY <4>1, <4>2 DEF IsBatch
    <3>8. IsSequence(All(s)) /\ \A w \in ToSet(All(s)) : IsValue(w)
      BY <3>4, <3>5, <3>7, FlattenOver
    <3> QED BY <1>1, <1>4, <2>4, <3>8
  <2> QED BY <2>3, <2>4
<1> QED BY <1>2, <1>3, <1>4

\* The sequences that elements and entries become.
LEMMA BatchOf ==
    ASSUME NEW unset, MethodsAreImplemented, NEW s, IsSequence(s), \A w \in ToSet(s) : IsValue(w)
    PROVE  IsBatch(Sequence(s), unset)
  BY SequenceParts DEF IsBatch

\* An element of an array becomes some values, fuzzed or not.
LEMMA ElementsAreBatches ==
    ASSUME NEW unset, MethodsAreImplemented, NEW outcomes, \A v \in outcomes : IsResult(v, unset),
           NEW mutants, \A m \in mutants : IsResult(m, unset), NEW fuzzed,
           NEW o \in Elements(outcomes, mutants, fuzzed)
    PROVE  IsBatch(o, unset)
<1> DEFINE Cloned(v) == {<<v>>} \cup (IF fuzzed THEN {<<v, v>>} ELSE {})
<1>1. IsBatch(Sequence(<<>>), unset)
  BY EmptySequence, BatchOf
<1>2. ASSUME NEW v, IsValue(v), NEW c \in Cloned(v)
      PROVE  IsSequence(c) /\ \A w \in ToSet(c) : IsValue(w)
  <2>1. c = <<v>> \/ c = <<v, v>>
    OBVIOUS
  <2>2. /\ IsSequence(<<v>>) /\ ToSet(<<v>>) = {v}
        /\ IsSequence(<<v, v>>) /\ ToSet(<<v, v>>) = {v, v}
    BY SingleSequence, Pairs
  <2> QED BY <1>2, <2>1, <2>2
<1> HIDE DEF Cloned
<1> DEFINE More(v) == {Sequence(c) : c \in Cloned(v)}
                        \cup Then(mutants, LAMBDA m : {Sequence(Append(c, m)) : c \in Cloned(v)})
<1>3. o = Sequence(<<>>) \/ o \in Then(outcomes, LAMBDA v : More(v))
  BY DEF Elements, Cloned
<1>4. ASSUME o \in Then(outcomes, LAMBDA v : More(v)) PROVE IsBatch(o, unset)
  <2>1. PICK v \in outcomes : IF IsAbort(v) THEN o = v ELSE o \in More(v)
    BY <1>4 DEF Then
  <2>2. CASE IsAbort(v)
    BY <2>1, <2>2 DEF IsResult, IsBatch
  <2>3. CASE ~IsAbort(v) /\ \E c \in Cloned(v) : o = Sequence(c)
    BY <1>2, <2>3, BatchOf DEF IsResult
  <2>4. CASE ~IsAbort(v) /\ o \in Then(mutants, LAMBDA m : {Sequence(Append(c, m)) : c \in Cloned(v)})
    <3>1. PICK m \in mutants : IF IsAbort(m) THEN o = m
                               ELSE \E c \in Cloned(v) : o = Sequence(Append(c, m))
      BY <2>4 DEF Then
    <3>2. CASE IsAbort(m)
      BY <3>1, <3>2 DEF IsResult, IsBatch
    <3>3. CASE ~IsAbort(m)
      <4>1. PICK c \in Cloned(v) : o = Sequence(Append(c, m))
        BY <3>1, <3>3
      <4>2. IsSequence(c) /\ (\A w \in ToSet(c) : IsValue(w)) /\ IsValue(m)
        BY <1>2, <2>4, <3>3 DEF IsResult
      <4>3. IsSequence(Append(c, m)) /\ ToSet(Append(c, m)) = ToSet(c) \cup {m}
        BY <4>2, AppendedOutput
      <4> QED BY <4>1, <4>2, <4>3, BatchOf
    <3> QED BY <3>2, <3>3
  <2> QED BY <2>1, <2>2, <2>3, <2>4
<1> QED BY <1>1, <1>3, <1>4

\* An entry whose type is made of those of its key and value.
LEMMA NewEntry ==
    ASSUME MethodsAreImplemented, NEW k, IsValue(k), NEW v, IsValue(v)
    PROVE  IsValue(EntryOf(Entry(TypeOfValue(k), TypeOfValue(v)), k, v))
<1>1. HasType(k, TypeOfValue(k)) /\ HasType(v, TypeOfValue(v))
  BY DEF HasType
<1> QED BY <1>1, EntryIsMade DEF HasType

\* An entry of a dictionary becomes some values, fuzzed or not.
LEMMA DictEntriesAreBatches ==
    ASSUME NEW unset, MethodsAreImplemented,
           NEW ks, \A v \in ks : IsResult(v, unset), NEW vs, \A v \in vs : IsResult(v, unset),
           NEW newKs, \A v \in newKs : IsResult(v, unset), NEW newVs, \A v \in newVs : IsResult(v, unset),
           NEW fuzzed, NEW o \in DictEntries(ks, vs, newKs, newVs, fuzzed)
    PROVE  IsBatch(o, unset)
<1> DEFINE New(k, v) == EntryOf(Entry(TypeOfValue(k), TypeOfValue(v)), k, v)
           Fourth(k, v, key) == Then(newVs, LAMBDA w : {Sequence(<<New(k, v), New(key, w)>>)})
           Third(k, v) == Then(newKs, LAMBDA key : {Sequence(<<New(k, v), New(key, v)>>)} \cup Fourth(k, v, key))
           Second(k) == Then(vs, LAMBDA v : {Sequence(<<New(k, v)>>)} \cup Third(k, v))
           First == Then(ks, LAMBDA k : Second(k))
<1>1. o \in First \/ o = Sequence(<<>>)
  BY DEF DictEntries
<1>2. \A k, v : IsValue(k) /\ IsValue(v) => IsValue(New(k, v))
  BY NewEntry
<1> HIDE DEF New
<1>3. ASSUME NEW a, IsValue(a) PROVE IsBatch(Sequence(<<a>>), unset)
  <2> DEFINE s == <<a>>
  <2>1. IsSequence(s) /\ ToSet(s) = {a}
    BY SingleSequence
  <2> HIDE DEF s
  <2> QED BY <1>3, <2>1, BatchOf DEF s
<1>4. ASSUME NEW a, IsValue(a), NEW b, IsValue(b) PROVE IsBatch(Sequence(<<a, b>>), unset)
  <2> DEFINE s == <<a, b>>
  <2>1. IsSequence(s) /\ ToSet(s) = {a, b}
    BY Pairs
  <2> HIDE DEF s
  <2>2. IsBatch(Sequence(s), unset)
    BY <1>4, <2>1, BatchOf
  <2> QED BY <2>2 DEF s
<1>5. ASSUME NEW k, IsValue(k), NEW v, IsValue(v), NEW key, IsValue(key), NEW x \in Fourth(k, v, key)
      PROVE  IsBatch(x, unset)
  <2>1. PICK w \in newVs : IF IsAbort(w) THEN x = w ELSE x = Sequence(<<New(k, v), New(key, w)>>)
    BY <1>5 DEF Then
  <2>2. CASE IsAbort(w)
    BY <2>1, <2>2 DEF IsBatch, IsResult
  <2>3. CASE ~IsAbort(w)
    <3>1. IsValue(w)
      BY <2>3 DEF IsResult
    <3>2. IsValue(New(k, v)) /\ IsValue(New(key, w))
      BY <1>2, <1>5, <3>1
    <3> QED BY <1>4, <2>1, <2>3, <3>2
  <2> QED BY <2>2, <2>3
<1> HIDE DEF Fourth
<1>6. ASSUME NEW k, IsValue(k), NEW v, IsValue(v), NEW x \in Third(k, v)
      PROVE  IsBatch(x, unset)
  <2>1. PICK key \in newKs : IF IsAbort(key) THEN x = key
                             ELSE x = Sequence(<<New(k, v), New(key, v)>>) \/ x \in Fourth(k, v, key)
    BY <1>6 DEF Then
  <2>2. CASE IsAbort(key)
    BY <2>1, <2>2 DEF IsBatch, IsResult
  <2>3. CASE ~IsAbort(key)
    <3>1. IsValue(key)
      BY <2>3 DEF IsResult
    <3>2. IsValue(New(k, v)) /\ IsValue(New(key, v))
      BY <1>2, <1>6, <3>1
    <3> QED BY <1>4, <1>5, <1>6, <2>1, <2>3, <3>1, <3>2
  <2> QED BY <2>2, <2>3
<1> HIDE DEF Third
<1>7. ASSUME NEW k, IsValue(k), NEW x \in Second(k)
      PROVE  IsBatch(x, unset)
  <2>1. PICK v \in vs : IF IsAbort(v) THEN x = v
                        ELSE x = Sequence(<<New(k, v)>>) \/ x \in Third(k, v)
    BY <1>7 DEF Then
  <2>2. CASE IsAbort(v)
    BY <2>1, <2>2 DEF IsBatch, IsResult
  <2>3. CASE ~IsAbort(v)
    <3>1. IsValue(v)
      BY <2>3 DEF IsResult
    <3>2. IsValue(New(k, v))
      BY <1>2, <1>7, <3>1
    <3> QED BY <1>3, <1>6, <1>7, <2>1, <2>3, <3>1, <3>2
  <2> QED BY <2>2, <2>3
<1> HIDE DEF Second
<1>8. ASSUME o \in First PROVE IsBatch(o, unset)
  <2>1. PICK k \in ks : IF IsAbort(k) THEN o = k ELSE o \in Second(k)
    BY <1>8 DEF Then
  <2>2. CASE IsAbort(k)
    BY <2>1, <2>2 DEF IsBatch, IsResult
  <2>3. CASE ~IsAbort(k)
    BY <1>7, <2>1, <2>3 DEF IsResult
  <2> QED BY <2>2, <2>3
<1>9. IsBatch(Sequence(<<>>), unset)
  BY EmptySequence, BatchOf
<1> QED BY <1>1, <1>8, <1>9

\* What the data structure d, of type t, may come to before it is asserted
\* that there is a value: GLib may make nothing of it.
IsMade(o, d, t, unset) == IsOutcome(o, t, unset) \/ (o = Null /\ ~is_built(d))

\* A literal is in the range of its type, aborts, or is not built.
LEMMA ScalarsAreSound ==
    ASSUME NEW unset, MethodsAreImplemented, NEW d, DataIsParsed(d), DataIsSane(d), d.kind \in BasicTypes,
           NEW env, NEW o \in ScalarToVariant(d, env)
    PROVE  IsMade(o, d, <<Kind(d)>>, unset)
<1> DEFINE k == Kind(d)
           fuzzed == ShouldBeFuzzed(d, env)
<1>1. k \in BasicTypes /\ (k \in {"b", "d", "s"} => d.kind = k)
  BY KindFacts
<1>2. PICK val : /\ o = Scalar(k, val, fuzzed)
                 /\ val = Literal(d) \/ (fuzzed /\ val \in FuzzedValues[k])
  BY DEF ScalarToVariant
<1>3. k \in UnsignedTypes => Literal(d) \in 0..GreatestValue[k]
  BY Zenon DEF DataIsSane
<1>4. k \notin UnsignedTypes => Literal(d) = d.val
  BY Zenon DEF Literal
<1>5. /\ k \in SignedTypes => d.val \in (-GreatestValue[k] - 1)..GreatestValue[k]
      /\ k = "o" => d.val \in ObjectPaths
  BY Zenon DEF DataIsSane
<1>6. (d.kind = "b" => d.val \in BOOLEAN) /\ (d.kind = "s" => IsSequence(d.val))
  BY DEF DataIsParsed
<1> HIDE DEF k, fuzzed
<1>7. k = "g" \/ InRange(k, val)
  <2>1. CASE val = Literal(d)
    <3>1. CASE k \in UnsignedTypes
      BY <1>3, <2>1, <3>1, Ranges
    <3>2. CASE k \in SignedTypes
      <4>1. k \notin UnsignedTypes
        BY <3>2 DEF SignedTypes, UnsignedTypes
      <4>2. val \in Least(GreatestValue[k])..GreatestValue[k]
        BY <1>4, <1>5, <2>1, <3>2, <4>1 DEF Least
      <4> QED BY <3>2, <4>2, Ranges
    <3>3. CASE k \notin IntegerTypes
      <4>1. val = d.val /\ k \in {"b", "d", "s", "o", "g"}
        BY <1>1, <1>4, <2>1, <3>3 DEF BasicTypes, IntegerTypes
      <4> QED BY <1>1, <1>5, <1>6, <4>1, Ranges
    <3> QED BY <3>1, <3>2, <3>3 DEF IntegerTypes
  <2>2. CASE val \in FuzzedValues[k]
    BY <1>1, <2>2, FuzzedAssumption
  <2> QED BY <1>2, <2>1, <2>2
<1>8. CASE k = "g" /\ val \notin Signatures
  <2>1. CASE fuzzed
    <3>1. o = Aborts("not a signature")
      BY <1>2, <1>8, <2>1 DEF Scalar
    <3>2. IsOutcome(o, <<k>>, unset)
      BY <3>1, AbortParts DEF IsOutcome, AbortsOfUse
    <3> QED BY <3>2 DEF IsMade, k
  <2>2. CASE ~fuzzed
    <3>1. o = Null /\ val = Literal(d)
      BY <1>2, <1>8, <2>2 DEF Scalar
    <3>2. ~is_built(d)
      BY <1>8, <3>1 DEF is_built, k
    <3> QED BY <3>1, <3>2 DEF IsMade
  <2> QED BY <2>1, <2>2
<1>9. CASE ~(k = "g" /\ val \notin Signatures)
  <2>1. o = Variant(<<k>>, val)
    BY <1>2, <1>9 DEF Scalar
  <2>2. InRange(k, val)
    BY <1>7, <1>9, Ranges
  <2>3. HasType(o, <<k>>)
    BY <1>1, <2>1, <2>2, BasicValue
  <2> QED BY <2>3, ValuesAreOutcomes DEF IsMade, k
<1> QED BY <1>8, <1>9

\* What a variant is fuzzed to is a value.
LEMMA OthersAreValues ==
    ASSUME MethodsAreImplemented, NEW v, NEW w \in OfAnotherType(v)
    PROVE  IsValue(w)
<1>1. "s" \in BasicTypes /\ "u" \in BasicTypes /\ "u" \in UnsignedTypes /\ "u" \in IntegerTypes
  BY DEF BasicTypes, IntegerTypes, UnsignedTypes
<1>2. ASSUME NEW s \in FuzzedValues["s"] \cup {<<>>}, w = Variant(<<"s">>, s) PROVE IsValue(w)
  <2>1. InRange("s", s)
    BY <1>1, FuzzedAssumption, EmptySequence, Ranges
  <2> QED BY <1>1, <1>2, <2>1, BasicValue DEF HasType
<1>3. ASSUME NEW n \in FuzzedValues["u"] \cup {0}, w = Variant(<<"u">>, n) PROVE IsValue(w)
  <2>1. 0 \in 0..GreatestValue["u"]
    BY <1>1, WidthsAssumption
  <2>2. InRange("u", n)
    BY <1>1, <2>1, FuzzedAssumption, Ranges
  <2> QED BY <1>1, <1>3, <2>2, BasicValue DEF HasType
<1> QED BY <1>2, <1>3 DEF OfAnotherType

\* A tuple of the outcomes of its parts.
LEMMA TuplesAreSound ==
    ASSUME NEW unset, MethodsAreImplemented, NEW ts, IsSequence(ts), NEW t, t = Tuple(ts), IsType(t),
           NEW parts, IsSequence(parts), Len(parts) = Len(ts),
           \A k \in DOMAIN ts : \A o \in parts[k] : IsOutcome(o, ts[k], unset),
           NEW o, NEW s \in InTurn(parts),
           IF IsAbort(s) THEN o = s ELSE o = Variant(t, Payload(s))
    PROVE  IsOutcome(o, t, unset)
<1>2. AreFirst(s, parts, Len(parts))
  BY InTurnMembers
<1>3. DOMAIN ts = 1..Len(parts)
  BY SequenceFacts
<1>4. CASE IsAbort(s)
  BY <1>2, <1>3, <1>4 DEF AreFirst, IsOutcome
<1>5. CASE ~IsAbort(s)
  <2> DEFINE q == Payload(s)
  <2>1. /\ IsSequence(q) /\ Len(q) = Len(ts)
        /\ \A j \in DOMAIN ts : q[j] \in parts[j] /\ ~IsAbort(q[j])
    BY <1>2, <1>3, <1>5 DEF AreFirst
  <2>2. DOMAIN q = DOMAIN ts
    BY <2>1, SequenceFacts
  <2>3. o = Variant(t, q) /\ Payload(o) = q
    BY <1>5, VariantParts
  <2> HIDE DEF q
  <2>4. \A k \in DOMAIN q : HasType(q[k], ts[k])
    BY <2>1, <2>2 DEF IsOutcome
  <2>5. HasType(o, Tuple(ts))
    BY <2>1, <2>3, <2>4, TupleValue
  <2> QED BY <2>5, ValuesAreOutcomes
<1> QED BY <1>4, <1>5

\* A variant holds any value.
LEMMA BoxesAreSound ==
    ASSUME NEW unset, MethodsAreImplemented, NEW v, IsResult(v, unset), NEW fuzzed, NEW o,
           IF IsAbort(v) THEN o = v
           ELSE \E w \in {v} \cup (IF fuzzed THEN OfAnotherType(v) ELSE {}) :
                  o = Variant(<<"v">>, w)
    PROVE  IsOutcome(o, <<"v">>, unset)
<1>2. CASE IsAbort(v)
  BY <1>2 DEF IsResult, IsOutcome
<1>3. CASE ~IsAbort(v)
  <2>1. PICK w : o = Variant(<<"v">>, w) /\ (w = v \/ w \in OfAnotherType(v))
    BY <1>3
  <2>2. IsValue(w)
    BY <1>3, <2>1, OthersAreValues DEF IsResult
  <2> QED BY <2>1, <2>2, BoxedValue, ValuesAreOutcomes
<1> QED BY <1>2, <1>3

\* An outcome for a type is a result.
LEMMA OutcomesAreResults ==
    ASSUME NEW unset, NEW o, NEW t, IsOutcome(o, t, unset)
    PROVE  IsResult(o, unset)
  BY DEF IsOutcome, IsResult, HasType

\* The same of an entry, from the keys and values of the dictionary.
LEMMA EntryOverIsBatch ==
    ASSUME NEW unset, MethodsAreImplemented, NEW d, IsSequence(d.val), NEW k \in DOMAIN d.val, NEW fuzzed,
           NEW parts, NEW mutants,
           \A j \in DOMAIN Entries(d) :
              (\A o \in parts[j] : IsResult(o, unset)) /\ (\A o \in mutants[j] : IsResult(o, unset)),
           NEW o \in EntryOver(d, k, parts, mutants, fuzzed)
    PROVE  IsBatch(o, unset)
<1> DEFINE i == 2 * k - 1
           j == 2 * k
           Fuzzed(a, other) == IF IsData(Entries(d)[other]) THEN mutants[a] ELSE {}
<1>1. i \in DOMAIN Entries(d) /\ j \in DOMAIN Entries(d)
  <2>1. k \in 1..Len(d.val)
    BY SequenceFacts
  <2> QED BY <2>1, EntriesFacts
<1>2. o \in DictEntries(parts[i], parts[j], Fuzzed(i, j), Fuzzed(j, i), fuzzed)
  BY Zenon DEF EntryOver
<1> HIDE DEF i, j
<1>3. /\ \A x \in parts[i] : IsResult(x, unset)
      /\ \A x \in parts[j] : IsResult(x, unset)
      /\ \A x \in Fuzzed(i, j) : IsResult(x, unset)
      /\ \A x \in Fuzzed(j, i) : IsResult(x, unset)
  BY <1>1
<1> HIDE DEF Fuzzed
<1> QED BY <1>2, <1>3, DictEntriesAreBatches

\* The values of variables are of the types of the variables.
LEMMA VariableFacts ==
    ASSUME NEW unset, MethodsAreImplemented, NEW env, HasValues(env, unset)
    PROVE  /\ DOMAIN env.values \subseteq DOMAIN env.types
           /\ \A v \in DOMAIN env.types : IsType(env.types[v])
           /\ \A v \in DOMAIN env.values : HasType(env.values[v], env.types[v])
           /\ \A v \in DOMAIN env.types \ DOMAIN env.values : v \in unset
<1>1. /\ DOMAIN env.values \subseteq DOMAIN env.types
      /\ \A v \in DOMAIN env.values : TypeOfValue(env.values[v]) = env.types[v] /\ IsValue(env.values[v])
      /\ \A v \in DOMAIN env.types \ DOMAIN env.values : IsType(env.types[v]) /\ v \in unset
  BY DEF HasValues, IsTyped
<1> QED BY <1>1, ValueFacts DEF HasType

\* A data structure evaluates to values of the type calculated for it.
LEMMA DataIsEvaluated ==
    ASSUME NEW unset, MethodsAreImplemented, NEW d, DataIsParsed(d), DataIsSane(d),
           NEW ts, IsSequence(ts), \A k \in DOMAIN ts : IsType(ts[k]),
           Len(ts) = Len(Children(<<"data", d>>)),
           NEW env, HasValues(env, unset), NEW t, t = DataType(d, ts, env.types), t \notin {NoType, Broken},
           NEW parts, IsSequence(parts), Len(parts) = Len(ts),
           NEW mutants,
           \A k \in DOMAIN ts : /\ \A o \in parts[k] : IsOutcome(o, ts[k], unset)
                               /\ \A o \in mutants[k] : IsOutcome(o, ts[k], unset),
           NEW fuzzed
    PROVE  IsType(t) /\ \A o \in to_variant(d, t, env, parts, mutants, fuzzed) : IsMade(o, d, t, unset)
<1> DEFINE inferred == InferredType(d, ts, env.types)
<1>1. d.kind \in {"a", "r", "e"} => IsSequence(d.val)
  BY DEF DataIsParsed
<1>2. /\ d.kind \in {"a", "r"} => Children(<<"data", d>>) = d.val
      /\ d.kind = "v" => Children(<<"data", d>>) = <<d.val>>
      /\ d.kind = "e" => Children(<<"data", d>>) = Entries(d)
  BY DataChildren
<1>3. d.kind = "e" => Len(ts) = 2 * Len(d.val)
  BY <1>1, <1>2, EntriesFacts
<1>4. DOMAIN ts = 1..Len(ts)
  BY SequenceFacts
<1>5. /\ \A v \in DOMAIN env.types : IsType(env.types[v])
      /\ \A v \in DOMAIN env.values : HasType(env.values[v], env.types[v])
      /\ \A v \in DOMAIN env.types \ DOMAIN env.values : v \in unset
  BY VariableFacts
<1>6. d.annotation # InvalidType
  BY DEF DataIsSane
<1>7. /\ IsType(t) /\ IsSubtype(t, inferred) /\ inferred # Broken
      /\ IsType(inferred) => t = inferred
      /\ d.kind \in {"a", "r", "e"} => inferred = ContainerType(d, ts)
  <2>1. \A v \in DOMAIN env.types : IsType(env.types[v])
    BY <1>5
  <2> QED BY <1>3, <1>6, <2>1, TypeOfData
<1>8. \A k \in DOMAIN ts : /\ \A o \in parts[k] : IsResult(o, unset)
                           /\ \A o \in mutants[k] : IsResult(o, unset)
  BY OutcomesAreResults
<1>9. d.kind \in BasicTypes \cup {"a", "r", "e", "v", "h", "variable"}
  BY DEF DataIsParsed, Kinds
<1> DEFINE all == to_variant(d, t, env, parts, mutants, fuzzed)
<1> SUFFICES ASSUME NEW o \in all PROVE IsMade(o, d, t, unset)
  BY <1>7
<1> HIDE DEF all
<1>10. CASE d.kind \in BasicTypes
  <2>0. d.kind \notin {"a", "e", "r", "v", "h", "variable"}
    BY <1>10 DEF BasicTypes, IntegerTypes, UnsignedTypes, SignedTypes
  <2>1. o \in ScalarToVariant(d, env)
    BY <2>0, Zenon DEF all, to_variant
  <2>2. inferred = <<Kind(d)>> /\ Kind(d) \in BasicTypes
    BY <1>10, Inferred, KindFacts
  <2>3. t = <<Kind(d)>>
    BY <1>7, <2>2, TypesMade
  <2> QED BY <1>10, <2>1, <2>3, ScalarsAreSound
<1>11. CASE d.kind = "a"
  <2> DEFINE becomes == [k \in DOMAIN d.val |-> Elements(parts[k], mutants[k], fuzzed)]
  <2>1. o \in Built(t, becomes, fuzzed)
    BY <1>11, Zenon DEF all, to_variant
  <2>2. DOMAIN becomes = DOMAIN d.val /\ becomes = [k \in DOMAIN d.val |-> becomes[k]]
        /\ \A k \in DOMAIN d.val : becomes[k] = Elements(parts[k], mutants[k], fuzzed)
    OBVIOUS
  <2> HIDE DEF becomes
  <2>3. DOMAIN d.val = DOMAIN ts /\ IsSequence(becomes)
    BY <1>1, <1>2, <1>4, <1>11, <2>2, SequenceFacts, MappedSequence
  <2>4. \A k \in DOMAIN becomes : \A b \in becomes[k] : IsBatch(b, unset)
    BY <1>8, <2>2, <2>3, ElementsAreBatches
  <2>5. t = Array(t[2]) /\ IsType(t[2])
    <3>1. PICK x : ContainerType(d, ts) = Array(x)
      BY <1>11, Zenon DEF ContainerType
    <3> QED BY <1>7, <1>11, <3>1, SubtypeOfArray
  <2> QED BY <1>7, <2>1, <2>3, <2>4, <2>5, BuiltIsSound DEF IsMade
<1>12. CASE d.kind = "e"
  <2> DEFINE becomes == [k \in DOMAIN d.val |-> EntryOver(d, k, parts, mutants, fuzzed)]
  <2>1. o \in Built(t, becomes, fuzzed)
    BY <1>12, Zenon DEF all, to_variant
  <2>2. DOMAIN becomes = DOMAIN d.val /\ becomes = [k \in DOMAIN d.val |-> becomes[k]]
        /\ \A k \in DOMAIN d.val : becomes[k] = EntryOver(d, k, parts, mutants, fuzzed)
    OBVIOUS
  <2> HIDE DEF becomes
  <2>3. DOMAIN Entries(d) = DOMAIN ts /\ IsSequence(becomes)
    BY <1>1, <1>2, <1>4, <1>12, <2>2, EntriesFacts, SequenceFacts, MappedSequence
  <2>4. \A j \in DOMAIN Entries(d) : /\ \A x \in parts[j] : IsResult(x, unset)
                                    /\ \A x \in mutants[j] : IsResult(x, unset)
    BY <1>8, <2>3
  <2>6. ASSUME NEW k \in DOMAIN d.val, NEW b \in EntryOver(d, k, parts, mutants, fuzzed)
        PROVE  IsBatch(b, unset)
    BY <1>1, <1>12, <2>4, <2>6, EntryOverIsBatch
  <2>7. \A k \in DOMAIN becomes : \A b \in becomes[k] : IsBatch(b, unset)
    BY <2>2, <2>6
  <2>5. t = Array(t[2]) /\ IsType(t[2])
    <3>1. ContainerType(d, ts) = AnyDict \/ \E x, y : ContainerType(d, ts) = Dict(x, y)
      BY <1>12, Zenon DEF ContainerType
    <3>2. PICK x : ContainerType(d, ts) = Array(x)
      BY <3>1 DEF AnyDict, Dict
    <3> QED BY <1>7, <1>12, <3>2, SubtypeOfArray
  <2> QED BY <1>7, <2>1, <2>3, <2>7, <2>5, BuiltIsSound DEF IsMade
<1>13. CASE d.kind = "r"
  <2>1. ContainerType(d, ts) = Tuple(ts) /\ IsType(Tuple(ts))
    BY <1>13, TypesMade, Zenon DEF ContainerType
  <2>2. t = Tuple(ts)
    BY <1>7, <1>13, <2>1
  <2>3. o \in Then(InTurn(parts), LAMBDA s : {Variant(t, Payload(s))})
    BY <1>13, Zenon DEF all, to_variant
  <2>4. \A k \in DOMAIN ts : \A x \in parts[k] : IsOutcome(x, ts[k], unset)
    OBVIOUS
  <2>5. PICK s \in InTurn(parts) : IF IsAbort(s) THEN o = s ELSE o = Variant(t, Payload(s))
    BY <2>3 DEF Then
  <2> QED BY <1>7, <2>2, <2>4, <2>5, TuplesAreSound DEF IsMade
<1>14. CASE d.kind = "v"
  <2>1. inferred = <<"v">>
    BY <1>14, Inferred
  <2>2. t = <<"v">>
    BY <1>7, <2>1, TypesMade
  <2>3. 1 \in DOMAIN ts
    <3>1. Len(ts) = 1 /\ 1 \in 1..1
      BY <1>2, <1>14, OneParameter
    <3> QED BY <1>4, <3>1, Zenon
  <2>4. o \in Then(parts[1], LAMBDA v :
                     {Variant(<<"v">>, w) : w \in {v} \cup (IF fuzzed THEN OfAnotherType(v) ELSE {})})
    BY <1>14, Zenon DEF all, to_variant
  <2>5. PICK v \in parts[1] :
           IF IsAbort(v) THEN o = v
           ELSE \E w \in {v} \cup (IF fuzzed THEN OfAnotherType(v) ELSE {}) :
                  o = Variant(<<"v">>, w)
    BY <2>4 DEF Then
  <2>6. IsResult(v, unset)
    BY <1>8, <2>3
  <2>7. IsOutcome(o, <<"v">>, unset)
    BY <2>5, <2>6, BoxesAreSound
  <2> QED BY <2>2, <2>7 DEF IsMade
<1>15. CASE d.kind = "h"
  <2>1. inferred = <<"u">>
    BY <1>15, Inferred
  <2>2. "u" \in BasicTypes /\ "u" \in UnsignedTypes
    BY DEF BasicTypes, IntegerTypes, UnsignedTypes
  <2>3. t = <<"u">>
    BY <1>7, <2>1, <2>2, TypesMade
  <2>4. o = Variant(<<"u">>, d.val)
    <3>1. o \in {Variant(<<"u">>, d.val)}
      BY <1>15, Zenon DEF all, to_variant
    <3> QED BY <3>1
  <2>5. InRange("u", d.val)
    BY <1>15, <2>2, Ranges DEF DataIsParsed
  <2> QED BY <2>2, <2>3, <2>4, <2>5, BasicValue, ValuesAreOutcomes DEF IsMade
<1>16. CASE d.kind = "variable"
  <2>1. inferred = IF d.val \in DOMAIN env.types THEN env.types[d.val] ELSE Broken
    BY <1>16, Inferred
  <2>2. d.val \in DOMAIN env.types /\ inferred = env.types[d.val]
    BY <1>7, <2>1
  <2>3. t = env.types[d.val]
    BY <1>5, <1>7, <2>2
  <2>4. o \in {IF d.val \in DOMAIN env.values THEN env.values[d.val]
               ELSE Aborts("variable without value")}
    BY <1>16, Zenon DEF all, to_variant
  <2>5. CASE d.val \in DOMAIN env.values
    BY <1>5, <2>3, <2>4, <2>5, ValuesAreOutcomes DEF IsMade
  <2>6. CASE d.val \notin DOMAIN env.values
    <3>1. unset # {}
      BY <1>5, <2>2, <2>6
    <3>2. "variable without value" \in AbortsOfUse(unset)
      BY <3>1 DEF AbortsOfUse
    <3>3. o = Aborts("variable without value")
      BY <2>4, <2>6
    <3> QED BY <3>2, <3>3, AbortParts DEF IsMade, IsOutcome
  <2> QED BY <2>5, <2>6
<1> QED BY <1>9, <1>10, <1>11, <1>12, <1>13, <1>14, <1>15, <1>16

-----------------------------------------------------------------------------
(* Operators and calls.                                                    *)

\* The characters of basic types are those of no other types.
LEMMA BasicTypeIs ==
    ASSUME MethodsAreImplemented, NEW t, IsType(t), t[1] \in BasicTypes
    PROVE  t = <<t[1]>>
  BY TypeCases, NotBasic

\* Arithmetic gives a value of the type of its operands, if they are numbers.
LEMMA NumericIsSound ==
    ASSUME NEW unset, MethodsAreImplemented, NEW op \in NumericOperators, NEW t,
           NEW l, HasType(l, t), NEW r, HasType(r, t), NEW o \in Numeric(op, l, r)
    PROVE  IsOutcome(o, t, unset)
<1> DEFINE c == TypeOfValue(l)[1]
<1>1. /\ TypeOfValue(l) = t /\ TypeOfValue(r) = t /\ IsType(t) /\ c = t[1]
      /\ c \in BasicTypes => t = <<c>> /\ InRange(c, Payload(l)) /\ InRange(c, Payload(r))
  BY ValueFacts, BasicTypeIs DEF HasType
<1>2. CASE c \in IntegerTypes
  <2>1. o \in {Variant(<<c>>, n) : n \in Calculate(op, c, Payload(l), Payload(r))}
    <3>1. c # "d"
      BY <1>2 DEF IntegerTypes, UnsignedTypes, SignedTypes
    <3> QED BY <1>2, <3>1, Zenon DEF Numeric
  <2>2. c \in BasicTypes
    BY <1>2 DEF BasicTypes
  <2>3. PICK n \in Calculate(op, c, Payload(l), Payload(r)) : o = Variant(<<c>>, n)
    BY <2>1
  <2>4. InRange(c, n)
    BY <1>1, <1>2, <2>2, CalculatedIsInRange
  <2> QED BY <1>1, <2>2, <2>3, <2>4, BasicValue, ValuesAreOutcomes
<1>3. CASE c = "d"
  <2>1. c \notin IntegerTypes /\ c \in BasicTypes
    BY <1>3 DEF BasicTypes, IntegerTypes, UnsignedTypes, SignedTypes
  <2>2. o \in {Variant(<<"d">>, <<op, Payload(l), Payload(r)>>)}
    BY <1>3, <2>1, Zenon DEF Numeric
  <2> DEFINE p == <<op, Payload(l), Payload(r)>>
  <2>3. InRange("d", p)
    BY Ranges
  <2>4. o = Variant(<<"d">>, p)
    BY <2>2
  <2> HIDE DEF p
  <2>5. HasType(Variant(<<"d">>, p), <<"d">>)
    BY <1>3, <2>1, <2>3, BasicValue
  <2> QED BY <1>1, <1>3, <2>1, <2>4, <2>5, ValuesAreOutcomes
<1>4. CASE c \notin IntegerTypes /\ c # "d"
  <2>1. o \in {Aborts("operand is not numeric")}
    BY <1>4, Zenon DEF Numeric
  <2> QED BY <2>1, AbortParts DEF IsOutcome, AbortsOfUse
<1> QED BY <1>2, <1>3, <1>4

\* Comparing two values of a type gives a number.
LEMMA ComparisonsAreNumbers ==
    ASSUME MethodsAreImplemented, NEW t, NEW l, HasType(l, t), NEW r, HasType(r, t),
           NEW c \in Comparisons(l, r)
    PROVE  c \in Int
<1> DEFINE k == l[1][1]
<1>1. TypeOfValue(l)[1] = k /\ TypeOfValue(l) = t /\ TypeOfValue(r) = t /\ IsValue(l) /\ IsValue(r)
  BY DEF TypeOfValue, HasType
<1>2. Payload(l) = l[2] /\ Payload(r) = r[2]
  BY DEF Payload
<1>3. CASE k \in IntegerTypes
  <2>1. c \in {l[2] - r[2]}
    <3>1. k # "b" /\ k \notin {"d", "s", "o", "g"}
      BY <1>3 DEF IntegerTypes, UnsignedTypes, SignedTypes
    <3> QED BY <1>3, <3>1, Zenon DEF Comparisons
  <2>2. InRange(k, l[2]) /\ InRange(k, r[2])
    BY <1>1, <1>2, <1>3, ValueFacts DEF BasicTypes
  <2>3. \A p : InRange(k, p) => p \in Int
    <3>1. GreatestValue[k] \in Nat
      BY <1>3, WidthsAssumption
    <3> QED BY <1>3, <3>1, Ranges DEF IntegerTypes, Least
  <2>4. l[2] \in Int /\ r[2] \in Int
    BY <2>2, <2>3
  <2> QED BY <2>1, <2>4
<1>4. CASE k \notin IntegerTypes
  <2>1. \/ c \in {IF l = r THEN 0 ELSE IF r[2] THEN -1 ELSE 1}
        \/ c \in IF l = r THEN {0} ELSE {-1, 1}
        \/ c \in {0}
    <3>1. CASE k = "b"
      BY <1>4, <3>1, Zenon DEF Comparisons
    <3>2. CASE k \in {"d", "s", "o", "g"}
      <4>1. k # "b"
        BY <3>2
      <4> QED BY <1>4, <3>2, <4>1, Zenon DEF Comparisons
    <3>3. CASE k # "b" /\ k \notin {"d", "s", "o", "g"}
      BY <1>4, <3>3, Zenon DEF Comparisons
    <3> QED BY <3>1, <3>2, <3>3
  <2>2. c = 0 \/ c = -1 \/ c = 1
    BY <2>1, Zenon
  <2> QED BY <2>2
<1> QED BY <1>3, <1>4

\* Operators give values of the types calculated for them.
LEMMA OperatorsAreSound ==
    ASSUME NEW unset, MethodsAreImplemented, NEW op \in Operators, NEW lt, NEW rt, Typechecks(op, lt, rt),
           NEW l, HasType(l, lt), NEW r, HasType(r, rt), NEW o \in Operate(op, l, r)
    PROVE  IsOutcome(o, IF op \in NumericOperators THEN lt ELSE <<"b">>, unset)
<1>1. ASSUME NEW b \in BOOLEAN, op \notin NumericOperators, o = Boolean(b)
      PROVE  IsOutcome(o, IF op \in NumericOperators THEN lt ELSE <<"b">>, unset)
  BY <1>1, BooleanValue, ValuesAreOutcomes
<1>2. op \notin {"&&", "||"} => lt = rt
  BY DEF Typechecks
<1>3. CASE op \in NumericOperators
  <2>1. op \notin OrderOperators /\ op \notin {"==", "!=", "&&", "||"}
    BY <1>3 DEF NumericOperators, OrderOperators
  <2>2. o \in Numeric(op, l, r)
    BY <1>3, <2>1, Zenon DEF Operate
  <2> QED BY <1>2, <1>3, <2>1, <2>2, NumericIsSound
<1>4. CASE op \in OrderOperators
  <2>1. op \notin NumericOperators /\ op \notin {"&&", "||"} /\ op \in {"<", "<=", ">", ">="}
    BY <1>4 DEF NumericOperators, OrderOperators
  <2>2. o \in {Boolean(InOrder(op, c)) : c \in Comparisons(l, r)}
    BY <1>4, <2>1, Zenon DEF Operate
  <2>3. PICK c \in Comparisons(l, r) : o = Boolean(InOrder(op, c))
    BY <2>2
  <2>4. c \in Int
    BY <1>2, <2>1, ComparisonsAreNumbers
  <2>5. InOrder(op, c) \in BOOLEAN
    <3>1. (c < 0) \in BOOLEAN /\ (c <= 0) \in BOOLEAN /\ (c > 0) \in BOOLEAN /\ (c >= 0) \in BOOLEAN
      BY <2>4
    <3>2. CASE op = "<"
      BY <3>1, <3>2, Zenon DEF InOrder
    <3>3. CASE op = "<="
      BY <3>1, <3>3, Zenon DEF InOrder
    <3>4. CASE op = ">"
      BY <3>1, <3>4, Zenon DEF InOrder
    <3>5. CASE op = ">="
      BY <3>1, <3>5, Zenon DEF InOrder
    <3> QED BY <2>1, <3>2, <3>3, <3>4, <3>5
  <2> QED BY <1>1, <2>1, <2>3, <2>5
<1>5. CASE op \in {"==", "!=", "&&", "||"}
  <2>1. op \notin NumericOperators /\ op \notin OrderOperators
    BY <1>5 DEF NumericOperators, OrderOperators
  <2>2. CASE op = "=="
    <3>1. o \in {Boolean(l = r)}
      BY <2>1, <2>2, Zenon DEF Operate
    <3> QED BY <1>1, <2>1, <3>1
  <2>3. CASE op = "!="
    <3>1. o \in {Boolean(l # r)}
      BY <2>1, <2>3, Zenon DEF Operate
    <3> QED BY <1>1, <2>1, <3>1
  <2>4. CASE op = "&&"
    <3>1. o \in {Boolean(Payload(l) /\ Payload(r))}
      BY <2>1, <2>4, Zenon DEF Operate
    <3> QED BY <1>1, <2>1, <3>1
  <2>5. CASE op = "||"
    <3>1. o \in {Boolean(Payload(l) \/ Payload(r))}
      BY <2>1, <2>5, Zenon DEF Operate
    <3> QED BY <1>1, <2>1, <3>1
  <2> QED BY <1>5, <2>2, <2>3, <2>4, <2>5
<1> QED BY <1>3, <1>4, <1>5 DEF Operators, EqualityOperators

-----------------------------------------------------------------------------
(* Expressions are sound.                                                  *)

\* What an expression other than a data structure evaluates to, given its parts.
LEMMA OperatedIsSound ==
    ASSUME NEW unset, MethodsAreImplemented, NEW e, ~IsData(e),
           NEW ts, IsSequence(ts), \A k \in DOMAIN ts : IsType(ts[k]),
           Len(ts) = Len(Children(e)),
           \/ e[1] = "binary" /\ Children(e) = <<e[3], e[4]>> /\ e[2] \in Operators
           \/ e[1] = "not" /\ Children(e) = <<e[2]>>
           \/ e[1] = "call" /\ Children(e) = <<e[3]>> /\ e[2] \in FunctionNames,
           NEW env, CheckOver(e, ts, env.types) = "ok",
           NEW t, t = TypeOver(e, ts, env.types),
           NEW parts, \A k \in DOMAIN ts : \A o \in parts[k] : IsOutcome(o, ts[k], unset),
           NEW mutants, NEW fuzzed
    PROVE  IsType(t) /\ \A o \in ValueOver(e, t, ts, env, parts, mutants, fuzzed) : IsOutcome(o, t, unset)
<1> DEFINE all == ValueOver(e, t, ts, env, parts, mutants, fuzzed)
<1>0. IsType(<<"b">>) /\ DOMAIN ts = 1..Len(ts)
  BY TypesMade, SequenceFacts DEF BasicTypes
<1>1. CASE e[1] = "binary"
  <2> DEFINE op == e[2]
             l == ts[1]
             r == ts[2]
  <2>1. 1 \in DOMAIN ts /\ 2 \in DOMAIN ts
    <3>1. Len(ts) = 2
      BY <1>1, Pairs
    <3> QED BY <1>0, <3>1
  <2>2. t = IF op \in NumericOperators THEN l ELSE <<"b">>
    BY <1>1, Zenon DEF TypeOver
  <2>3. Typechecks(op, l, r)
    <3>1. Holds(Typechecks(op, l, r)) = "ok"
      BY <1>1, Zenon DEF CheckOver
    <3> QED BY <3>1 DEF Holds
  <2>4. all = Then(parts[1], LAMBDA x : Then(parts[2], LAMBDA y : Operate(op, x, y)))
    BY <1>1, Zenon DEF ValueOver
  <2> HIDE DEF all
  <2>5. ASSUME NEW o \in all PROVE IsOutcome(o, t, unset)
    <3>1. PICK x \in parts[1] :
             IF IsAbort(x) THEN o = x ELSE o \in Then(parts[2], LAMBDA y : Operate(op, x, y))
      BY <2>4, <2>5 DEF Then
    <3>2. IsOutcome(x, l, unset)
      BY <2>1
    <3>3. CASE IsAbort(x)
      BY <3>1, <3>2, <3>3 DEF IsOutcome
    <3>4. CASE ~IsAbort(x)
      <4>1. PICK y \in parts[2] : IF IsAbort(y) THEN o = y ELSE o \in Operate(op, x, y)
        BY <3>1, <3>4 DEF Then
      <4>2. IsOutcome(y, r, unset)
        BY <2>1
      <4>3. CASE IsAbort(y)
        BY <4>1, <4>2, <4>3 DEF IsOutcome
      <4>4. CASE ~IsAbort(y)
        <5>1. HasType(x, l) /\ HasType(y, r)
          BY <3>2, <3>4, <4>2, <4>4 DEF IsOutcome
        <5>2. op \in Operators
          BY <1>1
        <5> QED BY <2>2, <2>3, <4>1, <4>4, <5>1, <5>2, OperatorsAreSound
      <4> QED BY <4>3, <4>4
    <3> QED BY <3>3, <3>4
  <2>6. IsType(t)
    BY <1>0, <2>1, <2>2
  <2> QED BY <2>5, <2>6 DEF all
<1>2. CASE e[1] = "not"
  <2>1. 1 \in DOMAIN ts
    <3>1. Len(ts) = 1
      BY <1>2, OneParameter
    <3> QED BY <1>0, <3>1
  <2>2. t = <<"b">>
    BY <1>2, Zenon DEF TypeOver
  <2>3. all = Then(parts[1], LAMBDA v : {Boolean(~Payload(v))})
    BY <1>2, Zenon DEF ValueOver
  <2> HIDE DEF all
  <2>4. ASSUME NEW o \in all PROVE IsOutcome(o, t, unset)
    <3>1. PICK x \in parts[1] : IF IsAbort(x) THEN o = x ELSE o = Boolean(~Payload(x))
      BY <2>3, <2>4 DEF Then
    <3>2. CASE IsAbort(x)
      BY <2>1, <3>1, <3>2 DEF IsOutcome
    <3>3. CASE ~IsAbort(x)
      BY <2>2, <3>1, <3>3, BooleanValue, ValuesAreOutcomes
    <3> QED BY <3>2, <3>3
  <2> QED BY <1>0, <2>2, <2>4 DEF all
<1>3. CASE e[1] = "call"
  <2> DEFINE f == e[2]
             held == IsData(e[3]) /\ e[3][2].kind = "variable"
  <2>1. 1 \in DOMAIN ts
    <3>1. Len(ts) = 1
      BY <1>3, OneParameter
    <3> QED BY <1>0, <3>1
  <2>2. ts[1] # Broken /\ IsType(ts[1])
    BY <2>1, TypeCases
  <2>3. t = function_calculate_type(f, ts[1])
    BY <1>3, <2>2, Zenon DEF TypeOver
  <2>4. t \notin {NoType, Broken}
    <3>1. OfType(t) = "ok"
      BY <1>3, <2>3, Zenon DEF CheckOver
    <3>2. NoType # Broken
      BY Singles DEF NoType, Broken
    <3> QED BY <3>1, <3>2 DEF OfType
  <2>5. IsSound(f, ts[1], unset)
    BY <1>3, <2>2, <2>3, <2>4, FunctionsAreSound
  <2>6. all = function_evaluate(f, ts[1], parts[1], held)
    BY <1>3, Zenon DEF ValueOver
  <2> HIDE DEF held, all
  <2>7. \A p \in parts[1] : IsOutcome(p, ts[1], unset)
    BY <2>1
  <2> QED BY <2>3, <2>5, <2>6, <2>7 DEF IsSound, all
<1> QED BY <1>1, <1>2, <1>3

\* What the class of e makes of it, if it has passed its checks.
HasMadeValue(e, env, unset) ==
    (PreCheck(e) /\ Check(e, env.types) = "ok") =>
      LET t == CalculateType(e, env.types)
      IN  IsType(t) /\ \A o \in class_evaluate(e, env) : IsMade(o, e[2], t, unset)

\* If the parts of expressions are sound, so is what their class makes of them.
LEMMA ClassStep ==
    ASSUME NEW unset, MethodsAreImplemented, NEW n \in Nat, NEW env, HasValues(env, unset),
           \A c : IsParsed(n, c) => HasSoundValue(c, env, unset),
           NEW e, IsParsed(n + 1, e)
    PROVE  HasMadeValue(e, env, unset)
<1> SUFFICES ASSUME PreCheck(e), Check(e, env.types) = "ok"
             PROVE  /\ IsType(CalculateType(e, env.types))
                    /\ \A o \in class_evaluate(e, env) :
                          IsMade(o, e[2], CalculateType(e, env.types), unset)
  BY DEF HasMadeValue
<1> DEFINE all == env.types
           cs == Children(e)
           ts == ChildTypes(e, all)
           fuzzed == IsData(e) /\ ShouldBeFuzzed(e[2], env)
           Mutated(c) == IF fuzzed /\ IsData(c) THEN {MoreWeighted(c)} ELSE {}
           parts == [k \in DOMAIN cs |-> Evaluate(cs[k], env)]
           mutants == [k \in DOMAIN cs |-> UNION {Evaluate(m, env) : m \in Mutated(cs[k])}]
           t == TypeOver(e, ts, all)
<1>1. n + 1 \in Nat /\ (n + 1) - 1 = n
  OBVIOUS
<1>2. is_parsed(n + 1, e)
  BY <1>1 DEF MethodsAreImplemented
<1>3. /\ \/ e[1] = "data" /\ e = <<"data", e[2]>> /\ DataIsParsed(e[2]) /\ IsData(e)
         \/ e[1] = "binary" /\ Children(e) = <<e[3], e[4]>> /\ e[2] \in Operators /\ ~IsData(e)
         \/ e[1] = "not" /\ Children(e) = <<e[2]>> /\ ~IsData(e)
         \/ e[1] = "call" /\ Children(e) = <<e[3]>> /\ ~IsData(e)
      /\ IsSequence(cs)
      /\ \A k \in DOMAIN cs : IsParsed(n, cs[k])
  <2> DEFINE m == n + 1
  <2>1. is_parsed(m, e) /\ m - 1 = n
    BY <1>1, <1>2
  <2> HIDE DEF m
  <2> QED BY <2>1, ParsedParts
<1>4. /\ IsData(e) => DataIsSane(e[2])
      /\ e[1] = "call" => e[2] \in FunctionNames
      /\ \A k \in DOMAIN cs : PreCheck(cs[k]) /\ Check(cs[k], all) = "ok"
      /\ CheckOver(e, ts, all) = "ok"
  BY <1>3, CheckedParts
<1>5. \A k \in DOMAIN cs : HasSoundValue(cs[k], env, unset)
  BY <1>3
<1>6. /\ IsSequence(ts) /\ Len(ts) = Len(cs) /\ DOMAIN ts = DOMAIN cs
      /\ \A k \in DOMAIN cs : ts[k] = CalculateType(cs[k], all) /\ IsType(ts[k])
  <2>1. DOMAIN ts = DOMAIN cs /\ ts = [k \in DOMAIN cs |-> ts[k]]
    BY DEF ChildTypes
  <2>2. \A k \in DOMAIN cs : ts[k] = CalculateType(cs[k], all)
    BY DEF ChildTypes
  <2> HIDE DEF ts, cs
  <2>3. IsSequence(ts) /\ Len(ts) = Len(cs)
    BY <1>3, <2>1, MappedSequence
  <2>4. \A k \in DOMAIN cs : IsType(ts[k])
    BY <1>4, <1>5, <2>2 DEF HasSoundValue
  <2> QED BY <2>1, <2>2, <2>3, <2>4
<1>7. /\ IsSequence(parts) /\ Len(parts) = Len(ts)
      /\ \A k \in DOMAIN ts : \A o \in parts[k] : IsOutcome(o, ts[k], unset)
  <2>1. DOMAIN parts = DOMAIN cs /\ parts = [k \in DOMAIN cs |-> parts[k]]
    OBVIOUS
  <2>2. \A k \in DOMAIN cs : parts[k] = Evaluate(cs[k], env)
    OBVIOUS
  <2> HIDE DEF parts, ts, cs
  <2>3. IsSequence(parts) /\ Len(parts) = Len(cs)
    BY <1>3, <2>1, MappedSequence
  <2>4. \A k \in DOMAIN cs : \A o \in parts[k] : IsOutcome(o, ts[k], unset)
    BY <1>4, <1>5, <1>6, <2>2 DEF HasSoundValue
  <2> QED BY <1>6, <2>3, <2>4
<1>8. \A k \in DOMAIN ts : \A o \in mutants[k] : IsOutcome(o, ts[k], unset)
  <2> SUFFICES ASSUME NEW k \in DOMAIN cs, NEW o \in mutants[k] PROVE IsOutcome(o, ts[k], unset)
    BY <1>6
  <2> DEFINE c == cs[k]
  <2>1. IsData(c) /\ o \in Evaluate(MoreWeighted(c), env)
    OBVIOUS
  <2>2. /\ IsParsed(n, MoreWeighted(c)) /\ PreCheck(MoreWeighted(c)) = PreCheck(c)
        /\ Check(MoreWeighted(c), all) = Check(c, all)
        /\ CalculateType(MoreWeighted(c), all) = CalculateType(c, all)
    BY <1>3, <2>1, WeightedFacts
  <2>3. HasSoundValue(MoreWeighted(c), env, unset)
    BY <2>2
  <2>4. PreCheck(c) /\ Check(c, all) = "ok" /\ ts[k] = CalculateType(c, all)
    BY <1>4, <1>6
  <2> HIDE DEF c, ts, cs, mutants
  <2> QED BY <2>1, <2>2, <2>3, <2>4 DEF HasSoundValue
<1> HIDE DEF ts, parts, mutants, fuzzed
<1>9. IsType(t) /\ \A o \in ValueOver(e, t, ts, env, parts, mutants, fuzzed) : IsMade(o, e[2], t, unset)
  <2>1. CASE IsData(e)
    <3> DEFINE d == e[2]
    <3>1. e = <<"data", d>> /\ DataIsParsed(d) /\ DataIsSane(d)
      BY <1>3, <1>4, <2>1
    <3>2. t = DataType(d, ts, all)
      BY <2>1, Zenon DEF TypeOver, IsData
    <3>3. OfType(DataType(d, ts, all)) = "ok"
      <4>1. (IF d.kind = "variable" /\ d.val \notin DOMAIN all THEN "refused"
             ELSE OfType(DataType(d, ts, all))) = "ok"
        BY <1>4, <2>1, Zenon DEF CheckOver, IsData
      <4> QED BY <4>1
    <3>4. t \notin {NoType, Broken}
      <4>1. NoType # Broken
        BY Singles DEF NoType, Broken
      <4>2. OfType(t) = "ok"
        BY <3>2, <3>3, Zenon
      <4> HIDE DEF t
      <4> QED BY <4>1, <4>2 DEF OfType
    <3>5. ValueOver(e, t, ts, env, parts, mutants, fuzzed)
            = to_variant(d, t, env, parts, mutants, fuzzed)
      BY <2>1, Zenon DEF ValueOver, IsData
    <3>6. Len(ts) = Len(Children(<<"data", d>>))
      BY <1>6, <3>1, Zenon
    <3>7. \A k \in DOMAIN ts : IsType(ts[k])
      BY <1>6
    <3>8. \A k \in DOMAIN ts : /\ \A o \in parts[k] : IsOutcome(o, ts[k], unset)
                               /\ \A o \in mutants[k] : IsOutcome(o, ts[k], unset)
      BY <1>7, <1>8
    <3>9. IsSequence(ts) /\ IsSequence(parts) /\ Len(parts) = Len(ts)
      BY <1>6, <1>7
    <3>10. DataIsParsed(d) /\ DataIsSane(d)
      BY <3>1
    <3> HIDE DEF t, d, cs
    <3>11. IsType(t) /\ \A o \in to_variant(d, t, env, parts, mutants, fuzzed) : IsMade(o, d, t, unset)
      BY <3>2, <3>4, <3>6, <3>7, <3>8, <3>9, <3>10, DataIsEvaluated
    <3> QED BY <3>5, <3>11 DEF d
  <2>2. CASE ~IsData(e)
    <3>1. \A k \in DOMAIN ts : IsType(ts[k])
      BY <1>6
    <3>2. t = TypeOver(e, ts, all)
      OBVIOUS
    <3> HIDE DEF t
    <3>3. IsType(t) /\ \A o \in ValueOver(e, t, ts, env, parts, mutants, fuzzed) : IsOutcome(o, t, unset)
      BY <1>3, <1>4, <1>6, <1>7, <2>2, <3>1, <3>2, OperatedIsSound
    <3> QED BY <3>3 DEF IsMade
  <2> QED BY <2>1, <2>2
<1>10. CalculateType(e, all) = t
  <2>1. CalculateType(e, all) = calculate_type(e, all)
    BY DEF MethodsAreImplemented
  <2>2. TypeOf(e, all) = t
    BY Zenon DEF TypeOf, ts
  <2>3. t # NoType
    BY <1>9, TypeCases
  <2> HIDE DEF t
  <2> QED BY <2>1, <2>2, <2>3 DEF calculate_type
<1>11. class_evaluate(e, env) = ValueOver(e, t, ts, env, parts, mutants, fuzzed)
  BY Zenon DEF class_evaluate, TypeOf, ts, parts, mutants, fuzzed
<1> HIDE DEF t
<1> QED BY <1>9, <1>10, <1>11

\* Where a value is asserted, NULL ends the process.
LEMMA AssertedIsSound ==
    ASSUME NEW unset, MethodsAreImplemented, NEW e, NEW env, HasMadeValue(e, env, unset)
    PROVE  HasSoundValue(e, env, unset)
<1> DEFINE t == CalculateType(e, env.types)
<1> SUFFICES ASSUME PreCheck(e), Check(e, env.types) = "ok"
             PROVE  IsType(t) /\ \A o \in Evaluate(e, env) : IsOutcome(o, t, unset)
  BY DEF HasSoundValue
<1>1. IsType(t) /\ \A o \in class_evaluate(e, env) : IsMade(o, e[2], t, unset)
  BY DEF HasMadeValue
<1> HIDE DEF t
<1>2. Evaluate(e, env) = evaluate(e, env)
  BY DEF MethodsAreImplemented
<1>3. ASSUME NEW v \in Evaluate(e, env) PROVE IsOutcome(v, t, unset)
  <2>1. PICK o \in class_evaluate(e, env) :
          v = IF IsNull(o) THEN Aborts("not a signature") ELSE o
    BY <1>2 DEF evaluate
  <2>2. IsOutcome(Aborts("not a signature"), t, unset)
    BY AbortParts DEF IsOutcome, AbortsOfUse
  <2>3. CASE IsNull(o)
    BY <2>1, <2>2, <2>3
  <2>4. CASE ~IsNull(o)
    <3>1. o # Null
      BY <2>4 DEF IsNull, Null, Variant
    <3> QED BY <1>1, <2>1, <2>4, <3>1 DEF IsMade
  <2> QED BY <2>3, <2>4
<1> QED BY <1>1, <1>3

\* If the parts of expressions are sound, so are the expressions.
LEMMA ExpressionStep ==
    ASSUME NEW unset, MethodsAreImplemented, NEW n \in Nat, NEW env, HasValues(env, unset),
           \A c : IsParsed(n, c) => HasSoundValue(c, env, unset),
           NEW e, IsParsed(n + 1, e)
    PROVE  HasSoundValue(e, env, unset)
  BY ClassStep, AssertedIsSound

\* An expression that has passed its checks has a type, and where variables have
\* values it evaluates to values of that type, however deep it is nested: the
\* soundness of dfsm_ast_expression_evaluate () for all twelve functions, all
\* operators, all kinds of data and all that they may be fuzzed to.
THEOREM ExpressionsEvaluate ==
    ASSUME NEW unset, MethodsAreImplemented, NEW n \in Nat, NEW e, IsParsed(n, e), NEW env, HasValues(env, unset)
    PROVE  HasSoundValue(e, env, unset)
<1> DEFINE P == {k \in Nat : \A c : IsParsed(k, c) => HasSoundValue(c, env, unset)}
<1>1. 0 \in P
  <2>1. \A c : ~IsParsed(0, c)
    <3>1. \A c : IsParsed(0, c) = is_parsed(0, c)
      BY DEF MethodsAreImplemented
    <3>2. ~(0 > 0)
      OBVIOUS
    <3> QED BY <3>1, <3>2, Zenon DEF is_parsed
  <2> QED BY <2>1
<1>2. ASSUME NEW k \in Nat, k \in P PROVE k + 1 \in P
  <2>1. \A c : IsParsed(k + 1, c) => HasSoundValue(c, env, unset)
    BY <1>2, ExpressionStep
  <2> QED BY <2>1
<1>3. n \in P
  <2> HIDE DEF P
  <2>1. 0 \in Nat /\ 0 <= n /\ n \in 0..n
    OBVIOUS
  <2>2. \A k \in 0..(n - 1) : k \in P => k + 1 \in P
    BY <1>2
  <2>3. \A k \in 0..n : k \in P
    BY <1>1, <2>1, <2>2, UpTo, Zenon
  <2> QED BY <2>1, <2>3
<1> QED BY <1>3

\* The first value of a variable: nothing is asserted of what the class makes
\* of its data.
LEMMA FirstValues ==
    ASSUME NEW unset, MethodsAreImplemented, NEW n \in Nat, NEW e, IsParsed(n, e),
           NEW env, HasValues(env, unset)
    PROVE  HasMadeValue(e, env, unset)
<1> DEFINE m == n - 1
<1>1. is_parsed(n, e)
  BY DEF MethodsAreImplemented
<1>2. m \in Nat /\ m + 1 = n
  BY <1>1 DEF is_parsed
<1> HIDE DEF m
<1>3. \A c : IsParsed(m, c) => HasSoundValue(c, env, unset)
  BY <1>2, ExpressionsEvaluate
<1> QED BY <1>2, <1>3, ClassStep

-----------------------------------------------------------------------------
(* Assignments are sound.                                                  *)

\* What an assignment comes to where variables have the types all: values of
\* their types, or an end; a value of another type than its variable's is
\* found only if the left side and the value do not fit.
IsStored(o, all, fit, unset) ==
    IF IsAbort(o)
      THEN Payload(o) \in AbortsOfUse(unset) \/ (Payload(o) = "value of another type" /\ ~fit)
      ELSE IsTyped(all, Payload(o), unset)

\* The valuation after an assignment is no failure.
LEMMA ValuesParts ==
    ASSUME NEW s
    PROVE  ~IsAbort(Values(s)) /\ Payload(Values(s)) = s
<1>1. <<"values">>[1] = "values" /\ <<"aborted">>[1] = "aborted" /\ "values" # "aborted"
  BY Singles
<1> QED BY <1>1 DEF IsAbort, Values, Variant, Payload

\* An environment after an assignment.
LEMMA ValuesReplaced ==
    ASSUME NEW unset, NEW env, HasValues(env, unset), NEW after, IsTyped(env.types, after, unset)
    PROVE  LET now == [env EXCEPT !.values = after]
           IN  /\ HasValues(now, unset) /\ now.types = env.types /\ now.values = after
               /\ now.fuzzing = env.fuzzing
<1> DEFINE a == env.types
           b == env.values
           c == env.fuzzing
           now == [env EXCEPT !.values = after]
           r == [types |-> a, values |-> after, fuzzing |-> c]
           S == [types : {a}, values : {b}, fuzzing : {c}]
           R == [types : {a}, values : {after}, fuzzing : {c}]
<1>1. env = [types |-> a, values |-> b, fuzzing |-> c] /\ c \in BOOLEAN
  BY DEF HasValues
<1> HIDE DEF a, b, c
<1>2. env \in S
  BY <1>1, SMT
<1>3. now \in R
  BY <1>2, Zenon
<1>4. now = r
  <2> HIDE DEF now
  <2> QED BY <1>3, SMT
<1>5. r.types = a /\ r.values = after /\ r.fuzzing = c
  OBVIOUS
<1> HIDE DEF now, r
<1>6. now.types = a /\ now.values = after /\ now.fuzzing = c
  BY <1>4, <1>5
<1>7. now = [types |-> now.types, values |-> now.values, fuzzing |-> now.fuzzing]
  BY <1>4, <1>6 DEF r
<1>8. HasValues(now, unset)
  BY <1>1, <1>6, <1>7 DEF HasValues, a
<1> QED BY <1>6, <1>8 DEF now, a, c

\* Assignments one after the other.
Assigns(f, es, env, vs) ==
    /\ f[0] = {Values(env.values)}
    /\ \A k \in 1..Len(vs) : f[k] = SetNext(es[k], vs[k], env, f[k - 1])

\* What follows the first k of several assignments.
LEMMA SetRecursion ==
    ASSUME NEW es, NEW env, NEW vs, IsSequence(vs)
    PROVE  \E f : SetInTurn(es, env, vs) = f[Len(vs)] /\ Assigns(f, es, env, vs)
<1> DEFINE n == Len(vs)
           base == {Values(env.values)}
           J(done, k) == SetNext(es[k], vs[k], env, done)
           Body(f, m) == [k \in 0..m |-> IF k = 0 THEN base ELSE J(f[k - 1], k)]
           P == {m \in 0..n : \E f : f = Body(f, m)}
<1>1. n \in Nat /\ 0 \in 0..n /\ n \in 0..n /\ 0 \in Nat /\ 0 <= n
  BY SequenceFacts
<1>2. SetInTurn(es, env, vs) = (CHOOSE f : f = Body(f, n))[n]
  BY Zenon DEF SetInTurn
<1> HIDE DEF J, base
<1>3. 0 \in P
  <2> DEFINE f == [k \in 0..0 |-> base]
  <2>1. f = Body(f, 0)
    BY SMT
  <2> QED BY <1>1, <2>1
<1>4. ASSUME NEW m \in 0..(n - 1), m \in P PROVE m + 1 \in P
  <2>1. PICK f : f = Body(f, m)
    BY <1>4
  <2> DEFINE g == [k \in 0..(m + 1) |-> IF k = m + 1 THEN J(f[m], m + 1) ELSE f[k]]
  <2>2. ASSUME NEW k \in 0..(m + 1)
        PROVE  g[k] = IF k = 0 THEN base ELSE J(g[k - 1], k)
    <3>1. CASE k = m + 1
      <4>1. k # 0 /\ k - 1 = m /\ m \in 0..(m + 1) /\ m # m + 1
        BY <3>1, <1>1, SMT
      <4> QED BY <3>1, <4>1
    <3>2. CASE k # m + 1
      <4>1. k \in 0..m /\ (k # 0 => k - 1 \in 0..(m + 1) /\ k - 1 # m + 1)
        BY <3>2, <1>1, SMT
      <4>2. f[k] = IF k = 0 THEN base ELSE J(f[k - 1], k)
        BY <2>1, <4>1
      <4> QED BY <3>2, <4>1, <4>2
    <3> QED BY <3>1, <3>2
  <2>3. g = Body(g, m + 1)
    BY <2>2
  <2>4. m + 1 \in 0..n
    BY <1>1, SMT
  <2> QED BY <2>3, <2>4
<1>5. n \in P
  <2> HIDE DEF P
  <2>1. \A k \in 0..(n - 1) : k \in P => k + 1 \in P
    BY <1>4
  <2>2. \A k \in 0..n : k \in P
    BY <1>1, <1>3, <2>1, UpTo, Zenon
  <2> QED BY <1>1, <2>2
<1>6. PICK w : w = Body(w, n)
  BY <1>5
<1> DEFINE h == CHOOSE f : f = Body(f, n)
<1>7. h = Body(h, n)
  BY <1>6, Zenon
<1> HIDE DEF h
<1>8. h[0] = base /\ \A k \in 1..n : h[k] = J(h[k - 1], k)
  <2>1. \A k \in 0..n : h[k] = IF k = 0 THEN base ELSE J(h[k - 1], k)
    BY <1>7
  <2>2. \A k \in 1..n : k \in 0..n /\ k # 0
    BY <1>1, SMT
  <2> QED BY <1>1, <2>1, <2>2
<1>9. SetInTurn(es, env, vs) = h[n]
  BY <1>2 DEF h
<1>10. Assigns(h, es, env, vs)
  BY <1>8 DEF J, base, Assigns
<1> QED BY <1>9, <1>10

\* Assignments in turn are sound if each of them is.
LEMMA SetInTurnIsStored ==
    ASSUME NEW unset, NEW env, HasValues(env, unset), NEW es, NEW vs, IsSequence(vs), NEW fit,
           \A k \in 1..Len(vs) : \A now : (HasValues(now, unset) /\ now.types = env.types) =>
             \A o \in SetFromVariant(es[k][2], now, vs[k]) : IsStored(o, env.types, fit, unset),
           NEW x \in SetInTurn(es, env, vs)
    PROVE  IsStored(x, env.types, fit, unset)
<1> DEFINE n == Len(vs)
<1>1. n \in Nat /\ 0 \in 0..n /\ n \in 0..n /\ 0 \in Nat /\ 0 <= n
  BY SequenceFacts
<1>2. PICK f : SetInTurn(es, env, vs) = f[n] /\ Assigns(f, es, env, vs)
  BY SetRecursion
<1> DEFINE P == {k \in 0..n : \A o \in f[k] : IsStored(o, env.types, fit, unset)}
<1>3. 0 \in P
  <2>1. IsTyped(env.types, env.values, unset)
    BY DEF HasValues
  <2>2. IsStored(Values(env.values), env.types, fit, unset)
    BY <2>1, ValuesParts DEF IsStored
  <2> QED BY <1>1, <1>2, <2>2 DEF Assigns
<1>4. ASSUME NEW k \in 0..(n - 1), k \in P PROVE k + 1 \in P
  <2>1. k + 1 \in 1..n /\ k + 1 \in 0..n /\ (k + 1) - 1 = k
    BY <1>1, SMT
  <2>2. f[k + 1] = SetNext(es[k + 1], vs[k + 1], env, f[k])
    BY <1>2, <2>1 DEF Assigns
  <2>3. ASSUME NEW o \in f[k + 1] PROVE IsStored(o, env.types, fit, unset)
    <3> DEFINE Now(s) == [env EXCEPT !.values = Payload(s)]
    <3>1. PICK s \in f[k] :
             IF IsAbort(s) THEN o = s ELSE o \in SetFromVariant(es[k + 1][2], Now(s), vs[k + 1])
      BY <2>2, <2>3 DEF SetNext, Then
    <3>2. IsStored(s, env.types, fit, unset)
      BY <1>4
    <3>3. CASE IsAbort(s)
      BY <3>1, <3>2, <3>3
    <3>4. CASE ~IsAbort(s)
      <4>1. IsTyped(env.types, Payload(s), unset)
        BY <3>2, <3>4 DEF IsStored
      <4>2. HasValues(Now(s), unset) /\ Now(s).types = env.types
        BY <4>1, ValuesReplaced
      <4> HIDE DEF Now
      <4> QED BY <2>1, <3>1, <3>4, <4>2
    <3> QED BY <3>3, <3>4
  <2> QED BY <2>1, <2>3
<1>5. n \in P
  <2> HIDE DEF P, n
  <2>1. \A k \in 0..(n - 1) : k \in P => k + 1 \in P
    BY <1>4
  <2>2. \A k \in 0..n : k \in P
    BY <1>1, <1>3, <2>1, UpTo, Zenon
  <2> QED BY <1>1, <2>2
<1> QED BY <1>2, <1>5

\* What a checked data structure and its parts are: the parts are checked, and
\* the type is that of the variable or a container's.
DataFacts(n, d, e, all, t) ==
    /\ DataIsParsed(d) /\ IsSequence(Children(e)) /\ IsType(t)
    /\ \A k \in DOMAIN Children(e) :
         LET c == Children(e)[k]
         IN  n - 1 \in Nat /\ IsParsed(n - 1, c) /\ PreCheck(c) /\ Check(c, all) = "ok"
    /\ d.kind = "variable" => d.val \in DOMAIN all /\ t = all[d.val]
    /\ d.kind = "a" => t = Array(t[2])
    /\ d.kind = "r" => t = Tuple(t[2])
    /\ d.kind = "e" => t = Array(t[2]) /\ t[2] = Entry(t[2][2], t[2][3])

\* A data structure that has passed its checks, its type and its parts.
LEMMA CheckedData ==
    ASSUME NEW unset, MethodsAreImplemented, NEW n \in Nat, NEW d, NEW e, e = <<"data", d>>, IsParsed(n, e),
           NEW env, HasValues(env, unset), PreCheck(e), Check(e, env.types) = "ok",
           NEW t, t = CalculateType(e, env.types)
    PROVE  DataFacts(n, d, e, env.types, t)
<1> DEFINE all == env.types
           cs == Children(e)
           ts == ChildTypes(e, all)
           inferred == InferredType(d, ts, all)
<1>1. is_parsed(n, e) /\ n > 0 /\ e[1] = "data" /\ e[2] = d /\ IsData(e)
  <2>1. is_parsed(n, e)
    BY DEF MethodsAreImplemented
  <2>2. e[1] = "data" /\ e[2] = d
    BY Pairs
  <2> QED BY <2>1, <2>2 DEF is_parsed, IsData
<1>2. DataIsParsed(d) /\ IsSequence(cs) /\ \A k \in DOMAIN cs : IsParsed(n - 1, cs[k])
  BY <1>1, ParsedParts
<1>3. /\ DataIsSane(d) /\ CheckOver(e, ts, all) = "ok"
      /\ \A k \in DOMAIN cs : PreCheck(cs[k]) /\ Check(cs[k], all) = "ok"
  BY <1>1, <1>2, CheckedParts
<1>4. n - 1 \in Nat
  BY <1>1
<1>5. HasSoundValue(e, env, unset) /\ \A k \in DOMAIN cs : HasSoundValue(cs[k], env, unset)
  <2> DEFINE m == n - 1
  <2>1. m \in Nat /\ \A k \in DOMAIN cs : IsParsed(m, cs[k])
    BY <1>2, <1>4
  <2> HIDE DEF m
  <2> QED BY <2>1, ExpressionsEvaluate
<1>6. IsType(t)
  BY <1>5 DEF HasSoundValue
<1>7. /\ IsSequence(ts) /\ Len(ts) = Len(cs) /\ \A k \in DOMAIN ts : IsType(ts[k])
  <2>1. DOMAIN ts = DOMAIN cs /\ ts = [k \in DOMAIN cs |-> ts[k]]
    BY DEF ChildTypes
  <2>2. \A k \in DOMAIN cs : ts[k] = CalculateType(cs[k], all)
    BY DEF ChildTypes
  <2> HIDE DEF ts, cs
  <2>3. IsSequence(ts) /\ Len(ts) = Len(cs)
    BY <1>2, <2>1, MappedSequence
  <2>4. \A k \in DOMAIN cs : IsType(ts[k])
    BY <1>3, <1>5, <2>2 DEF HasSoundValue
  <2> QED BY <2>1, <2>3, <2>4
<1> HIDE DEF ts
<1>8. t = DataType(d, ts, all)
  <2>1. t = calculate_type(e, all)
    BY DEF MethodsAreImplemented
  <2>2. TypeOf(e, all) = TypeOver(e, ts, all)
    BY Zenon DEF TypeOf, ts
  <2>3. TypeOver(e, ts, all) = DataType(d, ts, all)
    BY <1>1, Zenon DEF TypeOver, IsData
  <2> DEFINE u == DataType(d, ts, all)
  <2>4. t = IF u = NoType THEN Broken ELSE u
    BY <2>1, <2>2, <2>3, Zenon DEF calculate_type
  <2>5. t # Broken
    BY <1>6, TypeCases
  <2> HIDE DEF u
  <2> QED BY <2>4, <2>5 DEF u
<1>9. t \notin {NoType, Broken}
  BY <1>6, TypeCases
<1>10. d.kind = "e" => Len(ts) = 2 * Len(d.val)
  <2>1. d.kind = "e" => cs = Entries(d) /\ IsSequence(d.val)
    BY <1>2, DataChildren DEF DataIsParsed
  <2> QED BY <1>7, <2>1, EntriesFacts
<1>11. \A v \in DOMAIN all : IsType(all[v])
  BY VariableFacts
<1>12. /\ IsSubtype(t, inferred) /\ inferred # Broken
       /\ IsType(inferred) => t = inferred
       /\ d.kind \in {"a", "r", "e"} => inferred = ContainerType(d, ts)
  <2>1. d.annotation # InvalidType
    BY <1>3 DEF DataIsSane
  <2> QED BY <1>2, <1>7, <1>8, <1>9, <1>10, <1>11, <2>1, TypeOfData
<1>13. ASSUME d.kind = "variable" PROVE d.val \in DOMAIN all /\ t = all[d.val]
  <2>1. inferred = IF d.val \in DOMAIN all THEN all[d.val] ELSE Broken
    BY <1>13, Inferred
  <2> HIDE DEF inferred
  <2> QED BY <1>11, <1>12, <2>1
<1>14. ASSUME d.kind = "a" PROVE t = Array(t[2])
  <2>1. PICK x : ContainerType(d, ts) = Array(x)
    BY <1>14, Zenon DEF ContainerType
  <2> QED BY <1>6, <1>12, <1>14, <2>1, SubtypeOfArray
<1>15. ASSUME d.kind = "r" PROVE t = Tuple(t[2])
  <2>1. ContainerType(d, ts) = Tuple(ts)
    BY <1>15, Zenon DEF ContainerType
  <2>2. IsType(Tuple(ts))
    BY <1>7, TypesMade
  <2>3. t = Tuple(ts)
    BY <1>12, <1>15, <2>1, <2>2
  <2> QED BY <2>3, TypeParts
<1>16. ASSUME d.kind = "e" PROVE t = Array(t[2]) /\ t[2] = Entry(t[2][2], t[2][3])
  <2>1. ContainerType(d, ts) = AnyDict \/ \E x, y : ContainerType(d, ts) = Dict(x, y)
    BY <1>16, Zenon DEF ContainerType
  <2>2. PICK x, y : ContainerType(d, ts) = Dict(x, y)
    BY <2>1 DEF AnyDict
  <2>3. t = Dict(t[2][2], t[2][3]) /\ t[2] = Entry(t[2][2], t[2][3])
    BY <1>6, <1>12, <1>16, <2>2, DictTypes
  <2> QED BY <2>3 DEF Dict
<1>17. \A k \in DOMAIN cs :
          n - 1 \in Nat /\ IsParsed(n - 1, cs[k]) /\ PreCheck(cs[k]) /\ Check(cs[k], all) = "ok"
  BY <1>2, <1>3, <1>4
<1> HIDE DEF inferred
<1> QED BY <1>2, <1>6, <1>13, <1>14, <1>15, <1>16, <1>17 DEF DataFacts

\* A variable takes a value that fits it.
LEMMA VariableIsStored ==
    ASSUME NEW unset, MethodsAreImplemented, NEW env, HasValues(env, unset), NEW name \in DOMAIN env.types,
           NEW v, IsValue(v)
    PROVE  IsStored(set_variable_value(name, env, v), env.types, TypeOfValue(v) = env.types[name], unset)
<1> DEFINE old == env.values
           all == env.types
           new == [n \in DOMAIN old \cup {name} |-> IF n = name THEN v ELSE old[n]]
<1>1. /\ DOMAIN old \subseteq DOMAIN all
      /\ \A n \in DOMAIN all : IsType(all[n])
      /\ \A n \in DOMAIN old : HasType(old[n], all[n])
      /\ \A n \in DOMAIN all \ DOMAIN old : n \in unset
  BY VariableFacts
<1>2. CASE IsSubtype(TypeOfValue(v), all[name])
  <2>1. set_variable_value(name, env, v) = Values(new)
    BY <1>2, Zenon DEF set_variable_value
  <2>2. TypeOfValue(v) = all[name]
    BY <1>1, <1>2, SameType
  <2>3. /\ DOMAIN new = DOMAIN old \cup {name}
        /\ \A n \in DOMAIN new : new[n] = IF n = name THEN v ELSE old[n]
    BY <1>1
  <2> HIDE DEF new
  <2>4. IsTyped(all, new, unset)
    BY <1>1, <2>2, <2>3 DEF IsTyped, HasType
  <2> QED BY <2>1, <2>4, ValuesParts DEF IsStored
<1>3. CASE ~IsSubtype(TypeOfValue(v), all[name])
  <2>1. set_variable_value(name, env, v) = Aborts("value of another type")
    BY <1>3, Zenon DEF set_variable_value
  <2>2. TypeOfValue(v) # all[name]
    BY <1>3, SubtypeFacts
  <2> QED BY <2>1, <2>2, AbortParts DEF IsStored
<1> QED BY <1>2, <1>3

\* What an assignment to a sound left side comes to.
CanStore(e, all, unset) ==
    (PreCheck(e) /\ Check(e, all) = "ok" /\ IsVariable(e)) =>
      \A env, v : (HasValues(env, unset) /\ env.types = all /\ IsValue(v)) =>
        \A o \in SetFromVariant(e[2], env, v) :
          IsStored(o, all, PlacesFit(e, all) /\ TypeOfValue(v) = CalculateType(e, all), unset)

\* Less is asked of an assignment that does not fit.
LEMMA StoredIf ==
    ASSUME NEW unset, NEW o, NEW all, NEW fit, IsStored(o, all, fit, unset), NEW more, more => fit
    PROVE  IsStored(o, all, more, unset)
  BY DEF IsStored

\* The parts of an array or a tuple, and the values that the parts of a value
\* of its type have.
LEMMA PlacesOfParts ==
    ASSUME MethodsAreImplemented, NEW d, NEW e, e = <<"data", d>>, d.kind \in {"a", "r"},
           NEW all, NEW t, t = CalculateType(e, all), IsType(t),
           d.kind = "a" => t = Array(t[2]), d.kind = "r" => t = Tuple(t[2]),
           PlacesFit(e, all), NEW v, HasType(v, t), NEW k \in DOMAIN d.val,
           k \in DOMAIN Contents(v)
    PROVE  /\ PlacesFit(d.val[k], all)
           /\ TypeOfValue(Contents(v)[k]) = CalculateType(d.val[k], all)
<1>1. e[2] = d
  BY Pairs
<1>2. places_fit(e, all)
  BY DEF MethodsAreImplemented
<1>3. TypeOfValue(v) = t
  BY DEF HasType
<1>4. CASE d.kind = "a"
  <2>1. CalculateType(d.val[k], all) = t[2] /\ PlacesFit(d.val[k], all)
    <3>1. \A j \in DOMAIN d.val : CalculateType(d.val[j], all) = t[2] /\ PlacesFit(d.val[j], all)
      BY <1>1, <1>2, <1>4, Zenon DEF places_fit
    <3> QED BY <3>1
  <2>2. t[1] = "a"
    BY <1>4, TypeParts
  <2>3. Contents(v) = Payload(v)
    BY <1>3, <2>2, ContentsAreValues DEF HasType
  <2>4. HasType(Contents(v)[k], t[2])
    BY <1>4, <2>3, ArrayValue
  <2> QED BY <2>1, <2>4 DEF HasType
<1>5. CASE d.kind = "r"
  <2>1. CalculateType(d.val[k], all) = t[2][k] /\ PlacesFit(d.val[k], all)
    <3>1. \A j \in DOMAIN d.val : CalculateType(d.val[j], all) = t[2][j] /\ PlacesFit(d.val[j], all)
      BY <1>1, <1>2, <1>5, Zenon DEF places_fit
    <3> QED BY <3>1
  <2>2. t[1] = "r"
    BY <1>5, TypeParts
  <2>3. Contents(v) = Payload(v)
    BY <1>3, <2>2, ContentsAreValues DEF HasType
  <2>4. HasType(Contents(v)[k], t[2][k])
    BY <1>5, <2>3, TupleValue
  <2> QED BY <2>1, <2>4 DEF HasType
<1> QED BY <1>4, <1>5

\* An assignment to an array or a tuple is one to each of its parts.
LEMMA PartsAreStored ==
    ASSUME NEW unset, MethodsAreImplemented, NEW d, NEW e, e = <<"data", d>>, d.kind \in {"a", "r"},
           IsSequence(d.val), NEW env, HasValues(env, unset),
           \A k \in DOMAIN d.val : /\ CanStore(d.val[k], env.types, unset) /\ IsVariable(d.val[k])
                                  /\ PreCheck(d.val[k]) /\ Check(d.val[k], env.types) = "ok",
           NEW t, t = CalculateType(e, env.types), IsType(t),
           d.kind = "a" => t = Array(t[2]), d.kind = "r" => t = Tuple(t[2]),
           NEW v, IsValue(v), NEW o \in set_from_variant(d, env, v)
    PROVE  IsStored(o, env.types, PlacesFit(e, env.types) /\ TypeOfValue(v) = t, unset)
<1> DEFINE all == env.types
           n == Smaller(Len(d.val), Len(Contents(v)))
           vs == SubSeq(Contents(v), 1, n)
           fit == PlacesFit(e, all) /\ TypeOfValue(v) = t
<1>1. o \in SetInTurn(d.val, env, vs)
  BY Zenon DEF set_from_variant
<1>2. IsSequence(Contents(v)) /\ \A k \in DOMAIN Contents(v) : IsValue(Contents(v)[k])
  BY ContentsAreValues
<1>3. /\ Len(d.val) \in Nat /\ Len(Contents(v)) \in Nat
      /\ DOMAIN d.val = 1..Len(d.val) /\ DOMAIN Contents(v) = 1..Len(Contents(v))
  BY <1>2, SequenceFacts
<1>4. n \in Nat /\ n <= Len(d.val) /\ n <= Len(Contents(v))
  BY <1>3, SmallerFacts
<1>5. IsSequence(vs) /\ Len(vs) = n /\ \A k \in 1..n : vs[k] = Contents(v)[k]
  <2> DEFINE s == Contents(v)
             S == ToSet(s)
             i == n + 1
  <2>1. s \in Seq(S) /\ i \in 1..(Len(s) + 1) /\ i - 1 = n
    <3>1. s \in Seq(S)
      BY <1>2 DEF IsSequence
    <3> HIDE DEF n, S, s
    <3> QED BY <1>3, <1>4, <3>1 DEF s
  <2> HIDE DEF s, S, i, n
  <2>2. /\ SubSeq(s, 1, n) \in Seq(S) /\ Len(SubSeq(s, 1, n)) = n
        /\ \A k \in 1..n : SubSeq(s, 1, n)[k] = s[k]
    BY <2>1, Parts
  <2> QED BY <2>2, SequenceOver DEF s
<1> HIDE DEF vs
<1>6. ASSUME NEW k \in 1..Len(vs), NEW now, HasValues(now, unset), now.types = all,
             NEW x \in SetFromVariant(d.val[k][2], now, vs[k])
      PROVE  IsStored(x, all, fit, unset)
  <2> DEFINE c == d.val[k]
             w == vs[k]
  <2>1. k \in DOMAIN d.val /\ k \in DOMAIN Contents(v) /\ w = Contents(v)[k]
    <3> HIDE DEF n
    <3>1. k \in 1..n
      BY <1>5
    <3> QED BY <1>3, <1>4, <1>5, <3>1
  <2>2. IsValue(w)
    BY <1>2, <2>1
  <2>3. IsStored(x, all, PlacesFit(c, all) /\ TypeOfValue(w) = CalculateType(c, all), unset)
    BY <1>6, <2>1, <2>2 DEF CanStore
  <2>4. fit => PlacesFit(c, all) /\ TypeOfValue(w) = CalculateType(c, all)
    BY <2>1, PlacesOfParts DEF HasType
  <2> HIDE DEF fit, c, w
  <2> QED BY <2>3, <2>4, StoredIf
<1> HIDE DEF fit
<1>7. IsStored(o, all, fit, unset)
  BY <1>1, <1>5, <1>6, SetInTurnIsStored
<1> QED BY <1>7 DEF fit

\* The expression a key stands for is that of an entry.
LEMMA AssigneeIsEntry ==
    ASSUME NEW d, NEW keys, IsSequence(keys), NEW key, Contains(keys, key)
    PROVE  \E j \in DOMAIN keys : Assignee(d, keys, key) = d.val[j][2]
<1> DEFINE n == Len(keys)
           places == {k \in DOMAIN keys : keys[k] = key}
           Greatest(k) == k \in places /\ \A j \in places : j <= k
           S == {n - k : k \in places}
<1>1. n \in Nat /\ DOMAIN keys = 1..n
  BY SequenceFacts
<1>2. PICK i \in 1..n : keys[i] = key
  BY DEF Contains
<1>3. S \in SUBSET Nat /\ S # {}
  <2>1. \A k \in places : n - k \in Nat
    <3> HIDE DEF n
    <3> QED BY <1>1
  <2> QED BY <1>1, <1>2, <2>1
<1>4. Min(S) \in S /\ \A k \in S : Min(S) <= k
  BY <1>3, LeastNatural
<1>5. PICK p \in places : Min(S) = n - p
  BY <1>4
<1>6. \A j \in places : j <= p
  <2>1. \A j \in places : n - p <= n - j
    BY <1>4, <1>5
  <2>2. \A j \in places : j \in Nat
    <3> HIDE DEF n
    <3> QED BY <1>1
  <2> DEFINE m == Len(keys)
  <2> HIDE DEF places, m
  <2>3. m \in Nat /\ \A j \in places : m - p <= m - j
    BY <1>1, <2>1 DEF m
  <2> QED BY <2>2, <2>3, SMT
<1> DEFINE q == CHOOSE k \in places : \A j \in places : j <= k
<1>7. q \in places
  BY <1>6
<1>8. Assignee(d, keys, key) = d.val[q][2]
  BY Zenon DEF Assignee
<1> HIDE DEF q
<1> QED BY <1>7, <1>8

\* The value in the entry of a dictionary whose type is that of the left side.
LEMMA PlaceOfEntry ==
    ASSUME MethodsAreImplemented, NEW d, NEW e, e = <<"data", d>>, d.kind = "e",
           NEW all, NEW t, t = CalculateType(e, all), IsType(t),
           t = Array(t[2]), t[2] = Entry(t[2][2], t[2][3]),
           PlacesFit(e, all), NEW v, HasType(v, t), NEW j \in DOMAIN d.val,
           NEW k \in DOMAIN Contents(v)
    PROVE  /\ PlacesFit(d.val[j][2], all)
           /\ TypeOfValue(Contents(Contents(v)[k])[2]) = CalculateType(d.val[j][2], all)
<1>1. e[2] = d
  BY Pairs
<1>2. places_fit(e, all)
  BY DEF MethodsAreImplemented
<1>3. CalculateType(d.val[j][2], all) = t[2][3] /\ PlacesFit(d.val[j][2], all)
  <2>1. \A i \in DOMAIN d.val :
           CalculateType(d.val[i][2], all) = t[2][3] /\ PlacesFit(d.val[i][2], all)
    BY <1>1, <1>2, Zenon DEF places_fit
  <2> QED BY <2>1
<1> DEFINE x == t[2][2]
           y == t[2][3]
           w == Contents(v)[k]
<1>4. t[1] = "a"
  BY TypeParts
<1>5. Contents(v) = Payload(v)
  BY <1>4, ContentsAreValues DEF HasType
<1>6. HasType(w, Entry(x, y))
  <2>1. HasType(v, Array(Entry(x, y)))
    BY Zenon
  <2> HIDE DEF x, y
  <2> QED BY <1>5, <2>1, ArrayValue
<1> HIDE DEF x, y, w
<1>7. HasType(Payload(w)[2], y)
  BY <1>6, EntryValue
<1>8. Contents(w) = Payload(w)
  <2>1. TypeOfValue(w)[1] = "e"
    BY <1>6, TypeParts DEF HasType
  <2> QED BY <1>6, <2>1, ContentsAreValues DEF HasType
<1> QED BY <1>3, <1>7, <1>8 DEF HasType, y, w

\* An assignment to a dictionary is sound if those to its values are.
LEMMA EntryIsStored ==
    ASSUME NEW unset, MethodsAreImplemented, NEW d, NEW e, e = <<"data", d>>, d.kind = "e",
           IsSequence(d.val), NEW env, HasValues(env, unset),
           \A k \in DOMAIN d.val :
              /\ CanStore(d.val[k][2], env.types, unset) /\ IsVariable(d.val[k][2])
              /\ PreCheck(d.val[k][2]) /\ Check(d.val[k][2], env.types) = "ok",
           NEW t, t = CalculateType(e, env.types), IsType(t),
           t = Array(t[2]), t[2] = Entry(t[2][2], t[2][3]),
           NEW v, IsValue(v), NEW keys, IsSequence(keys), Len(keys) = Len(d.val),
           NEW o \in SetEntry(d, env, v, keys)
    PROVE  IsStored(o, env.types, PlacesFit(e, env.types) /\ TypeOfValue(v) = t, unset)
<1> DEFINE all == env.types
           n == Len(Contents(v))
           i == Len(keys) + 1
           entry == Contents(Contents(v)[i])
           es == [k \in 1..n |-> Assignee(d, keys, entry[1])]
           vs == [k \in 1..n |-> entry[2]]
           fit == PlacesFit(e, all) /\ TypeOfValue(v) = t
<1>1. \/ o = Values(env.values)
      \/ o = Aborts("assigned entry")
      \/ /\ n # 0 /\ ~(n <= Len(keys)) /\ entry # <<>> /\ Contains(keys, entry[1])
         /\ Len(entry) # 1 /\ o \in SetInTurn(es, env, vs)
  <2>1. o \in IF n = 0 THEN {Values(env.values)}
              ELSE IF n <= Len(keys) \/ entry = <<>> \/ ~Contains(keys, entry[1])
                     THEN {Aborts("assigned entry")}
              ELSE IF Len(entry) = 1 THEN {Values(env.values)}
              ELSE SetInTurn(es, env, vs)
    BY Zenon DEF SetEntry
  <2> HIDE DEF n, entry, es, vs
  <2> QED BY <2>1
<1>2. CASE o = Values(env.values)
  BY <1>2, ValuesParts DEF IsStored, HasValues
<1>3. CASE o = Aborts("assigned entry")
  BY <1>3, AbortParts DEF IsStored, AbortsOfUse
<1>4. CASE /\ n # 0 /\ ~(n <= Len(keys)) /\ entry # <<>> /\ Contains(keys, entry[1])
           /\ Len(entry) # 1 /\ o \in SetInTurn(es, env, vs)
  <2>1. IsSequence(Contents(v)) /\ \A k \in DOMAIN Contents(v) : IsValue(Contents(v)[k])
    BY ContentsAreValues
  <2>2. /\ n \in Nat /\ Len(keys) \in Nat /\ DOMAIN Contents(v) = 1..n
        /\ DOMAIN d.val = 1..Len(d.val) /\ DOMAIN keys = 1..Len(keys)
    BY <2>1, SequenceFacts
  <2>3. i \in DOMAIN Contents(v)
    <3> HIDE DEF n
    <3>1. Len(keys) + 1 \in 1..n
      BY <1>4, <2>2
    <3> QED BY <2>2, <3>1
  <2>4. IsSequence(entry) /\ \A k \in DOMAIN entry : IsValue(entry[k])
    BY <2>1, <2>3, ContentsAreValues
  <2>5. IsValue(entry[2])
    <3> HIDE DEF entry
    <3>1. Len(entry) \in Nat /\ DOMAIN entry = 1..Len(entry) /\ (Len(entry) # 0)
      <4>1. entry \in Seq(ToSet(entry)) /\ Len(entry) \in Nat /\ DOMAIN entry = 1..Len(entry)
        BY <2>4, SequenceFacts
      <4> QED BY <1>4, <4>1, EmptySeq
    <3> DEFINE m == Len(entry)
    <3>2. m \in Nat /\ m # 0 /\ m # 1
      BY <1>4, <3>1
    <3> HIDE DEF m
    <3>3. 2 \in 1..m
      BY <3>2
    <3> QED BY <2>4, <3>1, <3>3 DEF m
  <2>6. PICK j \in DOMAIN keys : Assignee(d, keys, entry[1]) = d.val[j][2]
    <3> DEFINE key == entry[1]
    <3>1. Contains(keys, key)
      BY <1>4
    <3> HIDE DEF key
    <3>2. \E j \in DOMAIN keys : Assignee(d, keys, key) = d.val[j][2]
      BY <3>1, AssigneeIsEntry
    <3> QED BY <3>2 DEF key
  <2> DEFINE c == d.val[j][2]
             w == entry[2]
  <2>7. j \in DOMAIN d.val
    BY <2>2, <2>6
  <2>8. IsSequence(vs) /\ Len(vs) = n
    <3> HIDE DEF n, entry
    <3>1. DOMAIN vs = 1..n /\ vs = [k \in 1..n |-> vs[k]]
      OBVIOUS
    <3> HIDE DEF vs
    <3> QED BY <2>2, <3>1, NumberedSequence
  <2>9. \A k \in 1..n : es[k] = c /\ vs[k] = w
    BY <2>6
  <2>10. fit => PlacesFit(c, all) /\ TypeOfValue(w) = CalculateType(c, all)
    <3>1. ASSUME PlacesFit(e, all), HasType(v, t)
          PROVE  PlacesFit(c, all) /\ TypeOfValue(w) = CalculateType(c, all)
      BY <2>3, <2>7, <3>1, PlaceOfEntry
    <3> QED BY <3>1 DEF HasType
  <2> HIDE DEF es, vs, c, w, n, entry, fit
  <2>11. ASSUME NEW k \in 1..Len(vs), NEW now, HasValues(now, unset), now.types = all,
                NEW x \in SetFromVariant(es[k][2], now, vs[k])
         PROVE  IsStored(x, all, fit, unset)
    <3>1. x \in SetFromVariant(c[2], now, w)
      BY <2>8, <2>9, <2>11
    <3>2. CanStore(c, all, unset) /\ IsVariable(c) /\ PreCheck(c) /\ Check(c, all) = "ok"
      BY <2>7 DEF c
    <3>3. IsValue(w)
      BY <2>5 DEF w
    <3>4. IsStored(x, all, PlacesFit(c, all) /\ TypeOfValue(w) = CalculateType(c, all), unset)
      BY <2>11, <3>1, <3>2, <3>3 DEF CanStore
    <3> QED BY <2>10, <3>4, StoredIf
  <2>12. o \in SetInTurn(es, env, vs)
    BY <1>4
  <2>13. IsStored(o, all, fit, unset)
    BY <2>8, <2>11, <2>12, SetInTurnIsStored
  <2> QED BY <2>13 DEF fit
<1> QED BY <1>1, <1>2, <1>3, <1>4

\* If assignments to the parts of left sides are sound, so are those to the left
\* sides.
LEMMA StoreStep ==
    ASSUME NEW unset, MethodsAreImplemented, NEW n \in Nat, NEW all,
           \A c : IsParsed(n, c) => CanStore(c, all, unset),
           NEW e, IsParsed(n + 1, e)
    PROVE  CanStore(e, all, unset)
<1> SUFFICES ASSUME PreCheck(e), Check(e, all) = "ok", IsVariable(e),
                    NEW env, NEW v, HasValues(env, unset), env.types = all, IsValue(v),
                    NEW o \in SetFromVariant(e[2], env, v)
             PROVE  IsStored(o, all, PlacesFit(e, all) /\ TypeOfValue(v) = CalculateType(e, all), unset)
  BY DEF CanStore
<1> DEFINE d == e[2]
           t == CalculateType(e, all)
           cs == Children(e)
           m == n + 1
<1>1. is_variable(e) /\ o \in set_from_variant(d, env, v)
  BY DEF MethodsAreImplemented
<1>2. IsData(e) /\ d.kind \in {"variable", "a", "r", "e"}
  BY <1>1 DEF is_variable
<1>3. m \in Nat /\ m - 1 = n /\ IsParsed(m, e)
  OBVIOUS
<1> HIDE DEF m
<1>4. e = <<"data", d>>
  <2>1. is_parsed(m, e) /\ e[1] = "data"
    BY <1>2, <1>3 DEF MethodsAreImplemented, IsData
  <2> QED BY <2>1, Zenon DEF is_parsed
<1> HIDE DEF d
<1>5. /\ DataIsParsed(d) /\ IsType(t)
      /\ \A k \in DOMAIN cs : IsParsed(n, cs[k]) /\ PreCheck(cs[k]) /\ Check(cs[k], all) = "ok"
      /\ d.kind = "variable" => d.val \in DOMAIN all /\ t = all[d.val]
      /\ d.kind = "a" => t = Array(t[2])
      /\ d.kind = "r" => t = Tuple(t[2])
      /\ d.kind = "e" => t = Array(t[2]) /\ t[2] = Entry(t[2][2], t[2][3])
  <2>1. /\ HasValues(env, unset) /\ PreCheck(e) /\ Check(e, env.types) = "ok"
        /\ t = CalculateType(e, env.types)
    OBVIOUS
  <2> HIDE DEF t
  <2>2. DataFacts(m, d, e, env.types, t)
    BY <1>3, <1>4, <2>1, CheckedData
  <2> QED BY <1>3, <2>2 DEF DataFacts
<1>6. \A k \in DOMAIN cs : CanStore(cs[k], all, unset)
  BY <1>5
<1>7. d.kind \in {"a", "r", "e"} => IsSequence(d.val)
  BY <1>5 DEF DataIsParsed
<1>8. /\ d.kind \in {"a", "r"} => cs = d.val
      /\ d.kind = "e" => cs = Entries(d)
  BY <1>4, DataChildren, Zenon
<1>9. CASE d.kind = "variable"
  <2>1. o \in {set_variable_value(d.val, env, v)}
    BY <1>1, <1>9, Zenon DEF set_from_variant
  <2>2. IsStored(o, all, TypeOfValue(v) = t, unset)
    BY <1>5, <1>9, <2>1, VariableIsStored
  <2> QED BY <2>2, StoredIf
<1>10. CASE d.kind \in {"a", "r"}
  <2>1. \A k \in DOMAIN d.val : IsVariable(d.val[k])
    <3>1. e[2] = d /\ d.kind # "variable" /\ d.kind # "e"
      BY <1>10 DEF d
    <3> QED BY <1>1, <3>1, Zenon DEF is_variable
  <2>2. \A k \in DOMAIN d.val : /\ CanStore(d.val[k], all, unset) /\ IsVariable(d.val[k])
                                /\ PreCheck(d.val[k]) /\ Check(d.val[k], all) = "ok"
    BY <1>5, <1>6, <1>8, <1>10, <2>1
  <2> HIDE DEF t
  <2>3. t = CalculateType(e, all)
    BY DEF t
  <2>4. IsStored(o, all, PlacesFit(e, all) /\ TypeOfValue(v) = t, unset)
    BY <1>1, <1>4, <1>5, <1>7, <1>10, <2>2, <2>3, PartsAreStored
  <2> QED BY <2>3, <2>4
<1>11. CASE d.kind = "e"
  <2> DEFINE all_keys == [k \in DOMAIN d.val |-> Evaluate(d.val[k][1], env)]
  <2>1. IsSequence(d.val) /\ DOMAIN d.val = 1..Len(d.val)
    BY <1>7, <1>11, SequenceFacts
  <2>2. \A k \in DOMAIN d.val :
           /\ 2 * k - 1 \in DOMAIN cs /\ 2 * k \in DOMAIN cs
           /\ cs[2 * k - 1] = d.val[k][1] /\ cs[2 * k] = d.val[k][2]
    <3>1. cs = Entries(d)
      BY <1>8, <1>11
    <3>2. \A k \in 1..Len(d.val) :
             /\ 2 * k - 1 \in DOMAIN Entries(d) /\ 2 * k \in DOMAIN Entries(d)
             /\ Entries(d)[2 * k - 1] = d.val[k][1] /\ Entries(d)[2 * k] = d.val[k][2]
      BY <2>1, EntriesFacts
    <3> HIDE DEF cs
    <3> QED BY <2>1, <3>1, <3>2, Zenon
  <2>3. \A k \in DOMAIN d.val : IsVariable(d.val[k][2])
    <3>1. e[2] = d /\ d.kind # "variable" /\ d.kind \notin {"a", "r"}
      BY <1>11 DEF d
    <3> QED BY <1>1, <3>1, Zenon DEF is_variable
  <2>4. \A k \in DOMAIN d.val :
           /\ CanStore(d.val[k][2], all, unset) /\ IsVariable(d.val[k][2])
           /\ PreCheck(d.val[k][2]) /\ Check(d.val[k][2], all) = "ok"
    BY <1>5, <1>6, <2>2, <2>3
  <2>5. \A k \in DOMAIN d.val : HasSoundValue(d.val[k][1], env, unset)
    BY <1>5, <2>2, ExpressionsEvaluate
  <2>6. \A k \in DOMAIN d.val : PreCheck(d.val[k][1]) /\ Check(d.val[k][1], all) = "ok"
    BY <1>5, <2>2
  <2>7. \A k \in DOMAIN d.val : \A x \in Evaluate(d.val[k][1], env) : IsResult(x, unset)
    BY <2>5, <2>6, OutcomesAreResults DEF HasSoundValue
  <2>8. o \in Then(InTurn(all_keys), LAMBDA keys : SetEntry(d, env, v, Payload(keys)))
    BY <1>1, <1>11, Zenon DEF set_from_variant
  <2>9. PICK s \in InTurn(all_keys) :
           IF IsAbort(s) THEN o = s ELSE o \in SetEntry(d, env, v, Payload(s))
    BY <2>8 DEF Then
  <2>10. /\ DOMAIN all_keys = DOMAIN d.val /\ all_keys = [k \in DOMAIN d.val |-> all_keys[k]]
         /\ \A k \in DOMAIN d.val : all_keys[k] = Evaluate(d.val[k][1], env)
    OBVIOUS
  <2> HIDE DEF all_keys
  <2>11. IsSequence(all_keys) /\ Len(all_keys) = Len(d.val)
    BY <2>1, <2>10, MappedSequence
  <2>12. AreFirst(s, all_keys, Len(d.val))
    BY <2>11, InTurnMembers
  <2>13. CASE IsAbort(s)
    <3>1. PICK j \in 1..Len(d.val) : s \in all_keys[j]
      BY <2>11, <2>12, <2>13 DEF AreFirst
    <3>2. IsResult(s, unset)
      BY <2>1, <2>7, <2>10, <3>1
    <3> QED BY <2>9, <2>13, <3>2 DEF IsResult, IsStored
  <2>14. CASE ~IsAbort(s)
    <3>1. IsSequence(Payload(s)) /\ Len(Payload(s)) = Len(d.val)
      BY <2>12, <2>14 DEF AreFirst
    <3> HIDE DEF t
    <3>2. t = CalculateType(e, all)
      BY DEF t
    <3>3. IsStored(o, all, PlacesFit(e, all) /\ TypeOfValue(v) = t, unset)
      BY <1>4, <1>5, <1>11, <2>1, <2>4, <2>9, <2>14, <3>1, <3>2, EntryIsStored
    <3> QED BY <3>2, <3>3
  <2> QED BY <2>13, <2>14
<1> QED BY <1>2, <1>9, <1>10, <1>11

\* An assignment leaves every variable with a value of its type, however deep
\* the left side is nested, or ends the process; it finds a value of another
\* type than its variable's only if the annotation of an array or a dictionary
\* hides that the variables are of different types.
THEOREM AssignmentsStore ==
    ASSUME NEW unset, MethodsAreImplemented, NEW n \in Nat, NEW e, IsParsed(n, e), NEW all
    PROVE  CanStore(e, all, unset)
<1> DEFINE P == {k \in Nat : \A c : IsParsed(k, c) => CanStore(c, all, unset)}
<1>1. 0 \in P
  <2>1. \A c : ~IsParsed(0, c)
    <3>1. \A c : IsParsed(0, c) = is_parsed(0, c)
      BY DEF MethodsAreImplemented
    <3>2. ~(0 > 0)
      OBVIOUS
    <3> QED BY <3>1, <3>2, Zenon DEF is_parsed
  <2> QED BY <2>1
<1>2. ASSUME NEW k \in Nat, k \in P PROVE k + 1 \in P
  <2>1. \A c : IsParsed(k + 1, c) => CanStore(c, all, unset)
    BY <1>2, StoreStep
  <2> QED BY <2>1
<1>3. n \in P
  <2> HIDE DEF P
  <2>1. 0 \in Nat /\ 0 <= n /\ n \in 0..n
    OBVIOUS
  <2>2. \A k \in 0..(n - 1) : k \in P => k + 1 \in P
    BY <1>2
  <2>3. \A k \in 0..n : k \in P
    BY <1>1, <2>1, <2>2, UpTo, Zenon
  <2> QED BY <2>1, <2>3
<1> QED BY <1>3
-----------------------------------------------------------------------------
(* What objects take from the language.                                    *)

\* Where the expressions of a description are.
LEMMA ExpressionsIn ==
    ASSUME NEW o
    PROVE  /\ \A b \in ToSet(o.data) : \A name \in DOMAIN DataList(b) :
                <<"data", DataList(b)[name]>> \in ExpressionsOf(o)
           /\ \A t \in ToSet(o.transitions) :
                /\ \A p \in ToSet(t.preconditions) : p.condition \in ExpressionsOf(o)
                /\ \A s \in ToSet(t.statements) :
                     /\ s[1] = "assign" => <<"data", s[2]>> \in ExpressionsOf(o)
                     /\ s[1] # "throw" => ExpressionOf(s) \in ExpressionsOf(o)
<1> DEFINE InBlock(b) == {<<"data", DataList(b)[name]>> : name \in DOMAIN DataList(b)}
           Blocks == UNION {InBlock(b) : b \in ToSet(o.data)}
           Conditions(t) == {p.condition : p \in ToSet(t.preconditions)}
           Lefts(t) == {<<"data", s[2]>> : s \in {s \in ToSet(t.statements) : s[1] = "assign"}}
           Rights(t) == {IF s[1] = "reply" THEN s[2] ELSE s[3] :
                           s \in {s \in ToSet(t.statements) : s[1] # "throw"}}
           InTransition(t) == Conditions(t) \cup Lefts(t) \cup Rights(t)
           Transitions == UNION {InTransition(t) : t \in ToSet(o.transitions)}
<1>1. ExpressionsOf(o) = Blocks \cup Transitions
  BY Zenon DEF ExpressionsOf
<1>2. \A b \in ToSet(o.data) : \A name \in DOMAIN DataList(b) :
        <<"data", DataList(b)[name]>> \in Blocks
  OBVIOUS
<1>3. ASSUME NEW t, NEW p \in ToSet(t.preconditions) PROVE p.condition \in InTransition(t)
  OBVIOUS
<1>4. ASSUME NEW t, NEW s \in ToSet(t.statements), s[1] = "assign"
      PROVE  <<"data", s[2]>> \in InTransition(t)
  BY <1>4
<1>5. ASSUME NEW t, NEW s \in ToSet(t.statements), s[1] # "throw"
      PROVE  ExpressionOf(s) \in InTransition(t)
  <2>1. ExpressionOf(s) \in Rights(t)
    BY <1>5 DEF ExpressionOf
  <2> QED BY <2>1
<1> HIDE DEF InTransition
<1>6. \A t \in ToSet(o.transitions) : InTransition(t) \subseteq Transitions
  OBVIOUS
<1> HIDE DEF Blocks, Transitions
<1> QED BY <1>1, <1>2, <1>3, <1>4, <1>5, <1>6

\* Every expression of a description that can be loaded has values of the type
\* calculated for it.
LEMMA DescribedIsSound ==
    ASSUME NEW unset, MethodsAreImplemented, NEW o \in Descriptions, NEW e \in ExpressionsOf(o), NEW env
    PROVE  ExpressionIsSound(e, env, unset)
<1>1. MaxNesting \in Nat /\ IsParsed(MaxNesting, e)
  BY ParsedAssumption
<1>2. ASSUME IsRight(e, env, unset), NEW v \in Evaluate(e, env)
      PROVE  IF IsAbort(v) THEN Payload(v) \in AbortsOfUse(unset)
             ELSE TypeOfValue(v) = CalculateType(e, env.types) /\ IsValue(v)
  <2>1. HasSoundValue(e, env, unset)
    BY <1>1, <1>2, ExpressionsEvaluate DEF IsRight
  <2>2. IsOutcome(v, CalculateType(e, env.types), unset)
    BY <1>2, <2>1 DEF IsRight, HasSoundValue
  <2> QED BY <2>2 DEF IsOutcome, HasType
<1> QED BY <1>2 DEF ExpressionIsSound

\* Whatever the left side, an assignment to it of a value of its type leaves
\* variables with values of their types.
LEMMA DescribedIsStored ==
    ASSUME NEW unset, MethodsAreImplemented, NEW o \in Descriptions, NEW d,
           <<"data", d>> \in ExpressionsOf(o), NEW env, NEW v, IsValue(v)
    PROVE  AssignmentIsSound(d, env, v, unset)
<1> DEFINE left == <<"data", d>>
           all == env.types
<1>1. MaxNesting \in Nat /\ IsParsed(MaxNesting, left)
  BY ParsedAssumption
<1>2. left[2] = d
  BY Pairs
<1> HIDE DEF left
<1>3. ASSUME IsRight(left, env, unset), IsVariable(left),
             IsSubtype(TypeOfValue(v), CalculateType(left, all)),
             NEW after \in SetFromVariant(d, env, v)
      PROVE  IF IsAbort(after)
               THEN \/ Payload(after) \in AbortsOfUse(unset)
                    \/ Payload(after) = "value of another type" /\ ~PlacesFit(left, all)
               ELSE IsTyped(all, Payload(after), unset)
  <2>1. HasValues(env, unset) /\ PreCheck(left) /\ Check(left, all) = "ok"
    BY <1>3 DEF IsRight
  <2>2. IsType(CalculateType(left, all))
    BY <1>1, <2>1, ExpressionsEvaluate DEF HasSoundValue
  <2>3. TypeOfValue(v) = CalculateType(left, all)
    <3> DEFINE t == TypeOfValue(v)
               super == CalculateType(left, all)
    <3>1. IsType(super) /\ IsSubtype(t, super)
      BY <1>3, <2>2
    <3> HIDE DEF t, super
    <3>2. t = super
      BY <3>1, SameType
    <3> QED BY <3>2 DEF t, super
  <2>4. CanStore(left, all, unset)
    BY <1>1, AssignmentsStore
  <2>5. IsStored(after, all, PlacesFit(left, all) /\ TypeOfValue(v) = CalculateType(left, all), unset)
    BY <1>2, <1>3, <2>1, <2>4 DEF CanStore
  <2> QED BY <2>3, <2>5 DEF IsStored
<1> QED BY <1>3 DEF AssignmentIsSound, left

\* The same of what a statement evaluates, assigns and sends.
LEMMA DescribedStatement ==
    ASSUME NEW unset, MethodsAreImplemented, NEW o \in Descriptions, NEW t \in ToSet(o.transitions),
           NEW s \in ToSet(t.statements), NEW env
    PROVE  StatementIsSound(s, env, unset)
<1>1. s[1] \in {"assign", "emit", "reply", "throw"}
  BY DescriptionsAssumption
<1>2. s[1] = "assign" => <<"data", s[2]>> \in ExpressionsOf(o)
  BY ExpressionsIn
<1>3. s[1] # "throw" => ExpressionOf(s) \in ExpressionsOf(o)
  BY ExpressionsIn
<1> SUFFICES ASSUME s[1] # "throw"
             PROVE  /\ ExpressionIsSound(ExpressionOf(s), env, unset)
                    /\ IsRight(ExpressionOf(s), env, unset) =>
                         \A v \in Evaluate(ExpressionOf(s), env) :
                           ~IsAbort(v) =>
                             /\ s[1] = "assign" => AssignmentIsSound(s[2], env, v, unset)
                             /\ \A x \in TypesSent : IsSubtype(TypeOfValue(v), x) => TypeOfValue(v) = x
  BY Zenon DEF StatementIsSound
<1>4. ExpressionIsSound(ExpressionOf(s), env, unset)
  BY <1>3, DescribedIsSound
<1>5. ASSUME IsRight(ExpressionOf(s), env, unset), NEW v \in Evaluate(ExpressionOf(s), env), ~IsAbort(v)
      PROVE  /\ s[1] = "assign" => AssignmentIsSound(s[2], env, v, unset)
             /\ \A x \in TypesSent : IsSubtype(TypeOfValue(v), x) => TypeOfValue(v) = x
  <2>1. IsValue(v)
    BY <1>4, <1>5 DEF ExpressionIsSound
  <2>2. s[1] = "assign" => AssignmentIsSound(s[2], env, v, unset)
    BY <1>2, <2>1, DescribedIsStored
  <2>3. ASSUME NEW x \in TypesSent, IsSubtype(TypeOfValue(v), x) PROVE TypeOfValue(v) = x
    BY <2>3, IntrospectionAssumption, SubtypeFacts
  <2> QED BY <2>2, <2>3
<1> QED BY <1>4, <1>5

\* A type of values is not that of NULL, nor is an outcome of one NULL.
LEMMA OutcomesAreBuilt ==
    ASSUME NEW unset, MethodsAreImplemented, NEW o, NEW t, IsType(t), IsOutcome(o, t, unset)
    PROVE  IsAbort(o) \/ (~IsNull(o) /\ HasType(o, t))
<1>1. CASE IsAbort(o)
  BY <1>1
<1>2. CASE ~IsAbort(o)
  <2>1. HasType(o, t)
    BY <1>2 DEF IsOutcome
  <2>2. t # <<"null">>
    <3>1. "null" \notin BasicTypes \cup {"v", "a", "r", "e"} /\ <<"null">>[1] = "null"
      BY SMT DEF BasicTypes, IntegerTypes, UnsignedTypes, SignedTypes
    <3> QED BY <3>1, TypeCases
  <2>3. o[1] = t
    BY <2>1 DEF HasType, TypeOfValue
  <2> QED BY <2>1, <2>2, <2>3 DEF IsNull
<1> QED BY <1>1, <1>2

\* The first value of a variable of a description that can be loaded is of the
\* type calculated for it, unless GLib makes nothing of its literal.
LEMMA DescribedIsMade ==
    ASSUME NEW unset, MethodsAreImplemented, NEW o \in Descriptions, NEW d,
           <<"data", d>> \in ExpressionsOf(o), NEW env, IsRight(<<"data", d>>, env, unset),
           NEW v \in ToVariant(d, env)
    PROVE  LET t == CalculateType(<<"data", d>>, env.types)
           IN  IF IsAbort(v) THEN Payload(v) \in AbortsOfUse(unset)
               ELSE IF IsNull(v) THEN ~IsBuilt(d) /\ IsType(t)
               ELSE TypeOfValue(v) = t /\ IsValue(v)
<1> DEFINE e == <<"data", d>>
           t == CalculateType(e, env.types)
<1>1. MaxNesting \in Nat /\ IsParsed(MaxNesting, e)
  BY ParsedAssumption
<1>2. e[2] = d
  BY Pairs
<1>3. v \in class_evaluate(e, env) /\ (IsBuilt(d) <=> is_built(d))
  BY DEF MethodsAreImplemented
<1>4. PreCheck(e) /\ Check(e, env.types) = "ok" /\ HasValues(env, unset)
  BY DEF IsRight
<1> HIDE DEF e
<1>5. IsType(t) /\ IsMade(v, d, t, unset)
  BY <1>1, <1>2, <1>3, <1>4, FirstValues DEF HasMadeValue
<1> HIDE DEF t
<1>6. CASE IsOutcome(v, t, unset)
  <2>1. CASE IsAbort(v)
    BY <1>6, <2>1 DEF IsOutcome, t, e
  <2>2. CASE ~IsAbort(v)
    BY <1>5, <1>6, <2>2, OutcomesAreBuilt DEF HasType, t, e
  <2> QED BY <2>1, <2>2
<1>7. CASE v = Null /\ ~is_built(d)
  <2>1. IsNull(v) /\ ~IsAbort(v)
    <3>1. <<"null">> # <<"aborted">>
      BY SMT
    <3> QED BY <1>7, <3>1 DEF IsNull, IsAbort, Null, Variant
  <2> QED BY <1>3, <1>5, <1>7, <2>1 DEF t, e
<1> QED BY <1>5, <1>6, <1>7 DEF IsMade

\* An array is built of a sequence.
LEMMA ListsAreBuilt ==
    ASSUME MethodsAreImplemented, NEW v
    PROVE  ListIsBuilt(v)
<1> SUFFICES ASSUME IsValue(v), IsArray(TypeOfValue(v))
             PROVE  v = Variant(TypeOfValue(v), Payload(v)) /\ IsSequence(Payload(v))
  BY DEF ListIsBuilt
<1>1. v = Variant(TypeOfValue(v), Payload(v))
  BY ValueFacts
<1>2. TypeOfValue(v)[1] = "a"
  BY DEF IsArray
<1>3. IsSequence(Payload(v))
  BY <1>2, ContentsAreValues
<1> QED BY <1>1, <1>3

\* What AstObject takes from the language holds of every value, description and
\* environment, not only of those that the runs meet.
THEOREM LanguageIsSoundHolds ==
    ASSUME MethodsAreImplemented
    PROVE  LanguageIsSound
<1>1. \A v : ListIsBuilt(v)
  BY ListsAreBuilt
<1>2. ASSUME NEW o \in Descriptions, NEW env, NEW unset
      PROVE  DataIsSound(o, env, unset)
  <2>1. ASSUME NEW b \in ToSet(o.data), NEW name \in DOMAIN DataList(b)
        PROVE  <<"data", DataList(b)[name]>> \in ExpressionsOf(o)
    BY ExpressionsIn
  <2> QED BY <2>1, DescribedIsMade DEF DataIsSound
<1>3. ASSUME NEW o \in Descriptions, NEW env, NEW unset, NEW t \in ToSet(o.transitions)
      PROVE  TransitionIsSound(t, env, unset)
  <2>1. ASSUME NEW p \in ToSet(t.preconditions)
        PROVE  p.condition \in ExpressionsOf(o)
    BY ExpressionsIn
  <2>2. \A p \in ToSet(t.preconditions) : ExpressionIsSound(p.condition, env, unset)
    BY <2>1, DescribedIsSound
  <2>3. \A s \in ToSet(t.statements) : StatementIsSound(s, env, unset)
    BY DescribedStatement
  <2> QED BY <2>2, <2>3 DEF TransitionIsSound
<1> QED BY <1>1, <1>2, <1>3 DEF LanguageIsSound
-----------------------------------------------------------------------------
(* Objects whose expressions are those of the language.                    *)

\* Wherever an object evaluates an expression, or executes a statement after
\* others, the values are of the types calculated, in every state: the types of
\* the variables are those the checks have seen.
THEOREM ExpressionsAreSoundHolds ==
    ASSUME MethodsAreImplemented
    PROVE  Spec => []ExpressionsAreSound
<1>1. LanguageIsSound
  BY LanguageIsSoundHolds
<1>2. AcceptInv => ExpressionsAreSound
  <2> SUFFICES ASSUME AcceptInv
               PROVE  ExpressionsAreSound
    OBVIOUS
  <2>1. description \in Descriptions
    BY DEF AcceptInv
  <2>2. \A v \in DOMAIN values : ListIsBuilt(values[v])
    BY <1>1 DEF LanguageIsSound
  <2>3. DataIsSound(description, Environment, Unset)
    BY <1>1, <2>1 DEF LanguageIsSound
  <2>4. ASSUME NEW t \in ToSet(description.transitions), NEW env
        PROVE  TransitionIsSound(t, env, Unset)
    BY <1>1, <2>1 DEF LanguageIsSound
  <2>5. ASSUME NEW t \in ToSet(description.transitions), NEW k \in 2..Len(t.statements), NEW env
        PROVE  StatementIsSound(t.statements[k], env, Unset)
    <3>1. IsSequence(t.statements)
      BY <2>1, DescriptionsAssumption
    <3>2. t.statements[k] \in ToSet(t.statements)
      <4>1. k \in DOMAIN t.statements
        BY <3>1, SequenceFacts
      <4> QED BY <4>1 DEF ToSet
    <3> QED BY <2>4, <3>2 DEF TransitionIsSound
  <2> QED BY <2>2, <2>3, <2>4, <2>5 DEF ExpressionsAreSound
<1> QED BY <1>2, AlwaysAccepted, PTL

\* Under the language's own definitions, a variable that has a value always has
\* one of its declared type, down to its smallest part; and none is without a
\* value but those declared with a literal that is a type and no signature.
THEOREM ValuesKeepTheirTypes ==
    ASSUME MethodsAreImplemented
    PROVE  Spec => []ValuesAreOfTheirTypes
BY LanguageIsSoundHolds, ValuesAreOfTheirTypesHolds

\* Under the language's own definitions, what is sent has the types declared
\* for it, and a call is answered once.
THEOREM OutputIsAsDeclared ==
    ASSUME MethodsAreImplemented
    PROVE  Spec => []SentAsDeclared
BY LanguageIsSoundHolds, SentAsDeclaredHolds

\* Under the language's own definitions, an object fails only the assertions
\* that are known to be reachable; that a variable has a value, only if one is
\* without.
THEOREM AbortsAreKnown ==
    ASSUME MethodsAreImplemented
    PROVE  Spec => []OnlyKnownAborts
BY LanguageIsSoundHolds, OnlyKnownAbortsHolds

\* Under the language's own definitions, its functions undo and find one
\* another's changes to the values of variables.
THEOREM FunctionsUndoOneAnother ==
    ASSUME MethodsAreImplemented
    PROVE  Spec => []BuiltinsUndoOneAnother
BY LanguageIsSoundHolds, BuiltinsUndoOneAnotherHolds
=============================================================================
