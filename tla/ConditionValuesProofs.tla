----------------------- MODULE ConditionValuesProofs -----------------------
(***************************************************************************)
(* What evaluate_condition_expr does to bit patterns is what C17 6.5 does  *)
(* to the numbers they stand for, at every width of intmax_t that is at    *)
(* most half of the width the scanner computes with.                       *)
(*                                                                         *)
(* The provers know nothing of 2^n but that it is an integer.  What they   *)
(* are told is Doubling, the definition of the power; the rest is proved.  *)
(***************************************************************************)
EXTENDS ConditionValues, FiniteSetTheorems, WellFoundedInduction, TLAPS

Doubling == \A n \in Nat : 2^(n + 1) = 2 * 2^n

\* A target whose integers can be multiplied by their powers of two.
IsWidth(bits) == bits \in Nat /\ bits > 1 /\ HostBits \in Nat /\ 2 * bits - 1 <= HostBits

-----------------------------------------------------------------------------
(* Powers of two *)

\* By the order of the initial intervals: the library's induction on numbers
\* takes an operator.
LEMMA LeastExists ==
  ASSUME NEW T, T \subseteq Nat, T # {}
  PROVE  \E i \in T : \A j \in T : i <= j
<1> DEFINE below == {0..i : i \in T}
<1>1. below \subseteq FiniteSubsetsOf(Nat) /\ below # {}
  <2>1. ASSUME NEW i \in T
        PROVE  0..i \in SUBSET Nat /\ IsFiniteSet(0..i)
    BY FS_Interval
  <2> QED
    BY <2>1 DEF FiniteSubsetsOf
<1>2. PICK m \in below : \A x \in below : <<x, m>> \notin StrictSubsetOrdering(Nat)
  <2> DEFINE order == StrictSubsetOrdering(Nat)
             all   == FiniteSubsetsOf(Nat)
  <2>1. IsWellFoundedOn(order, all)
    BY FS_StrictSubsetOrderingWellFounded
  <2> HIDE DEF order, all, below
  <2>2. \E m \in below : \A x \in below : ~(<<x, m>> \in order)
    BY <1>1, <2>1, WFMin DEF all
  <2> QED
    BY <2>2 DEF order
<1>3. PICK i \in T : m = 0..i
  BY <1>2
<1>4. ASSUME NEW j \in T, j < i
      PROVE  FALSE
  <2>1. 0..j \in below /\ 0..j \subseteq Nat /\ m \subseteq Nat
    BY <1>3
  <2>2. 0..j \subseteq m /\ 0..j # m
    <3>1. i \in m /\ i \notin 0..j
      BY <1>3, <1>4
    <3> QED
      BY <1>3, <1>4, <3>1
  <2> QED
    BY <1>2, <2>1, <2>2 DEF StrictSubsetOrdering
<1> QED
  BY <1>4

LEMMA PowersArePositive ==
  ASSUME Doubling
  PROVE  \A n \in Nat : 2^n \in Nat \ {0}
<1> DEFINE bad == {n \in Nat : 2^n \notin Nat \ {0}}
<1>1. 2^0 = 1
  OBVIOUS
<1>2. SUFFICES ASSUME bad # {} PROVE FALSE
  OBVIOUS
<1>3. PICK m \in bad : \A j \in bad : m <= j
  BY <1>2, LeastExists
<1>4. m # 0
  <2>1. ASSUME m = 0 PROVE 2^m = 1
    BY <1>1, <2>1, Zenon
  <2> QED
    BY <1>3, <2>1
<1>5. m - 1 \in Nat /\ m - 1 \notin bad
  BY <1>3, <1>4
<1>6. 2^(m - 1 + 1) = 2 * 2^(m - 1)
  BY <1>5 DEF Doubling
<1>7. m - 1 + 1 = m
  BY <1>3
<1>8. 2^m = 2 * 2^(m - 1)
  BY <1>6, <1>7
<1> QED
  BY <1>3, <1>5, <1>8

LEMMA PowersAreProducts ==
  ASSUME Doubling, NEW m \in Nat
  PROVE  \A n \in Nat : 2^(m + n) = 2^m * 2^n
<1> DEFINE bad == {n \in Nat : 2^(m + n) # 2^m * 2^n}
<1>2. SUFFICES ASSUME bad # {} PROVE FALSE
  OBVIOUS
<1>3. PICK k \in bad : \A j \in bad : k <= j
  BY <1>2, LeastExists
<1>4. k # 0
  <2>1. 2^0 = 1 /\ m + 0 = m /\ 2^m \in Nat
    BY PowersArePositive
  <2>2. 2^(m + 0) = 2^m * 2^0
    <3>1. 2^(m + 0) = 2^m /\ 2^m * 2^0 = 2^m * 1
      BY <2>1, Zenon
    <3> QED
      BY <2>1, <3>1
  <2>3. ASSUME k = 0 PROVE 2^(m + k) = 2^m * 2^k
    BY <2>2, <2>3, Zenon
  <2> QED
    BY <1>3, <2>3
<1>5. k - 1 \in Nat /\ 2^(m + (k - 1)) = 2^m * 2^(k - 1)
  BY <1>3, <1>4
<1>6. 2^((m + (k - 1)) + 1) = 2 * 2^(m + (k - 1)) /\ 2^((k - 1) + 1) = 2 * 2^(k - 1)
  BY <1>5 DEF Doubling
<1>7. (m + (k - 1)) + 1 = m + k /\ (k - 1) + 1 = k
  BY <1>3
<1>8. 2^(m + k) = 2 * 2^(m + (k - 1)) /\ 2^k = 2 * 2^(k - 1)
  BY <1>6, <1>7
<1>9. 2^m \in Nat /\ 2^(k - 1) \in Nat
  BY <1>5, PowersArePositive
<1>10. \A x, y \in Nat : 2 * (x * y) = x * (2 * y)
  OBVIOUS
<1> QED
  BY <1>3, <1>5, <1>8, <1>9, <1>10

LEMMA PowersRise ==
  ASSUME Doubling, NEW m \in Nat, NEW n \in Nat, m <= n
  PROVE  2^m <= 2^n
<1>1. n - m \in Nat /\ m + (n - m) = n
  OBVIOUS
<1>2. 2^(m + (n - m)) = 2^m * 2^(n - m)
  BY <1>1, PowersAreProducts
<1>3. 2^n = 2^m * 2^(n - m)
  BY <1>1, <1>2
<1>4. 2^m \in Nat \ {0} /\ 2^(n - m) \in Nat \ {0}
  BY <1>1, PowersArePositive
<1>5. \A x, y \in Nat \ {0} : x <= x * y
  OBVIOUS
<1> QED
  BY <1>3, <1>4, <1>5

-----------------------------------------------------------------------------
(* Bit patterns and the numbers they stand for *)

LEMMA WidthFacts ==
  ASSUME Doubling, NEW bits, IsWidth(bits)
  PROVE  /\ bits \in Nat /\ bits - 1 \in Nat
         /\ 2^(bits - 1) \in Nat /\ 2^(bits - 1) >= 2 /\ 2^bits = 2 * 2^(bits - 1)
         /\ \A c \in 0..(bits - 1) : 2^c \in Nat \ {0} /\ 2^c <= 2^(bits - 1)
         /\ 2^(HostBits - 1) \in Nat /\ 2^HostBits = 2 * 2^(HostBits - 1)
         /\ 2^(bits - 1) * 2^(bits - 1) <= 2^(HostBits - 1)
<1>1. /\ bits \in Nat /\ bits - 1 \in Nat /\ bits - 1 >= 1 /\ (bits - 1) + 1 = bits
      /\ HostBits \in Nat /\ HostBits - 1 \in Nat /\ (HostBits - 1) + 1 = HostBits
      /\ (bits - 1) + (bits - 1) \in Nat /\ (bits - 1) + (bits - 1) <= HostBits - 1
  BY DEF IsWidth
<1>2. 2^(bits - 1) \in Nat /\ 2^(HostBits - 1) \in Nat
  BY <1>1, PowersArePositive
<1>3. 2^((bits - 1) + 1) = 2 * 2^(bits - 1) /\ 2^((HostBits - 1) + 1) = 2 * 2^(HostBits - 1)
  BY <1>1 DEF Doubling
<1>4. 2^bits = 2 * 2^(bits - 1) /\ 2^HostBits = 2 * 2^(HostBits - 1)
  BY <1>1, <1>3
<1>5. 2^(bits - 1) >= 2
  <2>1. 2^1 <= 2^(bits - 1)
    BY <1>1, PowersRise
  <2>2. 2^1 = 2
    OBVIOUS
  <2> QED
    BY <1>2, <2>1, <2>2
<1>6. ASSUME NEW c \in 0..(bits - 1)
      PROVE  2^c \in Nat \ {0} /\ 2^c <= 2^(bits - 1)
  <2>1. c \in Nat /\ c <= bits - 1
    BY <1>1
  <2> QED
    BY <1>1, <2>1, PowersArePositive, PowersRise
<1>7. 2^((bits - 1) + (bits - 1)) = 2^(bits - 1) * 2^(bits - 1)
  BY <1>1, PowersAreProducts
<1>8. 2^((bits - 1) + (bits - 1)) <= 2^(HostBits - 1)
  BY <1>1, PowersRise
<1> QED
  BY <1>1, <1>2, <1>4, <1>5, <1>6, <1>7, <1>8

ConditionValue(bits) ==
  {Value(pattern, unsigned, bits) : pattern \in 0..(2^bits - 1), unsigned \in BOOLEAN}

\* The number a value stands for.
Number(value, bits) == IF value.unsigned THEN value.bits ELSE AsSigned(value.bits, bits)

StandsFor(result, meaning, bits) ==
  /\ result.ok <=> meaning.defined
  /\ result.ok => result \in ConditionValue(bits) /\ Number(result, bits) = meaning.value

\* The modulus by its half, which is what the arithmetic of the leaves needs.
LEMMA SignedPatterns ==
  ASSUME NEW h \in Nat, h >= 2, NEW n \in (-h)..(h - 1)
  PROVE  n % (2 * h) = IF n >= 0 THEN n ELSE n + 2 * h
<1>1. CASE n >= 0
  BY <1>1
<1>2. CASE n < 0
  BY <1>2
<1> QED
  BY <1>1, <1>2

LEMMA ValueFields ==
  ASSUME NEW p, NEW u, NEW bits
  PROVE  /\ Value(p, u, bits).ok
         /\ Value(p, u, bits).bits = p % 2^bits
         /\ Value(p, u, bits).unsigned = u
BY DEF Value

LEMMA ValuesAreTyped ==
  ASSUME Doubling, NEW bits, IsWidth(bits), NEW value \in ConditionValue(bits)
  PROVE  /\ value.ok /\ value.unsigned \in BOOLEAN
         /\ value.bits \in Nat /\ value.bits < 2^bits
         /\ value = Value(value.bits, value.unsigned, bits)
<1>1. PICK p \in 0..(2^bits - 1), u \in BOOLEAN : value = Value(p, u, bits)
  BY DEF ConditionValue
<1>2. 2^bits \in Nat \ {0}
  BY WidthFacts
<1>3. p % 2^bits = p
  BY <1>2
<1>4. value.ok /\ value.bits = p /\ value.unsigned = u
  BY <1>1, <1>3, ValueFields
<1>5. value = Value(value.bits, value.unsigned, bits)
  BY <1>1, <1>4, Zenon
<1> QED
  BY <1>2, <1>4, <1>5

LEMMA ResultsAreTyped ==
  ASSUME Doubling, NEW bits, IsWidth(bits), NEW p \in Int, NEW u \in BOOLEAN
  PROVE  Value(p, u, bits) \in ConditionValue(bits)
<1>1. 2^bits \in Nat \ {0}
  BY WidthFacts
<1>2. p % 2^bits \in 0..(2^bits - 1) /\ (p % 2^bits) % 2^bits = p % 2^bits
  BY <1>1
<1>3. Value(p, u, bits) = Value(p % 2^bits, u, bits)
  BY <1>2 DEF Value
<1> QED
  BY <1>2, <1>3 DEF ConditionValue

\* An unsigned result stands for the number modulo the range of the type.
LEMMA UnsignedResult ==
  ASSUME Doubling, NEW bits, IsWidth(bits), NEW n \in Int, NEW u, u
  PROVE  StandsFor(Value(n, TRUE, bits), Fit(n, u, bits), bits)
<1>1. Value(n, TRUE, bits) \in ConditionValue(bits)
  BY ResultsAreTyped
<1> QED
  BY <1>1 DEF StandsFor, Number, Fit, Value

\* A signed result that is not refused stands for the number, in two's complement.
LEMMA SignedResult ==
  ASSUME Doubling, NEW bits, IsWidth(bits), NEW n \in Least(bits)..SignedMax(bits)
  PROVE  /\ Value(n, FALSE, bits) \in ConditionValue(bits)
         /\ Number(Value(n, FALSE, bits), bits) = n
<1> DEFINE h == 2^(bits - 1)
<1>1. h \in Nat /\ h >= 2 /\ 2^bits = 2 * h
  BY WidthFacts
<1>2. n \in (-h)..(h - 1)
  BY <1>1 DEF Least, SignedMax
<1>3. n \in Int
  BY <1>1, <1>2
<1>4. Value(n, FALSE, bits) \in ConditionValue(bits)
  BY <1>3, ResultsAreTyped
<1>5. Number(Value(n, FALSE, bits), bits) = AsSigned(n % 2^bits, bits)
  BY DEF Number, Value
<1>6. AsSigned(n % 2^bits, bits) = IF n % (2 * h) >= h THEN (n % (2 * h)) - 2 * h ELSE n % (2 * h)
  BY <1>1 DEF AsSigned
<1> HIDE DEF h
<1>7. n % (2 * h) = IF n >= 0 THEN n ELSE n + 2 * h
  BY <1>1, <1>2, SignedPatterns
<1>8. AsSigned(n % 2^bits, bits) = n
  BY <1>1, <1>2, <1>6, <1>7
<1> QED
  BY <1>4, <1>5, <1>8

LEMMA CheckedResult ==
  ASSUME Doubling, NEW bits, IsWidth(bits), NEW n \in Int, NEW u, ~u
  PROVE  /\ StandsFor(Checked(n, bits), Fit(n, u, bits), bits)
         /\ Checked(n, bits).ok => ~Checked(n, bits).unsigned
<1>1. CASE n \in Least(bits)..SignedMax(bits)
  <2>1. Checked(n, bits) = Value(n, FALSE, bits)
    BY <1>1 DEF Checked, Least
  <2>2. Fit(n, u, bits) = [defined |-> TRUE, value |-> n]
    BY <1>1 DEF Fit
  <2>3. Value(n, FALSE, bits).ok /\ ~Value(n, FALSE, bits).unsigned
    BY DEF Value
  <2>4. Fit(n, u, bits).defined /\ Fit(n, u, bits).value = n
    BY <2>2
  <2>5. Value(n, FALSE, bits) \in ConditionValue(bits) /\ Number(Value(n, FALSE, bits), bits) = n
    BY <1>1, SignedResult
  <2> QED
    BY <2>1, <2>3, <2>4, <2>5, Zenon DEF StandsFor
<1>2. CASE n \notin Least(bits)..SignedMax(bits)
  <2>1. Checked(n, bits) = Refused /\ Fit(n, u, bits) = Undefined
    BY <1>2 DEF Checked, Least, Fit
  <2> QED
    BY <2>1 DEF StandsFor, Refused, Undefined
<1> QED
  BY <1>1, <1>2

LEMMA BooleanResult ==
  ASSUME Doubling, NEW bits, IsWidth(bits), NEW holds
  PROVE  /\ StandsFor(Boolean(holds, bits), Truth(holds, bits), bits)
         /\ ~Boolean(holds, bits).unsigned
<1> DEFINE n == IF holds THEN 1 ELSE 0
<1>1. n \in Least(bits)..SignedMax(bits)
  BY WidthFacts DEF Least, SignedMax
<1>2. Boolean(holds, bits) = Value(n, FALSE, bits)
  BY DEF Boolean
<1>3. Truth(holds, bits) = [defined |-> TRUE, value |-> n]
  BY <1>1 DEF Truth, Fit
<1>4. Value(n, FALSE, bits).ok /\ ~Value(n, FALSE, bits).unsigned
  BY ValueFields
<1>5. Truth(holds, bits).defined /\ Truth(holds, bits).value = n
  BY <1>3
<1>6. Value(n, FALSE, bits) \in ConditionValue(bits) /\ Number(Value(n, FALSE, bits), bits) = n
  BY <1>1, SignedResult
<1> HIDE DEF n
<1> QED
  BY <1>2, <1>4, <1>5, <1>6, Zenon DEF StandsFor

-----------------------------------------------------------------------------
(* Operands *)

LEMMA SignedRange ==
  ASSUME Doubling, NEW bits, IsWidth(bits), NEW p \in Nat, p < 2^bits
  PROVE  /\ AsSigned(p, bits) \in Least(bits)..SignedMax(bits)
         /\ AsSigned(p, bits) % 2^bits = p
         /\ AsSigned(p, bits) = 0 <=> p = 0
<1> DEFINE h == 2^(bits - 1)
<1>1. h \in Nat /\ h >= 2 /\ 2^bits = 2 * h
  BY WidthFacts
<1>2. Least(bits) = -h /\ SignedMax(bits) = h - 1
  BY <1>1 DEF Least, SignedMax
<1>3. AsSigned(p, bits) = IF p >= h THEN p - 2 * h ELSE p
  BY <1>1 DEF AsSigned
<1> HIDE DEF h
<1>4. AsSigned(p, bits) \in (-h)..(h - 1)
  BY <1>1, <1>3
<1>5. AsSigned(p, bits) % (2 * h) = p
  BY <1>1, <1>3, <1>4, SignedPatterns
<1> QED
  BY <1>1, <1>2, <1>3, <1>4, <1>5

\* A value converted to the type of the operation: its bits, or their number.
LEMMA ConvertedOperand ==
  ASSUME Doubling, NEW bits, IsWidth(bits), NEW value \in ConditionValue(bits),
         NEW u, value.unsigned => u
  PROVE  LET a == Fit(Number(value, bits), u, bits).value IN
         /\ u => a = value.bits
         /\ ~u => a = AsSigned(value.bits, bits)
<1>1. value.bits \in Nat /\ value.bits < 2^bits /\ 2^bits \in Nat
  BY ValuesAreTyped, WidthFacts
<1>2. /\ AsSigned(value.bits, bits) \in Least(bits)..SignedMax(bits)
      /\ AsSigned(value.bits, bits) % 2^bits = value.bits
  BY <1>1, SignedRange
<1>3. value.bits % 2^bits = value.bits
  BY <1>1
<1>4. CASE u
  <2>1. Fit(Number(value, bits), u, bits).value = Number(value, bits) % 2^bits
    BY <1>4 DEF Fit
  <2> QED
    BY <1>2, <1>3, <1>4, <2>1 DEF Number
<1>5. CASE ~u
  <2>1. Number(value, bits) = AsSigned(value.bits, bits)
    BY <1>5 DEF Number
  <2>2. Fit(Number(value, bits), u, bits).value = Number(value, bits)
    BY <1>2, <1>5, <2>1 DEF Fit
  <2> QED
    BY <1>5, <2>1, <2>2
<1> QED
  BY <1>4, <1>5

-----------------------------------------------------------------------------
(* Division *)

LEMMA Division ==
  ASSUME NEW x \in Nat, NEW y \in Nat \ {0}
  PROVE  /\ x \div y \in Nat /\ x \div y <= x
         /\ y = 1 => x \div y = x
         /\ y # 1 /\ x # 0 => x \div y < x
         /\ x - y * (x \div y) \in 0..(y - 1)
<1>1. x \div y \in Nat /\ x - y * (x \div y) \in 0..(y - 1)
  OBVIOUS
<1>2. x \div y <= x
  BY <1>1
<1>3. ASSUME y = 1 PROVE x \div y = x
  BY <1>3
<1>4. ASSUME y # 1, x # 0 PROVE x \div y < x
  <2> DEFINE q == x \div y
  <2>1. q \in Nat /\ y * q <= x
    BY <1>1
  <2> HIDE DEF q
  <2>2. 2 * q <= y * q
    BY <1>4, <2>1
  <2>3. q < x
    BY <1>4, <2>1, <2>2
  <2> QED
    BY <2>3 DEF q
<1> QED
  BY <1>1, <1>2, <1>3, <1>4

LEMMA UnsignedDivision ==
  ASSUME NEW a \in Nat, NEW b \in Nat \ {0}
  PROVE  Quotient(a, b) = a \div b /\ Remainder(a, b) = a % b
<1>1. Quotient(a, b) = a \div b
  BY DEF Quotient, Magnitude
<1>2. a % b = a - b * (a \div b)
  OBVIOUS
<1> QED
  BY <1>1, <1>2 DEF Remainder

\* Only the least number has a quotient that its type does not hold.
LEMMA SignedDivision ==
  ASSUME NEW h \in Nat, h >= 2, NEW a \in (-h)..(h - 1), NEW b \in (-h)..(h - 1), b # 0
  PROVE  /\ Quotient(a, b) \in Int /\ Remainder(a, b) \in (-h)..(h - 1)
         /\ ~(a = -h /\ b = -1) => Quotient(a, b) \in (-h)..(h - 1)
         /\ a = -h /\ b = -1 => Quotient(a, b) = h
<1> DEFINE x == Magnitude(a)
           y == Magnitude(b)
           q == x \div y
<1>1. /\ x \in Nat /\ x <= h /\ (x = h => a = -h) /\ (a = -h => x = h)
      /\ x = (IF a < 0 THEN -a ELSE a)
      /\ y \in Nat \ {0} /\ y <= h /\ y = (IF b < 0 THEN -b ELSE b)
  BY DEF Magnitude
<1>2. Quotient(a, b) = IF (a < 0) = (b < 0) THEN q ELSE -q
  BY DEF Quotient
<1>3. Remainder(a, b) = a - b * Quotient(a, b)
  BY DEF Remainder
<1> HIDE DEF x, y
<1>4. q \in Nat /\ q <= x /\ (y = 1 => q = x) /\ (y # 1 /\ x # 0 => q < x)
  BY <1>1, Division
<1>5. x - y * q \in 0..(y - 1)
  BY <1>1, Division
<1> HIDE DEF q
<1>6. Quotient(a, b) \in Int /\ (a = -h /\ b = -1 => Quotient(a, b) = h)
  BY <1>1, <1>2, <1>4
<1>7. ASSUME ~(a = -h /\ b = -1) PROVE Quotient(a, b) \in (-h)..(h - 1)
  <2>1. CASE (a < 0) = (b < 0)
    BY <1>1, <1>2, <1>4, <1>7, <2>1
  <2>2. CASE (a < 0) # (b < 0)
    BY <1>1, <1>2, <1>4, <2>2
  <2> QED
    BY <2>1, <2>2
<1>8. Remainder(a, b) \in {x - y * q, -(x - y * q)}
  <2>0. \A m, n \in Int : (-m) * n = -(m * n) /\ m * (-n) = -(m * n)
    OBVIOUS
  <2>1. y * q \in Int
    BY <1>1, <1>4
  <2>2. CASE a >= 0 /\ b > 0
    BY <1>1, <1>2, <1>3, <1>4, <2>2
  <2>3. CASE a >= 0 /\ b < 0
    <3>1. b = -y /\ Quotient(a, b) = -q /\ a = x
      BY <1>1, <1>2, <2>3
    <3>2. b * Quotient(a, b) = y * q
      BY <1>1, <1>4, <2>0, <3>1
    <3> QED
      BY <1>3, <3>1, <3>2
  <2>4. CASE a < 0 /\ b > 0
    <3>1. b = y /\ Quotient(a, b) = -q /\ a = -x
      BY <1>1, <1>2, <2>4
    <3>2. b * Quotient(a, b) = -(y * q)
      BY <1>1, <1>4, <2>0, <3>1
    <3> QED
      BY <1>1, <1>3, <2>1, <3>1, <3>2
  <2>5. CASE a < 0 /\ b < 0
    <3>1. b = -y /\ Quotient(a, b) = q /\ a = -x
      BY <1>1, <1>2, <2>5
    <3>2. b * Quotient(a, b) = -(y * q)
      BY <1>1, <1>4, <2>0, <3>1
    <3> QED
      BY <1>1, <1>3, <2>1, <3>1, <3>2
  <2> QED
    BY <1>1, <2>2, <2>3, <2>4, <2>5
<1>9. Remainder(a, b) \in (-h)..(h - 1)
  BY <1>1, <1>5, <1>8
<1> QED
  BY <1>6, <1>7, <1>9

-----------------------------------------------------------------------------
(* Operations *)

\* Where the standard leaves undefined what the scanner answers with 0: the
\* remainder of a division that overflows.
Overflows(op, a, b, unsigned, bits) ==
  op = "%" /\ ~unsigned /\ a = Least(bits) /\ b = -1

Operations == Additive \cup Multiplicative \cup Relations

LEMMA OperatedUnsigned ==
  ASSUME Doubling, NEW bits, IsWidth(bits),
         NEW left \in ConditionValue(bits), NEW right \in ConditionValue(bits),
         NEW u, u, NEW op \in Additive \cup Multiplicative
  PROVE  /\ StandsFor(Operated(op, u, left, right, bits),
                      Meant(op, left.bits, right.bits, u, bits), bits)
         /\ Operated(op, u, left, right, bits).ok => Operated(op, u, left, right, bits).unsigned
<1> DEFINE a == left.bits
           b == right.bits
<1>1. a \in Nat /\ b \in Nat
  BY ValuesAreTyped
<1>2. ASSUME NEW n \in Int
      PROVE  /\ StandsFor(Value(n, TRUE, bits), Fit(n, u, bits), bits)
             /\ Value(n, TRUE, bits).unsigned
  BY UnsignedResult, ValueFields
<1>3. CASE op = "+"
  <2>1. Operated(op, u, left, right, bits) = Value(a + b, TRUE, bits)
    BY <1>3 DEF Operated, Relations
  <2>2. Meant(op, a, b, u, bits) = Fit(a + b, u, bits)
    BY <1>3 DEF Meant, Relations
  <2>3. a + b \in Int
    BY <1>1
  <2> HIDE DEF a, b
  <2> QED
    BY <1>2, <2>1, <2>2, <2>3 DEF a, b
<1>4. CASE op = "-"
  <2>1. Operated(op, u, left, right, bits) = Value(a - b, TRUE, bits)
    BY <1>4 DEF Operated, Relations
  <2>2. Meant(op, a, b, u, bits) = Fit(a - b, u, bits)
    BY <1>4 DEF Meant, Relations
  <2>3. a - b \in Int
    BY <1>1
  <2> HIDE DEF a, b
  <2> QED
    BY <1>2, <2>1, <2>2, <2>3 DEF a, b
<1>5. CASE op = "*"
  <2>1. Operated(op, u, left, right, bits) = Value(a * b, TRUE, bits)
    BY <1>5 DEF Operated, Relations
  <2>2. Meant(op, a, b, u, bits) = Fit(a * b, u, bits)
    BY <1>5 DEF Meant, Relations
  <2>3. a * b \in Int
    BY <1>1
  <2> HIDE DEF a, b
  <2> QED
    BY <1>2, <2>1, <2>2, <2>3 DEF a, b
<1>6. CASE op \in {"/", "%"} /\ b = 0
  <2>1. Operated(op, u, left, right, bits) = Refused
    BY <1>6 DEF Operated, Relations
  <2>2. Meant(op, a, b, u, bits) = Undefined
    BY <1>6 DEF Meant, Relations
  <2>3. ~Refused.ok /\ ~Undefined.defined
    BY DEF Refused, Undefined
  <2> QED
    BY <2>1, <2>2, <2>3, Zenon DEF StandsFor
<1>7. CASE op = "/" /\ b # 0
  <2>1. Operated(op, u, left, right, bits) = Value(a \div b, TRUE, bits)
    BY <1>7 DEF Operated, Relations
  <2>2. Quotient(a, b) = a \div b /\ a \div b \in Int
    BY <1>1, <1>7, UnsignedDivision
  <2>3. Meant(op, a, b, u, bits) = Fit(Quotient(a, b), u, bits)
    BY <1>7 DEF Meant, Relations, Fit
  <2> QED
    BY <1>2, <2>1, <2>2, <2>3
<1>8. CASE op = "%" /\ b # 0
  <2>1. Operated(op, u, left, right, bits) = Value(a % b, TRUE, bits)
    BY <1>8 DEF Operated, Relations
  <2>2. Remainder(a, b) = a % b /\ a % b \in Int
    BY <1>1, <1>8, UnsignedDivision
  <2>3. Meant(op, a, b, u, bits) = Fit(Remainder(a, b), u, bits)
    BY <1>8 DEF Meant, Relations, Fit
  <2> QED
    BY <1>2, <2>1, <2>2, <2>3
<1> QED
  BY <1>3, <1>4, <1>5, <1>6, <1>7, <1>8 DEF Additive, Multiplicative

LEMMA OperatedSigned ==
  ASSUME Doubling, NEW bits, IsWidth(bits),
         NEW left \in ConditionValue(bits), NEW right \in ConditionValue(bits),
         NEW u, ~u, NEW op \in Additive \cup Multiplicative,
         ~Overflows(op, AsSigned(left.bits, bits), AsSigned(right.bits, bits), u, bits)
  PROVE  /\ StandsFor(Operated(op, u, left, right, bits),
                      Meant(op, AsSigned(left.bits, bits), AsSigned(right.bits, bits), u, bits),
                      bits)
         /\ Operated(op, u, left, right, bits).ok => ~Operated(op, u, left, right, bits).unsigned
<1> DEFINE a == AsSigned(left.bits, bits)
           b == AsSigned(right.bits, bits)
           h == 2^(bits - 1)
<1>0. h \in Nat /\ h >= 2 /\ Least(bits) = -h /\ SignedMax(bits) = h - 1
  BY WidthFacts DEF Least, SignedMax
<1>1. /\ a \in (-h)..(h - 1) /\ b \in (-h)..(h - 1)
      /\ b = 0 <=> right.bits = 0
  BY <1>0, ValuesAreTyped, SignedRange
<1>2. ASSUME NEW n \in Int
      PROVE  /\ StandsFor(Checked(n, bits), Fit(n, u, bits), bits)
             /\ Checked(n, bits).ok => ~Checked(n, bits).unsigned
  BY CheckedResult
<1>3. CASE op = "+"
  <2>1. Operated(op, u, left, right, bits) = Checked(a + b, bits)
    BY <1>3 DEF Operated, Relations
  <2>2. Meant(op, a, b, u, bits) = Fit(a + b, u, bits)
    BY <1>3 DEF Meant, Relations
  <2>3. a + b \in Int
    BY <1>0, <1>1
  <2> HIDE DEF a, b
  <2> QED
    BY <1>2, <2>1, <2>2, <2>3 DEF a, b
<1>4. CASE op = "-"
  <2>1. Operated(op, u, left, right, bits) = Checked(a - b, bits)
    BY <1>4 DEF Operated, Relations
  <2>2. Meant(op, a, b, u, bits) = Fit(a - b, u, bits)
    BY <1>4 DEF Meant, Relations
  <2>3. a - b \in Int
    BY <1>0, <1>1
  <2> HIDE DEF a, b
  <2> QED
    BY <1>2, <2>1, <2>2, <2>3 DEF a, b
<1>5. CASE op = "*"
  <2>1. Operated(op, u, left, right, bits) = Checked(a * b, bits)
    BY <1>5 DEF Operated, Relations
  <2>2. Meant(op, a, b, u, bits) = Fit(a * b, u, bits)
    BY <1>5 DEF Meant, Relations
  <2>3. a * b \in Int
    BY <1>0, <1>1
  <2> HIDE DEF a, b
  <2> QED
    BY <1>2, <2>1, <2>2, <2>3 DEF a, b
<1>6. CASE op \in {"/", "%"} /\ b = 0
  <2>1. Operated(op, u, left, right, bits) = Refused
    BY <1>1, <1>6 DEF Operated, Relations
  <2>2. Meant(op, a, b, u, bits) = Undefined
    BY <1>6 DEF Meant, Relations
  <2> QED
    BY <2>1, <2>2 DEF StandsFor, Refused, Undefined
<1>7. CASE op = "/" /\ b # 0
  <2>1. Operated(op, u, left, right, bits) = Checked(Quotient(a, b), bits)
    BY <1>1, <1>7 DEF Operated, Relations
  <2>2. Quotient(a, b) \in Int
    BY <1>0, <1>1, <1>7, SignedDivision
  <2>3. Meant(op, a, b, u, bits) = Fit(Quotient(a, b), u, bits)
    BY <1>7 DEF Meant, Relations, Fit, Undefined
  <2> QED
    BY <1>2, <2>1, <2>2, <2>3
<1>8. CASE op = "%" /\ b # 0
  <2>1. ~(a = -h /\ b = -1)
    BY <1>0, <1>8 DEF Overflows
  <2>2. Remainder(a, b) \in (-h)..(h - 1) /\ Quotient(a, b) \in (-h)..(h - 1)
    BY <1>0, <1>1, <1>8, <2>1, SignedDivision
  <2>3. h <= 2^(HostBits - 1) /\ 2^(HostBits - 1) \in Nat
    <3>1. h * h <= 2^(HostBits - 1) /\ 2^(HostBits - 1) \in Nat
      BY WidthFacts
    <3> HIDE DEF h
    <3>2. h <= h * h
      BY <1>0
    <3> QED
      BY <1>0, <3>1, <3>2
  <2>4. ~(b = -1 /\ a = -(2^(HostBits - 1)))
    BY <1>0, <1>1, <2>1, <2>3
  <2>5. Operated(op, u, left, right, bits) = Checked(Remainder(a, b), bits)
    BY <1>1, <1>8, <2>4 DEF Operated, Relations
  <2>6. Fit(Quotient(a, b), u, bits).defined
    BY <1>0, <2>2 DEF Fit
  <2>7. Meant(op, a, b, u, bits) = Fit(Remainder(a, b), u, bits)
    BY <1>8, <2>6 DEF Meant, Relations
  <2>8. Remainder(a, b) \in Int
    BY <1>0, <2>2
  <2> QED
    BY <1>2, <2>5, <2>7, <2>8
<1> QED
  BY <1>3, <1>4, <1>5, <1>6, <1>7, <1>8 DEF Additive, Multiplicative

\* i128 has room for the quotient that intmax_t has not.
LEMMA OverflowYieldsZero ==
  ASSUME Doubling, NEW bits, IsWidth(bits),
         NEW left \in ConditionValue(bits), NEW right \in ConditionValue(bits), NEW u, NEW op,
         Overflows(op, AsSigned(left.bits, bits), AsSigned(right.bits, bits), u, bits)
  PROVE  /\ Operated(op, u, left, right, bits) = Value(0, FALSE, bits)
         /\ ~Meant(op, AsSigned(left.bits, bits), AsSigned(right.bits, bits), u, bits).defined
<1> DEFINE a == AsSigned(left.bits, bits)
           b == AsSigned(right.bits, bits)
           h == 2^(bits - 1)
           m == 2^(HostBits - 1)
<1>1. /\ h \in Nat /\ h >= 2 /\ Least(bits) = -h /\ SignedMax(bits) = h - 1
      /\ m \in Nat /\ h * h <= m
  BY WidthFacts DEF Least, SignedMax
<1>2. op = "%" /\ ~u /\ a = -h /\ b = -1
  BY <1>1 DEF Overflows
<1>3. right.bits # 0
  BY <1>2, ValuesAreTyped, SignedRange
<1>4. Quotient(a, b) = h /\ Remainder(a, b) = 0
  <2> HIDE DEF a, b, h
  <2>1. Quotient(a, b) = h
    BY <1>1, <1>2, SignedDivision
  <2> QED
    BY <1>1, <1>2, <2>1 DEF Remainder
<1>5. a # -m
  <2> HIDE DEF a, h, m
  <2>1. h < h * h
    BY <1>1
  <2> QED
    BY <1>1, <1>2, <2>1
<1>6. Operated(op, u, left, right, bits) = Checked(Remainder(a, b), bits)
  BY <1>2, <1>3, <1>5 DEF Operated, Relations
<1>7. 0 \in Least(bits)..SignedMax(bits)
  BY <1>1
<1>8. Checked(0, bits) = Value(0, FALSE, bits)
  BY <1>7 DEF Checked, Least
<1>9. ~Fit(Quotient(a, b), u, bits).defined
  BY <1>1, <1>2, <1>4 DEF Fit, Undefined
<1>10. Meant(op, a, b, u, bits) = Undefined
  BY <1>2, <1>9 DEF Meant, Relations
<1>11. Operated(op, u, left, right, bits) = Value(0, FALSE, bits)
  BY <1>4, <1>6, <1>8, Zenon
<1>12. ~Undefined.defined
  BY DEF Undefined
<1> QED
  BY <1>10, <1>11, <1>12, Zenon

LEMMA Compared ==
  ASSUME Doubling, NEW bits, IsWidth(bits), NEW left, NEW right, NEW u, NEW op \in Relations,
         NEW a, NEW b,
         u => a = left.bits /\ b = right.bits,
         ~u => a = AsSigned(left.bits, bits) /\ b = AsSigned(right.bits, bits)
  PROVE  /\ StandsFor(Operated(op, u, left, right, bits), Meant(op, a, b, u, bits), bits)
         /\ ~Operated(op, u, left, right, bits).unsigned
<1> DEFINE asked == IF u THEN Ordered(op, left.bits, right.bits)
                    ELSE Ordered(op, AsSigned(left.bits, bits), AsSigned(right.bits, bits))
<1>1. op \notin Additive /\ op \notin Multiplicative
  BY DEF Relations, Additive, Multiplicative
<1>2. Operated(op, u, left, right, bits) = Boolean(asked, bits)
  BY <1>1 DEF Operated, Additive, Multiplicative
<1>3. Meant(op, a, b, u, bits) = Truth(Ordered(op, a, b), bits)
  BY <1>1 DEF Meant, Additive, Multiplicative
<1>4. CASE u
  <2>1. Operated(op, u, left, right, bits) = Boolean(Ordered(op, a, b), bits)
    BY <1>2, <1>4, Zenon
  <2> QED
    BY <1>3, <2>1, BooleanResult, Zenon
<1>5. CASE ~u
  <2>1. Operated(op, u, left, right, bits) = Boolean(Ordered(op, a, b), bits)
    BY <1>2, <1>5, Zenon
  <2> QED
    BY <1>3, <2>1, BooleanResult, Zenon
<1> QED
  BY <1>4, <1>5

LEMMA OperatedConverted ==
  ASSUME Doubling, NEW bits, IsWidth(bits),
         NEW left \in ConditionValue(bits), NEW right \in ConditionValue(bits),
         NEW u, left.unsigned => u, right.unsigned => u, NEW op \in Operations,
         NEW a, a = Fit(Number(left, bits), u, bits).value,
         NEW b, b = Fit(Number(right, bits), u, bits).value,
         ~Overflows(op, a, b, u, bits)
  PROVE  /\ StandsFor(Operated(op, u, left, right, bits), Meant(op, a, b, u, bits), bits)
         /\ Operated(op, u, left, right, bits).ok =>
              (Operated(op, u, left, right, bits).unsigned <=> u /\ op \notin Relations)
<1>1. /\ u => a = left.bits /\ b = right.bits
      /\ ~u => a = AsSigned(left.bits, bits) /\ b = AsSigned(right.bits, bits)
  BY ConvertedOperand
<1>2. CASE op \in Relations
  <2>1. /\ StandsFor(Operated(op, u, left, right, bits), Meant(op, a, b, u, bits), bits)
        /\ ~Operated(op, u, left, right, bits).unsigned
    BY <1>1, <1>2, Compared
  <2> QED
    BY <1>2, <2>1, Zenon
<1>3. CASE op \in Additive \cup Multiplicative
  <2>1. op \notin Relations
    BY <1>3 DEF Additive, Multiplicative, Relations
  <2>2. CASE u
    <3>1. a = left.bits /\ b = right.bits
      BY <1>1, <2>2
    <3> QED
      BY <1>3, <2>1, <2>2, <3>1, OperatedUnsigned, Zenon
  <2>3. CASE ~u
    <3>1. a = AsSigned(left.bits, bits) /\ b = AsSigned(right.bits, bits)
      BY <1>1, <2>3
    <3>2. ~Overflows(op, AsSigned(left.bits, bits), AsSigned(right.bits, bits), u, bits)
      BY <3>1, Zenon
    <3> QED
      BY <1>3, <2>1, <2>3, <3>1, <3>2, OperatedSigned, Zenon
  <2> QED
    BY <2>2, <2>3
<1> QED
  BY <1>2, <1>3 DEF Operations

\* Every binary operation but the bitwise ones: it is refused exactly where C gives
\* it no meaning, and else has C's number, in the type C gives it.  The exception
\* is the remainder that overflows: it has no meaning in C, and here it is 0.
THEOREM OperationsAreExact ==
  ASSUME Doubling, NEW bits, IsWidth(bits),
         NEW left \in ConditionValue(bits), NEW right \in ConditionValue(bits),
         NEW op \in Operations
  PROVE  LET unsigned == left.unsigned \/ right.unsigned
             a == Fit(Number(left, bits), unsigned, bits).value
             b == Fit(Number(right, bits), unsigned, bits).value
             result == Operated(op, unsigned, left, right, bits)
             meant == Meant(op, a, b, unsigned, bits) IN
         IF Overflows(op, a, b, unsigned, bits)
         THEN result = Value(0, FALSE, bits) /\ ~meant.defined
         ELSE /\ StandsFor(result, meant, bits)
              /\ result.ok => (result.unsigned <=> unsigned /\ op \notin Relations)
<1> DEFINE unsigned == left.unsigned \/ right.unsigned
           a == Fit(Number(left, bits), unsigned, bits).value
           b == Fit(Number(right, bits), unsigned, bits).value
           result == Operated(op, unsigned, left, right, bits)
           meant == Meant(op, a, b, unsigned, bits)
<1>1. /\ left.unsigned => unsigned
      /\ right.unsigned => unsigned
  OBVIOUS
<1> HIDE DEF unsigned
<1>2. ASSUME ~Overflows(op, a, b, unsigned, bits)
      PROVE  /\ StandsFor(result, meant, bits)
             /\ result.ok => (result.unsigned <=> unsigned /\ op \notin Relations)
  BY <1>1, <1>2, OperatedConverted
<1>3. ASSUME Overflows(op, a, b, unsigned, bits)
      PROVE  result = Value(0, FALSE, bits) /\ ~meant.defined
  <2>1. ~unsigned
    BY <1>3, Zenon DEF Overflows
  <2>2. a = AsSigned(left.bits, bits) /\ b = AsSigned(right.bits, bits)
    BY <1>1, <2>1, ConvertedOperand
  <2> HIDE DEF a, b
  <2>3. Overflows(op, AsSigned(left.bits, bits), AsSigned(right.bits, bits), unsigned, bits)
    BY <1>3, <2>2, Zenon
  <2> QED
    BY <2>2, <2>3, OverflowYieldsZero, Zenon
<1> HIDE DEF a, b, result, meant
<1>4. IF Overflows(op, a, b, unsigned, bits)
      THEN result = Value(0, FALSE, bits) /\ ~meant.defined
      ELSE /\ StandsFor(result, meant, bits)
           /\ result.ok => (result.unsigned <=> unsigned /\ op \notin Relations)
  BY <1>2, <1>3, Zenon
<1> QED
  BY <1>4, Zenon DEF unsigned, a, b, result, meant

\* The same of the operations on one value.
THEOREM UnariesAreExact ==
  ASSUME Doubling, NEW bits, IsWidth(bits), NEW value \in ConditionValue(bits),
         NEW op \in {"!", "+", "-", "~"}
  PROVE  LET unsigned == value.unsigned /\ op # "!"
             result == EvaluatedUnary(op, value, bits) IN
         /\ StandsFor(result, MeantUnary(op, Number(value, bits), value.unsigned, bits), bits)
         /\ result.ok => (result.unsigned <=> unsigned)
<1> DEFINE a == Number(value, bits)
<1>1. /\ value.ok /\ value.bits \in Nat /\ value.bits < 2^bits /\ 2^bits \in Nat
      /\ value.unsigned \in BOOLEAN
  BY ValuesAreTyped, WidthFacts
<1>2. /\ AsSigned(value.bits, bits) \in Least(bits)..SignedMax(bits)
      /\ AsSigned(value.bits, bits) = 0 <=> value.bits = 0
      /\ Least(bits) \in Int /\ SignedMax(bits) \in Int
  BY <1>1, SignedRange, WidthFacts DEF Least, SignedMax
<1>3. /\ value.unsigned => a = value.bits
      /\ ~value.unsigned => a = AsSigned(value.bits, bits)
  BY DEF Number
<1>4. a \in Int /\ (a = 0 <=> value.bits = 0)
  BY <1>1, <1>2, <1>3
<1>5. CASE op = "!"
  <2>1. EvaluatedUnary(op, value, bits) = Boolean(value.bits = 0, bits)
    BY <1>5 DEF EvaluatedUnary, IsZero
  <2>2. MeantUnary(op, a, value.unsigned, bits) = Truth(a = 0, bits)
    BY <1>5 DEF MeantUnary
  <2>3. Boolean(value.bits = 0, bits) = Boolean(a = 0, bits)
    BY <1>4 DEF Boolean
  <2> HIDE DEF a
  <2>4. /\ StandsFor(Boolean(a = 0, bits), Truth(a = 0, bits), bits)
        /\ ~Boolean(a = 0, bits).unsigned
    BY BooleanResult
  <2> QED
    BY <1>5, <2>1, <2>2, <2>3, <2>4 DEF a
<1>6. CASE op = "+"
  <2>1. EvaluatedUnary(op, value, bits) = value
    BY <1>6 DEF EvaluatedUnary
  <2>2. MeantUnary(op, a, value.unsigned, bits) = Fit(a, value.unsigned, bits)
    BY <1>6 DEF MeantUnary
  <2>3. Fit(a, value.unsigned, bits).defined /\ Fit(a, value.unsigned, bits).value = a
    BY <1>1, <1>2, <1>3 DEF Fit
  <2> QED
    BY <1>1, <1>6, <2>1, <2>2, <2>3 DEF StandsFor
<1>7. CASE op \in {"-", "~"} /\ value.unsigned
  <2> DEFINE n == IF op = "-" THEN -a ELSE -a - 1
  <2>1. EvaluatedUnary(op, value, bits) = Value(n, TRUE, bits)
    BY <1>3, <1>7 DEF EvaluatedUnary
  <2>2. MeantUnary(op, a, value.unsigned, bits) = Fit(n, value.unsigned, bits)
    BY <1>7 DEF MeantUnary, Fit
  <2>3. n \in Int
    BY <1>4
  <2> HIDE DEF n, a
  <2>4. StandsFor(Value(n, TRUE, bits), Fit(n, value.unsigned, bits), bits)
    BY <1>7, <2>3, UnsignedResult
  <2>5. Value(n, TRUE, bits).unsigned
    BY ValueFields
  <2>6. op # "!"
    BY <1>7
  <2> QED
    BY <1>7, <2>1, <2>2, <2>4, <2>5, <2>6 DEF a
<1>8. CASE op = "-" /\ ~value.unsigned
  <2>1. EvaluatedUnary(op, value, bits) = Checked(-a, bits)
    BY <1>3, <1>8 DEF EvaluatedUnary
  <2>2. MeantUnary(op, a, value.unsigned, bits) = Fit(-a, value.unsigned, bits)
    BY <1>8 DEF MeantUnary
  <2>3. -a \in Int
    BY <1>4
  <2> HIDE DEF a
  <2>4. /\ StandsFor(Checked(-a, bits), Fit(-a, value.unsigned, bits), bits)
        /\ Checked(-a, bits).ok => ~Checked(-a, bits).unsigned
    BY <1>8, <2>3, CheckedResult
  <2> QED
    BY <1>8, <2>1, <2>2, <2>4 DEF a
<1>9. CASE op = "~" /\ ~value.unsigned
  <2>1. EvaluatedUnary(op, value, bits) = Refused
    BY <1>9 DEF EvaluatedUnary
  <2>2. MeantUnary(op, a, value.unsigned, bits) = Undefined
    BY <1>9 DEF MeantUnary
  <2>3. ~Refused.ok /\ ~Undefined.defined
    BY DEF Refused, Undefined
  <2> QED
    BY <2>1, <2>2, <2>3, Zenon DEF StandsFor
<1> QED
  BY <1>1, <1>5, <1>6, <1>7, <1>8, <1>9

\* A shift keeps the type of its left operand; the type of the count plays no part.
THEOREM ShiftsAreExact ==
  ASSUME Doubling, NEW bits, IsWidth(bits),
         NEW left \in ConditionValue(bits), NEW right \in ConditionValue(bits),
         NEW op \in Shifts
  PROVE  LET result == Shifted(op, left, right, bits) IN
         /\ StandsFor(result,
              MeantShift(op, Number(left, bits), Number(right, bits), left.unsigned, bits), bits)
         /\ result.ok => (result.unsigned <=> left.unsigned)
<1> DEFINE a == Number(left, bits)
           count == Number(right, bits)
           result == Shifted(op, left, right, bits)
           meant == MeantShift(op, a, count, left.unsigned, bits)
<1>1. /\ left.bits \in Nat /\ left.bits < 2^bits /\ right.bits \in Nat /\ right.bits < 2^bits
      /\ left.unsigned \in BOOLEAN
      /\ bits \in Nat /\ 2^bits \in Nat
  BY ValuesAreTyped, WidthFacts
<1>2. /\ AsSigned(left.bits, bits) \in Least(bits)..SignedMax(bits)
      /\ AsSigned(right.bits, bits) \in Least(bits)..SignedMax(bits)
      /\ Least(bits) \in Int /\ SignedMax(bits) \in Int /\ Least(bits) < 0
  BY <1>1, SignedRange, WidthFacts DEF Least, SignedMax
<1>3. /\ count = IF right.unsigned THEN right.bits ELSE AsSigned(right.bits, bits)
      /\ a = IF left.unsigned THEN left.bits ELSE AsSigned(left.bits, bits)
  BY DEF Number
<1>4. count \in Int /\ a \in Int
  BY <1>1, <1>2, <1>3
<1>5. result =
        IF count < 0 \/ count >= bits THEN Refused
        ELSE IF left.unsigned
        THEN Value(IF op = ">>" THEN left.bits \div 2^count ELSE left.bits * 2^count, TRUE, bits)
        ELSE IF AsSigned(left.bits, bits) < 0 THEN Refused
        ELSE IF op = ">>" THEN Value(AsSigned(left.bits, bits) \div 2^count, FALSE, bits)
        ELSE Checked(AsSigned((AsSigned(left.bits, bits) * 2^count) % 2^HostBits, HostBits), bits)
  BY DEF Shifted, Number
<1> HIDE DEF count, result
<1>9. ~Refused.ok /\ ~Undefined.defined
  BY DEF Refused, Undefined
<1>6. CASE count \notin 0..(bits - 1)
  <2>1. result = Refused
    <3>1. count < 0 \/ count >= bits
      BY <1>1, <1>4, <1>6
    <3> QED
      BY <1>5, <3>1
  <2>2. meant = Undefined
    BY <1>6 DEF MeantShift
  <2> QED
    BY <1>9, <2>1, <2>2, Zenon DEF StandsFor, result, count
<1>7. CASE count \in 0..(bits - 1) /\ a < 0
  <2>1. ~left.unsigned /\ a = AsSigned(left.bits, bits)
    BY <1>1, <1>3, <1>7
  <2>2. result = Refused
    <3>1. AsSigned(left.bits, bits) < 0 /\ ~(count < 0 \/ count >= bits)
      BY <1>1, <1>4, <1>7, <2>1
    <3> QED
      BY <1>5, <2>1, <3>1
  <2>3. meant = Undefined
    BY <1>7 DEF MeantShift
  <2> QED
    BY <1>9, <2>2, <2>3, Zenon DEF StandsFor, result, count
<1>8. CASE count \in 0..(bits - 1) /\ ~(a < 0)
  <2> DEFINE n == IF op = "<<" THEN a * 2^count ELSE a \div 2^count
  <2>1. meant = Fit(n, left.unsigned, bits)
    BY <1>8 DEF MeantShift
  <2>2. a \in Nat /\ 2^count \in Nat \ {0} /\ 2^count <= 2^(bits - 1)
    BY <1>4, <1>8, WidthFacts
  <2>3. /\ a * 2^count \in Nat
        /\ a \div 2^count \in Nat /\ a \div 2^count <= a
    <3> DEFINE p == 2^count
    <3>1. a \in Nat /\ p \in Nat \ {0}
      BY <2>2
    <3> HIDE DEF a, p
    <3>2. a * p \in Nat /\ a \div p \in Nat /\ a \div p <= a
      BY <3>1, Division
    <3> QED
      BY <3>2 DEF p
  <2>4. n \in Int
    BY <2>3
  <2>5. ~(count < 0 \/ count >= bits)
    BY <1>1, <1>4, <1>8
  <2>6. CASE left.unsigned
    <3>1. a = left.bits
      BY <1>3, <2>6
    <3>2. result = Value(n, TRUE, bits)
      BY <1>5, <2>5, <2>6, <3>1 DEF Shifts
    <3> HIDE DEF n, a, meant
    <3>3. StandsFor(Value(n, TRUE, bits), Fit(n, left.unsigned, bits), bits)
      BY <2>4, <2>6, UnsignedResult
    <3>4. Value(n, TRUE, bits).unsigned
      BY ValueFields
    <3> QED
      BY <2>1, <2>6, <3>2, <3>3, <3>4 DEF a, meant, count, result
  <2>7. CASE ~left.unsigned
    <3>1. a = AsSigned(left.bits, bits) /\ a <= SignedMax(bits)
      BY <1>2, <1>3, <2>7
    <3>2. CASE op = ">>"
      <4>1. result = Value(n, FALSE, bits)
        BY <1>5, <1>8, <2>5, <2>7, <3>1, <3>2
      <4>2. n \in Least(bits)..SignedMax(bits)
        BY <1>2, <2>2, <2>3, <3>1, <3>2
      <4>3. /\ Fit(n, left.unsigned, bits).defined
            /\ Fit(n, left.unsigned, bits).value = n
        BY <2>7, <4>2 DEF Fit
      <4>4. Value(n, FALSE, bits).ok /\ ~Value(n, FALSE, bits).unsigned
        BY ValueFields
      <4> HIDE DEF n, a, meant
      <4>5. /\ Value(n, FALSE, bits) \in ConditionValue(bits)
            /\ Number(Value(n, FALSE, bits), bits) = n
        BY <4>2, SignedResult
      <4>6. StandsFor(result, meant, bits) /\ ~result.unsigned
        BY <2>1, <4>1, <4>3, <4>4, <4>5, Zenon DEF StandsFor
      <4> QED
        BY <2>7, <4>6 DEF a, meant, count, result
    <3>3. CASE op = "<<"
      <4> DEFINE m == 2^(HostBits - 1)
      <4>1. n < m /\ m \in Nat /\ 2^HostBits = 2 * m
        <5> DEFINE h == 2^(bits - 1)
        <5>1. h \in Nat /\ h * h <= m /\ m \in Nat /\ h >= 2 /\ 2^HostBits = 2 * m
          BY WidthFacts
        <5>2. SignedMax(bits) = h - 1
          BY DEF SignedMax
        <5>3. a <= h - 1 /\ 2^count <= h
          BY <2>2, <3>1, <5>2
        <5> HIDE DEF h, m
        <5>4. \A x, y, z \in Nat : x <= z - 1 /\ y <= z /\ y # 0 => x * y < z * z
          <6>1. TAKE x, y, z \in Nat
          <6>2. HAVE x <= z - 1 /\ y <= z /\ y # 0
          <6>3. x * y <= (z - 1) * y /\ (z - 1) * y < z * y /\ z * y <= z * z
            BY <6>2
          <6> QED
            BY <6>3
        <5>5. a * 2^count < h * h
          BY <2>2, <5>1, <5>3, <5>4
        <5> QED
          BY <2>3, <3>3, <5>1, <5>5
      <4>2. n \in Nat
        BY <2>3, <3>3
      <4> HIDE DEF m
      <4>3. n % (2 * m) = n /\ ~(n >= m)
        BY <4>1, <4>2
      <4>4. AsSigned(n % 2^HostBits, HostBits) = n
        BY <4>1, <4>3 DEF AsSigned, m
      <4>5. result = Checked(AsSigned(n % 2^HostBits, HostBits), bits)
        BY <1>5, <1>8, <2>5, <2>7, <3>1, <3>3
      <4>6. result = Checked(n, bits)
        BY <4>4, <4>5, Zenon
      <4> HIDE DEF n, a, meant
      <4>7. /\ StandsFor(Checked(n, bits), Fit(n, left.unsigned, bits), bits)
            /\ Checked(n, bits).ok => ~Checked(n, bits).unsigned
        BY <2>4, <2>7, CheckedResult
      <4> QED
        BY <2>1, <2>7, <4>6, <4>7 DEF a, meant, count, result
    <3> QED
      BY <3>2, <3>3 DEF Shifts
  <2> QED
    BY <2>6, <2>7
<1> QED
  BY <1>4, <1>6, <1>7, <1>8 DEF count, result

=============================================================================
