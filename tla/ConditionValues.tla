-------------------------- MODULE ConditionValues --------------------------
(***************************************************************************)
(* ConditionValue of scan/traced.rs and what evaluate_condition_expr does  *)
(* to one or two of them: bit patterns of the target's intmax_t, each with *)
(* a flag that says whether it is unsigned.  HostBits is the width of the  *)
(* integers the scanner computes with.                                     *)
(*                                                                         *)
(* After it, what C17 6.5 makes of the same operations on integers.        *)
(***************************************************************************)
EXTENDS Integers

CONSTANT HostBits  \* 128

Refused == [ok |-> FALSE]
Value(pattern, unsigned, bits) == [ok |-> TRUE, bits |-> pattern % 2^bits, unsigned |-> unsigned]
Boolean(holds, bits) == Value(IF holds THEN 1 ELSE 0, FALSE, bits)
IsZero(value) == value.bits = 0

\* Two's complement.
AsSigned(pattern, bits) == IF pattern >= 2^(bits - 1) THEN pattern - 2^bits ELSE pattern
SignedMax(bits) == 2^(bits - 1) - 1
Checked(number, bits) ==
  IF number \in (-SignedMax(bits) - 1)..SignedMax(bits) THEN Value(number, FALSE, bits)
  ELSE Refused

Magnitude(number) == IF number < 0 THEN -number ELSE number
\* Division that truncates, and the remainder that goes with it.
Quotient(a, b) ==
  IF (a < 0) = (b < 0) THEN Magnitude(a) \div Magnitude(b) ELSE -(Magnitude(a) \div Magnitude(b))
Remainder(a, b) == a - b * Quotient(a, b)

Ordered(op, a, b) ==
  CASE op = "==" -> a = b
    [] op = "!=" -> a # b
    [] op = "<"  -> a < b
    [] op = ">"  -> a > b
    [] op = "<=" -> a <= b
    [] op = ">=" -> a >= b

EvaluatedUnary(op, value, bits) ==
  CASE op = "!" -> Boolean(IsZero(value), bits)
    [] op = "+" -> value
    [] op = "-" /\ value.unsigned -> Value(-value.bits, TRUE, bits)
    [] op = "-" /\ ~value.unsigned -> Checked(-AsSigned(value.bits, bits), bits)
    [] op = "~" /\ value.unsigned -> Value(-value.bits - 1, TRUE, bits)
    [] op = "~" /\ ~value.unsigned -> Refused

\* The result has the type of the left operand.
Shifted(op, left, right, bits) ==
  LET lhs   == AsSigned(left.bits, bits)
      count == IF right.unsigned THEN right.bits ELSE AsSigned(right.bits, bits) IN
  IF count < 0 \/ count >= bits THEN Refused
  ELSE IF left.unsigned
  THEN Value(IF op = ">>" THEN left.bits \div 2^count ELSE left.bits * 2^count, TRUE, bits)
  ELSE IF lhs < 0 THEN Refused
  ELSE IF op = ">>" THEN Value(lhs \div 2^count, FALSE, bits)
  ELSE Checked(AsSigned((lhs * 2^count) % 2^HostBits, HostBits), bits)

Additive       == {"+", "-"}
Multiplicative == {"*", "/", "%"}
Relations      == {"==", "!=", "<", ">", "<=", ">="}
Shifts         == {"<<", ">>"}

Operated(op, unsigned, left, right, bits) ==
  LET lhs == AsSigned(left.bits, bits)
      rhs == AsSigned(right.bits, bits)
      Result(pattern, number) ==
        IF unsigned THEN Value(pattern, TRUE, bits) ELSE Checked(number, bits) IN
  CASE op = "+" -> Result(left.bits + right.bits, lhs + rhs)
    [] op = "-" -> Result(left.bits - right.bits, lhs - rhs)
    [] op = "*" -> Result(left.bits * right.bits, lhs * rhs)
    [] op \in {"/", "%"} /\ right.bits = 0 -> Refused
    [] op = "/" /\ right.bits # 0 -> Result(left.bits \div right.bits, Quotient(lhs, rhs))
    [] op = "%" /\ right.bits # 0 ->
         IF ~unsigned /\ rhs = -1 /\ lhs = -(2^(HostBits - 1)) THEN Refused
         ELSE Result(left.bits % right.bits, Remainder(lhs, rhs))
    [] op \in Relations ->
         Boolean(IF unsigned THEN Ordered(op, left.bits, right.bits) ELSE Ordered(op, lhs, rhs),
                 bits)

-----------------------------------------------------------------------------
(* The same operations in C17 6.5, on the numbers the values stand for *)

Least(bits) == -SignedMax(bits) - 1
Undefined   == [defined |-> FALSE]

\* What a type holds: an unsigned one every number, modulo its range.
Fit(number, unsigned, bits) ==
  IF unsigned THEN [defined |-> TRUE, value |-> number % 2^bits]
  ELSE IF number \in Least(bits)..SignedMax(bits) THEN [defined |-> TRUE, value |-> number]
  ELSE Undefined
Truth(holds, bits) == Fit(IF holds THEN 1 ELSE 0, FALSE, bits)

MeantUnary(op, a, unsigned, bits) ==
  CASE op = "!" -> Truth(a = 0, bits)
    [] op = "+" -> Fit(a, unsigned, bits)
    [] op = "-" -> Fit(-a, unsigned, bits)
    [] op = "~" -> IF unsigned THEN Fit(-a - 1, TRUE, bits) ELSE Undefined

MeantShift(op, a, count, unsigned, bits) ==
  IF count \notin 0..(bits - 1) \/ a < 0 THEN Undefined
  ELSE Fit(IF op = "<<" THEN a * 2^count ELSE a \div 2^count, unsigned, bits)

\* The number an operation yields on numbers of its type.
Meant(op, a, b, unsigned, bits) ==
  CASE op = "+" -> Fit(a + b, unsigned, bits)
    [] op = "-" -> Fit(a - b, unsigned, bits)
    [] op = "*" -> Fit(a * b, unsigned, bits)
    [] op \in {"/", "%"} ->
         IF b = 0 \/ ~Fit(Quotient(a, b), unsigned, bits).defined THEN Undefined
         ELSE Fit(IF op = "/" THEN Quotient(a, b) ELSE Remainder(a, b), unsigned, bits)
    [] op \in Relations -> Truth(Ordered(op, a, b), bits)

=============================================================================
