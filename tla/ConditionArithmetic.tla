------------------------ MODULE ConditionArithmetic ------------------------
(***************************************************************************)
(* evaluate_checked_condition of scan/traced.rs: the tokens of an #if are  *)
(* parsed into an expression, level by level, and the expression is        *)
(* evaluated as ConditionValues does.                                      *)
(*                                                                         *)
(* Literals are abstract: what the text of a literal stands for is looked  *)
(* up.  The bitwise operations are here and not in ConditionValues, which  *)
(* is proved about: no proof can reach the module Bitwise.                 *)
(***************************************************************************)
EXTENDS ConditionValues, Sequences, Bitwise

CONSTANT Literals  \* texts of integer literals -> [value, unsigned suffix, decimal]

\* parse_condition_integer
Literal(text, bits) ==
  IF text \notin DOMAIN Literals THEN Refused
  ELSE LET l == Literals[text] IN
       IF l.value >= 2^bits THEN Refused
       ELSE IF l.unsigned THEN Value(l.value, TRUE, bits)
       ELSE IF l.value <= SignedMax(bits) THEN Value(l.value, FALSE, bits)
       ELSE IF l.decimal THEN Refused
       ELSE Value(l.value, TRUE, bits)

-----------------------------------------------------------------------------
(* ConditionParser *)

Levels ==
  <<{"||"}, {"&&"}, {"|"}, {"^"}, {"&"}, {"==", "!="}, {"<", ">", "<=", ">="},
    {"<<", ">>"}, {"+", "-"}, {"*", "/", "%"}>>
PrefixOperators == {"!", "-", "+", "~"}

Leaf(value)             == [op |-> "value", value |-> value]
Unary(op, operand)      == [op |-> op, operands |-> <<operand>>]
Binary(op, left, right) == [op |-> op, operands |-> <<left, right>>]
Choice(if, then, else)  == [op |-> "?", operands |-> <<if, then, else>>]

Parsed(tree, next) == [ok |-> TRUE, tree |-> tree, next |-> next]
OneOf(tokens, at, texts) ==
  at <= Len(tokens) /\ \E text \in texts : tokens[at].text = <<text>>
Operator(tokens, at) == tokens[at].text[1]

RECURSIVE ParseTernary(_, _, _), ParseLevel(_, _, _, _), ParseChain(_, _, _, _), ParseUnary(_, _, _)

ParsePrimary(tokens, at, bits) ==
  IF OneOf(tokens, at, {"("})
  THEN LET inner == ParseTernary(tokens, at + 1, bits) IN
       IF inner.ok /\ OneOf(tokens, inner.next, {")"})
       THEN Parsed(inner.tree, inner.next + 1) ELSE Refused
  ELSE IF at > Len(tokens) THEN Refused
  ELSE LET value == CASE tokens[at].kind = "number" -> Literal(tokens[at].text, bits)
                      [] tokens[at].kind = "ident"  -> Value(0, FALSE, bits)
                      [] OTHER -> Refused IN
       IF value.ok THEN Parsed(Leaf(value), at + 1) ELSE Refused

ParseUnary(tokens, at, bits) ==
  IF OneOf(tokens, at, PrefixOperators)
  THEN LET operand == ParseUnary(tokens, at + 1, bits) IN
       IF operand.ok THEN Parsed(Unary(Operator(tokens, at), operand.tree), operand.next)
       ELSE Refused
  ELSE ParsePrimary(tokens, at, bits)

ParseLevel(level, tokens, at, bits) ==
  IF level > Len(Levels) THEN ParseUnary(tokens, at, bits)
  ELSE ParseChain(level, tokens, ParseLevel(level + 1, tokens, at, bits), bits)

ParseChain(level, tokens, left, bits) ==
  IF ~left.ok THEN Refused
  ELSE IF ~OneOf(tokens, left.next, Levels[level]) THEN left
  ELSE LET right == ParseLevel(level + 1, tokens, left.next + 1, bits) IN
       IF right.ok
       THEN ParseChain(level, tokens,
              Parsed(Binary(Operator(tokens, left.next), left.tree, right.tree), right.next), bits)
       ELSE Refused

ParseTernary(tokens, at, bits) ==
  LET if == ParseLevel(1, tokens, at, bits) IN
  IF ~if.ok \/ ~OneOf(tokens, if.next, {"?"}) THEN if
  ELSE LET then == ParseTernary(tokens, if.next + 1, bits) IN
       IF ~then.ok \/ ~OneOf(tokens, then.next, {":"}) THEN Refused
       ELSE LET else == ParseTernary(tokens, then.next + 1, bits) IN
            IF else.ok THEN Parsed(Choice(if.tree, then.tree, else.tree), else.next) ELSE Refused

-----------------------------------------------------------------------------
(* evaluate_condition_expr *)

Combined(op, a, b) ==
  CASE op = "&" -> a & b
    [] op = "|" -> a | b
    [] op = "^" -> a ^^ b

Computed(op, unsigned, left, right, bits) ==
  IF op \in Shifts THEN Shifted(op, left, right, bits)
  ELSE IF op \notin {"&", "|", "^"} THEN Operated(op, unsigned, left, right, bits)
  ELSE LET result == Combined(op, left.bits, right.bits) IN
       IF unsigned THEN Value(result, TRUE, bits)
       ELSE IF AsSigned(left.bits, bits) < 0 \/ AsSigned(right.bits, bits) < 0 THEN Refused
       ELSE Checked(result, bits)

\* Mutant of Calculated: an operation has the signedness of its left operand.
CalculatedLeft(op, left, right, bits) == Computed(op, left.unsigned, left, right, bits)

Calculated(op, left, right, bits) ==
  Computed(op, left.unsigned \/ right.unsigned, left, right, bits)

RECURSIVE Evaluated(_, _)
Evaluated(tree, bits) ==
  LET Of(k) == Evaluated(tree.operands[k], bits) IN
  IF tree.op = "value" THEN tree.value
  ELSE LET first == Of(1) IN
  IF ~first.ok THEN Refused
  ELSE IF Len(tree.operands) = 1 THEN EvaluatedUnary(tree.op, first, bits)
  ELSE IF tree.op = "?" THEN IF IsZero(first) THEN Of(3) ELSE Of(2)
  ELSE IF tree.op = "&&" /\ IsZero(first) THEN Boolean(FALSE, bits)
  ELSE IF tree.op = "||" /\ ~IsZero(first) THEN Boolean(TRUE, bits)
  ELSE LET second == Of(2) IN
  IF ~second.ok THEN Refused
  ELSE IF tree.op \in {"&&", "||"} THEN Boolean(~IsZero(second), bits)
  ELSE Calculated(tree.op, first, second, bits)

\* The value of the tokens, which have no blanks among them.
CheckedCondition(tokens, bits) ==
  IF bits \notin 2..HostBits THEN Refused
  ELSE LET parsed == ParseTernary(tokens, 1, bits) IN
       IF parsed.ok /\ parsed.next = Len(tokens) + 1 THEN Evaluated(parsed.tree, bits)
       ELSE Refused

=============================================================================
