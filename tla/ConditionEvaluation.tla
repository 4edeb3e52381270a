------------------------ MODULE ConditionEvaluation ------------------------
(***************************************************************************)
(* evaluate_condition of scan/traced.rs: `defined` is replaced, the rest   *)
(* of an #if is expanded as MacroExpansion does, and what comes out is     *)
(* evaluated as ConditionArithmetic does.                                  *)
(*                                                                         *)
(* The reference reads the tokens that C makes of the condition by the     *)
(* grammar of C17 6.5 and evaluates them on integers, with static types.   *)
(***************************************************************************)
EXTENDS ExpansionReference, ConditionArithmetic

CONSTANTS
  Conditions,  \* what is evaluated: tables of macros, conditions, limits, bits
  Unknown      \* not evaluated yet

VARIABLES
  bits,    \* long_long_layout.storage_bits; 0 where a text is expanded
  answer   \* what evaluate_condition returned

conditionVars == <<vars, bits, answer>>

-----------------------------------------------------------------------------
(* replace_defined_checked *)

Number(holds) == Token("number", <<IF holds THEN "1" ELSE "0">>)

\* The tokens without `defined`, if each has an operand.
RECURSIVE ReplaceDefined(_, _)
ReplaceDefined(tokens, table) ==
  LET inside == FollowedByParenthesis(tokens, 1)
      name   == NonSpaceFrom(tokens, IF inside THEN Parenthesis(tokens, 1) + 1 ELSE 2)
      last   == IF inside THEN NonSpaceFrom(tokens, name + 1) ELSE name IN
  IF tokens = <<>> THEN {<<>>}
  ELSE IF ~Is(Head(tokens), "defined")
  THEN {<<Head(tokens)>> \o rest : rest \in ReplaceDefined(Tail(tokens), table)}
  ELSE IF \/ KindAt(tokens, name) # "ident"
          \/ inside /\ ~(last <= Len(tokens) /\ Is(tokens[last], ")"))
  THEN {}
  ELSE {<<Number(tokens[name].text \in DOMAIN table)>> \o rest :
          rest \in ReplaceDefined(SubSeq(tokens, last + 1, Len(tokens)), table)}

-----------------------------------------------------------------------------
(* evaluate_condition *)

\* A condition whose `defined` is malformed is false at once.
Rejects(k, table) ==
  /\ config = [macros |-> table, text |-> <<>>, limits |-> Conditions[k].limits]
  /\ stack = <<>> /\ issues = <<"E2113">> /\ answer = FALSE
  /\ paint = <<>> /\ expansions = 0 /\ stopped = FALSE /\ output = <<>>

Evaluates(k, table, condition) ==
  LET replaced == ReplaceDefined(condition, table) IN
  /\ bits = Conditions[k].bits
  /\ \/ replaced = {} /\ Rejects(k, table)
     \/ \E tokens \in replaced :
          Starts(Conditions[k].limits, table, tokens) /\ answer = Unknown

ConditionInit ==
  \/ Init /\ bits = 0 /\ answer = FALSE
  \/ \E k \in DOMAIN Conditions :
       \E table \in Conditions[k].tables, c \in Conditions[k].texts : Evaluates(k, table, c)

Expand == Step /\ UNCHANGED <<bits, answer>>

\* The tokens are evaluated even if a limit cut them off.
Evaluate ==
  /\ Done /\ answer = Unknown
  /\ LET value == CheckedCondition(Solid(output), bits) IN
     IF value.ok
     THEN answer' = ~IsZero(value) /\ UNCHANGED issues
     ELSE answer' = FALSE /\ issues' = Append(issues, "E2113")
  /\ UNCHANGED <<config, stack, paint, expansions, stopped, output, bits>>

ConditionStep == Expand \/ Evaluate

ConditionSpec == ConditionInit /\ [][ConditionStep]_conditionVars

-----------------------------------------------------------------------------
(* The grammar of C17 6.5, and what an expression means *)

\* The trees of a token sequence: as a constant expression (level 0), as a chain
\* of the operators of a level, or (past the levels) as a unary expression.
RECURSIVE Trees(_, _)
Trees(level, t) ==
  IF t = <<>> THEN {}
  ELSE IF level = 0
  THEN Trees(1, t) \cup
       UNION {UNION {{Choice(a, b, c) : a \in Trees(1, SubSeq(t, 1, q - 1)),
                                        b \in Trees(0, SubSeq(t, q + 1, k - 1)),
                                        c \in Trees(0, SubSeq(t, k + 1, Len(t)))} :
                     k \in {k \in q..Len(t) : Is(t[k], ":")}} :
              q \in {q \in DOMAIN t : Is(t[q], "?")}}
  ELSE IF level <= Len(Levels)
  THEN Trees(level + 1, t) \cup
       UNION {{Binary(Operator(t, p), a, b) : a \in Trees(level, SubSeq(t, 1, p - 1)),
                                              b \in Trees(level + 1, SubSeq(t, p + 1, Len(t)))} :
              p \in {p \in DOMAIN t : OneOf(t, p, Levels[level])}}
  ELSE IF Len(t) = 1 THEN {Leaf(u) : u \in {u \in {t[1]} : u.kind \in {"number", "ident"}}}
  ELSE IF OneOf(t, 1, PrefixOperators)
  THEN {Unary(Operator(t, 1), a) : a \in Trees(level, Tail(t))}
  ELSE IF Is(t[1], "(") /\ Is(Last(t), ")") THEN Trees(0, SubSeq(t, 2, Len(t) - 1))
  ELSE {}

Comparisons == {"==", "!=", "<", ">", "<=", ">=", "&&", "||", "!"}

\* The type of an expression does not depend on its value.
RECURSIVE IsUnsigned(_)
IsUnsigned(tree) ==
  CASE tree.op = "value" ->
         /\ tree.value.kind = "number" /\ tree.value.text \in DOMAIN Literals
         /\ LET l == Literals[tree.value.text] IN
            l.unsigned \/ (l.value > SignedMax(bits) /\ ~l.decimal)
    [] tree.op \in Comparisons -> FALSE
    [] tree.op \in {"<<", ">>"} -> IsUnsigned(tree.operands[1])
    [] tree.op = "?" -> IsUnsigned(tree.operands[2]) \/ IsUnsigned(tree.operands[3])
    [] OTHER -> \E k \in DOMAIN tree.operands : IsUnsigned(tree.operands[k])

\* Literals fit a type, evaluated or not.
RECURSIVE IsTyped(_)
IsTyped(tree) ==
  IF tree.op # "value" THEN \A k \in DOMAIN tree.operands : IsTyped(tree.operands[k])
  ELSE tree.value.kind = "ident" \/ Literal(tree.value.text, bits).ok

RECURSIVE Meaning(_)
Meaning(tree) ==
  LET Of(k) == Meaning(tree.operands[k])
      unsigned == IsUnsigned(tree)
      operands == \E k \in DOMAIN tree.operands : IsUnsigned(tree.operands[k])
      As(v, u) == Fit(v.value, u, bits).value IN
  IF tree.op = "value"
  THEN Fit(IF tree.value.kind = "ident" THEN 0 ELSE Literals[tree.value.text].value,
           unsigned, bits)
  ELSE LET first == Of(1) IN
  IF ~first.defined THEN Undefined
  ELSE IF Len(tree.operands) = 1 THEN MeantUnary(tree.op, first.value, unsigned, bits)
  ELSE IF tree.op = "?"
  THEN LET chosen == Of(IF first.value # 0 THEN 2 ELSE 3) IN
       IF chosen.defined THEN Fit(chosen.value, unsigned, bits) ELSE Undefined
  ELSE IF tree.op = "&&" /\ first.value = 0 THEN Truth(FALSE, bits)
  ELSE IF tree.op = "||" /\ first.value # 0 THEN Truth(TRUE, bits)
  ELSE LET second == Of(2) IN
  IF ~second.defined THEN Undefined
  ELSE IF tree.op \in {"&&", "||"} THEN Truth(second.value # 0, bits)
  ELSE IF tree.op \in Shifts
  THEN MeantShift(tree.op, first.value, second.value, unsigned, bits)
  ELSE LET a == As(first, operands)
           b == As(second, operands) IN
  IF tree.op \notin {"&", "|", "^"} THEN Meant(tree.op, a, b, operands, bits)
  ELSE IF a < 0 \/ b < 0 THEN Undefined ELSE Fit(Combined(tree.op, a, b), operands, bits)

\* Where the evaluation departs from C: a choice between a signed and an unsigned
\* value, and the remainder of a division that overflows.
RECURSIVE IsExcepted(_)
IsExcepted(tree) ==
  \/ tree.op = "?" /\ IsUnsigned(tree.operands[2]) # IsUnsigned(tree.operands[3])
  \/ /\ tree.op = "%" /\ ~IsUnsigned(tree)
     /\ Meaning(tree.operands[1]) = Fit(Least(bits), FALSE, bits)
     /\ Meaning(tree.operands[2]) = Fit(-1, FALSE, bits)
  \/ tree.op # "value" /\ \E k \in DOMAIN tree.operands : IsExcepted(tree.operands[k])

\* What C makes of the condition.
Standards ==
  {tree \in Trees(0, Plainly(Solid(Reference.out))) : IsTyped(tree)}

\* The answer is known, and neither a limit nor the expansion stands in its way.
IsSettled ==
  /\ bits > 0 /\ answer # Unknown /\ ~stopped
  /\ config.text # <<>> /\ ~Departs /\ Complaints = {}
Answered == \A i \in DOMAIN issues : issues[i] # "E2113"

\* A condition that is given an answer has the one C gives it: at the width of
\* the target, with C's precedence, conversions to unsigned and evaluation of no
\* more operands than C evaluates.  One that C gives a meaning that depends on no
\* representation is given an answer.
ConditionIsStandard ==
  IsSettled =>
    LET trees == Standards IN
    /\ Answered => trees # {}
    /\ \A tree \in trees : ~IsExcepted(tree) =>
         /\ Answered <=> Meaning(tree).defined
         /\ Answered => answer = (Meaning(tree).value # 0)

\* "One unsigned operand makes the whole operation unsigned" (scan/traced.rs).
AnswersAreThoseOfC ==
  IsSettled /\ Answered =>
    \A tree \in Standards : Meaning(tree).defined /\ answer = (Meaning(tree).value # 0)

=============================================================================
