--------------------------- MODULE MacroExpansion ---------------------------
(***************************************************************************)
(* expand_tokens of scan/traced.rs: the replacement of macros in the text  *)
(* between two directives.  The function calls itself on the arguments of  *)
(* an invocation and on each replacement; a name is painted while its own  *)
(* replacement is read.  One element of `stack` is one such call.          *)
(*                                                                         *)
(* A token is its kind and its text, a text a sequence of atoms that       *)
(* pasting joins.  Ranges and provenance are left out.                     *)
(***************************************************************************)
EXTENDS Integers, Sequences, SequencesExt, FiniteSets, FiniteSetsExt

CONSTANTS
  Letters,  \* atoms an identifier may begin with
  Digits,   \* other atoms of identifiers
  Setups,   \* what is expanded: tables of macros, texts and limits
  None      \* no invocation

Token(kind, text) == [kind |-> kind, text |-> text]
Space   == Token("space", <<" ">>)
Comma   == Token("other", <<",">>)
VaArgs  == <<"__VA_ARGS__">>

Is(token, atom) == token.text = <<atom>>
IsIdentifier(text) ==
  /\ text # <<>> /\ text[1] \in Letters
  /\ \A i \in DOMAIN text : text[i] \in Letters \cup Digits

-----------------------------------------------------------------------------
(* Replacement lists *)

IsBlank(token) == token.kind \in {"space", "comment"}
Emitted(token) == IF token.kind = "comment" THEN Space ELSE token

\* skip_body_whitespace
SolidFrom(tokens, i) ==
  Min({j \in i..Len(tokens) : ~IsBlank(tokens[j])} \cup {Len(tokens) + 1})

KindAt(tokens, i) == IF i \in DOMAIN tokens THEN tokens[i].kind ELSE "none"
KindAfter(tokens, i)  == KindAt(tokens, SolidFrom(tokens, i + 1))
KindBefore(tokens, i) == KindAt(tokens, Max({j \in 1..(i - 1) : ~IsBlank(tokens[j])} \cup {0}))

-----------------------------------------------------------------------------
(* collect_arguments *)

\* Parentheses open at j, of those from i on.
Open(tokens, i, j) ==
  Cardinality({k \in i..j : Is(tokens[k], "(")}) - Cardinality({k \in i..j : Is(tokens[k], ")")})

\* Only whitespace is skipped here: a comment is whitespace by now, but for those
\* in a condition.
NonSpaceFrom(tokens, i) ==
  Min({j \in i..Len(tokens) : tokens[j].kind # "space"} \cup {Len(tokens) + 1})

Parenthesis(tokens, at) == NonSpaceFrom(tokens, at + 1)
FollowedByParenthesis(tokens, at) ==
  Parenthesis(tokens, at) <= Len(tokens) /\ Is(tokens[Parenthesis(tokens, at)], "(")

Closings(tokens, open) ==
  {k \in open..Len(tokens) : Is(tokens[k], ")") /\ Open(tokens, open, k) = 0}
HasArguments(tokens, at) ==
  FollowedByParenthesis(tokens, at) /\ Closings(tokens, Parenthesis(tokens, at)) # {}
ClosingOf(tokens, at) == Min(Closings(tokens, Parenthesis(tokens, at)))

Trimmed(tokens) ==
  LET solid == {i \in DOMAIN tokens : tokens[i].kind # "space"} IN
  IF solid = {} THEN <<>> ELSE SubSeq(tokens, Min(solid), Max(solid))

ArgumentsAt(tokens, at) ==
  LET open == Parenthesis(tokens, at)
      cuts == SetToSortSeq({k \in open..ClosingOf(tokens, at) :
                 \/ k \in {open, ClosingOf(tokens, at)}
                 \/ Is(tokens[k], ",") /\ Open(tokens, open, k) = 1}, <) IN
  [k \in 1..(Len(cuts) - 1) |-> Trimmed(SubSeq(tokens, cuts[k] + 1, cuts[k + 1] - 1))]

ArityMatches(def, args) ==
  LET count == IF def.params = <<>> /\ args = <<(<<>>)>> THEN 0 ELSE Len(args) IN
  IF def.variadic THEN count >= Len(def.params) ELSE count = Len(def.params)

-----------------------------------------------------------------------------
(* prescanned_arguments and substitute_macro *)

IsTail(def, text) == def.variadic /\ text = VaArgs
IsOperand(def, text) == IsTail(def, text) \/ \E k \in DOMAIN def.params : def.params[k] = text

StandsFor(def, text, k) ==
  IF IsTail(def, text) THEN k > Len(def.params)
  ELSE k \in DOMAIN def.params /\ def.params[k] = text

\* The arguments that are expanded before they are substituted: those used
\* other than next to # and ##.
Prescanned(def, count) ==
  {k \in 1..count : \E i \in DOMAIN def.body :
     /\ def.body[i].kind = "ident"
     /\ KindBefore(def.body, i) \notin {"hash", "hashhash"}
     /\ KindAfter(def.body, i) # "hashhash"
     /\ StandsFor(def, def.body[i].text, k)}

WithCommas(args) ==
  FlattenSeq([k \in DOMAIN args |-> IF k = 1 THEN args[k] ELSE <<Comma>> \o args[k]])

\* What a parameter is replaced by, from the arguments as written or expanded.
Operand(def, source, text) ==
  IF IsTail(def, text) THEN WithCommas(SubSeq(source, Len(def.params) + 1, Len(source)))
  ELSE LET k == CHOOSE k \in DOMAIN def.params : def.params[k] = text IN
       IF k <= Len(source) THEN source[k] ELSE <<>>

Stringified(tokens) ==
  Token("string", <<"\"">> \o FlattenSeq([i \in DOMAIN tokens |-> tokens[i].text]) \o <<"\"">>)

Glued(left, right) ==
  LET text == left.text \o right.text IN
  Token(IF IsIdentifier(text) THEN "ident" ELSE left.kind, text)

\* A ## at i of the body: the last token so far and the first of the operand
\* become one; an empty argument on either side is a placemarker; a comma before
\* an empty tail is dropped.
Pasted(def, args, state, i) ==
  LET r     == SolidFrom(def.body, i + 1)
      right == def.body[r]
      some  == {k \in DOMAIN state.result : state.result[k].kind # "space"}
      left  == SubSeq(state.result, 1, Max(some \cup {0}))
      tokens == IF IsOperand(def, right.text) THEN Operand(def, args, right.text) ELSE <<right>>
      To(result, placemarker) ==
        [result |-> result, placemarker |-> placemarker, next |-> r + 1] IN
  IF r > Len(def.body) THEN To(left, state.placemarker)
  ELSE IF IsTail(def, right.text) /\ ~state.placemarker /\ left # <<>> /\ Is(Last(left), ",")
  THEN To(IF tokens = <<>> THEN Front(left) ELSE left \o tokens, FALSE)
  ELSE IF tokens = <<>> THEN To(left, state.placemarker)
  ELSE IF state.placemarker \/ left = <<>> THEN To(left \o tokens, FALSE)
  ELSE To(Front(left) \o <<Glued(Last(left), Head(tokens))>> \o Tail(tokens), FALSE)

\* One token of the replacement list, unless a # or ## took it already.
Substituting(def, args, expanded, state, i) ==
  LET token == def.body[i]
      named == SolidFrom(def.body, i + 1)
      raw   == KindAfter(def.body, i) = "hashhash"
      To(tokens, placemarker, next) ==
        [result |-> state.result \o tokens, placemarker |-> placemarker, next |-> next] IN
  IF i < state.next THEN state
  ELSE IF /\ token.kind = "hash" /\ named <= Len(def.body)
          /\ IsOperand(def, def.body[named].text)
  THEN To(<<Stringified(Operand(def, args, def.body[named].text))>>, FALSE, named + 1)
  ELSE IF token.kind = "hashhash" THEN Pasted(def, args, state, i)
  ELSE IF token.kind = "ident" /\ IsOperand(def, token.text)
  THEN LET tokens == Operand(def, IF raw THEN args ELSE expanded, token.text) IN
       To(tokens, raw /\ tokens = <<>>, i + 1)
  ELSE To(<<Emitted(token)>>, IsBlank(token) /\ state.placemarker, i + 1)

Replacement(def, args, expanded) ==
  IF ~def.function THEN [i \in DOMAIN def.body |-> Emitted(def.body[i])]
  ELSE FoldLeftDomain(LAMBDA state, i : Substituting(def, args, expanded, state, i),
                      [result |-> <<>>, placemarker |-> FALSE, next |-> 1], def.body).result

-----------------------------------------------------------------------------
(* The calls *)

ScanLimits == [max_macro_expansions : Nat, max_macro_expansion_depth : Nat]

ASSUME SetupsAssumption ==
  \A k \in DOMAIN Setups :
    /\ \A macros \in Setups[k].tables : IsFiniteSet(DOMAIN macros)
    /\ Setups[k].limits \in ScanLimits

VARIABLES
  config,      \* active_macros, the text to expand, the limits
  stack,       \* the calls, innermost last
  paint,       \* names whose replacement is being read, innermost last
  expansions,  \* macro_expansions
  issues, stopped,
  output       \* what the outermost call returned

vars == <<config, stack, paint, expansions, issues, stopped, output>>

macros == config.macros
MaxExpansions == config.limits.max_macro_expansions
MaxDepth == config.limits.max_macro_expansion_depth

Call(tokens, purpose) ==
  [tokens |-> tokens, at |-> 1, result |-> <<>>, purpose |-> purpose, invocation |-> None]

\* expand_tokens is called with `text`.
Starts(limits, table, text) ==
  /\ config = [macros |-> table, text |-> text, limits |-> limits]
  /\ stack = <<Call(text, "text")>>
  /\ paint = <<>> /\ expansions = 0
  /\ issues = <<>> /\ stopped = FALSE
  /\ output = <<>>

Init ==
  \E k \in DOMAIN Setups :
    \E table \in Setups[k].tables, text \in Setups[k].texts :
      Starts(Setups[k].limits, table, text)

Top   == stack[Len(stack)]
This  == Top.tokens[Top.at]
With(call) == stack' = [stack EXCEPT ![Len(stack)] = call]
Caller == stack[Len(stack) - 1]
Leaving(call) == stack' = [i \in 1..(Len(stack) - 1) |-> IF i = Len(stack) - 1 THEN call ELSE stack[i]]

Reading == stack # <<>> /\ Top.invocation = None /\ ~stopped /\ Top.at <= Len(Top.tokens)
Ended(purpose) ==
  /\ stack # <<>> /\ Top.purpose = purpose
  /\ Top.invocation = None
  /\ stopped \/ Top.at > Len(Top.tokens)

LimitHit(code) ==
  /\ issues' = IF stopped THEN issues ELSE Append(issues, code)
  /\ stopped' = TRUE

Painted(name) == \E i \in DOMAIN paint : paint[i] = name

\* Mutant of Named: nothing is painted.
NamedAlways == This.kind = "ident" /\ This.text \in DOMAIN macros

Named == This.kind = "ident" /\ ~Painted(This.text) /\ This.text \in DOMAIN macros

Def     == macros[This.text]
Bare    == Def.function /\ ~HasArguments(Top.tokens, Top.at)
Args    == IF Def.function THEN ArgumentsAt(Top.tokens, Top.at) ELSE <<>>
PastInvocation == IF Def.function THEN ClosingOf(Top.tokens, Top.at) + 1 ELSE Top.at + 1
Fits    == Def.function => ArityMatches(Def, Args)

Keep(next) ==
  With([Top EXCEPT !.result = @ \o SubSeq(Top.tokens, Top.at, next - 1), !.at = next])

PassToken ==
  /\ Reading /\ ~Named
  /\ Keep(Top.at + 1)
  /\ UNCHANGED <<config, paint, expansions, issues, stopped, output>>

\* The name of a function-like macro without arguments is a token like others.
PassName ==
  /\ Reading /\ Named /\ Bare
  /\ Keep(Top.at + 1)
  /\ issues' = IF FollowedByParenthesis(Top.tokens, Top.at) THEN Append(issues, "E2112")
               ELSE issues
  /\ UNCHANGED <<config, paint, expansions, stopped, output>>

PassInvocation ==
  /\ Reading /\ Named /\ ~Bare /\ ~Fits
  /\ Keep(PastInvocation)
  /\ issues' = Append(issues, "E2110")
  /\ UNCHANGED <<config, paint, expansions, stopped, output>>

Invoke ==
  /\ Reading /\ Named /\ ~Bare /\ Fits
  /\ expansions' = expansions + 1
  /\ IF expansions' > MaxExpansions
     THEN LimitHit("E2206") /\ UNCHANGED stack
     ELSE /\ With([Top EXCEPT !.invocation =
                     [name |-> This.text, args |-> Args, expanded |-> <<>>,
                      next |-> PastInvocation]])
          /\ UNCHANGED <<issues, stopped>>
  /\ UNCHANGED <<config, paint, output>>

Invoking  == stack # <<>> /\ Top.invocation # None
Prepared  == Len(Top.invocation.expanded) = Len(Top.invocation.args)
Following == Len(Top.invocation.expanded) + 1
Prescan   == Following \in Prescanned(macros[Top.invocation.name], Len(Top.invocation.args))

\* Mutant of EnterArgument: the name is painted while its arguments are read.
EnterPainted ==
  /\ Invoking /\ ~Prepared /\ Prescan
  /\ stack' = Append(stack, Call(Top.invocation.args[Following], "argument"))
  /\ paint' = Append(paint, Top.invocation.name)
  /\ UNCHANGED <<config, expansions, issues, stopped, output>>

EnterArgument ==
  /\ Invoking /\ ~Prepared /\ Prescan
  /\ stack' = Append(stack, Call(Top.invocation.args[Following], "argument"))
  /\ UNCHANGED <<config, paint, expansions, issues, stopped, output>>

SkipArgument ==
  /\ Invoking /\ ~Prepared /\ ~Prescan
  /\ With([Top EXCEPT !.invocation.expanded = Append(@, <<>>)])
  /\ UNCHANGED <<config, paint, expansions, issues, stopped, output>>

LeaveArgument ==
  /\ Ended("argument")
  /\ Leaving([Caller EXCEPT !.invocation.expanded = Append(@, Top.result)])
  /\ UNCHANGED <<config, paint, expansions, issues, stopped, output>>

\* The replacement is read again, painted with the name.
Replace ==
  /\ Invoking /\ Prepared
  /\ IF Len(paint) >= MaxDepth
     THEN /\ LimitHit("E2209")
          /\ With([Top EXCEPT !.invocation = None])
          /\ UNCHANGED paint
     ELSE /\ LET call == Top.invocation IN
             stack' = Append(stack, Call(Replacement(macros[call.name], call.args, call.expanded),
                                         "replacement"))
          /\ paint' = Append(paint, Top.invocation.name)
          /\ UNCHANGED <<issues, stopped>>
  /\ UNCHANGED <<config, expansions, output>>

LeaveReplacement ==
  /\ Ended("replacement")
  /\ Leaving([Caller EXCEPT !.result = @ \o Top.result, !.invocation = None,
                             !.at = Caller.invocation.next])
  /\ paint' = Front(paint)
  /\ UNCHANGED <<config, expansions, issues, stopped, output>>

Return ==
  /\ Ended("text")
  /\ output' = Top.result
  /\ stack' = <<>>
  /\ UNCHANGED <<config, paint, expansions, issues, stopped>>

Step ==
  \/ PassToken
  \/ PassName
  \/ PassInvocation
  \/ Invoke
  \/ EnterArgument
  \/ SkipArgument
  \/ LeaveArgument
  \/ Replace
  \/ LeaveReplacement
  \/ Return

Spec == Init /\ [][Step]_vars

-----------------------------------------------------------------------------
(* Properties *)

Done == stack = <<>>

\* The depth limit is a limit on names: it can be met only by a chain of more
\* different macros than it allows, however often and however deep they are
\* invoked, because no name is ever painted twice.
DepthIsOfNames ==
  (\E i \in DOMAIN issues : issues[i] = "E2209") => Cardinality(DOMAIN macros) > MaxDepth

=============================================================================
