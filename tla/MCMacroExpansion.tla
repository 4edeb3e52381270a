-------------------------- MODULE MCMacroExpansion --------------------------
(***************************************************************************)
(* Tables of macros and texts for MacroExpansion: object-like macros A and *)
(* B, the functions F(x), J(x, y) and V(x, ...), that name themselves and  *)
(* each other, and texts that invoke them in each other's arguments and    *)
(* across the ends of replacements.                                        *)
(***************************************************************************)
EXTENDS ConditionEvaluation

MCLetters == {"A", "B", "F", "J", "V", "x", "y", "__VA_ARGS__", "defined"}
MCDigits  == {"0", "1", "3", "4", "2u", "7u", "8u", "0x5"}

KindOf(atom) ==
  CASE atom \in MCLetters -> "ident"
    [] atom = " "  -> "space"
    [] atom = "/**/" -> "comment"
    [] atom \in MCDigits -> "number"
    [] atom = "#"  -> "hash"
    [] atom = "##" -> "hashhash"
    [] OTHER -> "other"
Tokens(atoms) == [i \in DOMAIN atoms |-> Token(KindOf(atoms[i]), <<atoms[i]>>)]
Texts(set) == {Tokens(atoms) : atoms \in set}

Object(body) == [function |-> FALSE, params |-> <<>>, variadic |-> FALSE, body |-> body]
Function(params, body) ==
  [function |-> TRUE, params |-> params, variadic |-> FALSE, body |-> body]
Variadic(params, body) ==
  [function |-> TRUE, params |-> params, variadic |-> TRUE, body |-> body]

NameA == <<"A">>
NameB == <<"B">>
NameX == <<"x">>
NameY == <<"y">>

\* Names that meet themselves again, directly, through each other, in arguments.
Bodies == Texts({<<>>, <<"1">>, <<"A">>, <<"B">>, <<"F">>, <<"F", "(", "B", ")">>, <<"A", " ", "F">>})
FBodies == Texts({<<"x">>, <<"x", " ", "x">>, <<"A">>, <<"F", "(", "x", ")">>, <<"x", "(", "1", ")">>,
                  <<"A", "(", "x", ")">>, <<"B", "/**/", "x">>})
PlainTables ==
  {(NameA :> Object(d)) @@ (NameB :> Object(e)) @@ (<<"F">> :> Function(<<NameX>>, f)) :
     d \in Bodies, e \in Texts({<<>>, <<"A">>, <<"F">>, <<"1", "B">>}), f \in FBodies}
Arguments == {<<>>, <<"1">>, <<"A">>, <<"B">>, <<"F">>, <<"A", "(", "1", ")">>,
              <<"F", "(", "A", ")">>, <<"F", " ", "(", "F", ")">>, <<" ", "B", ",", "1">>,
              <<"(", "1", ",", "A", ")">>, <<"A", " ", "B">>}
PlainTexts ==
  Texts({s \o <<"(">> \o p \o <<")">> : s \in {<<"F">>, <<"A">>, <<"A", " ">>, <<"1", "F", " ">>},
                                        p \in Arguments}
        \cup {<<"F", "(", "A", ")", "(", "B", ")">>, <<"F", "(", "A">>, <<"F">>, <<"F", ")", "A">>,
              <<"A", " ", "A">>, <<"B", "(", "F", "(", "1", ")", ")">>, <<"A", "B", "F">>})

\* # and ## with empty, single and double operands on both sides.
JBodies ==
  Texts({<<"x", "##", "y">>, <<"x", " ", "##", " ", "y", "##", "x">>, <<"1", "##", "x", "##", "y">>,
         <<"x", "##", "1", " ", "y">>, <<"#", "x", "y">>, <<"x", " ", "#", "y">>,
         <<"B", "##", "y", "x">>, <<"x", "y", "##", "/**/", "1", "x">>,
         <<"1", "x", "##", "y">>, <<"x", "##", "y", "##", "1">>, <<"x", "##", "#", "y">>})
VBodies ==
  Texts({<<"1", ",", "##", "__VA_ARGS__">>, <<"x", ",", " ", "##", " ", "__VA_ARGS__">>,
         <<"x", "##", "__VA_ARGS__">>, <<"#", "__VA_ARGS__">>, <<"F", "(", "__VA_ARGS__", ")">>,
         <<",", "x", "##", "__VA_ARGS__">>})
PastingTables ==
  {(NameA :> Object(d)) @@ (<<"A", "B">> :> Object(Tokens(<<"1", "A">>)))
     @@ (<<"F">> :> Function(<<NameX>>, Tokens(<<"J", "(", "x", ",", "x", ")">>)))
     @@ (<<"J">> :> Function(<<NameX, NameY>>, j)) @@ (<<"V">> :> Variadic(<<NameX>>, v)) :
     d \in Texts({<<>>, <<"B">>, <<"1", " ", "A">>}), j \in JBodies, v \in VBodies}
Operands == {<<>>, <<"A">>, <<"B">>, <<"1", " ", "A">>, <<"(", "A", ",", "1", ")">>}
PastingTexts ==
  Texts({<<"J", "(">> \o p \o <<",">> \o q \o <<")">> : p, q \in Operands}
        \cup {<<s, "(">> \o p \o <<")">> : s \in {"V", "F"}, p \in Operands}
        \cup {<<"V", "(", "A", ",">> \o p \o <<",">> \o q \o <<")">> : p, q \in {<<"B">>, <<>>}}
        \cup {<<"F", "(", "J", "(", "A", ",", "B", ")", ")">>, <<"V", "(", ")", "1">>})

\* Chains of names and nested invocations under limits that they meet.
DeepTexts ==
  Texts({<<"F", "(", "F", "(", "F", "(", "F", "(", "1", ")", ")", ")", ")">>,
         <<"A", " ", "B", "F", "(", "B", ")">>, <<"F", "(", "A", ")", "A">>})

Limits(count, depth) ==
  [max_macro_expansions |-> count, max_macro_expansion_depth |-> depth]
Wide == Limits(99, 99)

MCSetups ==
  <<[tables |-> PlainTables, texts |-> PlainTexts, limits |-> Wide],
    [tables |-> PastingTables, texts |-> PastingTexts, limits |-> Wide],
    [tables |-> PlainTables, texts |-> DeepTexts, limits |-> Limits(9, 1)],
    [tables |-> PlainTables, texts |-> DeepTexts, limits |-> Limits(9, 2)],
    [tables |-> PlainTables, texts |-> DeepTexts, limits |-> Limits(9, 3)],
    [tables |-> PlainTables, texts |-> DeepTexts, limits |-> Limits(2, 9)]>>

-----------------------------------------------------------------------------
(* Conditions at a width of three bits *)

MCLiterals ==
  LET Of(value, unsigned, decimal) ==
        [value |-> value, unsigned |-> unsigned, decimal |-> decimal] IN
  (<<"0">> :> Of(0, FALSE, TRUE)) @@ (<<"1">> :> Of(1, FALSE, TRUE))
    @@ (<<"3">> :> Of(3, FALSE, TRUE)) @@ (<<"4">> :> Of(4, FALSE, TRUE))
    @@ (<<"2u">> :> Of(2, TRUE, TRUE)) @@ (<<"7u">> :> Of(7, TRUE, TRUE))
    @@ (<<"8u">> :> Of(8, TRUE, TRUE)) @@ (<<"0x5">> :> Of(5, FALSE, FALSE))

Operators == UNION {Levels[level] : level \in DOMAIN Levels}
Some      == {"1", "3", "2u"}
Prefixed  == {<<a>> : a \in {"0", "1", "3", "7u", "0x5", "A"}}
             \cup {<<"-", a>> : a \in {"1", "3", "2u", "4"}}
             \cup {<<"~", a>> : a \in {"1", "2u"}} \cup {<<"!", "3">>, <<"+", "2u">>}

Chains  == {<<a, p, b, q, c>> : p, q \in Operators, a \in {"1", "3"}, b \in Some, c \in {"1", "2u"}}
Pairs   == {a \o <<p>> \o b : p \in Operators, a, b \in Prefixed}
Grouped == {<<"(", "-", "3", p, a, ")", q, "-", b>> :
              p \in {"-", "/", "<"}, q \in Operators, a \in Some, b \in Some}
Guarded == {<<a, p, "1", q, "0">> : p \in {"&&", "||"}, q \in {"/", "%"}, a \in {"0", "3"}}
Ternaries == {<<a, "?", b, ":", c>> \o d : a \in {"0", "1"}, b, c \in Some,
              d \in {<<>>, <<">", "1">>, <<"?", "0", ":", "1">>, <<"?", "2u", ":", "3", "-", "3">>}}
           \cup {<<"(", a, "?", "-", b, ":", c, ")", p, "1">> :
                    a \in {"0", "1"}, b, c \in Some, p \in {">", "/", ">>"}}
           \cup {<<a, "?", "0", "?", "1", ":", "3", ":", b, "/", b>> : a, b \in {"0", "1"}}
LeastByMinusOne == {<<"(", "-", "3", "-", "1", ")", p, "-", "1">> : p \in Operators}
Broken  == {<<>>, <<"1", "1">>, <<"(", "1">>, <<"1", ")">>, <<"(", ")">>, <<"1", "?">>, <<"1", "?", "1">>,
            <<"1", ":", "1">>, <<"1", "+">>, <<"+">>, <<"-", "*", "1">>, <<"8u", "<", "1">>,
            <<"0", "&&", "4">>, <<"1", "?", "1", ",", "1", ":", "0">>, <<"1", "=", "1">>, <<"#", "1">>}
NoTables == {<<>>}

\* The macros that a condition may name.
AskedTables ==
  {(NameA :> Object(d)) @@ (<<"F">> :> Function(<<NameX>>, f)) :
     d \in Texts({<<>>, <<"3">>, <<"-", "1">>, <<"F">>, <<"1", "+", "A">>}),
     f \in Texts({<<"x", "*", "3">>, <<"(", "x", "+", "1", ")">>, <<"defined">>, <<"A", "x">>})}
Asking ==
  {<<"defined", " ", "A", "&&", "F", "(", "A", ")">>, <<"defined", "(", "B", ")", "||", "A", "-", "1">>,
   <<"defined", " ", "(", " ", "A", " ", ")", "==", "1">>, <<"defined">>, <<"defined", "(", "A">>,
   <<"defined", " ", "1">>, <<"defined", "(", "A", "B", ")">>, <<"defined", "/**/", "A">>,
   <<"F", "(", "1", "-", "A", ")", "<", "3">>, <<"-", "A", "+", "1">>, <<"F", "(", "A">>, <<"F", "+", "1">>,
   <<"F", "/**/", "(", "1", ")">>, <<"F", "(", "1", ",", "1", ")">>, <<"F", "(", "defined", " ", "B", ")">>,
   <<"!", "defined", " ", "B", "?", "A", ":", "B">>}

Condition(tables, texts, limits, width) ==
  [tables |-> tables, texts |-> Texts(texts), limits |-> limits, bits |-> width]
MCConditions ==
  <<Condition(NoTables, Chains, Wide, 3), Condition(NoTables, Pairs, Wide, 3),
    Condition(NoTables, Grouped, Wide, 3), Condition(NoTables, Guarded, Wide, 3),
    Condition(NoTables, Ternaries, Wide, 3), Condition(NoTables, LeastByMinusOne, Wide, 3),
    Condition(NoTables, Broken, Wide, 3), Condition(NoTables, Guarded, Wide, 1),
    Condition(AskedTables, Asking, Wide, 3), Condition(AskedTables, Asking, Limits(1, 9), 4)>>

\* Choices between signed and unsigned values.
ChoiceConditions == <<Condition(NoTables, Ternaries, Wide, 3)>>
NoSetups == <<>>

=============================================================================
