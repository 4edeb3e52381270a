--------------------------- MODULE PegExpressions ---------------------------
(***************************************************************************)
(* The shapes a parser rule is built of.                                   *)
(*                                                                         *)
(* src/parser is a parsing-expression grammar written out as Rust          *)
(* functions: a rule is a sequence of matches, an ordered choice between   *)
(* them, a loop around them, a test of a language flavour, or an effect on *)
(* the scopes of declared names.  Here a rule is a value built from these  *)
(* shapes, and PegParser says what each of them does.                      *)
(*                                                                         *)
(* The text is a sequence of tokens.  A keyword, an operator and a bracket *)
(* are tokens of their own; NUMBER stands for any constant and TEXT for    *)
(* any string literal, whose spelling no rule of these modules looks into. *)
(* Blanks separate tokens and are not tokens.                              *)
(***************************************************************************)
EXTENDS Sequences

\* One of these tokens, and nothing else.
Words(tokens) == [op |-> "words", tokens |-> tokens]
Word(token)   == Words({token})

\* All the parts in order; the first of the alternatives that matches.
InOrder(parts)       == [op |-> "sequence", parts |-> parts]
Choice(alternatives) == [op |-> "choice", parts |-> alternatives]

\* As often as it matches; once or not at all.
Many(part) == [op |-> "many", part |-> part]
Maybe(part) == [op |-> "maybe", part |-> part]
Some(part) == InOrder(<<part, Many(part)>>)

\* One or more parts with separators between them: a separator after which
\* no part follows is given back.
Listed(part)   == InOrder(<<part, Many(InOrder(<<Word(","), part>>))>>)
Separated(part) == Maybe(Listed(part))

\* The empty text, where the part does not match.
Unless(part) == [op |-> "unless", part |-> part]

\* A rule by its name, for the rules that reach themselves.
Rule(name) == [op |-> "rule", name |-> name]

\* Matches the empty text in one flavour of the language only.
GnuOnly   == [op |-> "flavor", within |-> {"gnu", "clang"}]
ClangOnly == [op |-> "flavor", within |-> {"clang"}]
Gnu(part)   == InOrder(<<GnuOnly, part>>)
Clang(part) == InOrder(<<ClangOnly, part>>)

\* A token that may name something, and one that names a type where it stands.
Identifier == [op |-> "identifier"]
TypeIdentifier == [op |-> "typename"]

\* part runs in a scope of its own, which is left whether it matches or not.
Scoped(part) == [op |-> "scoped", part |-> part]

\* Both parts in order; the name the first one found is the name of both.
Naming(part, rest) == [op |-> "naming", part |-> part, rest |-> rest]

\* part, and then the name it found is declared in the innermost scope.
Declares(part, symbol) == [op |-> "declares", part |-> part, symbol |-> symbol]

\* part, whose outcome at a position is kept for the rest of the parse.
Cached(part) == [op |-> "cached", part |-> part]

\* part, whose span and name belong to what the parse returns.
Noted(part, kind) == [op |-> "noted", part |-> part, kind |-> kind]

NUMBER == "1"
TEXT   == "s"
=============================================================================
