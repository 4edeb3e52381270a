----------------------------- MODULE PegParser -----------------------------
(***************************************************************************)
(* What the rules of src/parser do with a text.                            *)
(*                                                                         *)
(* A rule starts at a position and either matches, and says where it       *)
(* ended, or fails.  A failed rule gives back its position, and what it    *)
(* found is forgotten, but not what it did to the scopes of declared names *)
(* and to the cache: both belong to the whole parse and no alternative     *)
(* sets them back.                                                         *)
(*                                                                         *)
(* The parse is a record: whether the last rule matched, where it ended,   *)
(* the scopes, the cache, the name it found, and the notes about what is   *)
(* part of the result (declared names, names used as types, scopes).       *)
(***************************************************************************)
EXTENDS StatementGrammar, TokenText, NameScopes, TLC

Note(kind, name, from, to) == [kind |-> kind, name |-> name, from |-> from, to |-> to]
NONAME == ""

Started(text, flavor, at, scopes, cache) ==
    [text |-> text, flavor |-> flavor, ok |-> TRUE, at |-> at, scopes |-> scopes,
     cache |-> cache, name |-> NONAME, notes |-> {}]

\* after, a failed attempt that began at before.
Failed(before, after) ==
    [after EXCEPT !.ok = FALSE, !.at = before.at, !.name = before.name,
                  !.notes = before.notes]

\* One token of the given kind.
Token(s, tokens) ==
    LET at == Blank(s.text, s.at) IN
    IF at <= Len(s.text) /\ s.text[at] \in tokens
    THEN [s EXCEPT !.at = at + 1, !.name = s.text[at]]
    ELSE Failed(s, s)

\* A name that stands for a type here.
TypeToken(s) ==
    LET r == Token(s, Names) IN
    IF r.ok /\ IsTypename(s.scopes, r.name)
    THEN [r EXCEPT !.notes = @ \union {Note("TypeUse", r.name, r.at - 1, r.at)}]
    ELSE Failed(s, s)

\* The attempt r, begun at s, with a note about it when it matched.
Remarked(s, r, kind) ==
    IF ~r.ok THEN r
    ELSE [r EXCEPT !.notes =
                       @ \union {Note(kind, r.name, Blank(s.text, s.at), r.at)}]

\* A matched attempt that declares the name it found.
Declared(s, r, symbol) ==
    IF ~r.ok THEN r
    ELSE [Remarked(s, r, symbol) EXCEPT
              !.scopes = AddSymbol(@, r.name, symbol)]

\* The cached outcome at this position; its effects are not repeated.
Key(s) == Blank(s.text, s.at)
Recalled(s) ==
    LET entry == s.cache[Key(s)] IN
    IF entry.ok THEN [s EXCEPT !.at = entry.at, !.notes = @ \union entry.notes]
    ELSE Failed(s, s)

Stored(s, r) ==
    [r EXCEPT !.cache = (Key(s) :> [ok |-> r.ok, at |-> r.at,
                                    notes |-> r.notes \ s.notes]) @@ @]

----------------------------------------------------------------------------
RECURSIVE Match(_, _), InTurn(_, _, _), FirstOf(_, _, _), Repeated(_, _)

\* The parts from the i-th on, in order.
InTurn(parts, i, s) ==
    IF i > Len(parts) THEN s
    ELSE LET r == Match(parts[i], s) IN IF r.ok THEN InTurn(parts, i + 1, r) ELSE r

\* The first of the parts from the i-th on that matches.
FirstOf(parts, i, s) ==
    LET r == Match(parts[i], s) IN
    IF r.ok \/ i = Len(parts) THEN r
    ELSE FirstOf(parts, i + 1, [r EXCEPT !.ok = TRUE])

Repeated(part, s) ==
    LET r == Match(part, s) IN
    IF r.ok THEN Repeated(part, r) ELSE [r EXCEPT !.ok = TRUE]

\* Mutant of Left: a rule that fails leaves its scope open.
LeftOnMatch(r) ==
    [r EXCEPT !.scopes = IF r.ok THEN LeaveScope(@) ELSE @, !.name = NONAME]

\* A part in a scope that is left however the part ends.
Left(r) == [r EXCEPT !.scopes = LeaveScope(@), !.name = NONAME]
InScope(part, s) ==
    Remarked(s, Left(Match(part, [s EXCEPT !.scopes = EnterScope(@)])), "Scope")

Match(e, s) ==
    CASE e.op = "words"      -> Token(s, e.tokens)
      [] e.op = "rule"       -> Match(Rules[e.name], s)
      [] e.op = "sequence"   ->
            LET r == InTurn(e.parts, 1, s) IN IF r.ok THEN r ELSE Failed(s, r)
      [] e.op = "choice"     -> FirstOf(e.parts, 1, s)
      [] e.op = "many"       -> Repeated(e.part, s)
      [] e.op = "maybe"      -> [Match(e.part, s) EXCEPT !.ok = TRUE]
      [] e.op = "flavor"     -> IF s.flavor \in e.within THEN s ELSE Failed(s, s)
      [] e.op = "unless"     ->
            LET r == Match(e.part, s) IN
            IF r.ok THEN Failed(s, r) ELSE [r EXCEPT !.ok = TRUE]
      [] e.op = "identifier" -> Token(s, Names)
      [] e.op = "typename"   -> TypeToken(s)
      [] e.op = "scoped"     -> InScope(e.part, s)
      [] e.op = "naming"     ->
            LET first == Match(e.part, s)
                r     == IF first.ok THEN Match(e.rest, first) ELSE first
            IN IF r.ok THEN [r EXCEPT !.name = first.name] ELSE Failed(s, r)
      [] e.op = "declares"   -> Declared(s, Match(e.part, s), e.symbol)
      [] e.op = "cached"     ->
            IF Key(s) \in DOMAIN s.cache THEN Recalled(s) ELSE Stored(s, Match(e.part, s))
      [] e.op = "noted"      -> Remarked(s, Match(e.part, s), e.kind)

\* Behind the line break before it a directive is none any more, and nothing that
\* begins with a hash is a declaration.
ExternalDeclarationAt(text, flavor, at, scopes, cache) ==
    LET s == Started(text, flavor, at, scopes, cache) IN
    IF text[at] = DIRECTIVE THEN Failed(s, s) ELSE Match(external_declaration, s)
=============================================================================
