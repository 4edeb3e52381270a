-------------------------- MODULE ResilientParser --------------------------
(***************************************************************************)
(* translation_unit and translation_unit_resilient of                      *)
(* src/parser/public_api.rs: a whole file is parsed as one list of         *)
(* external declarations, and when that does not reach the end of the text *)
(* the parse begins again, one declaration at a time, leaving out what is  *)
(* no declaration up to the next place where one may begin.                *)
(*                                                                         *)
(* The scopes of declared names outlive every declaration.  They go back   *)
(* to their initial value once, between the two passes; a declaration that *)
(* is left out keeps what it declared before it failed.                    *)
(***************************************************************************)
EXTENDS NameScopes, TokenText, FiniteSets

CONSTANTS
    Texts,                             \* The texts to parse,
    Flavors(_),                        \* each in these flavours of the language.
    WellFormed,                        \* Declarations that need no other one.
    ExternalDeclaration(_, _, _, _, _)
        \* The outcome of the rule external_declaration in a text, for a
        \* flavour, at a position, with these scopes and this cache.

ASSUME TextsAreTokens == Texts \subseteq Seq(STRING)
ASSUME WellFormedAssumption ==
    \A d \in WellFormed : d \in Seq(STRING) /\ d # <<>> /\ d[1] \notin {DIRECTIVE, ";"}

VARIABLES text, flavor,    \* What is parsed.
          phase,           \* What translation_unit_resilient is doing.
          pos,             \* The next token.
          scopes,          \* Env::symbols.
          cache,           \* The cached outcomes of the current ParseState.
          items,           \* The declarations of the unit, in order,
          errors,          \* and the spans left out, in order.
          prefix           \* History: what the strict pass found.

vars == <<text, flavor, phase, pos, scopes, cache, items, errors, prefix>>

Phases == {"enter", "strict", "recover", "done"}
End == Len(text) + 1
NoCache == <<>>

\* What stands at from up to but not at to.
SpanOf(from, to) == [from |-> from, to |-> to]
ItemOf(r)        == [from |-> pos, to |-> r.at, notes |-> r.notes]

\* The outcome for the declaration that begins at pos.
Outcome == ExternalDeclaration(text, flavor, pos, scopes, cache)

----------------------------------------------------------------------------
(* __skip_to_sync_point: where the text goes on after a declaration that   *)
(* begins at i was left out.                                               *)

Braces(brace, from, to) == Cardinality({k \in from .. to : text[k] = brace})
Depth(from, to) == Braces("{", from, to) - Braces("}", from, to)

\* j is the first semicolon or opening brace from i on.
Stops(i, j) ==
    /\ text[j] \in {";", "{"}
    /\ \A k \in i .. j - 1 : text[k] \notin {";", "{"}

\* Mutant of Closes: braces inside the block are not counted.
FirstCloses(j, k) == text[k] = "}" /\ \A i \in j .. k - 1 : text[i] # "}"

\* The brace at k closes the one at j.
Closes(j, k) ==
    /\ Depth(j, k) = 0
    /\ \A i \in j .. k - 1 : Depth(j, i) > 0

\* Mutant of AfterBlock: a block ends at a semicolon like everything else.
AfterStatement(k) ==
    IF \E n \in k .. Len(text) : text[n] = ";"
    THEN (CHOOSE n \in k .. Len(text) :
             text[n] = ";" /\ \A m \in k .. n - 1 : text[m] # ";") + 1
    ELSE End

AfterBlock(k) == IF k < Len(text) /\ text[k + 1] = ";" THEN k + 2 ELSE k + 1

\* Mutant of SyncPoints: the semicolon is left for the next round.
SyncAtSemicolon(i) ==
    {n \in i .. End :
        \E j \in i .. Len(text) :
            /\ Stops(i, j)
            /\ \/ text[j] = ";" /\ n = j
               \/ /\ text[j] = "{"
                  /\ \E k \in j .. Len(text) : Closes(j, k) /\ n = AfterBlock(k)}

\* After the first semicolon, or the first block and a semicolon behind it,
\* whichever begins first; nowhere, when that block is not closed.
SyncPoints(i) ==
    {n \in i + 1 .. End :
        \E j \in i .. Len(text) :
            /\ Stops(i, j)
            /\ \/ text[j] = ";" /\ n = j + 1
               \/ /\ text[j] = "{"
                  /\ \E k \in j .. Len(text) : Closes(j, k) /\ n = AfterBlock(k)}

\* The line break behind a block is consumed in the search for its semicolon; a
\* directive on the next line is then no longer taken for one.
AfterSync(n) == IF text[n - 1] = ";" THEN AfterBlanks(text, n) ELSE {n}

----------------------------------------------------------------------------
Init ==
    /\ text \in Texts
    /\ flavor \in Flavors(text)
    /\ phase = "enter"
    /\ pos = 1
    /\ scopes = InitialScopes(flavor)
    /\ cache = NoCache
    /\ items = <<>> /\ errors = <<>> /\ prefix = <<>>

\* The strict pass takes a directive at the very start of the text.
Begins == IF pos < End /\ text[pos] = DIRECTIVE THEN pos + 1 ELSE pos
Start ==
    /\ phase = "enter"
    /\ phase' = "strict"
    /\ pos' \in AfterBlanks(text, Begins)
    /\ UNCHANGED <<text, flavor, scopes, cache, items, errors, prefix>>

\* The declaration at pos, parsed with the outcome r, is part of the unit.
TakeItem(r) ==
    /\ r.ok
    /\ items' = Append(items, ItemOf(r))
    /\ pos' \in AfterBlanks(text, r.at)
    /\ scopes' = r.scopes
    /\ cache' = IF phase = "strict" THEN r.cache ELSE NoCache
    /\ UNCHANGED <<text, flavor, phase, errors, prefix>>

StrictItem ==
    /\ phase = "strict"
    /\ pos < End
    /\ TakeItem(Outcome)

StrictAccepted ==
    /\ phase = "strict"
    /\ pos = End
    /\ phase' = "done"
    /\ prefix' = items
    /\ UNCHANGED <<text, flavor, pos, scopes, cache, items, errors>>

\* Mutants of StrictRejected: the scopes are not set back; the offset of the
\* start is not that of the first token.
KeepsScopes ==
    /\ phase = "strict"
    /\ pos < End
    /\ LET r == Outcome IN ~r.ok /\ scopes' = r.scopes
    /\ phase' = "recover"
    /\ pos' \in AfterBlanks(text, 1)
    /\ cache' = NoCache
    /\ prefix' = items
    /\ items' = <<>>
    /\ UNCHANGED <<text, flavor, errors>>
StartsAtZero ==
    /\ phase = "strict"
    /\ pos < End
    /\ ~Outcome.ok
    /\ phase' = "recover"
    /\ pos' = 0
    /\ scopes' = InitialScopes(flavor)
    /\ cache' = NoCache
    /\ prefix' = items
    /\ items' = <<>>
    /\ UNCHANGED <<text, flavor, errors>>

\* Everything begins again; the start of the text is no place where a
\* directive is skipped.
StrictRejected ==
    /\ phase = "strict"
    /\ pos < End
    /\ ~Outcome.ok
    /\ phase' = "recover"
    /\ pos' \in AfterBlanks(text, 1)
    /\ scopes' = InitialScopes(flavor)
    /\ cache' = NoCache
    /\ prefix' = items
    /\ items' = <<>>
    /\ UNCHANGED <<text, flavor, errors>>

\* Every attempt of the second pass has a ParseState of its own.
RecoverItem ==
    /\ phase = "recover"
    /\ pos < End
    /\ TakeItem(Outcome)

Fails(r) ==
    /\ ~r.ok
    /\ scopes' = r.scopes
    /\ UNCHANGED <<text, flavor, cache, items, prefix>>

\* Mutant of RecoverSkip: the span is taken after pos has moved.
SpansLate ==
    /\ phase = "recover"
    /\ pos < End
    /\ Fails(Outcome)
    /\ \E sync \in SyncPoints(pos) :
          /\ errors' = Append(errors, SpanOf(sync, sync))
          /\ pos' \in AfterSync(sync)
    /\ UNCHANGED phase

RecoverSkip ==
    /\ phase = "recover"
    /\ pos < End
    /\ Fails(Outcome)
    /\ \E sync \in SyncPoints(pos) :
          /\ errors' = Append(errors, SpanOf(pos, sync))
          /\ pos' \in AfterSync(sync)
    /\ UNCHANGED phase

RecoverGiveUp ==
    /\ phase = "recover"
    /\ pos < End
    /\ Fails(Outcome)
    /\ SyncPoints(pos) = {}
    /\ errors' = Append(errors, SpanOf(pos, End))
    /\ pos' = End
    /\ phase' = "done"

RecoverEnd ==
    /\ phase = "recover"
    /\ pos = End
    /\ phase' = "done"
    /\ UNCHANGED <<text, flavor, pos, scopes, cache, items, errors, prefix>>

\* The caller has the result.
Returned == phase = "done" /\ UNCHANGED vars

Next ==
    \/ Start
    \/ StrictItem \/ StrictAccepted \/ StrictRejected
    \/ RecoverItem \/ RecoverSkip \/ RecoverGiveUp \/ RecoverEnd
    \/ Returned

Spec == Init /\ [][Next]_vars

----------------------------------------------------------------------------
SpanSet == [from : 1 .. End, to : 1 .. End]
NoteSet == [kind : STRING, name : STRING, from : Nat, to : Nat]
ItemSet == [from : 1 .. End, to : 1 .. End, notes : SUBSET NoteSet]

\* Every variable has its type.
TypeOK ==
    /\ flavor \in Flavors(text)
    /\ phase \in Phases
    /\ pos \in 1 .. End
    /\ scopes \in Seq(Scopes)
    /\ items \in Seq(ItemSet)
    /\ errors \in Seq(SpanSet)

\* A declaration is never the empty text: the rule that found one has moved on
\* by at least a token, and not past the end.  Otherwise the loops of
\* public_api.rs would not end.  What it says of scopes and notes has its type.
Advances(r) ==
    /\ r.ok \in BOOLEAN
    /\ r.scopes \in Seq(Scopes)
    /\ r.notes \subseteq NoteSet
    /\ r.ok => r.at \in pos + 1 .. End

\* What was cached while an earlier declaration was parsed makes no difference:
\* an outcome is that of an attempt with a cache of its own, as recovery makes
\* it, though the cache knows of positions and not of scopes
\* (postfix_and_compound.rs:32).
IsAsWith(r, fresh) ==
    /\ r.ok = fresh.ok /\ r.scopes = fresh.scopes /\ r.notes = fresh.notes
    /\ r.ok => r.at = fresh.at

IsAsFresh(r) ==
    phase = "strict" =>
        IsAsWith(r, ExternalDeclaration(text, flavor, pos, scopes, NoCache))

\* No declaration begins with a hash.
BeginsWithToken(r) == r.ok => text[pos] # DIRECTIVE

\* A declaration opens and closes its blocks.
Balances(r) == r.ok => Depth(pos, r.at - 1) = 0

\* A well-formed declaration begins at i, outside every block and behind the end
\* of another one.
StandsAt(i, d) ==
    /\ i + Len(d) <= End
    /\ SubSeq(text, i, i + Len(d) - 1) = d
    /\ Depth(1, i - 1) = 0
    /\ \E j \in 0 .. i - 1 : /\ j = 0 \/ text[j] \in {";", "}"}
                             /\ \A k \in j + 1 .. i - 1 : text[k] = DIRECTIVE

\* Such a declaration is found, whatever the scopes hold.
FindsWellFormed(r) == \A d \in WellFormed : StandsAt(pos, d) => r.ok

\* The rule leaves every scope it enters, on each of its ways out.
LeavesScopes(r) == Len(r.scopes) = Len(scopes)

----------------------------------------------------------------------------
(* What a name means by the notes about declarations alone.                *)

Inside(n, s) == s.from <= n.from /\ n.to <= s.to

Declarators(notes) == {n \in notes : n.kind \in Symbols \union {"function"}}
TypeUses(notes)    == {n \in notes : n.kind = "TypeUse"}

\* The scopes around a note; a function's name belongs to the file.
Around(n, notes) ==
    IF n.kind = "function" THEN {}
    ELSE {s \in notes : s.kind = "Scope" /\ Inside(n, s)}

\* The declarators of the name that reach the use.
Reaching(use, notes) ==
    {d \in Declarators(notes) : /\ d.name = use.name /\ d.to <= use.from
                                /\ Around(d, notes) \subseteq Around(use, notes)}

\* The inner scope hides the outer one, the later declaration the earlier.
Hides(d, e, notes) ==
    \/ Around(e, notes) \subseteq Around(d, notes) /\ Around(e, notes) # Around(d, notes)
    \/ Around(e, notes) = Around(d, notes) /\ e.to < d.to

\* The innermost and latest declaration that reaches the use is a typedef, or
\* none does and the name is a type around them.
IsTypeBy(use, notes, around) ==
    \/ \E d \in Reaching(use, notes) :
          d.kind = "Typename" /\ \A e \in Reaching(use, notes) : ~Hides(e, d, notes)
    \/ Reaching(use, notes) = {} /\ IsTypename(around, use.name)

\* The declarators of a name at file scope.
AtFileScope(name, notes) ==
    {d \in Declarators(notes) : d.name = name /\ Around(d, notes) = {}}

\* The file scope knows the latest of them, or else what it knew before.
Recorded(after, before, notes) ==
    \A name \in Names :
        LET ds == AtFileScope(name, notes) IN
        /\ ds = {} => after[1][name] = before[1][name]
        /\ \A d \in ds :
              (\A e \in ds : e.to <= d.to) =>
                  after[1][name] = IF d.kind = "Typename" THEN "Typename" ELSE "Identifier"

\* The notes of a matched declaration are about its own text; what it reads as a
\* type is one by them and the scopes it began with, and what it declares for the
\* file is in the scopes it ends with.
ReadsTypes(r) ==
    r.ok =>
        /\ \A n \in r.notes : pos <= n.from /\ n.to <= r.at
        /\ \A n \in Declarators(r.notes) \union TypeUses(r.notes) :
              n.from < n.to /\ n.name \in Names
        /\ \A use \in TypeUses(r.notes) : IsTypeBy(use, r.notes, scopes)
        /\ Recorded(r.scopes, scopes, r.notes)

\* What the two loops rely on of the rule external_declaration, of which the
\* model of the loops knows nothing else.
Parses == phase \in {"strict", "recover"} /\ pos < End

DeclarationAdvances    == Parses => Advances(Outcome)
CacheIsTransparent     == Parses => IsAsFresh(Outcome)
NoneBeginsWithHash     == Parses => BeginsWithToken(Outcome)
DeclarationsBalance    == Parses => Balances(Outcome)
WellFormedIsFound      == Parses => FindsWellFormed(Outcome)
ScopesAreLeft          == Parses => LeavesScopes(Outcome)
DeclarationsReadTypes  == Parses => ReadsTypes(Outcome)

OutcomesAreReliable ==
    Parses =>
        LET r == Outcome IN
        /\ Advances(r) /\ IsAsFresh(r) /\ BeginsWithToken(r) /\ Balances(r)
        /\ FindsWellFormed(r) /\ LeavesScopes(r) /\ ReadsTypes(r)

----------------------------------------------------------------------------
(* What the two loops promise.                                             *)

\* Both loops end: a round that is not the last one of its pass moves on, and
\* there is a last one, since a state in which no round is possible would be a
\* deadlock and pos has a bound.
RoundsAdvance == [][phase' = phase => pos' > pos]_vars

Within(k, span) == span.from <= k /\ k < span.to
Accounted(k) ==
    \/ text[k] = DIRECTIVE
    \/ \E i \in DOMAIN items : Within(k, items[i])
    \/ \E i \in DOMAIN errors : Within(k, errors[i])
Before(s, t) == s.to <= t.from

\* What has been parsed so far is accounted for: every token that is no
\* directive is in a declaration of the unit or in a span of an error, spans of
\* a kind are in order, and no text is both declared and left out
\* (public_api.rs:121-168).
TextIsAccounted ==
    /\ \A k \in 1 .. pos - 1 : Accounted(k)
    /\ \A i, j \in DOMAIN items : i < j => Before(items[i], items[j])
    /\ \A i, j \in DOMAIN errors : i < j => Before(errors[i], errors[j])
    /\ \A i \in DOMAIN items, j \in DOMAIN errors :
          Before(items[i], errors[j]) \/ Before(errors[j], items[i])

\* Between two declarations only the scope of the file is open, whatever was
\* tried, given up and left out before: every rule that enters a scope leaves it
\* on each of its ways out.
ScopesAreClosed == Len(scopes) = 1

\* Recovery keeps what the strict pass had already found before it met the
\* error, each with the names and types it had, in a text that does not begin
\* with a directive.
PrefixKept ==
    phase = "done" /\ text # <<>> /\ text[1] # DIRECTIVE
        => /\ Len(prefix) <= Len(items)
           /\ \A i \in DOMAIN prefix : items[i] = prefix[i]

\* In a text whose braces match, recovery never takes for a declaration of the
\* file what stands inside a block.
BracesMatch == Depth(1, Len(text)) = 0 /\ \A k \in 1 .. Len(text) : Depth(1, k) >= 0
ItemsAreAtFileScope ==
    BracesMatch => \A i \in DOMAIN items : Depth(1, items[i].from - 1) = 0

\* A block was left out, and there is nothing but directives between it and i:
\* the first of them fails as a declaration and takes along what stands at i.
Swallowed(i) ==
    \E k \in DOMAIN errors :
        /\ errors[k].to < i /\ text[errors[k].to - 1] # ";"
        /\ \A n \in errors[k].to .. i - 1 : text[n] = DIRECTIVE

\* Recovery leaves out no well-formed declaration because of what stands before
\* or behind it, in a text whose braces match and that does not begin with a
\* directive: wherever synchronisation stops, it stops in time.  What stands behind
\* a left-out block with a directive between them is the one exception, and always
\* lost: the search for the semicolon of the block has consumed the line break by
\* which the directive would be known (public_api.rs:195-202).
WellFormedIsKept ==
    phase = "done" /\ BracesMatch /\ text # <<>> /\ text[1] # DIRECTIVE =>
        \A i \in 1 .. Len(text), d \in WellFormed :
            StandsAt(i, d) =>
                (Swallowed(i) <=> ~ \E k \in DOMAIN items : Within(i, items[k]))

Notes == UNION {items[i].notes : i \in DOMAIN items}

\* Where the whole text was accepted, every name the parser read as a type is
\* one by the tree it returns: the innermost and latest declaration that reaches
\* the place is a typedef.  Nothing a given-up alternative declared, and no scope
\* that was left, decides how a later token is read (env.rs:76-83).
TypesWereDeclared ==
    phase \in {"strict", "done"} /\ errors = <<>> =>
        \A use \in TypeUses(Notes) : IsTypeBy(use, Notes, InitialScopes(flavor))

----------------------------------------------------------------------------
(* What the repository says of recovery.                                   *)

\* book/src/090_project_layout.md:20-22: recovery resets the typedef state from
\* the last successfully parsed prefix before it continues, so a declaration
\* that is left out declares nothing.
SkippedDeclaresNothing ==
    [][Len(errors') > Len(errors) => scopes' = scopes]_vars

\* public_api.rs:113: recovery skips leading directives.
LeadingDirectiveIsSkipped ==
    \A i \in DOMAIN errors : text[errors[i].from] # DIRECTIVE
=============================================================================
