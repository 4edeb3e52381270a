# PARC: a verification project

TLA+ models of PARC, the C front end in `src/` (crate `parc`), checked with TLC
and, for the parts below that say so, proved with TLAPS. Paths of the crate are
given from `src/src/`; `traced.rs:643` is `src/src/scan/traced.rs`, line 643.

## 1. The system

PARC turns C headers into a *checked source package*: an immutable record of
files, declarations, macros, diagnostics and a completeness verdict that a
linker and a code generator can rely on. A scan runs the stages in order:

    ScanConfig --> scan --> built-in preprocessor (scan/traced.rs)   --+
                     |  \-> external preprocessor (child process)    --+--> text, trace
                     |                                                        |
                     |            parser (resilient) + Env  <-----------------+
                     |                     | AST, spans
                     |            extract (AST -> declarations)
                     |                     |
                     +--> remap to files, packing, diagnostics
                                           |
                          SourcePackage::try_new (validate, fingerprint)
                                           |
                 retain / merge / into_complete / encode / decode

`driver.rs` and `preprocess/processor.rs` are a second, older route from a file
to an AST that keeps no trace.

| Component | Sources | State | Operations | What makes it correct | Hard because of |
| --- | --- | --- | --- | --- | --- |
| Completion proof | `contract/complete.rs`, `selection.rs` | needs per declaration, worklist, blockers | `into_complete` | the least closure of the selection, exactly its blockers, whatever the order | raised needs, stale queue entries, cyclic types, hash order |
| External preprocessor | `scan/mod.rs:816-1172` | child, process group, two pipes, two reader threads, byte count, limit channel, deadlines | spawn, poll, kill, reap, read, judge | text accepted is whole; the verdict names the real cause; it always returns; nobody left running | threads, processes, signals, timeouts |
| Built-in preprocessor | `scan/traced.rs` | file cache, include recursion, conditionals, macro table, pending text, packing, counters | load, include, define, conditionals, pragmas, flush, emit | the text is what the C standard says; limits hold; the inventory is what is in force | lazy expansion, mutual includes, limits in mid-directive |
| Macro substitution | `scan/traced.rs:1100-1250, 1700-2060` | paint (names being expanded) | `expand_tokens`, `substitute_macro` | C's replacement with hide sets on the certified subset | paint lost between prescan and rescan |
| Condition arithmetic | `scan/traced.rs:1316-1361, 2001-2514` | none (pure) | evaluate `#if` at a target width | the value of C17 6.10.1 at that width or a refusal | overflow, shifts, signedness, `INTMAX_MIN` |
| Include search | `scan/traced.rs:1543-1615` | search roots, files by canonical path, roles | resolve, `include_next` | first match; never itself | roots nested in roots, symbolic links |
| Segment map | `scan/mod.rs`, `traced.rs` | segments of the generated text | `map_generated_range`, remap | every range of the AST maps to where its text came from | boundaries between segments |
| Legacy preprocessor | `preprocess/processor.rs`, `include.rs`, `macros.rs`, `directive.rs`, `lexer.rs`, `expr.rs` | macro table, include stack, once/guard set | `process` | includes once, limits depth, defines in order | guards outlive `#undef`; text expanded at file end |
| Parser | `parser/` (29 files, PEG), `parse.rs` | recursive descent over `Env`, a cache of postfix expressions | parse, resilient parse | every token accounted for; recovery loses no neighbour; names read as types are types | backtracking over a mutable `Env` |
| Env | `env.rs` | stack of symbol scopes | enter, leave, add, `is_typename` | balanced scopes, no symbol of an abandoned alternative | backtracking |
| Extraction | `extract/` | declaration tables, anonymous ordinals | lower AST to contract | deterministic ids; every declaration supported or explained | redeclaration merging, tentative definitions |
| Package validation | `contract/validate.rs`, `package.rs` | none (pure) | `try_new` | no dangling references, no alias cycles, completeness matches diagnostics | invariants relate six tables |
| Composition | `contract/compose.rs` | none (pure) | `retain`, `merge` | results are valid; merge does not depend on order | diagnostics bound to removed declarations |
| Codec and ids | `contract/codec.rs`, `wire/`, `canonical.rs`, `ids.rs`, `fingerprint.rs` | none | encode, decode, derive ids | decode(encode(p)) = p; no other text decodes | canonical form |
| Target | `contract/target.rs`, `preprocess/predefined.rs` | none | validate, fingerprint a data model | layouts consistent with the triple | tables |
| Contract data | `contract/{declarations,types,macros,diagnostics,inputs,provenance,exact_integer,selection}.rs` | none | constructors, accessors | types only | - |
| Scan coordinator | `scan/mod.rs`, `scan/config.rs` | the package under construction | `scan_headers` | every issue of a stage becomes a diagnostic; identity of tools is checked before and after | two stages can disagree |
| AST, visitors, printing | `ast/`, `visit/`, `print.rs`, `span.rs`, `loc.rs`, `astutil.rs`, `strings.rs` | none, or a print depth | traverse | every node visited once | - |
| Driver | `driver.rs` | none | run `cpp`, parse | - | waits on one child without a limit |

Components interact by calls and by the values they return. Shared state is
found in three places only: the two reader threads and the scanning thread of
the external preprocessor (an atomic count, a channel, two vectors), the one
`TracedProcessor` that all nested includes mutate, and the one `Env` that all
alternatives of the grammar mutate.

## 2. The modules

| Module | Models | Builds on |
| --- | --- | --- |
| `SourceClosure` | packages, selections, demands and faults of a visit: the pure part of `complete.rs` | - |
| `SelectionVerdict` | what `into_complete` promises, in one step and without an order | `SourceClosure` |
| `CompleteClosure` | the worklist of `into_complete`; implements `SelectionVerdict` | `SourceClosure`, `SelectionVerdict` |
| `CompleteClosureProofs` | theorems | `CompleteClosure` |
| `ExternalPreprocessor` | `preprocess_external` from the spawned child on | - |
| `ExternalPreprocessorProofs` | theorems | `ExternalPreprocessor` |
| `IncludeSearch` | `resolve_include` and `search_root_index` | - |
| `TracedPreprocessor` | the walk of `scan/traced.rs` | `IncludeSearch` |
| `TracedPreprocessorProofs` | theorems | `TracedPreprocessor` |
| `PreprocessingReference` | what the C standard makes of the same files, as a recursive interpreter | `TracedPreprocessor` |
| `PegExpressions` | the shapes a rule is built of | - |
| `ExpressionGrammar`, `DeclarationGrammar`, `StatementGrammar` | the rules of `parser/`, each under its name, as values built of these shapes | one another, in this order |
| `NameScopes`, `TokenText` | `env.rs`; the text as tokens and what `__parse__` skips | - |
| `PegParser` | what matching a rule does to position, scopes, cache and result | `StatementGrammar`, `NameScopes`, `TokenText` |
| `ResilientParser` | the strict and the recovering loop of `parser/public_api.rs`, over any rule `external_declaration` | `NameScopes`, `TokenText` |
| `ResilientParserProofs` | theorems | `ResilientParser` |
| `CheckedPackage` | source packages as tables that refer to each other, and what `contract/validate.rs` accepts; `View`, what `into_complete` sees of one | `SourceClosure` |
| `PackageComposition` | `retain` and `merge`: a caller that projects and merges in any order | `CheckedPackage` |
| `PackageCompositionProofs` | theorems | `PackageComposition`, `SourceClosure` |
| `DeclaratorTypes` | what `extract/types.rs` makes of a declarator, and what C does | - |
| `Extraction` | `extract/mod.rs`, then `remap_extraction` and the packaging of `scan/mod.rs` | `CheckedPackage`, `DeclaratorTypes` |
| `ExtractionProofs` | theorems | `Extraction` |
| `MacroExpansion` | `expand_tokens` of `scan/traced.rs` as a stack of calls | - |
| `MacroExpansionProofs` | theorems | `MacroExpansion` |
| `ExpansionReference` | what C17 6.10.3 makes of the same text, with hide sets | `MacroExpansion` |
| `ConditionValues` | bit patterns of `intmax_t` and the operations on them; and what C17 6.5 makes of these on integers | - |
| `ConditionValuesProofs` | theorems | `ConditionValues` |
| `ConditionArithmetic` | the parser and the evaluator of `#if` conditions | `ConditionValues` |
| `ConditionEvaluation` | `evaluate_condition`: `defined`, expansion, evaluation; and the grammar and the types of C17 6.5 | `ExpansionReference`, `ConditionArithmetic` |
| `MC*` | instances for TLC | |

### 2.1 The completion proof

A package is a record of its declarations, their kinds, the references in their
types (each by `value`, by `pointer` or `forced` through an alias), their faults
and its diagnostics. `Init` chooses a package that `try_new` accepts
(`IsPackage`: references resolve, an incomplete record has no fields, ...) and a
selection. `CheckPackage` is the gate on diagnostics and the computation of the
roots, `EnqueueRoot`, `SkipStale`, `Visit` and `VisitEdge` the worklist,
`Finish` the verdict. DeclarationIds are content hashes, so roots and references
are enqueued in any order: the nondeterminism is the dependence on names that
the result must not have.

### 2.2 The external preprocessor

One action per step of each thread and process: the child and a descendant that
may keep its pipes (in its process group or outside it) write, exit, are killed
or die of SIGPIPE; the two readers read, count against the shared limit, send
the limit message and end; the scanning thread polls the channel, the child and
the clock, kills, reaps, waits for the streams twice and judges. Bytes are
counted, not named: readers take a stream in order, so counts say which prefix
was kept. `/bin/kill` is spawned and runs later (`GroupKill`), as in
`mod.rs:1144`, or cannot be spawned, which the code ignores (`unspawned`).
Deadlines of the scanning thread strike at any moment: also between `try_wait`
(`mod.rs:977`, `PollAlive`) and the look at the clock (`mod.rs:982`,
`PollTimeout`), and a child that ends between the two is reported as timed out
though it had ended. `TimeoutIsReal` says that this gap is the only one.
`GroupIsKilled` is about the last attempt to kill, if that could be spawned.

### 2.3 The built-in preprocessor

A file is a sequence of lines, by what `parse_directive` makes of them. The
phases are those of `preprocess_builtin_traced`: `define` (command line),
`load` (entries, then forced includes), `process`, `text`. The recursion of
`process_loaded` is the stack `frames`. A directive takes two steps because the
code flushes the text before it first and may hit a limit there, and goes on
with the directive regardless (`pc`). A condition carries what it evaluates to
and how many macros its evaluation expands, an include the header name it spells
and, when it is computed, how many macros that takes; both count against the
limit on expansions. A line of text is one identifier; its expansion records the
definition in force when it is *flushed*, so that "expanded too late" is
visible. Sizes are chosen anew between the look at a file's metadata and the
read.

`PreprocessingReference` knows no flags, no pending text and no limits: it finds
the `#endif` of an if-section by the grammar of C17 6.10 and reads the first
group whose condition holds.

`IncludeSearch` is the search itself: paths are sequences of components, a layout
says where the files, the links and the roots are. `Include` loads what is found
in the role of its place, credits the root with it (`used_search_files`) and
enters it. The reference passes down the root each file was found under and
searches from there; the code computes that root from the canonical path
(`search_root_index`). They agree (`SearchIsReference`) except where a file that
says `#include_next` lies first under another root than it was found under
(`Departs` in `PreprocessingReference`), and TLC shows that each exception is
needed: a root inside a root that is listed before it, where the inner file finds
itself again and what it was to hand on to is never read; an entry header that
lies under a root, which the comment at `traced.rs:1546` says has none; and a
link from one root into another.

### 2.4 The parser

`parser/` is a parsing-expression grammar written out as 232 Rust functions.
What is hard about it is not its language but its state: `Env`, which every
alternative changes as it goes and none sets back, and a cache that outlives the
alternative that filled it. So the rules are data: each is a value of
`PegExpressions` under its Rust name (rules the source splits only to box a
result or record a span are merged), and `PegParser!Match` says once what a
sequence, an ordered choice, a scope, a declaring rule and the cached rule do to
the parse. A failed rule gives back its position and what it found, and keeps
its effects on scopes and cache, as `&mut Env` and `&mut ParseState` do.

A text is a sequence of tokens; a line that begins with `#` is one token that is
skipped where `__parse__` skips it, which is after a line break only. What the
tree says is abstracted to notes: the span and name of each declarator, of each
name read as a type, of each scope. `TypesWereDeclared` resolves the names once
more from the notes alone.

`ResilientParser` has one action per round of the two loops. The rule
`external_declaration` is an operator CONSTANT of it: the runs give it
`PegParser`'s, the proofs leave it open. So are the well-formed declarations
(`WellFormed`, tokens): `WellFormedIsKept` says of each that recovery keeps it
wherever it stands.

There is one place where it does not. Behind a block that was left out,
`__skip_to_sync_point` looks for a semicolon and consumes the line break on its
way (`public_api.rs:195-202`); a directive on the next line is then not behind a
line break that `__parse__` has seen, fails as a declaration and takes along the
declaration behind it: in `int B(int A){@;}`, a line marker, `int C;` the last is
lost. `AfterSync` has this, and `WellFormedIsKept` says that a well-formed
declaration is lost exactly then (`Swallowed`), in both directions.

The name of a function belongs to the file, though its declarator is read a
second time within the scope of the definition: the rule `declaration` comes
first, adds the name and then fails at the body, and what it added stays. The
notes say "function" of such a declarator, and `Around` gives it no scope.

The model shows some ways in which the parser departs from C without the
repository saying otherwise, and no property is stated about them: the scope of
a function's parameters is left before its body is read, so a parameter does
not hide a type there; an abstract function declarator enters no scope, so the
parameter names of a cast stay in the scope around it; `for` and `typeof` try an
expression before a declaration or a type; the cache of postfix expressions is
not emptied when a name changes its meaning.

### 2.5 Validation and composition

`CheckedPackage!IsChecked` is `validate_source_package`: every rule that relates
one table of a package to another (references and their kinds, owners of scopes,
ids of children and occurrences, files and include chains, diagnostics and the
verdict they force), and the limits: of the number of files, declarations, macros
and diagnostics, and of the depth of a type (`Limits`; in `package.rs:163-171`
16,384 files, a million of each of the others, depth 64). A merge can outgrow a
table, which `ResultsAreChecked` says is the one way a merge of
packages that agree is refused. What else validation says of one node alone is
left out. An id stands for the key it is the digest of.

`PackageComposition` has a caller with some packages and selections that
`Retain`s and `Merge`s what it holds in any order, results included; each held
package remembers those it was merged from. A package that validation refuses
is not held, as `try_new` returns an error. `Answer` is what `into_complete`
answers for a selection, by `SourceClosure` on the `View` of the package: that
is where composition and the completion proof meet.

### 2.6 Extraction

A unit is the sequence of what the walk over the AST comes to: a tag before what
it is nested in, then each declarator. `Lower` is one such declaration with
everything `lower_declaration` does for it (occurrence, type, redeclaration,
attributes, diagnostics), `Finish` the diagnostics of what was never lowered,
`Remap` the mapping of all ranges through the segments of the generated text,
`KeepGenerated` the decision on the generated file and `Package` the call of
`try_new`, which is `IsChecked` of `CheckedPackage`.

What the parser skipped is a set of ranges of the generated text (`skipped`).
Each becomes a diagnostic of the package (`Recovery`, `scan/mod.rs:312`) with the
range it was read from, or, if it was read from two files, that of the generated
text, which then stays in the package. The extractor has no limit on the depth of
a type or the number of declarations, validation has: a declarator with 65 stars
refuses the scan.

A declarator is a sequence of levels, one for each pair of parentheses around
the name; a type is the sequence of its layers. `Lowered` is `apply_derived`
folded over the levels, `Returned` what `function_parts` leaves of the outer one
for the result of a function, and `Meaning` what C says.

### 2.7 Macros and conditions

`expand_tokens` calls itself on the arguments of an invocation and on each
replacement. `stack` has one element per call, and `paint` is the code's vector
of painted names, one for all of them. A pass over a token, an invocation, an
argument and a replacement are actions of their own; collecting arguments and
substituting them are pure. `ExpansionReference` never paints: each token carries
its hide set, and a replacement is read together with the rest of the text.

`ConditionEvaluation` starts the same machine on a condition without its
`defined`, and `Evaluate` hands the tokens it returns to `ConditionArithmetic`,
which parses them level by level and evaluates bit patterns with a flag for
unsigned, as the code does. The operations on these, and what they mean on
integers, are `ConditionValues`; the bitwise ones stay in `ConditionArithmetic`.
The reference reads the tokens of `ExpansionReference` by every decomposition the
grammar of C allows, gives each expression a type before it has a value, and
computes with integers.

## 3. The runs

| Run | Shows | Bounds, and why they are enough |
| --- | --- | --- |
| `complete_closure` | least closure, exact blockers, opaque selections, termination, implements `SelectionVerdict` | three declarations: enough for a diamond, a cycle, and a need raised before and after its entry is popped; one fault per package |
| `external_preprocessor` | text is whole, the verdict names the real cause, nobody is left, the scan returns, pipes drain | limit, buffers, pipes and writes of one byte, two processes and two streams: the total is under the limit, at it from either stream and over it from both, a pipe is full after one write; reads, waits and the spawn of `/bin/kill` may fail; the proofs cover all sizes |
| `traced_preprocessor` | text, packed ranges, search, inventory and reports agree with the reference; budgets hold; the scan ends | four families: every file of up to five lines of eight kinds (a nested section with a branch on each side, `#elif` after `#else`, everything unmatched); three lines in the entry and five headers that include it back, depth 2; every limit at 1 or 2, so that each is met before, at and after a flush; and chains of headers of one name under eight arrangements of two or three roots: apart, nested either way, given twice, with an entry or a header beside it, with a link, with an unmapped file |
| `resilient_texts` | recovery: every token accounted for, the strict prefix kept, and every well-formed neighbour but for one behind a left-out block and a directive, no item out of a block, every round moves on; what a declaration comes to does not depend on the cache and closes the blocks it opens; scopes balance; every name read as a type is one by the returned tree | ten phrases, three at a time: a broken declaration before, between and after good ones, nested and unclosed blocks, a stray brace, directives in every place; and pairs of twelve declarations over three names, with and without a typedef before them, in each flavour |
| `recovery_keeps_scopes` | *violated*: the book says recovery resets typedef state before it continues | the texts of recovery |
| `recovery_leading_directive` | *violated*: a comment says recovery skips leading directives | the texts of recovery |
| `package_composition` | results are checked but for the size of a table, order is immaterial, conflicts are pairwise, a projection keeps its answer, a merge hides no blocker | three packages and four operations, or two packages, four selections and two operations, over a record, an alias and a function that differ in every way that matters to a rule; at most two diagnostics, which merges of two do and do not outgrow: 32,618 states |
| `extraction` | a scan is refused over conflicts and limits only, support is diagnosed, the generated file stays if needed, simple declarators are exact | pairs of all declarations (tags, nested tags, typedefs, objects, functions, flaws) over one file, a header and a file with the boundary inside a member, and a macro; triples over one file; each declaration with a skipped place behind it, read from the file, from behind the header, or from both. Limits of four declarations, four diagnostics and three types in one another are met and exceeded; that of files is met: 132,698 states |
| `extraction_contained` | *violated*: a comment says that what is wrong with one declaration never refuses a header | two units of valid C |
| `extraction_declarators` | *violated*: the book says types keep their structure | three declarators |
| `macro_expansion` | the expansion is C's, the depth limit counts names, a condition has C's answer | tables of four macros that name themselves and each other in every position and texts that invoke them in each other's arguments; `#`, `##` and `__VA_ARGS__` with empty, single and several tokens; limits of 1 to 3. Conditions at three bits, where every boundary of the arithmetic is a literal or two away: all pairs of operators, mixed signedness, guarded divisions, nested `?:`, broken syntax, `defined`: 442,568 states |
| `condition_choice` | *violated*: a comment says one unsigned operand makes the whole operation unsigned | the conditions with `?:` |

Each property has a mutant of a modelled definition, a plausible slip of the
code, under which TLC finds it violated.

`CHECK_DEADLOCK FALSE` is set in all runs but the parser's: every modelled
operation ends, and a caller may stop. The parser's runs check deadlock: a
finished parse stutters, and no other state is stuck. With `RoundsAdvance` and
the bound on `pos` this is termination, without fairness.

### What the violated runs show

*Scopes after a skipped declaration.* `translation_unit_resilient` resets `Env`
once, before its second pass (`public_api.rs:106`). A declaration that fails in
the loop keeps what it declared: after `typedef int A, @ ;` has been skipped, `A
B;` is accepted as a declaration. `book/src/090_project_layout.md:20-22` says
that recovery resets typedef state "from the last successfully parsed prefix
before continuing".

*A directive at the start.* The second pass skips blanks with `__parse__`, which
takes a directive only after a line break; the strict pass tries one at offset 0
as well. A text that begins with a line marker and has an error anywhere
therefore loses its first declaration: the marker is reported as an error and
everything up to the next semicolon is skipped with it. The comment at
`public_api.rs:113` says "Skip leading whitespace/directives". `PrefixKept` and
`WellFormedIsKept` exclude texts of this kind.

*One name refuses a header.* A declaration that conflicts with an earlier one
becomes an unsupported one, and `try_new` refuses a package in which another
declaration refers to it as a type: `typedef int T; typedef int U; typedef U T;
T v;`, valid C11, has no package at all. `extract/mod.rs:1310-1326` says that
refusing the package "refuses a whole header over declarations nobody asked
for". A diagnostic whose range cannot be mapped has the same effect in a milder
form: the gap it leaves is bound to no declaration.

*Declarators.* `apply_derived` applies the suffixes of one level in the order of
the text, so `int a[2][3]` is lowered to an array of 3 arrays of 2; and
`is_function_declarator` looks at the outermost level, so `int
(*handler)(int);`, an object, is lowered as a function.

*Choices.* `evaluate_condition_expr` returns the chosen branch of `?:` with the
signedness it has by itself. `#if (1 ? -1 : 2u) > 1` is false here and true in C,
and nothing is reported. The comment at `traced.rs:2071` says that one unsigned
operand makes the whole operation unsigned.

### Where expansion departs from C

`ExpansionIsStandard` is stated for texts in which none of these happens, and
each exception is needed (`Departs` in `ExpansionReference`):

- *carried*: a name that was painted when an argument was expanded is looked at
  again in the replacement, without that paint, and may be replaced; a hide set
  would forbid it for good.
- *spans*: a function-like name at the end of a replacement does not find the
  parenthesis that follows the invocation.
- *pasting*: `##` before `# x`, and in an object-like macro, is not done. Such
  macros are reported as unsupported when they are defined (`E2111`).
- a comment inside a condition is not skipped by `defined` or before the
  parenthesis of an invocation; the condition is refused (`E2113`).

Spaces are compared away. The emitter puts nothing between tokens
(`traced.rs:322`), so `-A` with `#define A -1` is written `--1`.

`ConditionIsStandard` excepts the choices above and the remainder of the least
value by -1, which is 0 below 128 bits and undefined in C; at 128 bits a left
shift into the sign is a negative value instead of a refusal.

`max_macro_expansion_depth` "bounds the implementation stack"
(`config.rs:28-29`), which it does for replacements: arguments are expanded by a
recursive call that paints nothing, so `F(F(F(F(1))))` nests calls as deep as
the text does, whatever the limit. What the limit is, a bound on different names,
is `DepthIsOfNames`.

### Fairness

`complete_closure` and `traced_preprocessor` assume weak fairness of the whole
step: one sequential call that runs while it can. In `external_preprocessor`
fairness is a premise of the two liveness properties: `Returns` assumes it of the
scanning thread and of the clock (`MainIsFair`), because the code's promise is
that nothing the child, `/bin/kill` or the reader threads do or leave undone
keeps the scan from returning; `PipesDrain` of the two reader threads
(`ReadersAreFair`), with no clock.

## 4. What is proved

For every value of the constants (TLAPS, all obligations by Z3, Zenon, LS4).

**`CompleteClosureProofs`** - `TypeCorrect`, `LeastClosure`, `ExactBlockers`,
`OpaqueSelections`, `MissingAreRoots`, `NeedsRise` and `Refinement` (the
worklist implements `SelectionVerdict`). The inductive invariant `IInv` adds to
types: every recorded need is still queued at that need or its demands have been
passed on (`WalkInv`); every recorded need is demanded by
every closed assignment (`LeastInv`: what makes the closure *least*); roots are
waiting or recorded; blockers are among those of the closure at the needs
recorded so far. The last needs a lemma that blockers only grow with needs
outside opaque selections, and that opaque selections demand nothing. The
assumptions are those on packages and selections that `try_new` and the
constructors of `Selection` establish.

**`ExternalPreprocessorProofs`** - the six safety properties of
`external_preprocessor`, `KeptWithinLimit` and `TypeOK`. `IInv` is a conjunction
by concern: `KeptInv` (the readers together keep exactly `min(total, Limit)`),
`FlowInv` (written = in the pipe + in a buffer + counted, until a reader stops),
`HoldInv` (only the living hold pipes), `ReaderInv` (why a reader stopped),
`MainInv` and `DoneInv` (what the locals of the scanning thread say of the
past), `DoomInv` and `GroupInv` (who a kill is on its way to), `ClockInv`. From
`LimitsAssumption` only.

**`TracedPreprocessorProofs`** - `TypesAreKept`, `BudgetsAreKept`,
`InventoryStaysActive`, `BranchesStayExclusive`, `NestingIsKept`: for every
program, layout, size and limit. `IInv` is a conjunction by concern: `WalkInv`
(a directive is run at a line of a file that is being read), `SaidInv` (one
limit is reported if the scan stopped, none before), `TableInv` (a macro in force was recorded
where it was defined, and what is wrong with it was noted and said), `CountInv`
(counters stay within their limits until the scan stops), `ConfigInv` and
`TextInv`. A flush may stop the scan in the middle of a directive, which then
goes on: hence the budgets that hold only until the stop, and those that hold
after it as well. `BranchesAreExclusive` is an action property that follows from
the shape `IInv` gives the conditionals; `NestingIsKept` has its own induction,
by which `active` of each conditional is inside that of the one around it.
About the include search, as operators on a layout of files: `SearchFindsFirst`
(what `resolve_include` takes is the first of its places that holds a file, and
`#include_next` looks only behind the root of the including file) and
`ResumedSearchRises` (if no root lies in another and nothing is linked, a file is
credited to the root it was found under, and `#include_next` leads to a later
root). The hypotheses of the second, `RootsAreApart` and `NothingIsLinked`, are
the exceptions of `SearchIsReference`, and TLC has a file that finds itself where
the first fails. From
`FilesAssumption`, `NoneAssumption` and `SetupsAssumption`: lines, paths and
limits have their types, and no place of a definition is `None`.

**`ResilientParserProofs`** - `ParserAccounts`, `ParserAdvances`, `ParserTypes`:
the bookkeeping of both loops. `ParserKeepsPrefix`: recovery finds again what the
strict parse had found. `ParserStaysOutside`: it takes no item out of a block.
`ParserKeepsNeighbours`: it leaves out no well-formed declaration, but each that
stands behind a left-out block and directives.
`ParserClosesScopes`: only the scope of the file is open between declarations.
`ParserReadsTypes`: every name read as a type is one by the tree. All this for
every text and for every grammar of which some of seven things hold. They are
hypotheses, each theorem names those it needs, and `resilient_texts` checks the
seven together for the rules of `parser/`, as `OutcomesAreReliable`:

- `DeclarationAdvances`: a matched declaration is not empty, and what the rule
  says of scopes and notes has its type;
- `CacheIsTransparent`: the strict loop hands its rule the cache of the
  declaration before, the recovering one an empty cache, and that makes no
  difference;
- `DeclarationsBalance`: in a text whose braces match a declaration closes what
  it opens;
- `WellFormedIsFound`: where a well-formed declaration stands the rule matches,
  whatever names are known;
- `NoneBeginsWithHash`: no declaration begins with a directive;
- `ScopesAreLeft`: the rule leaves the scopes it enters, matched or not;
- `DeclarationsReadTypes`: within one declaration, names are read as types by
  what it declares itself and the scopes it began with, and what it declares
  for the file is in the scopes it ends with.

Each is about one call of the rule; the loops call it at positions they compute,
with scopes that earlier calls left, and skip text by counting braces. `LoopInv` adds
to the bookkeeping that all spans end before `pos` and that nothing is left out
before the second pass. `ReplayInv` says that there is a run of the rule with
empty caches, a chain of positions and scopes, that made the items of the strict
parse, and that the recovering parse stands at a link of it until it has all of
them. `BlockInv` says that `pos` is outside every block, which synchronisation
keeps because it counts braces. `KeepInv` says that a well-formed declaration
before `pos` begins within an item: a skip ends at the first semicolon or closing
brace outside of all blocks, and the declaration begins behind one, so no skip
begins before it and ends after its start. `TypeInv` says that the file scope
knows of each name the latest declarator the notes have at file scope, or what
it knew at first; hence a name that a declaration does not declare itself means
the same by the scopes and by the notes of all declarations together.

**`PackageCompositionProofs`** - `ViewIsPackage`: what validation accepts is
what `CompleteClosure` assumes of a package, so that the assumption of the
first set of proofs is discharged by the code that runs before it.
`MergeIsChecked`: packages that are checked and agree merge to one that is
checked if and only if its tables are within their limits, whatever rule relates
a part of the one to a part of the other.
`RetainIsChecked`: a projection is checked, but for an unforced diagnostic that
is left alone; its tables are parts of tables within their limits. From these,
`CheckedResults`; and `MergeOrder` and `PairwiseConflicts` from the invariant `HeldInv`, by which every held package is
the union of those it was merged from (`Held`). `RetainAnswers` and
`MergeAnswers` are about completions of what is held, and need the closure:
least closures exist (`AnswerExists`) and are what `Answer` chooses
(`AnswerIsLeast`). A package and its projection demand the same within what was
kept, so a closed assignment of the one restricts to the other (`ClosureSame`).
In a merge the demands of either part stay demands, so the closure grows
(`ClosureGrows`), what was opaque to a selection stays opaque (`OpaqueClosure`)
and each blocker of a visit is met again (`VisitsGrow`), but for a diagnostic of
the package that a macro of the other one takes over, as the property says. From
`CallersAssumption`: the caller begins with checked packages and asks for
selections that can be made.

**`ExtractionProofs`** - `SupportAgrees`, `RefusesOnlyConflicts`,
`GeneratedIsDropped` and `SimpleDeclaratorsMean`, for every unit, segment map and
file. The second is an
equivalence with all of `IsChecked` on one side: every rule of the validator is
shown to hold of what extraction makes, except that a reference may name a declaration that lost its
kind, that two members may share an id, and that a type may be too deep or a
table too long. `IInv`
says of each declaration what its mentions so far made of it: `KindInv` (the kind
is that of every mention lowered, an alias is of an earlier declaration, so there
is no cycle of aliases), `PointersInv` (a declaration in `pointer_aliases`
ends at a pointer in the final package too, or at a conflict), `OccurrencesInv`
(one for each mention, with ordinals below their number, so that no two are equal),
`MembersInv` (members stand within one mention), `DiagnosticsInv` and `SaidInv`
(support and diagnostics say the same), and `PlacedInv` after the mapping (all
ranges lie in files the package has, members in an occurrence of their owner,
nothing in the generated file if everything was mapped, and what was skipped
reported in the one or the other). `SimpleDeclaratorsMean`
has an invariant of its own, `ShapeInv`: the kind of a declaration that is none
of the unsupported ones is that of one of its mentions and has the type of each
of them. That the two folds over a declarator agree needs no induction over data
but one over numbers: the least level at which they differed would come after
one at which they agree. From `UnitsAssumption`,
which says what a parser and the preprocessor give: a tag that a type names is a
mention, a typedef name comes after its declaration, every token of a traced text has a segment
with a range that is not empty. At most eight members per mention
(`MaxMembers`) is a bound of the model: it keeps the places of members apart.

**`MacroExpansionProofs`** - `DepthLimitIsOfNames`, for every table, text and
limit, and for any tokens. `DepthInv` says how the paint and the stack belong
together: how much was painted when a call was made is one more than for its
caller if the call reads a replacement, as much if it reads an argument; what a
call is expanding is none of the names painted then. So a name that is painted
is new, the paint is an injection into the table, and a full paint needs a table
with more names. From `SetupsAssumption`: tables are finite.

**`ConditionValuesProofs`** - `OperationsAreExact`, `UnariesAreExact`,
`ShiftsAreExact`: on values of any width of `intmax_t` each operator of a
condition but `&`, `|`, `^` is refused exactly where C gives it no meaning, and
else yields the pattern of C's number in C's type. The one exception is in the
statement: the least value `% -1` is 0. `macro_expansion` evaluates conditions at
three bits, computing with eight; these theorems carry the arithmetic of it to
every width up to half of what the scanner computes with (`IsWidth`: 64 for
`i128`), beyond which the shift to the left does lose bits before it is checked.
The argument is two's complement (`SignedPatterns`, `SignedRange`) and truncating
division (`SignedDivision`: only the least value by -1 leaves the range). The
provers take `2^n` for an unknown integer, so `Doubling`, `2^(n+1) = 2 * 2^n`, is
a hypothesis: the definition of the power, which cannot be false. That powers
are positive, rise and multiply is proved from it, by the least number at which
they would not.

**Only model-checked**: liveness (`WalkEnds`, `Returns`, `PipesDrain`, `Ends`:
the prover has no ENABLED). Agreement with references, which are recursive
interpreters, so that a proof would be an induction over data: `TextIsReference`,
`StructureIsChecked`, `SearchIsReference`, `ExpansionIsStandard`,
`ConditionIsStandard` (its operators are proved, its parser and the recursion
over expressions are not). And what is said of the grammar, whose `Match` is
recursive: `OutcomesAreReliable`, on which the theorems of
`ResilientParserProofs` rest.

## 5. What is not modelled, and why

- The identity checks of the external compiler before the spawn, arguments and
  environment: no state, no interleaving.
- Message texts and severities of issues; an issue is its code.
- Process numbers: a process group is a set, so the reuse of a number between a
  reap and `/bin/kill` (`mod.rs:1003`) is out of the model. After a failed
  `try_wait` (`mod.rs:979`) the child and the readers are left to themselves;
  `NoChildLeft` excludes that path. A `Child::kill` that fails is out of the model.
- What a condition evaluates to is an input of `TracedPreprocessor`, and a text
  there is one identifier. Of the legacy preprocessor nothing is modelled
  (hazard `include.rs:225`).
- Of the parser: the characters of tokens, the values of the nodes, operator
  precedence, the position of an error and what was expected there, and comments
  and quotes inside a skipped declaration.
- Of validation: what it says of one node alone, and what holds by the types of
  the models.
- Of extraction: the parameters of a function within a type, which add references
  and depth but no names, widths of bit
  fields, packing of records (`mark_packed_records`), the linkage of enumerators,
  visibility, and the ranges of names and attributes; the range of an alignment
  specifier is taken to be its declarator's. `E1201`, `E1203`, `E1208`, `E1209`
  and `E1213` cannot happen with what the parser produces. Occurrences of one id
  in two translation units (`extract/mod.rs:1005`) meet in
  `PackageComposition`, where they are given.
- Of expansion: ranges, provenance and the escapes of a stringified argument,
  and the token limit at the end of a flush, which `TracedPreprocessor` has.
  Literals are looked up, not read.
- Codec, ids and fingerprints: serialisation and hashing, with no state.
- AST, visitors, printing: structural recursion without state.

## 6. Plan

Done:

1. `CompleteClosure` with its abstract `SelectionVerdict`, proofs.
2. `ExternalPreprocessor`, proofs.
3. `TracedPreprocessor` with `PreprocessingReference`.
4. `NameScopes`, the grammar, `PegParser`, `ResilientParser`, proofs.
5. `CheckedPackage` and `PackageComposition`, proofs.
6. `Extraction` with the segment map, `DeclaratorTypes`.
7. `MacroExpansion`, `ConditionArithmetic`, `ConditionEvaluation`; proofs of the
   depth limit.
8. `IncludeSearch`, within `TracedPreprocessor`.
9. Proofs about `TracedPreprocessor` and `Extraction`, about completions of
   composed packages, and about what recovery keeps.
10. Proofs about the include search, declarators, the scopes and types of the
    parser, and the arithmetic of conditions.

Left:

11. `LegacyPreprocessor`: `processor.rs` and `include.rs` with once, guards and
    depth.
12. `ScanCoordinator`, composing 2, 3, 4 and 6.
