------------------------------- MODULE Extraction -------------------------------
(***************************************************************************)
(* From the declarations a parser found to a checked package:              *)
(* extract/mod.rs lowers them one after the other, scan/mod.rs maps what   *)
(* it found back to the files it was read from and packages it.            *)
(*                                                                         *)
(* A unit is the sequence of its mentions: a struct, union or enum         *)
(* specifier before what it is nested in, then each declarator.  Mention k *)
(* ends at 10 k + 9 of the generated text, begins where the first of those *)
(* nested in it does, and has its i-th member at 10 k + i.  What the parser*)
(* skipped over is a set of ranges of that text.  What no parser gives is  *)
(* left out: spans outside the text, declarators without a name; and so    *)
(* are the parameters of a function within a type.                         *)
(***************************************************************************)
EXTENDS CheckedPackage, DeclaratorTypes

CONSTANTS
  Units,       \* the units a scan may find
  Generated,   \* the FileId of the generated text
  FileRole,    \* the role of each file that was read
  FileLength   \* a bound on the length of a file and of the generated text

VARIABLES
  unit,         \* the mentions, what was skipped, the segments of the text, and
                \* whether it was traced
  phase,        \* "lower", "remap", "package" or "done"
  next,         \* the mention to be lowered next
  drafts,       \* what is known of each declaration
  pointers,     \* pointer_aliases
  diagnostics,
  package       \* what the scan returns

vars == <<unit, phase, next, drafts, pointers, diagnostics, package>>

Mentions == unit.mentions

IsTag(m) == m.form \in {"struct", "union", "enum"}

-----------------------------------------------------------------------------
(* What a parser and a preprocessor give *)

Forms == {"struct", "union", "enum", "typedef", "object"}
FlawCodes == {"", "P1205", "E1211", "E1214", "E1215", "E1216"}

\* The forms of a mention that a base names, as one kind of type or another.
FormsOf ==
  [alias |-> {"typedef"}, record |-> {"struct", "union"}, enum |-> {"enum"}, scalar |-> {}]

\* A tag that a type names is a mention itself, a typedef name that was not
\* built in is one of a declaration before it.
IsBase(base, mentions, k) ==
  /\ base.as \in DOMAIN FormsOf /\ (base.as = "scalar" <=> base.to = NoDecl)
  /\ base.to \in {mentions[j].d : j \in DOMAIN mentions} =>
       \E j \in DOMAIN mentions : /\ mentions[j].d = base.to
                                  /\ mentions[j].form \in FormsOf[base.as]
                                  /\ base.as = "alias" => j < k

\* Up to MaxMembers members have a place of their own within a mention.
MaxMembers == 8

IsMention(m, mentions, k) ==
  /\ m.d \in Ids /\ m.form \in Forms /\ m.flaw \in FlawCodes
  /\ m.named \in BOOLEAN /\ m.body \in BOOLEAN /\ m.static \in BOOLEAN
  /\ m.static => m.form = "object"
  /\ m.inner \in 0..(k - 1)
  /\ \E n \in 0..MaxMembers : DOMAIN m.members = 1..n
  /\ IsTag(m) /\ ~m.body => m.members = <<>>
  /\ \A x \in {m} \cup {m.members[i] : i \in DOMAIN m.members} :
       /\ x.restrict \in BOOLEAN /\ IsBase(x.base, mentions, k)
       /\ x.levels \in Seq(Level) /\ x.levels # <<>>
  /\ m.form = "enum" => \A i \in DOMAIN m.members : /\ m.members[i].base.as = "scalar"
                                                    /\ m.members[i].levels = Plain

IsPlace(range) ==
  /\ range.file \in DOMAIN FileRole
  /\ range.start \in Nat /\ range.end \in 0..FileLength /\ range.start < range.end

\* A token of the generated text, or several, and where they were read.
IsSegment(s) ==
  /\ s.start \in Nat /\ s.end \in Nat
  /\ IsPlace(s.anchor)
  /\ \A i \in DOMAIN s.chain : IsPlace(s.chain[i].directive) /\ s.chain[i].included \in DOMAIN FileRole

IsSpan(span) ==
  /\ span = [file |-> Generated, start |-> span.start, end |-> span.end]
  /\ span.start \in Nat /\ span.end \in 0..FileLength /\ span.start < span.end

\* Every token of a traced text has a segment, so every member meets one.
IsUnit(u) ==
  /\ u.mentions \in Seq({u.mentions[k] : k \in DOMAIN u.mentions})
  /\ 10 * Len(u.mentions) + 9 <= FileLength
  /\ \A k \in DOMAIN u.mentions : IsMention(u.mentions[k], u.mentions, k)
  /\ u.traced \in BOOLEAN
  /\ \A span \in u.skipped : IsSpan(span)
  /\ \A s \in u.segments : IsSegment(s)
  /\ u.traced => \A k \in DOMAIN u.mentions : \A i \in DOMAIN u.mentions[k].members :
                   \E s \in u.segments : s.start < 10 * k + i + 1 /\ s.end > 10 * k + i

ASSUME UnitsAssumption ==
  /\ \A u \in Units : IsUnit(u)
  /\ FileLength \in Nat
  /\ Generated \notin DOMAIN FileRole
  /\ \E f \in DOMAIN FileRole : FileRole[f] = "Entry"
  /\ {NoDecl, "pointer", "value"} \cap Ids = {}

-----------------------------------------------------------------------------
(* index_translation_unit: an id for every name, from its first mention *)

Indexed == {Mentions[k].d : k \in DOMAIN Mentions}

FirstMention(d) ==
  LET k == CHOOSE k \in DOMAIN Mentions :
             Mentions[k].d = d /\ \A j \in 1..(k - 1) : Mentions[j].d # d
  IN Mentions[k]

IsInternal(d) == FirstMention(d).static

-----------------------------------------------------------------------------
(* Types *)

Supported == [level |-> "Supported"]
PartialAs(code) == [level |-> "Partial", code |-> code]
UnsupportedAs(code) == [level |-> "Unsupported", code |-> code]

\* The first status that is not Supported, if there is one.
FirstFault(statuses) ==
  LET faults == {i \in DOMAIN statuses : statuses[i] # Supported}
  IN IF faults = {} THEN Supported ELSE statuses[Min(faults)]

TypeOver(base, layers, restrict) == [base |-> base, layers |-> layers, restrict |-> restrict]

\* What stands for a type that is not supported, and what it names.
NoBase == [as |-> "none", to |-> NoDecl, support |-> UnsupportedAs("E1100")]

\* base_type: a tag or a typedef name that was not indexed is not supported.
BaseType(base) == IF base.to \in Indexed \cup {NoDecl} THEN base ELSE NoBase

IsPointer(type) ==
  \/ type.layers # <<>> /\ type.layers[1] = "*"
  \/ type.layers = <<>> /\ type.base.as = "alias" /\ type.base.to \in pointers

\* finish_type: `restrict` is kept on a pointer, and on nothing else.
FinishType(x, layers) ==
  LET type == TypeOver(BaseType(x.base), layers, x.restrict)
  IN IF x.restrict /\ ~IsPointer(type) THEN TypeOver(NoBase, <<>>, FALSE) ELSE type

-----------------------------------------------------------------------------
(* Ranges of the generated text *)

RangeOf(k)     == [file |-> Generated, start |-> 10 * (k - Mentions[k].inner), end |-> 10 * k + 9]
MemberAt(k, i) == [file |-> Generated, start |-> 10 * k + i, end |-> 10 * k + i + 1]

\* diagnostic: one that names a declaration scopes to it, and forces Partial.
Bound(d, code, error, range) ==
  [impact |-> "ForcesPartial", decl |-> d, stage |-> "Extract", code |-> code,
   error |-> error, range |-> range]

-----------------------------------------------------------------------------
(* Members *)

\* An array without a bound is flexible as the last of several fields only.
IsUnsized(m, i) ==
  /\ m.form \in {"struct", "union"}
  /\ LET layers == FinishType(m.members[i], Lowered(m.members[i].levels)).layers
     IN layers # <<>> /\ layers[1] = "[]"
  /\ ~(m.form = "struct" /\ i > 1 /\ i = Len(m.members))

\* lower_field, a variant of lower_enum, or a parameter of lower_function_kind.
Member(m, k, i) ==
  LET x == m.members[i]
      type == FinishType(x, Lowered(x.levels)) IN
  [name |-> x.name, type |-> type, range |-> MemberAt(k, i),
   support |-> IF IsUnsized(m, i) THEN UnsupportedAs("E1212")
               ELSE FirstFault(<<type.base.support, x.flaw>>)]

MembersOf(m, k) == [i \in DOMAIN m.members |-> Member(m, k, i)]

-----------------------------------------------------------------------------
(* Kinds *)

NoType == TypeOver([as |-> "scalar", to |-> NoDecl, support |-> Supported], <<>>, FALSE)
NoKind == [form |-> "none"]

KindOf(form, tag, complete, type, members) ==
  [form |-> form, tag |-> tag, complete |-> complete, type |-> type, members |-> members]

\* The spelling of an unsupported declaration is what it was written as.
Unsupported(code, tokens) == [form |-> "unsupported", code |-> code, spelling |-> tokens]

TagKind(m, k) ==
  KindOf(IF m.form = "enum" THEN "enum" ELSE "record", m.form, m.body, NoType, MembersOf(m, k))

FunctionKind(m, k) ==
  IF m.flaw \in {"E1214", "E1211"} THEN Unsupported(m.flaw, m.tokens)
  ELSE KindOf("function", "", TRUE, FinishType(m, Returned(m.levels)), MembersOf(m, k))

ObjectKind(m) ==
  IF m.flaw = "E1211" THEN Unsupported(m.flaw, m.tokens)
  ELSE KindOf("variable", "", TRUE, FinishType(m, Lowered(m.levels)), <<>>)

LowerKind(m, k) ==
  CASE IsTag(m) -> TagKind(m, k)
    [] m.form = "typedef" ->
         KindOf("alias", "", TRUE, FinishType(m, Lowered(m.levels)), <<>>)
    [] m.form = "object" /\ IsFunction(m.levels) -> FunctionKind(m, k)
    [] m.form = "object" /\ ~IsFunction(m.levels) -> ObjectKind(m)

\* declaration_kind_support
KindSupport(kind) ==
  IF kind.form = "unsupported" THEN UnsupportedAs(kind.code)
  ELSE FirstFault(<<kind.type.base.support>>
                    \o [i \in DOMAIN kind.members |-> kind.members[i].support])

TypesOf(members) == [i \in DOMAIN members |-> members[i].type]

\* redeclaration_action
RedeclarationAction(left, right) ==
  CASE left.form = "none" -> "Replace"
    [] left.form \in {"record", "enum"} /\ right.form = left.form ->
         IF left.tag # right.tag THEN "Conflict"
         ELSE IF ~right.complete THEN "Keep"
         ELSE IF ~left.complete THEN "Replace"
         ELSE "Conflict"
    [] left.form \in {"function", "variable", "alias"} /\ right.form = left.form ->
         IF left.type = right.type /\ TypesOf(left.members) = TypesOf(right.members)
         THEN "Keep" ELSE "Conflict"
    [] left.form = "unsupported" /\ right.form = left.form ->
         IF left = right THEN "Keep" ELSE "Conflict"
    [] OTHER -> "Conflict"

-----------------------------------------------------------------------------
(* Drafts *)

Blank == [occurrences |-> {}, kind |-> NoKind, support |-> Supported]

\* The occurrence that was added last: an outer one is added before an inner.
LastOf(occurrences) ==
  CHOOSE o \in occurrences : \A x \in occurrences : x.range.start <= o.range.start

OccurrenceAt(m, k, ordinal) ==
  [range |-> RangeOf(k), tokens |-> <<m.tokens, ordinal>>, origin |-> "Generated",
   chain |-> <<>>, attrsOk |-> m.flaw # "P1205"]

\* add_occurrence: the ordinal tells apart those with the same tokens.
WithOccurrence(draft, m, k) ==
  LET same == {o \in draft.occurrences : o.tokens[1] = m.tokens} IN
  [draft EXCEPT !.occurrences = @ \cup {OccurrenceAt(m, k, Cardinality(same))}]

\* Mutant of WithKind: the support of the last kind, whatever there was before.
WithKindAlone(draft, kind) ==
  [draft EXCEPT !.support = KindSupport(kind), !.kind = kind]

\* set_kind, but for the diagnostic.
WithKind(draft, kind) ==
  LET action == RedeclarationAction(draft.kind, kind)
      fault == KindSupport(kind) IN
  [draft EXCEPT
     !.kind = CASE action = "Keep" -> @
                [] action = "Replace" -> kind
                [] action = "Conflict" -> Unsupported("E1204", LastOf(draft.occurrences).tokens[1]),
     !.support = CASE action = "Conflict" -> UnsupportedAs("E1204")
                   [] action # "Conflict" /\ fault # Supported -> fault
                   [] action # "Conflict" /\ fault = Supported -> @]

\* apply_extension_support and apply_specifier_support: not for a tag.
WithFlaw(draft, m) ==
  CASE IsTag(m) \/ m.flaw = "" -> draft
    [] m.flaw = "P1205" /\ ~IsTag(m) ->
         [draft EXCEPT !.support = IF @ = Supported THEN PartialAs(m.flaw) ELSE @]
    [] m.flaw \in {"E1211", "E1214", "E1215", "E1216"} /\ ~IsTag(m) ->
         [draft EXCEPT !.support = UnsupportedAs(m.flaw)]

Unsized(m, k) ==
  {Bound(m.d, "E1212", TRUE, MemberAt(k, i)) :
     i \in {j \in DOMAIN m.members : m.form # "object" /\ IsUnsized(m, j)}}

Conflicts(draft, kind, m) ==
  IF RedeclarationAction(draft.kind, kind) = "Conflict"
  THEN {Bound(m.d, "E1204", TRUE, LastOf(draft.occurrences).range)} ELSE {}

Flaws(m, k) ==
  IF IsTag(m) \/ m.flaw = "" THEN {}
  ELSE {Bound(m.d, m.flaw, m.flaw # "P1205", RangeOf(k))}

-----------------------------------------------------------------------------
(* Extraction *)

\* There is no package yet, or the scan ended without one.
Without(why) == [verdict |-> why]

Init ==
  /\ unit \in Units
  /\ phase = "lower" /\ next = 1
  /\ drafts = [d \in Indexed |-> Blank]
  /\ pointers = {} /\ diagnostics = {} /\ package = Without("none")

Lower ==
  /\ phase = "lower" /\ next <= Len(Mentions)
  /\ LET m == Mentions[next]
         seen == WithOccurrence(drafts[m.d], m, next)
         kind == LowerKind(m, next)
         kept == WithKind(seen, kind) IN
     /\ drafts' = [drafts EXCEPT ![m.d] = WithFlaw(kept, m)]
     /\ diagnostics' = diagnostics \cup Unsized(m, next) \cup Conflicts(seen, kind, m)
                                   \cup Flaws(m, next)
     /\ pointers' = IF kept.kind.form = "alias" /\ IsPointer(kept.kind.type)
                    THEN pointers \cup {m.d} ELSE pointers \ {m.d}
  /\ next' = next + 1
  /\ UNCHANGED <<unit, phase, package>>

Unreported(d) ==
  /\ drafts[d].support # Supported
  /\ \A g \in diagnostics : g.decl # d \/ g.code # drafts[d].support.code

\* finish: what is not supported has a diagnostic of its own.
Finish ==
  /\ phase = "lower" /\ next > Len(Mentions)
  /\ phase' = "remap"
  /\ diagnostics' = diagnostics \cup
       {Bound(d, drafts[d].support.code, drafts[d].support.level = "Unsupported",
              LastOf(drafts[d].occurrences).range) : d \in {x \in Indexed : Unreported(x)}}
  /\ UNCHANGED <<unit, next, drafts, pointers, package>>

-----------------------------------------------------------------------------
(* remap_extraction *)

\* map_generated_range: the segments a range meets, if they are of one file
\* and one inclusion of it, span the range it comes from.
Met(range) ==
  {s \in unit.segments : s.start < range.end /\ s.end > range.start}

IsMapped(range) ==
  /\ Met(range) # {}
  /\ \A s, t \in Met(range) : s.anchor.file = t.anchor.file /\ s.chain = t.chain

MapRange(range) ==
  LET anchors == {s.anchor : s \in Met(range)} IN
  [file |-> (CHOOSE a \in anchors : TRUE).file,
   start |-> Min({a.start : a \in anchors}),
   end |-> Max({a.end : a \in anchors})]

MapOccurrence(o) ==
  IF ~IsMapped(o.range) THEN o
  ELSE LET range == MapRange(o.range) IN
       [o EXCEPT !.range = range, !.origin = FileRole[range.file],
                 !.chain = (CHOOSE s \in Met(o.range) : TRUE).chain]

\* Mutant of MapMember: a member is mapped wherever it comes from.
MapMemberAnywhere(member, occurrences) ==
  [member EXCEPT !.range = IF IsMapped(@) THEN MapRange(@) ELSE @]

\* remap_child: into an occurrence of its owner, or not at all.
MapMember(member, occurrences) ==
  [member EXCEPT !.range =
     IF IsMapped(@) /\ \E o \in occurrences : RangeContains(o.range, MapRange(@))
     THEN MapRange(@) ELSE @]

OccurrenceGaps(draft) ==
  {range \in {o.range : o \in draft.occurrences} : ~IsMapped(range)}

MembersKept(kind) == IF kind.form = "unsupported" THEN <<>> ELSE kind.members

MemberGaps(draft) ==
  LET members == MembersKept(draft.kind)
  IN {range \in {members[i].range : i \in DOMAIN members} : ~IsMapped(range)}

MapDraft(draft) ==
  LET occurrences == {MapOccurrence(o) : o \in draft.occurrences}
  IN [occurrences |-> occurrences,
      support |-> IF OccurrenceGaps(draft) # {} /\ draft.support = Supported
                  THEN PartialAs("P2000") ELSE draft.support,
      kind |-> IF draft.kind.form = "unsupported" THEN draft.kind
               ELSE [draft.kind EXCEPT !.members =
                       [i \in DOMAIN @ |-> MapMember(@[i], occurrences)]]]

\* provenance_gap, of a declaration or (NoDecl) of a diagnostic.
Gap(d, range) ==
  [impact |-> "ForcesPartial", decl |-> d, stage |-> "Preprocess", code |-> "P2000",
   error |-> FALSE, range |-> range]

MapDiagnostic(g) == [g EXCEPT !.range = IF IsMapped(@) THEN MapRange(@) ELSE @]

\* Mutant of Recovery: what was skipped has the range of the generated text.
RecoveryAsRead(span) ==
  [impact |-> "ForcesPartial", decl |-> NoDecl, stage |-> "Recovery", code |-> "P0002",
   error |-> TRUE, range |-> span]

\* A diagnostic for what the parser skipped: mapped, if that is possible.
Recovery(span) ==
  [impact |-> "ForcesPartial", decl |-> NoDecl, stage |-> "Recovery", code |-> "P0002",
   error |-> TRUE, range |-> IF unit.traced /\ IsMapped(span) THEN MapRange(span) ELSE span]

Recoveries == {Recovery(span) : span \in unit.skipped}

Remap ==
  /\ phase = "remap" /\ unit.traced
  /\ phase' = "package"
  /\ drafts' = [d \in Indexed |-> MapDraft(drafts[d])]
  /\ diagnostics' =
       {MapDiagnostic(g) : g \in diagnostics}
         \cup (UNION {{Gap(d, range) : range \in OccurrenceGaps(drafts[d]) \cup MemberGaps(drafts[d])} :
                        d \in Indexed})
         \cup {Gap(NoDecl, g.range) : g \in {x \in diagnostics : ~IsMapped(x.range)}}
         \cup Recoveries
  /\ UNCHANGED <<unit, next, pointers, package>>

\* A text that an external preprocessor generated is not mapped at all.
KeepGenerated ==
  /\ phase = "remap" /\ ~unit.traced
  /\ phase' = "package"
  /\ diagnostics' = diagnostics \cup
       {[Gap(NoDecl, [file |-> Generated, start |-> 0, end |-> FileLength])
           EXCEPT !.code = "P0001"]}
         \cup Recoveries
  /\ UNCHANGED <<unit, next, drafts, pointers, package>>

-----------------------------------------------------------------------------
(* The package *)

\* Outside any pointer, behind one, or inside a function type.
ViaOf(base, layers) ==
  LET inside == {i \in DOMAIN layers : layers[i] \in FunctionLayers}
      after == {i \in DOMAIN layers : layers[i] = "*" /\ \A j \in inside : j < i} IN
  CASE base.as = "enum" -> "forced"
    [] base.as # "enum" /\ after # {} -> "pointer"
    [] base.as # "enum" /\ after = {} -> IF inside # {} THEN "forced" ELSE "value"

ReferencesOf(type) ==
  IF type.base.to = NoDecl THEN {}
  ELSE {[to |-> type.base.to, as |-> type.base.as, via |-> ViaOf(type.base, type.layers),
         pointer |-> type.restrict /\ type.layers = <<>>]}

OutermostOf(type) ==
  IF type.layers # <<>> THEN IF type.layers[1] = "*" THEN "pointer" ELSE "value"
  ELSE IF type.base.as = "alias" THEN type.base.to ELSE "value"

ChildOf(kind, i) ==
  LET member == kind.members[i] IN
  [key |-> IF kind.form = "function" \/ member.name = "" THEN <<"", i>> ELSE <<member.name, 0>>,
   range |-> member.range,
   origin |-> IF member.range.file = Generated THEN "Generated" ELSE FileRole[member.range.file]]

OwnType(kind) == IF kind.form = "unsupported" THEN NoType ELSE kind.type

TypesIn(kind) ==
  LET members == MembersKept(kind)
  IN {OwnType(kind)} \cup {members[i].type : i \in DOMAIN members}

\* How many types are around the innermost one of the deepest.
DepthOf(types) == Max({Len(t.layers) : t \in types})

HeadOf(d) ==
  LET kind == drafts[d].kind IN
  [space |-> IF ~IsTag(FirstMention(d)) THEN "Ordinary"
             ELSE IF FirstMention(d).named THEN "Tag" ELSE "Anonymous",
   scope |-> IF IsInternal(d) THEN [in |-> "File", file |-> Generated]
             ELSE [in |-> "TranslationUnit"],
   internal |-> IsInternal(d),
   kind |-> kind.form,
   refs |-> UNION {ReferencesOf(t) : t \in TypesIn(kind)},
   outermost |-> OutermostOf(OwnType(kind)),
   depth |-> DepthOf(TypesIn(kind)),
   children |-> {ChildOf(kind, i) : i \in DOMAIN MembersKept(kind)},
   supported |-> drafts[d].support = Supported,
   bodyOk |-> KindSupport(kind) = Supported,
   incomplete |-> kind.form = "record" /\ ~kind.complete]

\* A child id named twice: two children, whatever their ranges.
HasDoubleChild(d) ==
  LET kind == drafts[d].kind
      members == MembersKept(kind) IN
  \E i, j \in DOMAIN members : i # j /\ ChildOf(kind, i).key = ChildOf(kind, j).key

FilesWith(generated) ==
  [f \in DOMAIN FileRole \cup (IF generated THEN {Generated} ELSE {}) |->
     [role |-> IF f = Generated THEN "Generated" ELSE FileRole[f], length |-> FileLength]]

PackageWith(generated) ==
  [target |-> CHOOSE t \in Targets : TRUE, inputs |-> CHOOSE i \in Inputs : TRUE, forced |-> {},
   entries |-> {f \in DOMAIN FileRole : FileRole[f] = "Entry"},
   files |-> FilesWith(generated),
   decls |-> [d \in Indexed |->
                [head |-> HeadOf(d),
                 occurrences |-> drafts[d].occurrences]],
   macros |-> <<>>,
   diagnostics |-> diagnostics,
   verdict |-> VerdictOf(diagnostics), reasons |-> ReasonsOf(diagnostics)]

IsAccepted(p) == IsChecked(p) /\ \A d \in Indexed : ~HasDoubleChild(d)

\* The generated file is dropped if the package is valid without it.
Package ==
  /\ phase = "package"
  /\ phase' = "done"
  /\ package' = IF unit.traced /\ IsAccepted(PackageWith(FALSE)) THEN PackageWith(FALSE)
                ELSE IF IsAccepted(PackageWith(TRUE)) THEN PackageWith(TRUE)
                ELSE Without("refused")
  /\ UNCHANGED <<unit, next, drafts, pointers, diagnostics>>

Next == Lower \/ Finish \/ Remap \/ KeepGenerated \/ Package

Spec == Init /\ [][Next]_vars

-----------------------------------------------------------------------------
(* What a scan promises of the declarations it was given *)

Done == phase = "done"
Refused == package.verdict = "refused"

\* Something that was declared or skipped could not be mapped to where it was
\* read, or a name has internal linkage.
NeedsGenerated ==
  \/ ~unit.traced
  \/ \E d \in Indexed : IsInternal(d)
  \/ \E k \in DOMAIN Mentions : ~IsMapped(RangeOf(k))
  \/ \E span \in unit.skipped : ~IsMapped(span)

\* A scan fails only over a declaration that conflicts with itself and that
\* another one refers to, over a child with the name of another, or over a limit:
\* of the depth of a type, or of a table, the generated text counted among the
\* files when it is needed only.  Whatever else is wrong with a declaration, and
\* wherever it was read from, the ranges, scopes, ids and types of the package
\* are such as validation accepts.
OnlyConflictsRefuse ==
  Done => (Refused <=> \/ \E d \in Indexed : HasDoubleChild(d)
                       \/ \E d, e \in Indexed : /\ drafts[d].kind.form = "unsupported"
                                                /\ \E r \in HeadOf(e).refs : r.to = d
                       \/ \E d \in Indexed : ~WithinDepth(HeadOf(d))
                       \/ ~WithinLimits(PackageWith(NeedsGenerated)))

\* The generated text stays in a package if and only if something of it could
\* not be mapped to where it was read - a declaration, or what the parser skipped
\* and reports - or a name has internal linkage.
GeneratedStaysIfNeeded ==
  Done /\ ~Refused => (Generated \in DOMAIN package.files <=> NeedsGenerated)

\* What a package says of a declaration it says twice: it is not supported if
\* and only if a diagnostic that forces incompleteness is bound to it, though the
\* diagnostics come from lowering, from the end of it and from the mapping, where
\* a member that cannot be mapped has one and only an occurrence changes support.
SupportIsDiagnosed ==
  Done /\ ~Refused =>
    \A d \in Indexed :
      drafts[d].support # Supported <=>
        \E g \in package.diagnostics : g.decl = d /\ Forces(g)

\* The type of what is declared, the function it may be included.
DeclaredLayers(kind) == (IF kind.form = "function" THEN <<"()">> ELSE <<>>) \o kind.type.layers

IsLowered(k) ==
  LET kind == drafts[Mentions[k].d].kind IN
  /\ kind.form \in {"alias", "variable", "function"}
  /\ kind.type.base # NoBase

\* The types of aliases, objects and functions are those their declarators
\* mean, when no level of a declarator has two suffixes and no function has a
\* parenthesis with more than its name in it.
SimpleDeclaratorsAreExact ==
  \A k \in 1..(next - 1) :
    IsLowered(k) /\ IsSimple(Mentions[k].levels) =>
      DeclaredLayers(drafts[Mentions[k].d].kind) = Meaning(Mentions[k].levels)

\* Types keep their structure (026_source_ir.md), `int (*handler)(int);` being
\* an example of a declarator that is not flattened (040_ast.md).
DeclaratorsAreExact ==
  \A k \in 1..(next - 1) :
    IsLowered(k) => DeclaredLayers(drafts[Mentions[k].d].kind) = Meaning(Mentions[k].levels)

\* What is wrong with one declaration is refused when a selection reaches it,
\* and never refuses a whole header (`diagnostic` of extract/mod.rs): a scan of
\* a traced text has a package, and no diagnostic that is not bound to one.
FlawsAreContained ==
  Done /\ unit.traced =>
    /\ ~Refused
    /\ \A g \in package.diagnostics : Forces(g) => g.decl # NoDecl

=============================================================================
