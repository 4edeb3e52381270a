---------------------------- MODULE CheckedPackage ----------------------------
(***************************************************************************)
(* Source packages, and what contract/validate.rs accepts as one.          *)
(*                                                                         *)
(* A table is a function on the ids it holds.  An id stands for the key it *)
(* is the digest of, so the same id never names two keys, and what         *)
(* validation says of the wording of one node - spellings, canonical       *)
(* names, the order of a list, the bounds of an array - is left out: this  *)
(* module keeps every rule that relates one part of a package to another,  *)
(* and the limits of the tables and of the depth of a type.                *)
(***************************************************************************)
EXTENDS Naturals, Sequences, FiniteSets

CONSTANTS
  Ids, NoDecl, Codes,   \* as in SourceClosure
  FileIds, MacroIds,
  Tokens,               \* what an occurrence is written as, and which one of those
  Targets, Inputs,      \* targets, and the inputs of a scan but for its files
  Limits                \* ValidationLimits: the sizes of the tables, the depth of a type

ASSUME LimitsAssumption ==
  Limits \in [files : Nat, declarations : Nat, macros : Nat, diagnostics : Nat, typeDepth : Nat]

INSTANCE SourceClosure WITH Packages <- {}, Selections <- {}

Roles  == {"Entry", "UserInclude", "SystemInclude", "Builtin", "Generated"}
Spaces == {"Ordinary", "Tag", "Anonymous"}

SourceRange == [file : FileIds, start : Nat, end : Nat]

\* SourceProvenance: the include directives passed through, outermost first.
Chain == Seq([directive : SourceRange, included : FileIds])

\* DeclarationOccurrence and MacroOccurrence: `tokens` and the file of the
\* range are what the id of the occurrence is the digest of.
Occurrence == [range : SourceRange, tokens : Tokens, origin : Roles, chain : Chain,
               attrsOk : BOOLEAN]
OccurrenceId(o) == <<o.range.file, o.tokens>>

\* EntityScope
Scope == {[in |-> "TranslationUnit"]}
           \cup [in : {"File"}, file : FileIds] \cup [in : {"Owner"}, owner : Ids]

\* A type refers to a declaration as one of three kinds; a qualifier on it
\* (`restrict`, nullability) may need the referenced type to be a pointer.
Reference ==
  {r \in [to : Ids, as : {"alias", "record", "enum"}, via : Vias, pointer : BOOLEAN] :
     r.as = "enum" => r.via = "forced"}

\* A field, a variant or a parameter: the name or the position that its id is
\* the digest of, and its range.
Child == [key : STRING \X Nat, range : SourceRange, origin : Roles]

\* What an alias comes to at its outermost: a pointer, another alias, a value.
Outermost == {"pointer", "value"} \cup Ids

\* All of a SourceDeclaration that two packages must agree about.  Its types
\* are those of its kind: an unsupported declaration has none, a record those
\* of its fields; what an alias comes to is among them, and the deepest
\* of them has `depth` types around the one it ends in.
DeclarationHead ==
  {h \in [space : Spaces, scope : Scope, internal : BOOLEAN, kind : Kinds,
          refs : SUBSET Reference, outermost : Outermost, depth : Nat,
          children : SUBSET Child,
          supported : BOOLEAN, bodyOk : BOOLEAN, incomplete : BOOLEAN] :
     /\ h.kind = "unsupported" => h.refs = {} /\ h.children = {}
     /\ h.incomplete => h.kind = "record"
     /\ h.kind = "record" /\ h.children = {} => h.refs = {}
     /\ h.outermost \in Ids => \E r \in h.refs : r.to = h.outermost}

MacroHead == [file : FileIds, code : Codes \cup {"Supported"}]

TableEntry(heads) == [head : heads, occurrences : SUBSET Occurrence]

NoRange == [file |-> NoDecl, start |-> 0, end |-> 0]
SourceDiagnostic ==
  [impact : Impacts, decl : Ids \cup {NoDecl}, stage : Stages, code : Codes,
   error : BOOLEAN, range : SourceRange \cup {NoRange}]

\* CompletenessReason
ReasonOf(g) == [code |-> g.code, range |-> g.range]

IsTable(t, keys, values) == DOMAIN t \subseteq keys /\ t \in [DOMAIN t -> values]

\* SourcePackageInput
IsSourcePackage(p) ==
  /\ p = [target |-> p.target, inputs |-> p.inputs, forced |-> p.forced, entries |-> p.entries,
          files |-> p.files, decls |-> p.decls, macros |-> p.macros,
          diagnostics |-> p.diagnostics, verdict |-> p.verdict, reasons |-> p.reasons]
  /\ p.target \in Targets /\ p.inputs \in Inputs
  /\ p.forced \subseteq FileIds /\ p.entries \subseteq FileIds
  /\ IsTable(p.files, FileIds, [role : Roles, length : Nat])
  /\ IsTable(p.decls, Ids, TableEntry(DeclarationHead))
  /\ IsTable(p.macros, MacroIds, TableEntry(MacroHead))
  /\ p.diagnostics \subseteq SourceDiagnostic
  /\ p.verdict \in {"Complete", "Partial", "Rejected"}
  /\ p.reasons \subseteq [code : Codes, range : SourceRange \cup {NoRange}]

-----------------------------------------------------------------------------
(* The rules of Validator *)

Forces(g) == g.impact # "Informational"

RangeKnown(p, r) ==
  /\ r.file \in DOMAIN p.files
  /\ r.start <= r.end /\ r.end <= p.files[r.file].length

RangeContains(outer, inner) ==
  outer.file = inner.file /\ outer.start <= inner.start /\ inner.end <= outer.end

\* validate_provenance: the origin is the role of the file of the range.
OriginKnown(p, origin, file) == file \in DOMAIN p.files => p.files[file].role = origin

OccurrenceChecked(p, o) ==
  /\ RangeKnown(p, o.range) /\ o.range.start # o.range.end
  /\ OriginKnown(p, o.origin, o.range.file)
  /\ \A k \in DOMAIN o.chain : /\ RangeKnown(p, o.chain[k].directive)
                               /\ o.chain[k].included \in DOMAIN p.files

\* A table entry: at least one occurrence, no two with the same id.
OccurrencesChecked(p, e) ==
  /\ e.occurrences # {}
  /\ \A o \in e.occurrences : OccurrenceChecked(p, o)
  /\ \A o1, o2 \in e.occurrences : OccurrenceId(o1) = OccurrenceId(o2) => o1 = o2

ScopeChecked(p, scope) ==
  /\ scope.in = "File" => scope.file \in DOMAIN p.files
  /\ scope.in = "Owner" => scope.owner \in DOMAIN p.decls

IdentityChecked(p, h) ==
  /\ ScopeChecked(p, h.scope)
  /\ h.kind \in {"record", "enum"} => h.space # "Ordinary"
  /\ h.kind \in {"function", "alias", "variable"} => h.space # "Tag"
  /\ h.internal => h.space # "Anonymous" /\ h.scope.in = "File"

ChildrenChecked(p, e) ==
  \A c \in e.head.children :
    /\ RangeKnown(p, c.range) /\ c.range.start # c.range.end
    /\ OriginKnown(p, c.origin, c.range.file)
    /\ \E o \in e.occurrences : RangeContains(o.range, c.range)
    /\ \A c2 \in e.head.children : c.key = c2.key => c = c2   \* ChildId

Aliases(p) == {d \in DOMAIN p.decls : p.decls[d].head.kind = "alias"}

\* type_is_effectively_pointer: following the aliases ends at a pointer.
EffectivelyPointer(p, d) ==
  \A S \in SUBSET Aliases(p) :
    (\A a \in Aliases(p) :
       p.decls[a].head.outermost \in {"pointer"} \cup S => a \in S) => d \in S

\* validate_type, at depth 0 for each type of a declaration.
WithinDepth(h) == h.depth <= Limits.typeDepth

TypesChecked(p, h) ==
  /\ WithinDepth(h)
  /\ \A r \in h.refs :
       /\ r.to \in DOMAIN p.decls
       /\ p.decls[r.to].head.kind = r.as
       /\ r.pointer => r.as = "alias" /\ EffectivelyPointer(p, r.to)

KindChecked(h) ==
  /\ h.kind = "unsupported" => ~h.supported
  /\ h.incomplete => h.children = {}

DeclarationChecked(p, e) ==
  /\ IdentityChecked(p, e.head)
  /\ OccurrencesChecked(p, e)
  /\ KindChecked(e.head)
  /\ TypesChecked(p, e.head)
  /\ ChildrenChecked(p, e)

MacroChecked(p, e) == e.head.file \in DOMAIN p.files /\ OccurrencesChecked(p, e)

DiagnosticChecked(p, g) ==
  /\ g.range # NoRange => RangeKnown(p, g.range)
  /\ g.decl # NoDecl => g.decl \in DOMAIN p.decls

InputsChecked(p) ==
  /\ p.entries # {}
  /\ p.entries = {f \in DOMAIN p.files : p.files[f].role = "Entry"}
  /\ p.forced \subseteq DOMAIN p.files

\* validate_alias_cycles: every set of aliases has one that refers to none of it.
NoAliasCycle(p) ==
  \A S \in SUBSET Aliases(p) :
    S # {} => \E a \in S : \A r \in p.decls[a].head.refs : r.to \notin S

SourceStages == {"Configuration", "Preprocess", "Parse"}

\* A diagnostic that a complete package cannot have, though it forces nothing.
Unforced(g) ==
  /\ ~Forces(g)
  /\ g.stage = "Recovery" \/ (g.error /\ g.stage \in SourceStages)

\* completeness_from_diagnostics, of a composition as of a scan
VerdictOf(diagnostics) ==
  IF \E g \in diagnostics : g.impact = "ForcesRejected" THEN "Rejected"
  ELSE IF \E g \in diagnostics : Forces(g) THEN "Partial"
  ELSE "Complete"

ReasonsOf(diagnostics) == {ReasonOf(g) : g \in {x \in diagnostics : Forces(x)}}

CompletenessChecked(p) ==
  LET impacts == {g.impact : g \in p.diagnostics}
      reasons == ReasonsOf(p.diagnostics) IN
  \/ /\ p.verdict = "Complete" /\ p.reasons = {}
     /\ \A g \in p.diagnostics : ~Forces(g) /\ ~Unforced(g)
  \/ /\ p.verdict = "Partial" /\ p.reasons = reasons
     /\ "ForcesPartial" \in impacts /\ "ForcesRejected" \notin impacts
  \/ /\ p.verdict = "Rejected" /\ p.reasons = reasons
     /\ "ForcesRejected" \in impacts

\* check_limit
AtMost(S, n) == IsFiniteSet(S) /\ Cardinality(S) <= n

\* Two diagnostics that differ in their wording alone count as one here.
WithinLimits(p) ==
  /\ AtMost(DOMAIN p.files, Limits.files)
  /\ AtMost(DOMAIN p.decls, Limits.declarations)
  /\ AtMost(DOMAIN p.macros, Limits.macros)
  /\ AtMost(p.diagnostics, Limits.diagnostics)

\* Validator::validate finds no violation.
IsChecked(p) ==
  /\ WithinLimits(p)
  /\ \A d \in DOMAIN p.decls : DeclarationChecked(p, p.decls[d])
  /\ \A m \in DOMAIN p.macros : MacroChecked(p, p.macros[m])
  /\ \A g \in p.diagnostics : DiagnosticChecked(p, g)
  /\ InputsChecked(p)
  /\ NoAliasCycle(p)
  /\ CompletenessChecked(p)

-----------------------------------------------------------------------------
(* What into_complete reads of a package *)

View(p) ==
  LET ids == DOMAIN p.decls IN
  [decls |-> ids,
   kind  |-> [d \in Ids |-> IF d \in ids THEN p.decls[d].head.kind ELSE "unsupported"],
   edges |-> [d \in Ids |-> IF d \in ids
                            THEN {[to |-> r.to, via |-> r.via] : r \in p.decls[d].head.refs}
                            ELSE {}],
   supported |-> [d \in Ids |-> d \in ids /\ p.decls[d].head.supported],
   attrsOk   |-> [d \in Ids |-> d \in ids /\ \A o \in p.decls[d].occurrences : o.attrsOk],
   bodyOk    |-> [d \in Ids |-> d \in ids /\ p.decls[d].head.bodyOk],
   incomplete |-> [d \in Ids |-> d \in ids /\ p.decls[d].head.incomplete],
   diagnostics |-> {[impact |-> g.impact, decl |-> g.decl, stage |-> g.stage,
                     code |-> g.code] : g \in p.diagnostics},
   macroCodes |-> {p.macros[m].head.code : m \in DOMAIN p.macros} \ {"Supported"}]

=============================================================================
