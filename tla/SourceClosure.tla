---------------------------- MODULE SourceClosure ----------------------------
(***************************************************************************)
(* A checked source package and a selection, as contract/complete.rs reads *)
(* them: which declarations a selection starts from, what the visit of one *)
(* declaration demands of others, and what it finds to refuse.             *)
(*                                                                         *)
(* A declaration is what the visit reads of it.  Its type tree is the set  *)
(* of references found in it, each with the way it is reached; all the     *)
(* support statuses, attributes, bounds and calling conventions below its  *)
(* header are one flag, `bodyOk`.                                          *)
(***************************************************************************)
EXTENDS Naturals

CONSTANTS
  Ids,         \* declaration identities, those absent from a package included
  NoDecl,      \* a diagnostic's `declaration: None`
  Codes,       \* diagnostic codes
  Packages,    \* the checked packages a behaviour may start from
  Selections   \* the selections a caller may ask for

Opaque     == 1
Definition == 2
NoNeed     == 0      \* not in the `required` map
Needs      == {Opaque, Definition}
NeedMaps   == [Ids -> {NoNeed, Opaque, Definition}]

Kinds == {"function", "record", "enum", "alias", "variable", "unsupported"}

\* How a type mentions a declaration: outside any pointer, behind one, or in a
\* position that needs the definition whatever surrounds it (an enum, or a
\* type inside a function type, where `behind_pointer` starts again at false).
Vias  == {"value", "pointer", "forced"}
Edges == [to : Ids, via : Vias]

Impacts     == {"Informational", "ForcesPartial", "ForcesRejected"}
Stages      == {"Configuration", "Preprocess", "Parse", "Recovery", "Extract",
                "Contract"}
Diagnostics == [impact : Impacts, decl : Ids \cup {NoDecl},
                stage : Stages, code : Codes]

HasPackageShape(p) ==
  /\ p.decls \subseteq Ids
  /\ p.kind \in [Ids -> Kinds]
  /\ p.edges \in [Ids -> SUBSET Edges]
  /\ p.supported \in [Ids -> BOOLEAN]    \* declaration.support.is_supported()
  /\ p.attrsOk \in [Ids -> BOOLEAN]      \* no ABI-relevant occurrence attribute
  /\ p.bodyOk \in [Ids -> BOOLEAN]       \* parameters, fields, variants, types
  /\ p.incomplete \in [Ids -> BOOLEAN]   \* RecordCompleteness::Incomplete
  /\ p.diagnostics \subseteq Diagnostics
  /\ p.macroCodes \subseteq Codes        \* support codes of unsupported macros

\* What SourcePackage::try_new has checked of the references of a package.
ReferencesChecked(p) ==
  \A d \in p.decls : \A e \in p.edges[d] :
    /\ e.to \in p.decls
    /\ p.kind[e.to] \in {"alias", "record", "enum"}
    /\ p.kind[e.to] = "enum" => e.via = "forced"

DeclarationsChecked(p) ==
  \A d \in p.decls :
    /\ p.kind[d] = "unsupported" => ~p.supported[d] /\ p.edges[d] = {}
    /\ p.incomplete[d] => p.kind[d] = "record" /\ p.edges[d] = {}

\* No alias is reached from its own target through aliases: every set of
\* aliases has one that refers to none of the set.
AliasesAcyclic(p) ==
  \A S \in SUBSET {d \in p.decls : p.kind[d] = "alias"} :
    S # {} => \E d \in S : \A e \in p.edges[d] : e.to \notin S

IsPackage(p) ==
  /\ HasPackageShape(p)
  /\ ReferencesChecked(p)
  /\ DeclarationsChecked(p)
  /\ AliasesAcyclic(p)
  /\ \A g \in p.diagnostics : g.decl \in p.decls \cup {NoDecl}

IsSelection(s) ==
  /\ s.mode \in {"AllSupported", "Only", "OpaqueOnly"}
  /\ s.ids \subseteq Ids

ASSUME PackagesAssumption ==
  /\ \A p \in Packages : IsPackage(p)
  /\ \A s \in Selections : IsSelection(s)

-----------------------------------------------------------------------------
(* The package-level verdict *)

Forcing(p) == {g \in p.diagnostics : g.impact # "Informational"}

Rejected(p) == \E g \in p.diagnostics : g.impact = "ForcesRejected"

\* What still blocks the whole package when it is partial: a forcing
\* diagnostic that names no declaration, is not parser recovery, and whose
\* code no macro carries as its own.
PackageScoped(p) ==
  {g \in Forcing(p) : /\ g.decl = NoDecl
                      /\ g.stage # "Recovery"
                      /\ g.code \notin p.macroCodes}

Blocker(what, id) == [what |-> what, id |-> id]

PackageBlockers(p) ==
  IF Rejected(p) \/ PackageScoped(p) # {}
  THEN {Blocker("PackageIncomplete", NoDecl)}
  ELSE {}

-----------------------------------------------------------------------------
(* Roots, and what one visit demands *)

RootIds(p, s) ==
  IF s.mode = "AllSupported" THEN {d \in p.decls : p.supported[d]} ELSE s.ids

\* Mutant of RootNeed: an explicit root always needs its definition.
RootNeedIgnoringMode(p, s, d) ==
  IF s.mode = "AllSupported" /\ p.kind[d] = "record" /\ p.incomplete[d]
  THEN Opaque
  ELSE Definition

RootNeed(p, s, d) ==
  IF \/ s.mode = "OpaqueOnly"
     \/ s.mode = "AllSupported" /\ p.kind[d] = "record" /\ p.incomplete[d]
  THEN Opaque
  ELSE Definition

\* An opaque visit of a record leaves its fields alone.
BodyVisited(p, d, need) == ~(p.kind[d] = "record" /\ need = Opaque)

EdgeNeed(p, d, need, e) ==
  IF \/ e.via = "pointer"
     \/ e.via = "value" /\ p.kind[d] = "alias" /\ need = Opaque
  THEN Opaque
  ELSE Definition

\* The visit ends at once: nothing to visit, or an opaque root that is no record.
NonRecordRoot(p, s, d, need) ==
  s.mode = "OpaqueOnly" /\ need = Opaque /\ p.kind[d] # "record"

Visited(p, s, d, need) == d \in p.decls /\ ~NonRecordRoot(p, s, d, need)

\* The (declaration, need) pairs the visit of d at a need enqueues.
Demands(p, s, d, need) ==
  {<<e.to, EdgeNeed(p, d, need, e)>> :
     e \in {x \in p.edges[d] : /\ Visited(p, s, d, need)
                               /\ BodyVisited(p, d, need)}}

UnsupportedAt(p, d, need) ==
  \/ ~p.supported[d]
  \/ ~p.attrsOk[d]
  \/ p.kind[d] = "unsupported"
  \/ BodyVisited(p, d, need) /\ ~p.bodyOk[d]

IncompleteAt(p, d, need) ==
  p.kind[d] = "record" /\ need = Definition /\ p.incomplete[d]

\* Why the visit of d at a need refuses the selection.
Faults(p, s, d, need) ==
  {w \in {"MissingDeclaration", "OpaqueRootIsNotRecord",
          "Unsupported", "IncompleteRecord"} :
     \/ w = "MissingDeclaration" /\ d \notin p.decls
     \/ /\ w = "OpaqueRootIsNotRecord"
        /\ d \in p.decls
        /\ NonRecordRoot(p, s, d, need)
     \/ /\ w = "Unsupported"
        /\ Visited(p, s, d, need)
        /\ UnsupportedAt(p, d, need)
     \/ /\ w = "IncompleteRecord"
        /\ Visited(p, s, d, need)
        /\ IncompleteAt(p, d, need)}

VisitBlockers(p, s, d, need) == {Blocker(w, d) : w \in Faults(p, s, d, need)}

-----------------------------------------------------------------------------
(* What the walk computes, without an order *)

Members(f) == {d \in Ids : f[d] # NoNeed}

\* A need for every declaration that covers the roots and whatever its own
\* members demand at the need it gives them.
Closed(p, s, f) ==
  /\ \A d \in RootIds(p, s) : RootNeed(p, s, d) <= f[d]
  /\ \A d \in Members(f) : \A o \in Demands(p, s, d, f[d]) : o[2] <= f[o[1]]

LeastClosed(p, s, f) ==
  /\ Closed(p, s, f)
  /\ \A g \in NeedMaps : Closed(p, s, g) => \A d \in Ids : f[d] <= g[d]

\* The blockers of a whole closure.
ClosureBlockers(p, s, f) ==
  PackageBlockers(p) \cup UNION {VisitBlockers(p, s, d, f[d]) : d \in Members(f)}

=============================================================================
