-------------------------- MODULE PackageComposition --------------------------
(***************************************************************************)
(* SourcePackage::retain and SourcePackage::merge of contract/compose.rs:  *)
(* a caller holds packages, projects them to selections and merges them in *)
(* any order, and asks what into_complete asks of the results.             *)
(***************************************************************************)
EXTENDS CheckedPackage

CONSTANT
  Callers   \* the packages a caller begins with, the selections it has a use
            \* for and, a bound, how many operations it asks for

ASSUME CallersAssumption ==
  \A c \in Callers :
    /\ \A p \in c.packages : IsSourcePackage(p) /\ IsChecked(p)
    /\ \A s \in c.selections : IsSelection(s)
    /\ c.operations \in Nat

VARIABLES
  held,         \* the packages at hand, each with those it was merged from
  selections,   \* what the caller may retain or complete
  left,         \* the operations it has left
  last          \* the operation before, its operands and how it ended

vars == <<held, selections, left, last>>

-----------------------------------------------------------------------------
(* merge *)

\* What two tables say of the ids they share.
SameHeads(t1, t2) == \A k \in DOMAIN t1 \cap DOMAIN t2 : t1[k].head = t2[k].head

SameOccurrences(t1, t2) ==
  \A k \in DOMAIN t1 \cap DOMAIN t2 :
    \A o1 \in t1[k].occurrences, o2 \in t2[k].occurrences :
      OccurrenceId(o1) = OccurrenceId(o2) => o1 = o2

\* Mutant of EntriesAgree: occurrences are unioned without a look at them.
EntriesAgreeByHead(t1, t2) == SameHeads(t1, t2)

EntriesAgree(t1, t2) == SameHeads(t1, t2) /\ SameOccurrences(t1, t2)

FilesAgree(t1, t2) == \A k \in DOMAIN t1 \cap DOMAIN t2 : t1[k] = t2[k]

MergeFiles(t1, t2) ==
  [k \in DOMAIN t1 \cup DOMAIN t2 |-> IF k \in DOMAIN t1 THEN t1[k] ELSE t2[k]]

Occurrences(t, k) == IF k \in DOMAIN t THEN t[k].occurrences ELSE {}

\* Mutant of MergeEntries: the first package that has an id keeps its entry.
MergeEntriesFirst(t1, t2) == MergeFiles(t1, t2)

\* merge_declarations and merge_macros: one head, the occurrences of both.
MergeEntries(t1, t2) ==
  [k \in DOMAIN t1 \cup DOMAIN t2 |->
     [head |-> IF k \in DOMAIN t1 THEN t1[k].head ELSE t2[k].head,
      occurrences |-> Occurrences(t1, k) \cup Occurrences(t2, k)]]

\* Mutant of MergedDiagnostics: those of the second package are left.
FirstDiagnostics(p, q) == p.diagnostics

MergedDiagnostics(p, q) == p.diagnostics \cup q.diagnostics

Merged(p, q) ==
  LET diagnostics == MergedDiagnostics(p, q) IN
  [target |-> p.target, inputs |-> p.inputs, forced |-> p.forced,
   entries |-> p.entries \cup q.entries,
   files |-> MergeFiles(p.files, q.files),
   decls |-> MergeEntries(p.decls, q.decls),
   macros |-> MergeEntries(p.macros, q.macros),
   diagnostics |-> diagnostics,
   verdict |-> VerdictOf(diagnostics), reasons |-> ReasonsOf(diagnostics)]

Agree(p, q) ==
  /\ p.target = q.target
  /\ p.inputs = q.inputs /\ p.forced = q.forced
  /\ FilesAgree(p.files, q.files)
  /\ EntriesAgree(p.decls, q.decls)
  /\ EntriesAgree(p.macros, q.macros)

\* The first error of merge: try_new comes last.
MergeError(p, q) ==
  CASE p.target # q.target -> "IncompatibleTarget"
    [] p.target = q.target /\ (p.inputs # q.inputs \/ p.forced # q.forced) ->
         "IncompatibleSourceInputs"
    [] Agree(p, q) -> IF IsChecked(Merged(p, q)) THEN "none" ELSE "InvalidPackage"
    [] OTHER -> "Conflict"   \* ConflictingFile, ConflictingDeclaration, ConflictingMacro

-----------------------------------------------------------------------------
(* retain *)

Roots(p, s) ==
  IF s.mode = "AllSupported"
  THEN {d \in DOMAIN p.decls : p.decls[d].head.supported}
  ELSE s.ids

\* Mutant of Mentions: the owner of a scope is not followed.
MentionsInTypes(h) == {r.to : r \in h.refs}

\* enqueue_declaration_references, and the owner of a declaration's scope.
Mentions(h) ==
  {r.to : r \in h.refs} \cup (IF h.scope.in = "Owner" THEN {h.scope.owner} ELSE {})

ClosedSet(p, S) ==
  \A d \in S : d \in DOMAIN p.decls => Mentions(p.decls[d].head) \subseteq S

\* declaration_closure: the least closed set with the roots in it.
Reached(p, roots) ==
  {d \in Ids : \A S \in SUBSET Ids : roots \subseteq S /\ ClosedSet(p, S) => d \in S}

\* Mutant of RetainedDiagnostics: only those of retained declarations stay.
RetainedBound(p, S) == {g \in p.diagnostics : g.decl \in S}

RetainedDiagnostics(p, S) == {g \in p.diagnostics : g.decl # NoDecl => g.decl \in S}

Retained(p, S) ==
  LET diagnostics == RetainedDiagnostics(p, S) IN
  [target |-> p.target, inputs |-> p.inputs, forced |-> p.forced,
   entries |-> p.entries, files |-> p.files, macros |-> p.macros,
   decls |-> [d \in DOMAIN p.decls \cap S |-> p.decls[d]],
   diagnostics |-> diagnostics,
   verdict |-> VerdictOf(diagnostics), reasons |-> ReasonsOf(diagnostics)]

\* The roots are looked at in the order of their ids, which are digests.
Refusals(p, s, S) ==
  {e \in {"MissingDeclaration", "OpaqueRootIsNotRecord"} :
     \/ e = "MissingDeclaration" /\ ~S \subseteq DOMAIN p.decls
     \/ /\ e = "OpaqueRootIsNotRecord" /\ s.mode = "OpaqueOnly"
        /\ \E d \in s.ids \cap DOMAIN p.decls : p.decls[d].head.kind # "record"}

RetainErrors(p, s, S) ==
  IF Refusals(p, s, S) # {} THEN Refusals(p, s, S)
  ELSE IF IsChecked(Retained(p, S)) THEN {"none"} ELSE {"InvalidPackage"}

-----------------------------------------------------------------------------
(* A caller with some packages *)

Holds(from, pkg) == [from |-> from, pkg |-> pkg]

Nothing == [op |-> "none"]

Init ==
  /\ \E c \in Callers :
       /\ held = {Holds({p}, p) : p \in c.packages}
       /\ selections = c.selections /\ left = c.operations
  /\ last = Nothing

Adds(from, pkg, error) ==
  /\ left > 0 /\ left' = left - 1 /\ UNCHANGED selections
  /\ held' = IF error = "none" THEN held \cup {Holds(from, pkg)} ELSE held

Merge(x, y) ==
  LET error == MergeError(x.pkg, y.pkg)
      result == Merged(x.pkg, y.pkg) IN
  /\ Adds(x.from \cup y.from, result, error)
  /\ last' = [op |-> "merge", of |-> {x.pkg, y.pkg}, error |-> error, result |-> result]

Retain(x, s) ==
  LET S == Reached(x.pkg, Roots(x.pkg, s))
      result == Retained(x.pkg, S) IN
  \E error \in RetainErrors(x.pkg, s, S) :
    /\ Adds({result}, result, error)
    /\ last' = [op |-> "retain", of |-> {x.pkg}, choice |-> s, error |-> error,
                result |-> result]

Next ==
  \/ \E x, y \in held : Merge(x, y)
  \/ \E x \in held, s \in selections : Retain(x, s)

Spec == Init /\ [][Next]_vars

-----------------------------------------------------------------------------
(* What composition promises *)

\* What into_complete answers for a selection: the least closure of it and all
\* that blocks it (CompleteClosure shows that its walk answers so).
Answer(p, s) ==
  LET closed == {f \in NeedMaps : Closed(View(p), s, f)}
      closure == CHOOSE f \in closed : \A g \in closed : \A d \in Ids : f[d] <= g[d] IN
  [closure |-> closure, blockers |-> ClosureBlockers(View(p), s, closure)]

Made(op) == last.op = op /\ last.error = "none"

\* What packages that were checked and agree are merged to is refused by
\* validation only for the size of a table, whatever other rule relates a part
\* of the one to a part of the other; and a projection is refused only over a
\* diagnostic that should have forced incompleteness and did not, left alone
\* when those that did are gone.
ResultsAreChecked ==
  last.op # "none" /\ last.error = "InvalidPackage" =>
    \/ last.op = "merge" /\ ~WithinLimits(last.result)
    \/ /\ last.op = "retain"
       /\ last.result.verdict = "Complete"
       /\ \E g \in last.result.diagnostics : Unforced(g)

\* The order of merges is immaterial: whatever two packages were merged from the
\* same ones, in whatever order and grouping and however often, are the same.
OrderIsImmaterial ==
  \A x, y \in held : x.from = y.from => x.pkg = y.pkg

\* And so is the order for the failures: two packages conflict just when two of
\* those they were merged from do.
ConflictsArePairwise ==
  \A x, y \in held : Agree(x.pkg, y.pkg) <=> \A p \in x.from, q \in y.from : Agree(p, q)

\* A projection answers a completion of its own selection as the whole package
\* did, except that it is no longer rejected over a declaration it has left out.
RetainKeepsAnswer ==
  Made("retain") =>
    \A p \in last.of :
      LET before == Answer(p, last.choice)
          after == Answer(last.result, last.choice)
          gone == {g \in p.diagnostics : g.decl \notin DOMAIN last.result.decls \cup {NoDecl}} IN
      /\ after.closure = before.closure
      /\ \/ after.blockers = before.blockers
         \/ /\ \E g \in gone : g.impact = "ForcesRejected"
            /\ after.blockers = before.blockers \ {Blocker("PackageIncomplete", NoDecl)}

\* Merging never makes a selection completable that a package refuses, with one
\* exception the code makes: a diagnostic of the package itself counts no more
\* when a macro of the other package has its code.
MergeHidesNothing ==
  Made("merge") =>
    \A p \in last.of, s \in selections :
      s.ids \subseteq DOMAIN p.decls =>
        LET hidden == Answer(p, s).blockers \ Answer(last.result, s).blockers IN
        \/ hidden = {}
        \/ /\ hidden = {Blocker("PackageIncomplete", NoDecl)}
           /\ {g.code : g \in PackageScoped(View(p))} \subseteq View(last.result).macroCodes

=============================================================================
