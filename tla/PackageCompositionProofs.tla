----------------------- MODULE PackageCompositionProofs -----------------------
(***************************************************************************)
(* Proofs about PackageComposition, for all packages and callers: what is  *)
(* composed of checked packages and no larger than a package may be is     *)
(* checked, the order of merges is immaterial, and completions are answered by a projection as before and  *)
(* by a merge with no blocker hidden; and what CompleteClosure assumes of a*)
(* package holds of every one that validation accepts.                     *)
(***************************************************************************)
EXTENDS PackageComposition, FiniteSetTheorems, TLAPS

-----------------------------------------------------------------------------
(* What into_complete may assume *)

\* A package that validation accepts is what the closure walk takes for granted.
THEOREM ViewIsPackage ==
  ASSUME NEW p, IsSourcePackage(p), IsChecked(p)
  PROVE  IsPackage(View(p))
<1> DEFINE V == View(p)
<1>1. \A d \in DOMAIN p.decls :
        /\ d \in Ids
        /\ p.decls[d].head \in DeclarationHead
        /\ p.decls[d].occurrences \subseteq Occurrence
  BY DEF IsSourcePackage, IsTable, TableEntry
<1>2. HasPackageShape(V)
  <2>1. V.kind \in [Ids -> Kinds]
    BY <1>1 DEF View, DeclarationHead, Kinds
  <2>2. V.edges \in [Ids -> SUBSET Edges]
    BY <1>1 DEF View, DeclarationHead, Reference, Edges
  <2>3. /\ V.supported \in [Ids -> BOOLEAN] /\ V.attrsOk \in [Ids -> BOOLEAN]
        /\ V.bodyOk \in [Ids -> BOOLEAN] /\ V.incomplete \in [Ids -> BOOLEAN]
    BY <1>1 DEF View, DeclarationHead
  <2>4. V.diagnostics \subseteq Diagnostics
    BY DEF View, IsSourcePackage, SourceDiagnostic, Diagnostics
  <2>5. V.macroCodes \subseteq Codes
    BY DEF View, IsSourcePackage, IsTable, TableEntry, MacroHead
  <2>6. V.decls \subseteq Ids
    BY <1>1 DEF View
  <2> QED BY <2>1, <2>2, <2>3, <2>4, <2>5, <2>6 DEF HasPackageShape
<1>3. ReferencesChecked(V)
  <2> SUFFICES ASSUME NEW d \in DOMAIN p.decls, NEW r \in p.decls[d].head.refs
               PROVE  /\ r.to \in DOMAIN p.decls
                      /\ p.decls[r.to].head.kind \in {"alias", "record", "enum"}
                      /\ p.decls[r.to].head.kind = "enum" => r.via = "forced"
    BY <1>1 DEF ReferencesChecked, View
  <2>1. r \in Reference
    BY <1>1 DEF DeclarationHead
  <2>2. TypesChecked(p, p.decls[d].head)
    BY DEF IsChecked, DeclarationChecked
  <2> QED BY <2>1, <2>2 DEF TypesChecked, Reference
<1>4. DeclarationsChecked(V)
  <2> SUFFICES ASSUME NEW d \in DOMAIN p.decls
               PROVE  LET h == p.decls[d].head IN
                      /\ h.kind = "unsupported" => ~h.supported /\ h.refs = {}
                      /\ h.incomplete => h.kind = "record" /\ h.refs = {}
    BY <1>1 DEF DeclarationsChecked, View
  <2>1. KindChecked(p.decls[d].head)
    BY DEF IsChecked, DeclarationChecked
  <2> QED BY <1>1, <2>1 DEF KindChecked, DeclarationHead
<1>5. AliasesAcyclic(V)
  <2>1. {d \in V.decls : V.kind[d] = "alias"} = Aliases(p)
    BY <1>1 DEF View, Aliases
  <2> SUFFICES ASSUME NEW S \in SUBSET Aliases(p), S # {}
               PROVE  \E d \in S : \A e \in V.edges[d] : e.to \notin S
    BY <2>1 DEF AliasesAcyclic
  <2>2. PICK a \in S : \A r \in p.decls[a].head.refs : r.to \notin S
    BY DEF IsChecked, NoAliasCycle
  <2>3. V.edges[a] = {[to |-> r.to, via |-> r.via] : r \in p.decls[a].head.refs}
    BY <1>1 DEF View, Aliases
  <2> QED BY <2>2, <2>3
<1>6. \A g \in V.diagnostics : g.decl \in V.decls \cup {NoDecl}
  BY DEF View, IsChecked, DiagnosticChecked
<1> QED BY <1>2, <1>3, <1>4, <1>5, <1>6 DEF IsPackage

-----------------------------------------------------------------------------
(* A package within another *)

SameHeadsIn(t, u) ==
  \A k \in DOMAIN t : /\ k \in DOMAIN u /\ u[k].head = t[k].head
                      /\ t[k].occurrences \subseteq u[k].occurrences

\* Every file, declaration and macro of p is one of m, and looks the same.
IsWithin(p, m) ==
  /\ \A f \in DOMAIN p.files : f \in DOMAIN m.files /\ m.files[f] = p.files[f]
  /\ SameHeadsIn(p.decls, m.decls)
  /\ SameHeadsIn(p.macros, m.macros)

LEMMA RangeWithin ==
  ASSUME NEW p, NEW m, IsWithin(p, m), NEW r, RangeKnown(p, r)
  PROVE  RangeKnown(m, r)
BY DEF IsWithin, RangeKnown

LEMMA OccurrenceWithin ==
  ASSUME NEW p, NEW m, IsWithin(p, m), NEW o, OccurrenceChecked(p, o)
  PROVE  OccurrenceChecked(m, o)
<1>1. RangeKnown(m, o.range)
  BY RangeWithin DEF OccurrenceChecked
<1>2. OriginKnown(m, o.origin, o.range.file)
  BY DEF OccurrenceChecked, OriginKnown, RangeKnown, IsWithin
<1>3. \A k \in DOMAIN o.chain : RangeKnown(m, o.chain[k].directive)
  BY RangeWithin DEF OccurrenceChecked
<1>4. \A k \in DOMAIN o.chain : o.chain[k].included \in DOMAIN m.files
  BY DEF OccurrenceChecked, IsWithin
<1> QED BY <1>1, <1>2, <1>3, <1>4 DEF OccurrenceChecked

\* What leads to a pointer in a package leads to it in a larger one.
LEMMA PointerWithin ==
  ASSUME NEW p, NEW m, IsWithin(p, m), NEW d, EffectivelyPointer(p, d)
  PROVE  EffectivelyPointer(m, d)
<1> SUFFICES ASSUME NEW S \in SUBSET Aliases(m),
                    \A a \in Aliases(m) :
                      m.decls[a].head.outermost \in {"pointer"} \cup S => a \in S
             PROVE  d \in S
  BY DEF EffectivelyPointer
<1>1. \A a \in Aliases(p) : a \in Aliases(m) /\ m.decls[a].head = p.decls[a].head
  BY DEF IsWithin, SameHeadsIn, Aliases
<1>2. \A a \in Aliases(p) :
        p.decls[a].head.outermost \in {"pointer"} \cup (S \cap Aliases(p)) => a \in S \cap Aliases(p)
  BY <1>1
<1>3. d \in S \cap Aliases(p)
  BY <1>2 DEF EffectivelyPointer
<1> QED BY <1>3

LEMMA IdentityWithin ==
  ASSUME NEW p, NEW m, IsWithin(p, m), NEW h, IdentityChecked(p, h)
  PROVE  IdentityChecked(m, h)
BY DEF IsWithin, SameHeadsIn, IdentityChecked, ScopeChecked

LEMMA TypesWithin ==
  ASSUME NEW p, NEW m, IsWithin(p, m), NEW h, TypesChecked(p, h)
  PROVE  TypesChecked(m, h)
<1>0. WithinDepth(h)
  BY DEF TypesChecked
<1> SUFFICES ASSUME NEW r \in h.refs
             PROVE  /\ r.to \in DOMAIN m.decls
                    /\ m.decls[r.to].head.kind = r.as
                    /\ r.pointer => r.as = "alias" /\ EffectivelyPointer(m, r.to)
  BY <1>0 DEF TypesChecked
<1>1. /\ r.to \in DOMAIN p.decls
      /\ p.decls[r.to].head.kind = r.as
      /\ r.pointer => r.as = "alias" /\ EffectivelyPointer(p, r.to)
  BY DEF TypesChecked
<1>2. r.pointer => EffectivelyPointer(m, r.to)
  BY <1>1, PointerWithin
<1> QED BY <1>1, <1>2 DEF IsWithin, SameHeadsIn

\* An entry keeps what is checked of it but for its occurrences, if it gains some.
LEMMA ChildrenWithin ==
  ASSUME NEW p, NEW m, IsWithin(p, m), NEW e, NEW f, ChildrenChecked(p, e),
         f.head = e.head, e.occurrences \subseteq f.occurrences
  PROVE  ChildrenChecked(m, f)
<1> SUFFICES ASSUME NEW c \in e.head.children
             PROVE  /\ RangeKnown(m, c.range) /\ c.range.start # c.range.end
                    /\ OriginKnown(m, c.origin, c.range.file)
                    /\ \E o \in f.occurrences : RangeContains(o.range, c.range)
                    /\ \A c2 \in e.head.children : c.key = c2.key => c = c2
  BY DEF ChildrenChecked
<1>1. /\ RangeKnown(p, c.range) /\ c.range.start # c.range.end
      /\ OriginKnown(p, c.origin, c.range.file)
      /\ \E o \in e.occurrences : RangeContains(o.range, c.range)
      /\ \A c2 \in e.head.children : c.key = c2.key => c = c2
  BY DEF ChildrenChecked
<1>2. RangeKnown(m, c.range)
  BY <1>1, RangeWithin
<1>3. OriginKnown(m, c.origin, c.range.file)
  BY <1>1 DEF OriginKnown, RangeKnown, IsWithin
<1> QED BY <1>1, <1>2, <1>3

-----------------------------------------------------------------------------
(* merge *)

\* What a table is merged to, for declarations and macros alike.
LEMMA EntriesMerged ==
  ASSUME NEW t, NEW u, EntriesAgree(t, u)
  PROVE  LET w == MergeEntries(t, u) IN
         /\ DOMAIN w = DOMAIN t \cup DOMAIN u
         /\ SameHeadsIn(t, w) /\ SameHeadsIn(u, w)
         /\ \A k \in DOMAIN w :
              w[k].occurrences = Occurrences(t, k) \cup Occurrences(u, k)
BY DEF MergeEntries, SameHeadsIn, EntriesAgree, SameHeads, Occurrences

LEMMA WithinMerged ==
  ASSUME NEW p, NEW q, Agree(p, q)
  PROVE  IsWithin(p, Merged(p, q)) /\ IsWithin(q, Merged(p, q))
<1>1. /\ SameHeadsIn(p.decls, Merged(p, q).decls) /\ SameHeadsIn(q.decls, Merged(p, q).decls)
      /\ SameHeadsIn(p.macros, Merged(p, q).macros) /\ SameHeadsIn(q.macros, Merged(p, q).macros)
  BY EntriesMerged DEF Agree, Merged
<1>2. \A f \in DOMAIN p.files : /\ f \in DOMAIN Merged(p, q).files
                                /\ Merged(p, q).files[f] = p.files[f]
  BY DEF Merged, MergeFiles
<1>3. \A f \in DOMAIN q.files : /\ f \in DOMAIN Merged(p, q).files
                                /\ Merged(p, q).files[f] = q.files[f]
  BY DEF Merged, MergeFiles, Agree, FilesAgree
<1> QED BY <1>1, <1>2, <1>3 DEF IsWithin

\* The occurrences of both packages are checked, and none has the id of another.
LEMMA OccurrencesMerged ==
  ASSUME NEW p, NEW q, NEW m, IsWithin(p, m), IsWithin(q, m),
         NEW t, NEW u, EntriesAgree(t, u),
         \A k \in DOMAIN t : OccurrencesChecked(p, t[k]),
         \A k \in DOMAIN u : OccurrencesChecked(q, u[k]),
         NEW k \in DOMAIN MergeEntries(t, u)
  PROVE  OccurrencesChecked(m, MergeEntries(t, u)[k])
<1> DEFINE O == MergeEntries(t, u)[k].occurrences
<1>1. O = Occurrences(t, k) \cup Occurrences(u, k) /\ k \in DOMAIN t \cup DOMAIN u
  BY EntriesMerged
<1>2. O # {}
  BY <1>1 DEF Occurrences, OccurrencesChecked
<1>3. ASSUME NEW o \in O PROVE OccurrenceChecked(m, o)
  <2>1. CASE o \in Occurrences(t, k)
    BY <2>1, OccurrenceWithin DEF Occurrences, OccurrencesChecked
  <2>2. CASE o \in Occurrences(u, k)
    BY <2>2, OccurrenceWithin DEF Occurrences, OccurrencesChecked
  <2> QED BY <1>1, <2>1, <2>2
<1>4. ASSUME NEW o1 \in O, NEW o2 \in O, OccurrenceId(o1) = OccurrenceId(o2)
      PROVE  o1 = o2
  <2>1. CASE o1 \in Occurrences(t, k) /\ o2 \in Occurrences(t, k)
    BY <1>4, <2>1 DEF Occurrences, OccurrencesChecked
  <2>2. CASE o1 \in Occurrences(u, k) /\ o2 \in Occurrences(u, k)
    BY <1>4, <2>2 DEF Occurrences, OccurrencesChecked
  <2>3. CASE o1 \in Occurrences(t, k) /\ o2 \in Occurrences(u, k)
    BY <1>4, <2>3 DEF Occurrences, EntriesAgree, SameOccurrences
  <2>4. CASE o1 \in Occurrences(u, k) /\ o2 \in Occurrences(t, k)
    BY <1>4, <2>4 DEF Occurrences, EntriesAgree, SameOccurrences
  <2> QED BY <1>1, <2>1, <2>2, <2>3, <2>4
<1> QED BY <1>2, <1>3, <1>4 DEF OccurrencesChecked

LEMMA DeclarationMerged ==
  ASSUME NEW p, NEW q, Agree(p, q), IsChecked(p), IsChecked(q),
         NEW d \in DOMAIN Merged(p, q).decls
  PROVE  DeclarationChecked(Merged(p, q), Merged(p, q).decls[d])
<1> DEFINE m == Merged(p, q)
           e == m.decls[d]
<1>1. IsWithin(p, m) /\ IsWithin(q, m)
  BY WithinMerged
<1>2. m.decls = MergeEntries(p.decls, q.decls) /\ EntriesAgree(p.decls, q.decls)
  BY DEF Merged, Agree
<1>3. OccurrencesChecked(m, e)
  <2>1. /\ \A k \in DOMAIN p.decls : OccurrencesChecked(p, p.decls[k])
        /\ \A k \in DOMAIN q.decls : OccurrencesChecked(q, q.decls[k])
    BY DEF IsChecked, DeclarationChecked
  <2> QED BY <1>1, <1>2, <2>1, OccurrencesMerged
<1>4. ASSUME NEW x, IsWithin(x, m), IsChecked(x), d \in DOMAIN x.decls
      PROVE  DeclarationChecked(m, e)
  <2>1. e.head = x.decls[d].head /\ x.decls[d].occurrences \subseteq e.occurrences
    BY <1>4 DEF IsWithin, SameHeadsIn
  <2>2. DeclarationChecked(x, x.decls[d])
    BY <1>4 DEF IsChecked
  <2>3. IdentityChecked(m, e.head)
    BY <1>4, <2>1, <2>2, IdentityWithin DEF DeclarationChecked
  <2>4. TypesChecked(m, e.head)
    BY <1>4, <2>1, <2>2, TypesWithin DEF DeclarationChecked
  <2>5. ChildrenChecked(m, e)
    BY <1>4, <2>1, <2>2, ChildrenWithin DEF DeclarationChecked
  <2>6. KindChecked(e.head)
    BY <2>1, <2>2 DEF DeclarationChecked
  <2> QED BY <1>3, <2>3, <2>4, <2>5, <2>6 DEF DeclarationChecked
<1>5. d \in DOMAIN p.decls \cup DOMAIN q.decls
  BY <1>2, EntriesMerged
<1> QED BY <1>1, <1>4, <1>5

LEMMA MacroMerged ==
  ASSUME NEW p, NEW q, Agree(p, q), IsChecked(p), IsChecked(q),
         NEW c \in DOMAIN Merged(p, q).macros
  PROVE  MacroChecked(Merged(p, q), Merged(p, q).macros[c])
<1> DEFINE m == Merged(p, q)
<1>1. IsWithin(p, m) /\ IsWithin(q, m)
  BY WithinMerged
<1>2. m.macros = MergeEntries(p.macros, q.macros) /\ EntriesAgree(p.macros, q.macros)
  BY DEF Merged, Agree
<1>3. /\ \A k \in DOMAIN p.macros : OccurrencesChecked(p, p.macros[k])
      /\ \A k \in DOMAIN q.macros : OccurrencesChecked(q, q.macros[k])
  BY DEF IsChecked, MacroChecked
<1>4. OccurrencesChecked(m, m.macros[c])
  BY <1>1, <1>2, <1>3, OccurrencesMerged
<1>5. c \in DOMAIN p.macros \cup DOMAIN q.macros
  BY <1>2, EntriesMerged
<1>6. m.macros[c].head.file \in DOMAIN m.files
  BY <1>1, <1>5 DEF IsWithin, SameHeadsIn, IsChecked, MacroChecked
<1> QED BY <1>4, <1>6 DEF MacroChecked

\* A set of aliases without a first one would be one in one of the packages.
LEMMA AliasesMerged ==
  ASSUME NEW p, NEW q, Agree(p, q), IsChecked(p), IsChecked(q)
  PROVE  NoAliasCycle(Merged(p, q))
<1> DEFINE m == Merged(p, q)
<1> SUFFICES ASSUME NEW S \in SUBSET Aliases(m), S # {}
             PROVE  \E a \in S : \A r \in m.decls[a].head.refs : r.to \notin S
  BY DEF NoAliasCycle
<1>1. IsWithin(p, m) /\ IsWithin(q, m)
  BY WithinMerged
<1>2. ASSUME NEW x, IsWithin(x, m), IsChecked(x), S \cap Aliases(x) # {}
      PROVE  \E a \in S : \A r \in m.decls[a].head.refs : r.to \notin S
  <2>1. PICK a \in S \cap Aliases(x) :
          \A r \in x.decls[a].head.refs : r.to \notin S \cap Aliases(x)
    BY <1>2 DEF IsChecked, NoAliasCycle
  <2>2. m.decls[a].head = x.decls[a].head
    BY <1>2 DEF IsWithin, SameHeadsIn, Aliases
  <2>3. ASSUME NEW r \in x.decls[a].head.refs, r.to \in S PROVE FALSE
    <3>1. r.to \in DOMAIN x.decls
      BY <1>2 DEF Aliases, IsChecked, DeclarationChecked, TypesChecked
    <3>2. r.to \in Aliases(x)
      BY <1>2, <2>3, <3>1 DEF IsWithin, SameHeadsIn, Aliases
    <3> QED BY <2>1, <2>3, <3>2
  <2> QED BY <2>2, <2>3
<1>3. DOMAIN m.decls = DOMAIN p.decls \cup DOMAIN q.decls
  BY EntriesMerged DEF Merged, Agree
<1>4. S \cap Aliases(p) # {} \/ S \cap Aliases(q) # {}
  BY <1>1, <1>3 DEF IsWithin, SameHeadsIn, Aliases
<1> QED BY <1>1, <1>2, <1>4

\* The verdict of the diagnostics of both is checked, as each of the two was.
LEMMA CompletenessMerged ==
  ASSUME NEW p, NEW q, IsChecked(p), IsChecked(q)
  PROVE  CompletenessChecked(Merged(p, q))
<1> DEFINE m == Merged(p, q)
           G == p.diagnostics \cup q.diagnostics
<1>1. m.diagnostics = G /\ m.verdict = VerdictOf(G) /\ m.reasons = ReasonsOf(G)
  BY DEF Merged, MergedDiagnostics
<1>2. CASE \E g \in G : g.impact = "ForcesRejected"
  BY <1>1, <1>2 DEF VerdictOf, CompletenessChecked
<1>3. CASE (\E g \in G : Forces(g)) /\ ~\E g \in G : g.impact = "ForcesRejected"
  <2>1. \E g \in G : g.impact = "ForcesPartial"
    BY <1>3 DEF IsChecked, CompletenessChecked, Forces
  <2> QED BY <1>1, <1>3, <2>1 DEF VerdictOf, CompletenessChecked
<1>4. CASE ~\E g \in G : Forces(g)
  <2>1. ASSUME NEW x, IsChecked(x), \A g \in x.diagnostics : ~Forces(g)
        PROVE  \A g \in x.diagnostics : ~Unforced(g)
    BY <2>1 DEF IsChecked, CompletenessChecked, Forces
  <2>2. \A g \in G : ~Forces(g) /\ ~Unforced(g)
    BY <1>4, <2>1
  <2>3. m.verdict = "Complete" /\ m.reasons = {}
    BY <1>1, <1>4 DEF VerdictOf, ReasonsOf, Forces
  <2> QED BY <1>1, <2>2, <2>3 DEF CompletenessChecked
<1> QED BY <1>2, <1>3, <1>4

\* Validation finds nothing in what agreeing packages that it accepted are merged
\* to, unless one of its tables has become too large.
THEOREM MergeIsChecked ==
  ASSUME NEW p, NEW q, Agree(p, q), IsChecked(p), IsChecked(q)
  PROVE  IsChecked(Merged(p, q)) <=> WithinLimits(Merged(p, q))
<1> DEFINE m == Merged(p, q)
<1>1. IsWithin(p, m) /\ IsWithin(q, m)
  BY WithinMerged
<1>2. \A d \in DOMAIN m.decls : DeclarationChecked(m, m.decls[d])
  BY DeclarationMerged
<1>3. \A c \in DOMAIN m.macros : MacroChecked(m, m.macros[c])
  BY MacroMerged
<1>4. ASSUME NEW g \in m.diagnostics PROVE DiagnosticChecked(m, g)
  <2>1. PICK x \in {p, q} : g \in x.diagnostics
    BY DEF Merged, MergedDiagnostics
  <2>2. DiagnosticChecked(x, g) /\ IsWithin(x, m)
    BY <1>1, <2>1 DEF IsChecked
  <2>3. g.range # NoRange => RangeKnown(m, g.range)
    BY <2>2, RangeWithin DEF DiagnosticChecked
  <2> QED BY <2>2, <2>3 DEF DiagnosticChecked, IsWithin, SameHeadsIn
<1>5. InputsChecked(m)
  <2>1. /\ m.entries = p.entries \cup q.entries /\ m.forced = p.forced
        /\ DOMAIN m.files = DOMAIN p.files \cup DOMAIN q.files
    BY DEF Merged, MergeFiles
  <2>2. InputsChecked(p) /\ InputsChecked(q)
    BY DEF IsChecked
  <2>3. m.entries # {} /\ m.forced \subseteq DOMAIN m.files
    BY <2>1, <2>2 DEF InputsChecked
  <2>4. \A f \in DOMAIN p.files : m.files[f] = p.files[f]
    BY <1>1 DEF IsWithin
  <2>5. \A f \in DOMAIN q.files : m.files[f] = q.files[f]
    BY <1>1 DEF IsWithin
  <2>6. m.entries = {f \in DOMAIN m.files : m.files[f].role = "Entry"}
    BY <2>1, <2>2, <2>4, <2>5 DEF InputsChecked
  <2> QED BY <2>3, <2>6 DEF InputsChecked
<1>6. NoAliasCycle(m)
  BY AliasesMerged
<1>7. CompletenessChecked(m)
  BY CompletenessMerged
<1> QED BY <1>2, <1>3, <1>4, <1>5, <1>6, <1>7 DEF IsChecked

LEMMA EntriesMergedTyped ==
  ASSUME NEW keys, NEW heads, NEW t, NEW u,
         IsTable(t, keys, TableEntry(heads)), IsTable(u, keys, TableEntry(heads))
  PROVE  IsTable(MergeEntries(t, u), keys, TableEntry(heads))
<1> DEFINE w == MergeEntries(t, u)
<1>1. DOMAIN w = DOMAIN t \cup DOMAIN u
  BY DEF MergeEntries
<1>2. ASSUME NEW k \in DOMAIN w PROVE w[k] \in TableEntry(heads)
  <2>1. w[k] = [head |-> IF k \in DOMAIN t THEN t[k].head ELSE u[k].head,
                occurrences |-> Occurrences(t, k) \cup Occurrences(u, k)]
    BY DEF MergeEntries
  <2>2. k \in DOMAIN t => t[k] \in TableEntry(heads)
    BY DEF IsTable
  <2>3. k \in DOMAIN u => u[k] \in TableEntry(heads)
    BY DEF IsTable
  <2> QED BY <1>1, <2>1, <2>2, <2>3 DEF TableEntry, Occurrences
<1>3. w = [k \in DOMAIN w |-> w[k]]
  BY DEF MergeEntries
<1> QED BY <1>1, <1>2, <1>3 DEF IsTable

LEMMA VerdictTyped ==
  ASSUME NEW G, G \subseteq SourceDiagnostic
  PROVE  /\ VerdictOf(G) \in {"Complete", "Partial", "Rejected"}
         /\ ReasonsOf(G) \subseteq [code : Codes, range : SourceRange \cup {NoRange}]
<1>1. ASSUME NEW g \in G PROVE ReasonOf(g) \in [code : Codes, range : SourceRange \cup {NoRange}]
  BY DEF ReasonOf, SourceDiagnostic
<1> QED BY <1>1 DEF VerdictOf, ReasonsOf

LEMMA MergedTyped ==
  ASSUME NEW p, NEW q, IsSourcePackage(p), IsSourcePackage(q)
  PROVE  IsSourcePackage(Merged(p, q))
<1> DEFINE m == Merged(p, q)
           G == p.diagnostics \cup q.diagnostics
<1>1. m = [target |-> p.target, inputs |-> p.inputs, forced |-> p.forced,
           entries |-> p.entries \cup q.entries, files |-> MergeFiles(p.files, q.files),
           decls |-> MergeEntries(p.decls, q.decls), macros |-> MergeEntries(p.macros, q.macros),
           diagnostics |-> G, verdict |-> VerdictOf(G), reasons |-> ReasonsOf(G)]
  BY DEF Merged, MergedDiagnostics
<1>2. IsTable(MergeFiles(p.files, q.files), FileIds, [role : Roles, length : Nat])
  BY DEF MergeFiles, IsTable, IsSourcePackage
<1>3. /\ IsTable(MergeEntries(p.decls, q.decls), Ids, TableEntry(DeclarationHead))
      /\ IsTable(MergeEntries(p.macros, q.macros), MacroIds, TableEntry(MacroHead))
  BY EntriesMergedTyped DEF IsSourcePackage
<1>4. G \subseteq SourceDiagnostic
  BY DEF IsSourcePackage
<1>5. /\ VerdictOf(G) \in {"Complete", "Partial", "Rejected"}
      /\ ReasonsOf(G) \subseteq [code : Codes, range : SourceRange \cup {NoRange}]
  BY <1>4, VerdictTyped
<1>6. /\ p.target \in Targets /\ p.inputs \in Inputs /\ p.forced \subseteq FileIds
      /\ p.entries \cup q.entries \subseteq FileIds
  BY DEF IsSourcePackage
<1> HIDE DEF G
<1> QED BY <1>1, <1>2, <1>3, <1>4, <1>5, <1>6 DEF IsSourcePackage

-----------------------------------------------------------------------------
(* retain *)

\* Whatever a retained declaration mentions is retained.
LEMMA ReachedIsClosed ==
  ASSUME NEW p, IsSourcePackage(p), NEW roots,
         NEW d \in Reached(p, roots) \cap DOMAIN p.decls
  PROVE  Mentions(p.decls[d].head) \subseteq Reached(p, roots)
<1>1. p.decls[d].head \in DeclarationHead
  BY DEF IsSourcePackage, IsTable, TableEntry
<1>2. Mentions(p.decls[d].head) \subseteq Ids
  BY <1>1 DEF Mentions, DeclarationHead, Reference, Scope
<1>3. ASSUME NEW S \in SUBSET Ids, roots \subseteq S, ClosedSet(p, S)
      PROVE  Mentions(p.decls[d].head) \subseteq S
  BY <1>3 DEF Reached, ClosedSet
<1> QED BY <1>2, <1>3 DEF Reached

LEMMA RetainedTyped ==
  ASSUME NEW p, IsSourcePackage(p), NEW S
  PROVE  IsSourcePackage(Retained(p, S))
<1> DEFINE r == Retained(p, S)
           G == {g \in p.diagnostics : g.decl # NoDecl => g.decl \in S}
<1>1. /\ r = [target |-> p.target, inputs |-> p.inputs, forced |-> p.forced,
              entries |-> p.entries, files |-> p.files, decls |-> r.decls,
              macros |-> p.macros, diagnostics |-> G,
              verdict |-> VerdictOf(G), reasons |-> ReasonsOf(G)]
      /\ r.decls = [d \in DOMAIN p.decls \cap S |-> p.decls[d]]
  BY DEF Retained, RetainedDiagnostics
<1>2. IsTable(r.decls, Ids, TableEntry(DeclarationHead))
  BY <1>1 DEF IsTable, IsSourcePackage
<1>3. G \subseteq SourceDiagnostic
  BY DEF IsSourcePackage
<1>4. /\ VerdictOf(G) \in {"Complete", "Partial", "Rejected"}
      /\ ReasonsOf(G) \subseteq [code : Codes, range : SourceRange \cup {NoRange}]
  BY <1>3, VerdictTyped
<1> HIDE DEF r, G
<1> QED BY <1>1, <1>2, <1>3, <1>4 DEF IsSourcePackage, r

\* A retained alias still leads to a pointer: the aliases on the way are retained.
LEMMA PointerRetained ==
  ASSUME NEW p, IsSourcePackage(p), NEW roots, NEW d \in Reached(p, roots),
         EffectivelyPointer(p, d)
  PROVE  EffectivelyPointer(Retained(p, Reached(p, roots)), d)
<1> DEFINE S == Reached(p, roots)
           r == Retained(p, S)
<1> SUFFICES ASSUME NEW A \in SUBSET Aliases(r),
                    \A a \in Aliases(r) :
                      r.decls[a].head.outermost \in {"pointer"} \cup A => a \in A
             PROVE  d \in A
  BY DEF EffectivelyPointer
<1> DEFINE B == A \cup (Aliases(p) \ Aliases(r))
<1>1. r.decls = [x \in DOMAIN p.decls \cap S |-> p.decls[x]]
  BY DEF Retained, RetainedDiagnostics
<1>2. Aliases(r) = Aliases(p) \cap S
  BY <1>1 DEF Aliases
<1>3. ASSUME NEW a \in Aliases(p), p.decls[a].head.outermost \in {"pointer"} \cup B
      PROVE  a \in B
  <2> SUFFICES ASSUME a \in Aliases(r) PROVE a \in A
    OBVIOUS
  <2> DEFINE o == p.decls[a].head.outermost
  <2>1. r.decls[a].head.outermost = o
    BY <1>1, <1>2 DEF Aliases
  <2>2. CASE o \in {"pointer"} \cup A
    BY <2>1, <2>2
  <2>3. CASE o \in Aliases(p) \ Aliases(r)
    <3>1. p.decls[a].head \in DeclarationHead /\ o \in Ids
      BY <2>3 DEF IsSourcePackage, IsTable, TableEntry, Aliases
    <3>2. o \in Mentions(p.decls[a].head)
      BY <3>1 DEF DeclarationHead, Mentions
    <3>3. o \in S
      BY <1>2, <3>2, ReachedIsClosed DEF Aliases
    <3> QED BY <1>2, <2>3, <3>3
  <2> QED BY <1>3, <2>2, <2>3
<1>4. B \in SUBSET Aliases(p)
  BY <1>2
<1>5. d \in B
  BY <1>3, <1>4 DEF EffectivelyPointer
<1>6. d \in Aliases(p)
  BY DEF EffectivelyPointer
<1> QED BY <1>2, <1>5, <1>6

\* Each declaration that stays is checked, as it was.
LEMMA DeclarationRetained ==
  ASSUME NEW p, IsSourcePackage(p), IsChecked(p), NEW roots,
         NEW d \in Reached(p, roots) \cap DOMAIN p.decls
  PROVE  LET r == Retained(p, Reached(p, roots)) IN DeclarationChecked(r, r.decls[d])
<1> DEFINE S == Reached(p, roots)
           r == Retained(p, S)
           e == p.decls[d]
<1>1. /\ r.decls = [x \in DOMAIN p.decls \cap S |-> p.decls[x]]
      /\ r.files = p.files
  BY DEF Retained, RetainedDiagnostics
<1>2. r.decls[d] = e /\ DeclarationChecked(p, e)
  BY <1>1 DEF IsChecked
<1>3. Mentions(e.head) \subseteq S
  BY ReachedIsClosed
<1>4. e.head \in DeclarationHead
  BY DEF IsSourcePackage, IsTable, TableEntry
<1>5. IdentityChecked(r, e.head)
  BY <1>1, <1>2, <1>3
     DEF DeclarationChecked, IdentityChecked, ScopeChecked, Mentions
<1>6. OccurrencesChecked(r, e) /\ ChildrenChecked(r, e)
  <2>1. \A x : RangeKnown(p, x) => RangeKnown(r, x)
    BY <1>1 DEF RangeKnown
  <2>2. \A x, f : OriginKnown(p, x, f) => OriginKnown(r, x, f)
    BY <1>1 DEF OriginKnown
  <2>3. \A o : OccurrenceChecked(p, o) => OccurrenceChecked(r, o)
    BY <1>1, <2>1, <2>2 DEF OccurrenceChecked
  <2>4. OccurrencesChecked(r, e)
    BY <1>2, <2>3 DEF DeclarationChecked, OccurrencesChecked
  <2>5. ChildrenChecked(r, e)
    BY <1>2, <2>1, <2>2 DEF DeclarationChecked, ChildrenChecked
  <2> QED BY <2>4, <2>5
<1>7. TypesChecked(r, e.head)
  <2>0. WithinDepth(e.head)
    BY <1>2 DEF DeclarationChecked, TypesChecked
  <2> SUFFICES ASSUME NEW x \in e.head.refs
               PROVE  /\ x.to \in DOMAIN r.decls
                      /\ r.decls[x.to].head.kind = x.as
                      /\ x.pointer => x.as = "alias" /\ EffectivelyPointer(r, x.to)
    BY <2>0 DEF TypesChecked
  <2>1. /\ x.to \in DOMAIN p.decls
        /\ p.decls[x.to].head.kind = x.as
        /\ x.pointer => x.as = "alias" /\ EffectivelyPointer(p, x.to)
    BY <1>2 DEF DeclarationChecked, TypesChecked
  <2>2. x.to \in S
    BY <1>3 DEF Mentions
  <2>3. x.pointer => EffectivelyPointer(r, x.to)
    BY <2>1, <2>2, PointerRetained
  <2> QED BY <1>1, <2>1, <2>2, <2>3
<1> QED BY <1>2, <1>5, <1>6, <1>7 DEF DeclarationChecked

\* A part of a table is no larger than the table.
LEMMA AtMostPart ==
  ASSUME NEW S, NEW T \in SUBSET S, NEW n \in Nat, AtMost(S, n)
  PROVE  AtMost(T, n)
<1>1. IsFiniteSet(T) /\ Cardinality(T) <= Cardinality(S)
  BY FS_Subset DEF AtMost
<1>2. Cardinality(T) \in Nat /\ Cardinality(S) \in Nat
  BY <1>1, FS_CardinalityType DEF AtMost
<1> QED BY <1>1, <1>2 DEF AtMost

\* A projection fails validation only as a package without forcing diagnostics
\* that has one which must not be there alone.
THEOREM RetainIsChecked ==
  ASSUME NEW p, IsSourcePackage(p), IsChecked(p), NEW roots,
         NEW r, r = Retained(p, Reached(p, roots))
  PROVE  IsChecked(r) \/ (r.verdict = "Complete" /\ \E g \in r.diagnostics : Unforced(g))
<1> DEFINE S == Reached(p, roots)
           G == {g \in p.diagnostics : g.decl # NoDecl => g.decl \in S}
<1>1. /\ r.decls = [d \in DOMAIN p.decls \cap S |-> p.decls[d]]
      /\ r.files = p.files /\ r.macros = p.macros
      /\ r.entries = p.entries /\ r.forced = p.forced
      /\ r.diagnostics = G /\ r.verdict = VerdictOf(G) /\ r.reasons = ReasonsOf(G)
  BY DEF Retained, RetainedDiagnostics
<1>2. \A d \in DOMAIN r.decls : DeclarationChecked(r, r.decls[d])
  BY <1>1, DeclarationRetained
<1>3. \A c \in DOMAIN r.macros : MacroChecked(r, r.macros[c])
  BY <1>1 DEF IsChecked, MacroChecked, OccurrencesChecked, OccurrenceChecked, RangeKnown,
              OriginKnown
<1>4. \A g \in r.diagnostics : DiagnosticChecked(r, g)
  BY <1>1 DEF IsChecked, DiagnosticChecked, RangeKnown
<1>5. InputsChecked(r)
  BY <1>1 DEF IsChecked, InputsChecked
<1>6. NoAliasCycle(r)
  <2>1. Aliases(r) \subseteq Aliases(p) /\ \A a \in Aliases(r) : r.decls[a] = p.decls[a]
    BY <1>1 DEF Aliases
  <2> QED BY <2>1 DEF IsChecked, NoAliasCycle
<1>7. CompletenessChecked(r) \/ (r.verdict = "Complete" /\ \E g \in r.diagnostics : Unforced(g))
  <2>1. CASE \E g \in G : g.impact = "ForcesRejected"
    BY <1>1, <2>1 DEF VerdictOf, CompletenessChecked
  <2>2. CASE (\E g \in G : Forces(g)) /\ ~\E g \in G : g.impact = "ForcesRejected"
    <3>1. \A g \in G : g.impact \in Impacts
      BY DEF IsSourcePackage, SourceDiagnostic
    <3>2. \E g \in G : g.impact = "ForcesPartial"
      BY <2>2, <3>1 DEF Impacts, Forces
    <3> QED BY <1>1, <2>2, <3>2 DEF VerdictOf, CompletenessChecked
  <2>3. CASE ~\E g \in G : Forces(g)
    <3>1. r.verdict = "Complete" /\ r.reasons = {}
      BY <1>1, <2>3 DEF VerdictOf, ReasonsOf, Forces
    <3> QED BY <1>1, <2>3, <3>1 DEF CompletenessChecked
  <2> QED BY <2>1, <2>2, <2>3
<1>8. WithinLimits(r)
  <2>1. WithinLimits(p)
    BY DEF IsChecked
  <2>2. DOMAIN r.decls \subseteq DOMAIN p.decls /\ r.diagnostics \subseteq p.diagnostics
    BY <1>1
  <2>3. AtMost(DOMAIN r.decls, Limits.declarations) /\ AtMost(r.diagnostics, Limits.diagnostics)
    BY <2>1, <2>2, AtMostPart, LimitsAssumption DEF WithinLimits
  <2> QED BY <1>1, <2>1, <2>3 DEF WithinLimits
<1> QED BY <1>2, <1>3, <1>4, <1>5, <1>6, <1>7, <1>8 DEF IsChecked

-----------------------------------------------------------------------------
(* What a package that was merged from some is, whatever the order *)

EntriesUnion(t, T) ==
  /\ DOMAIN t = UNION {DOMAIN u : u \in T}
  /\ \A u \in T : \A k \in DOMAIN u : t[k].head = u[k].head
  /\ \A k \in DOMAIN t : t[k].occurrences = UNION {Occurrences(u, k) : u \in T}

FilesUnion(t, T) ==
  /\ DOMAIN t = UNION {DOMAIN u : u \in T}
  /\ \A u \in T : \A k \in DOMAIN u : t[k] = u[k]

SameScan(p, q) == p.target = q.target /\ p.inputs = q.inputs /\ p.forced = q.forced

IsUnion(m, P) ==
  /\ \A p \in P : SameScan(m, p)
  /\ m.entries = UNION {p.entries : p \in P}
  /\ m.diagnostics = UNION {p.diagnostics : p \in P}
  /\ FilesUnion(m.files, {p.files : p \in P})
  /\ EntriesUnion(m.decls, {p.decls : p \in P})
  /\ EntriesUnion(m.macros, {p.macros : p \in P})
  /\ m.verdict = VerdictOf(m.diagnostics) /\ m.reasons = ReasonsOf(m.diagnostics)

\* A package that is checked has the verdict of its diagnostics.
LEMMA OwnUnion ==
  ASSUME NEW p, IsChecked(p)
  PROVE  IsUnion(p, {p})
<1>1. p.verdict = VerdictOf(p.diagnostics) /\ p.reasons = ReasonsOf(p.diagnostics)
  BY DEF IsChecked, CompletenessChecked, VerdictOf, ReasonsOf, Forces
<1>2. \A t : EntriesUnion(t, {t})
  <2> TAKE t
  <2>1. \A k \in DOMAIN t : t[k].occurrences = Occurrences(t, k)
    BY DEF Occurrences
  <2> QED BY <2>1 DEF EntriesUnion
<1>3. FilesUnion(p.files, {p.files})
  BY DEF FilesUnion
<1>4. /\ {x.files : x \in {p}} = {p.files} /\ {x.decls : x \in {p}} = {p.decls}
      /\ {x.macros : x \in {p}} = {p.macros}
  OBVIOUS
<1> QED BY <1>1, <1>2, <1>3, <1>4 DEF IsUnion, SameScan

\* Two packages that are the union of the same ones are the same.
LEMMA EntriesUnionUnique ==
  ASSUME NEW keys, NEW heads, NEW t, NEW u, NEW T,
         IsTable(t, keys, TableEntry(heads)), IsTable(u, keys, TableEntry(heads)),
         EntriesUnion(t, T), EntriesUnion(u, T)
  PROVE  t = u
<1>1. DOMAIN t = DOMAIN u
  BY DEF EntriesUnion
<1>2. ASSUME NEW k \in DOMAIN t PROVE t[k] = u[k]
  <2>1. t[k].occurrences = u[k].occurrences
    BY <1>1 DEF EntriesUnion
  <2>2. PICK v \in T : k \in DOMAIN v
    BY DEF EntriesUnion
  <2>3. t[k].head = u[k].head
    BY <2>2 DEF EntriesUnion
  <2>4. t[k] \in TableEntry(heads) /\ u[k] \in TableEntry(heads)
    BY <1>1 DEF IsTable
  <2> QED BY <2>1, <2>3, <2>4 DEF TableEntry
<1> QED BY <1>1, <1>2 DEF IsTable

LEMMA UnionUnique ==
  ASSUME NEW m, NEW n, NEW P, P # {}, IsSourcePackage(m), IsSourcePackage(n),
         IsUnion(m, P), IsUnion(n, P)
  PROVE  m = n
<1>1. SameScan(m, n)
  BY DEF IsUnion, SameScan
<1>2. /\ m.entries = n.entries /\ m.diagnostics = n.diagnostics
      /\ m.verdict = n.verdict /\ m.reasons = n.reasons
  BY DEF IsUnion
<1>3. m.files = n.files
  <2>1. \A k \in DOMAIN m.files : \E p \in P : k \in DOMAIN p.files
    BY DEF IsUnion, FilesUnion
  <2>2. DOMAIN m.files = DOMAIN n.files
    BY DEF IsUnion, FilesUnion
  <2>3. \A k \in DOMAIN m.files : m.files[k] = n.files[k]
    BY <2>1 DEF IsUnion, FilesUnion
  <2> QED BY <2>2, <2>3 DEF IsSourcePackage, IsTable
<1>4. m.decls = n.decls /\ m.macros = n.macros
  BY EntriesUnionUnique DEF IsUnion, IsSourcePackage
<1> QED BY <1>1, <1>2, <1>3, <1>4 DEF IsSourcePackage, SameScan

\* Merging takes unions to unions.
LEMMA EntriesUnionMerged ==
  ASSUME NEW t, NEW u, NEW T, NEW U, EntriesAgree(t, u),
         EntriesUnion(t, T), EntriesUnion(u, U)
  PROVE  EntriesUnion(MergeEntries(t, u), T \cup U)
<1> DEFINE w == MergeEntries(t, u)
<1>1. /\ DOMAIN w = DOMAIN t \cup DOMAIN u
      /\ SameHeadsIn(t, w) /\ SameHeadsIn(u, w)
      /\ \A k \in DOMAIN w : w[k].occurrences = Occurrences(t, k) \cup Occurrences(u, k)
  BY EntriesMerged
<1> HIDE DEF w
<1>2. DOMAIN w = UNION {DOMAIN v : v \in T \cup U}
  BY <1>1 DEF EntriesUnion
<1>3. \A v \in T \cup U : \A k \in DOMAIN v : w[k].head = v[k].head
  BY <1>1 DEF EntriesUnion, SameHeadsIn
<1>4. ASSUME NEW x, NEW X, EntriesUnion(x, X), NEW k
      PROVE  Occurrences(x, k) = UNION {Occurrences(v, k) : v \in X}
  <2>1. CASE k \in DOMAIN x
    BY <1>4, <2>1 DEF EntriesUnion, Occurrences
  <2>2. CASE k \notin DOMAIN x
    <3>1. \A v \in X : k \notin DOMAIN v
      BY <1>4, <2>2 DEF EntriesUnion
    <3> QED BY <2>2, <3>1 DEF Occurrences
  <2> QED BY <2>1, <2>2
<1>5. \A k \in DOMAIN w : w[k].occurrences = UNION {Occurrences(v, k) : v \in T \cup U}
  BY <1>1, <1>4
<1> QED BY <1>2, <1>3, <1>5 DEF EntriesUnion, w

LEMMA MergeUnion ==
  ASSUME NEW m, NEW n, NEW P, NEW Q, Agree(m, n), IsUnion(m, P), IsUnion(n, Q)
  PROVE  IsUnion(Merged(m, n), P \cup Q)
<1> DEFINE w == Merged(m, n)
<1>1. /\ SameScan(w, m) /\ w.entries = m.entries \cup n.entries
      /\ w.diagnostics = m.diagnostics \cup n.diagnostics
      /\ w.files = MergeFiles(m.files, n.files)
      /\ w.decls = MergeEntries(m.decls, n.decls)
      /\ w.macros = MergeEntries(m.macros, n.macros)
      /\ w.verdict = VerdictOf(w.diagnostics) /\ w.reasons = ReasonsOf(w.diagnostics)
  BY DEF Merged, MergedDiagnostics, SameScan
<1>2. /\ {p.files : p \in P \cup Q} = {p.files : p \in P} \cup {p.files : p \in Q}
      /\ {p.decls : p \in P \cup Q} = {p.decls : p \in P} \cup {p.decls : p \in Q}
      /\ {p.macros : p \in P \cup Q} = {p.macros : p \in P} \cup {p.macros : p \in Q}
  OBVIOUS
<1>3. \A p \in P \cup Q : SameScan(w, p)
  BY <1>1 DEF IsUnion, SameScan, Agree
<1>4. /\ w.entries = UNION {p.entries : p \in P \cup Q}
      /\ w.diagnostics = UNION {p.diagnostics : p \in P \cup Q}
  BY <1>1 DEF IsUnion
<1>5. FilesUnion(w.files, {p.files : p \in P \cup Q})
  <2> DEFINE T == {p.files : p \in P}
             U == {p.files : p \in Q}
  <2>1. FilesUnion(m.files, T) /\ FilesUnion(n.files, U) /\ FilesAgree(m.files, n.files)
    BY DEF IsUnion, Agree
  <2>2. DOMAIN w.files = DOMAIN m.files \cup DOMAIN n.files
    BY <1>1 DEF MergeFiles
  <2>3. \A k \in DOMAIN m.files : w.files[k] = m.files[k]
    BY <1>1 DEF MergeFiles
  <2>4. \A k \in DOMAIN n.files : w.files[k] = n.files[k]
    BY <1>1, <2>1 DEF MergeFiles, FilesAgree
  <2> HIDE DEF T, U
  <2>5. FilesUnion(w.files, T \cup U)
    BY <2>1, <2>2, <2>3, <2>4 DEF FilesUnion
  <2> QED BY <1>2, <2>5 DEF T, U
<1>6. /\ EntriesUnion(w.decls, {p.decls : p \in P \cup Q})
      /\ EntriesUnion(w.macros, {p.macros : p \in P \cup Q})
  BY <1>1, <1>2, EntriesUnionMerged DEF IsUnion, Agree
<1> QED BY <1>1, <1>3, <1>4, <1>5, <1>6 DEF IsUnion

\* Unions agree just when all that they are made of does.
LEMMA EntriesUnionAgree ==
  ASSUME NEW t, NEW u, NEW T, NEW U, EntriesUnion(t, T), EntriesUnion(u, U)
  PROVE  EntriesAgree(t, u) <=> \A x \in T, y \in U : EntriesAgree(x, y)
<1>1. ASSUME EntriesAgree(t, u), NEW x \in T, NEW y \in U, NEW k \in DOMAIN x \cap DOMAIN y
      PROVE  /\ x[k].head = y[k].head
             /\ \A o1 \in x[k].occurrences, o2 \in y[k].occurrences :
                  OccurrenceId(o1) = OccurrenceId(o2) => o1 = o2
  <2>1. k \in DOMAIN t \cap DOMAIN u /\ t[k].head = x[k].head /\ u[k].head = y[k].head
    BY <1>1 DEF EntriesUnion
  <2>2. x[k].occurrences \subseteq t[k].occurrences
    <3>1. Occurrences(x, k) \subseteq t[k].occurrences
      BY <1>1, <2>1 DEF EntriesUnion
    <3> QED BY <1>1, <3>1 DEF Occurrences
  <2>3. y[k].occurrences \subseteq u[k].occurrences
    <3>1. Occurrences(y, k) \subseteq u[k].occurrences
      BY <1>1, <2>1 DEF EntriesUnion
    <3> QED BY <1>1, <3>1 DEF Occurrences
  <2> QED BY <1>1, <2>1, <2>2, <2>3 DEF EntriesAgree, SameHeads, SameOccurrences
<1>2. ASSUME \A x \in T, y \in U : EntriesAgree(x, y), NEW k \in DOMAIN t \cap DOMAIN u
      PROVE  /\ t[k].head = u[k].head
             /\ \A o1 \in t[k].occurrences, o2 \in u[k].occurrences :
                  OccurrenceId(o1) = OccurrenceId(o2) => o1 = o2
  <2>1. PICK x \in T, y \in U : k \in DOMAIN x \cap DOMAIN y
    BY <1>2 DEF EntriesUnion
  <2>2. t[k].head = u[k].head
    BY <1>2, <2>1 DEF EntriesUnion, EntriesAgree, SameHeads
  <2>3. ASSUME NEW o1 \in t[k].occurrences, NEW o2 \in u[k].occurrences,
               OccurrenceId(o1) = OccurrenceId(o2)
        PROVE  o1 = o2
    <3>1. PICK v \in T : o1 \in Occurrences(v, k)
      BY <1>2 DEF EntriesUnion
    <3>2. PICK w \in U : o2 \in Occurrences(w, k)
      BY <1>2 DEF EntriesUnion
    <3>3. /\ k \in DOMAIN v /\ o1 \in v[k].occurrences
          /\ k \in DOMAIN w /\ o2 \in w[k].occurrences
      BY <3>1, <3>2 DEF Occurrences
    <3> QED BY <1>2, <2>3, <3>3 DEF EntriesAgree, SameOccurrences
  <2> QED BY <2>2, <2>3
<1>3. (\A x \in T, y \in U : EntriesAgree(x, y)) => EntriesAgree(t, u)
  BY <1>2 DEF EntriesAgree, SameHeads, SameOccurrences
<1>4. EntriesAgree(t, u) => \A x \in T, y \in U : EntriesAgree(x, y)
  BY <1>1 DEF EntriesAgree, SameHeads, SameOccurrences
<1> QED BY <1>3, <1>4

LEMMA AgreeUnion ==
  ASSUME NEW m, NEW n, NEW P, NEW Q, P # {}, Q # {}, IsUnion(m, P), IsUnion(n, Q)
  PROVE  Agree(m, n) <=> \A p \in P, q \in Q : Agree(p, q)
<1>1. SameScan(m, n) <=> \A p \in P, q \in Q : SameScan(p, q)
  BY DEF IsUnion, SameScan
<1>2. FilesAgree(m.files, n.files) <=> \A p \in P, q \in Q : FilesAgree(p.files, q.files)
  <2>1. \A k : /\ k \in DOMAIN m.files <=> \E p \in P : k \in DOMAIN p.files
               /\ k \in DOMAIN n.files <=> \E q \in Q : k \in DOMAIN q.files
    BY DEF IsUnion, FilesUnion
  <2>2. /\ \A p \in P : \A k \in DOMAIN p.files : m.files[k] = p.files[k]
        /\ \A q \in Q : \A k \in DOMAIN q.files : n.files[k] = q.files[k]
    BY DEF IsUnion, FilesUnion
  <2> QED BY <2>1, <2>2 DEF FilesAgree
<1>3. EntriesAgree(m.decls, n.decls) <=> \A p \in P, q \in Q : EntriesAgree(p.decls, q.decls)
  <2> DEFINE T == {p.decls : p \in P}
             U == {q.decls : q \in Q}
  <2>1. EntriesUnion(m.decls, T) /\ EntriesUnion(n.decls, U)
    BY DEF IsUnion
  <2> HIDE DEF T, U
  <2>2. EntriesAgree(m.decls, n.decls) <=> \A x \in T, y \in U : EntriesAgree(x, y)
    BY <2>1, EntriesUnionAgree
  <2> QED BY <2>2 DEF T, U
<1>4. EntriesAgree(m.macros, n.macros) <=>
        \A p \in P, q \in Q : EntriesAgree(p.macros, q.macros)
  <2> DEFINE T == {p.macros : p \in P}
             U == {q.macros : q \in Q}
  <2>1. EntriesUnion(m.macros, T) /\ EntriesUnion(n.macros, U)
    BY DEF IsUnion
  <2> HIDE DEF T, U
  <2>2. EntriesAgree(m.macros, n.macros) <=> \A x \in T, y \in U : EntriesAgree(x, y)
    BY <2>1, EntriesUnionAgree
  <2> QED BY <2>2 DEF T, U
<1>5. \A x, y : Agree(x, y) <=> /\ SameScan(x, y) /\ FilesAgree(x.files, y.files)
                              /\ EntriesAgree(x.decls, y.decls)
                              /\ EntriesAgree(x.macros, y.macros)
  BY DEF Agree, SameScan
<1> QED BY <1>1, <1>2, <1>3, <1>4, <1>5

-----------------------------------------------------------------------------
(* The packages at hand *)

\* What is held of a package: it is checked, and it is nothing but the union
\* of the checked packages it came from.
IsHeld(x) ==
  /\ x.from # {}
  /\ \A p \in x.from : IsSourcePackage(p) /\ IsChecked(p)
  /\ IsSourcePackage(x.pkg) /\ IsChecked(x.pkg)
  /\ IsUnion(x.pkg, x.from)

HeldInv == \A x \in held : IsHeld(x)

LEMMA OwnHeld ==
  ASSUME NEW p, IsSourcePackage(p), IsChecked(p)
  PROVE  IsHeld(Holds({p}, p))
BY OwnUnion DEF IsHeld, Holds

LEMMA HeldInit == Init => HeldInv
BY CallersAssumption, OwnHeld DEF Init, HeldInv

LEMMA MergeErrors ==
  ASSUME NEW p, NEW q, IsChecked(p), IsChecked(q)
  PROVE  /\ MergeError(p, q) = "none" => Agree(p, q) /\ IsChecked(Merged(p, q))
         /\ MergeError(p, q) = "InvalidPackage" => ~WithinLimits(Merged(p, q))
<1>1. Agree(p, q) => p.target = q.target /\ p.inputs = q.inputs /\ p.forced = q.forced
  BY DEF Agree
<1>2. Agree(p, q) => (IsChecked(Merged(p, q)) <=> WithinLimits(Merged(p, q)))
  BY MergeIsChecked
<1> QED BY <1>1, <1>2 DEF MergeError

LEMMA MergeHeld ==
  ASSUME NEW x, NEW y, IsHeld(x), IsHeld(y), MergeError(x.pkg, y.pkg) = "none"
  PROVE  IsHeld(Holds(x.from \cup y.from, Merged(x.pkg, y.pkg)))
<1>1. Agree(x.pkg, y.pkg) /\ IsChecked(Merged(x.pkg, y.pkg))
  BY MergeErrors DEF IsHeld
<1>2. IsSourcePackage(Merged(x.pkg, y.pkg))
  BY MergedTyped DEF IsHeld
<1>3. IsUnion(Merged(x.pkg, y.pkg), x.from \cup y.from)
  BY <1>1, MergeUnion DEF IsHeld
<1> QED BY <1>1, <1>2, <1>3 DEF IsHeld, Holds

LEMMA RetainErrorsChecked ==
  ASSUME NEW p, NEW s, NEW S, NEW e \in RetainErrors(p, s, S)
  PROVE  /\ e = "none" => IsChecked(Retained(p, S))
         /\ e = "InvalidPackage" => ~IsChecked(Retained(p, S))
BY DEF RetainErrors, Refusals

LEMMA HeldNext == HeldInv /\ [Next]_vars => HeldInv'
<1> SUFFICES ASSUME HeldInv, [Next]_vars PROVE HeldInv'
  OBVIOUS
<1>1. ASSUME NEW x \in held, NEW y \in held, Merge(x, y) PROVE HeldInv'
  <2> DEFINE new == Holds(x.from \cup y.from, Merged(x.pkg, y.pkg))
  <2>1. \/ held' = held
        \/ held' = held \cup {new} /\ MergeError(x.pkg, y.pkg) = "none"
    BY <1>1 DEF Merge, Adds
  <2>2. MergeError(x.pkg, y.pkg) = "none" => IsHeld(new)
    BY MergeHeld DEF HeldInv
  <2> QED BY <2>1, <2>2 DEF HeldInv
<1>2. ASSUME NEW x \in held, NEW s \in selections, Retain(x, s) PROVE HeldInv'
  <2> DEFINE S == Reached(x.pkg, Roots(x.pkg, s))
             result == Retained(x.pkg, S)
  <2>1. PICK e \in RetainErrors(x.pkg, s, S) : Adds({result}, result, e)
    BY <1>2 DEF Retain
  <2>2. e = "none" => IsChecked(result)
    BY RetainErrorsChecked
  <2>3. IsSourcePackage(result)
    BY RetainedTyped DEF HeldInv, IsHeld
  <2>4. held' = held \/ (held' = held \cup {Holds({result}, result)} /\ e = "none")
    BY <2>1 DEF Adds
  <2> QED BY <2>2, <2>3, <2>4, OwnHeld DEF HeldInv
<1>3. CASE UNCHANGED vars
  BY <1>3 DEF vars, HeldInv
<1> QED BY <1>1, <1>2, <1>3 DEF Next

\* Every package at hand is checked and the union of those it came from.
THEOREM Held == Spec => []HeldInv
BY HeldInit, HeldNext, PTL DEF Spec

-----------------------------------------------------------------------------
(* What composition promises *)

LEMMA ResultsInit == Init => ResultsAreChecked
BY DEF Init, Nothing, ResultsAreChecked

LEMMA ResultsNext == ResultsAreChecked /\ HeldInv /\ [Next]_vars => ResultsAreChecked'
<1> SUFFICES ASSUME ResultsAreChecked, HeldInv, [Next]_vars PROVE ResultsAreChecked'
  OBVIOUS
<1>1. ASSUME NEW x \in held, NEW y \in held, Merge(x, y) PROVE ResultsAreChecked'
  <2>1. /\ last'.op = "merge" /\ last'.error = MergeError(x.pkg, y.pkg)
        /\ last'.result = Merged(x.pkg, y.pkg)
    BY <1>1 DEF Merge
  <2>2. last'.error = "InvalidPackage" => ~WithinLimits(last'.result)
    BY <2>1, MergeErrors DEF HeldInv, IsHeld
  <2> QED BY <2>1, <2>2 DEF ResultsAreChecked
<1>2. ASSUME NEW x \in held, NEW s \in selections, Retain(x, s) PROVE ResultsAreChecked'
  <2> DEFINE S == Reached(x.pkg, Roots(x.pkg, s))
             result == Retained(x.pkg, S)
  <2>1. PICK e \in RetainErrors(x.pkg, s, S) :
          last' = [op |-> "retain", of |-> {x.pkg}, choice |-> s, error |-> e,
                   result |-> result]
    BY <1>2 DEF Retain
  <2>2. e = "InvalidPackage" => ~IsChecked(result)
    BY RetainErrorsChecked
  <2>3. \/ IsChecked(result)
        \/ result.verdict = "Complete" /\ \E g \in result.diagnostics : Unforced(g)
    BY RetainIsChecked DEF HeldInv, IsHeld
  <2> HIDE DEF result
  <2> QED BY <2>1, <2>2, <2>3 DEF ResultsAreChecked
<1>3. CASE UNCHANGED vars
  BY <1>3 DEF vars, ResultsAreChecked
<1> QED BY <1>1, <1>2, <1>3 DEF Next

\* No composition of checked packages is refused by validation, but for a merge
\* with a table too large and a projection that leaves an unforced diagnostic alone.
THEOREM CheckedResults == Spec => []ResultsAreChecked
<1>1. Spec => []HeldInv
  BY Held
<1> QED BY <1>1, ResultsInit, ResultsNext, PTL DEF Spec

\* Packages merged from the same ones are the same, whatever the order.
THEOREM MergeOrder == Spec => []OrderIsImmaterial
<1>1. HeldInv => OrderIsImmaterial
  BY UnionUnique DEF HeldInv, IsHeld, OrderIsImmaterial
<1> QED BY <1>1, Held, PTL

\* Two packages conflict just when two of those they were merged from do.
THEOREM PairwiseConflicts == Spec => []ConflictsArePairwise
<1>1. HeldInv => ConflictsArePairwise
  BY AgreeUnion DEF HeldInv, IsHeld, ConflictsArePairwise
<1> QED BY <1>1, Held, PTL

-----------------------------------------------------------------------------
(* What into_complete answers *)

LEMMA RootsTyped ==
  ASSUME NEW p, IsPackage(p), NEW s, IsSelection(s)
  PROVE  /\ RootIds(p, s) \subseteq Ids
         /\ \A d : RootNeed(p, s, d) \in Needs
BY DEF IsPackage, HasPackageShape, IsSelection, RootIds, RootNeed, Needs, Opaque, Definition

LEMMA DemandsTyped ==
  ASSUME NEW p, IsPackage(p), NEW s, NEW d \in Ids, NEW n
  PROVE  \A o \in Demands(p, s, d, n) : o[1] \in Ids /\ o[2] \in Needs
BY DEF IsPackage, HasPackageShape, Demands, EdgeNeed, Edges, Needs, Opaque, Definition

\* A definition demands of a declaration at least what an opaque visit does.
LEMMA DemandsGrow ==
  ASSUME NEW p, IsPackage(p), NEW s, NEW d \in Ids,
         NEW n \in Needs, NEW m \in Needs, n <= m,
         NEW o \in Demands(p, s, d, n)
  PROVE  \E q \in Demands(p, s, d, m) : q[1] = o[1] /\ o[2] <= q[2]
<1>1. PICK e \in p.edges[d] : /\ o = <<e.to, EdgeNeed(p, d, n, e)>>
                              /\ Visited(p, s, d, n) /\ BodyVisited(p, d, n)
  BY DEF Demands
<1>2. Visited(p, s, d, m) /\ BodyVisited(p, d, m)
  BY <1>1 DEF Visited, NonRecordRoot, BodyVisited, Needs, Opaque, Definition
<1>3. <<e.to, EdgeNeed(p, d, m, e)>> \in Demands(p, s, d, m)
  BY <1>1, <1>2 DEF Demands
<1>4. EdgeNeed(p, d, n, e) <= EdgeNeed(p, d, m, e)
  BY DEF EdgeNeed, Needs, Opaque, Definition
<1> QED BY <1>1, <1>3, <1>4

\* The least of all closed maps, taken at every declaration, is closed: there is
\* an answer to every selection of a checked package, and only one.
LEMMA AnswerExists ==
  ASSUME NEW p, IsPackage(p), NEW s, IsSelection(s)
  PROVE  \E f \in NeedMaps : LeastClosed(p, s, f)
<1> DEFINE closed == {g \in NeedMaps : Closed(p, s, g)}
           Is(d, n) == \E g \in closed : g[d] = n
           f == [d \in Ids |-> IF Is(d, NoNeed) THEN NoNeed
                               ELSE IF Is(d, Opaque) THEN Opaque ELSE Definition]
<1>1. \A g \in NeedMaps : \A d \in Ids : g[d] \in {0, 1, 2}
  BY DEF NeedMaps, NoNeed, Opaque, Definition
<1>2. f \in NeedMaps
  BY DEF NeedMaps
<1>3. \E g \in NeedMaps : Closed(p, s, g)
  <2> DEFINE top == [d \in Ids |-> Definition]
  <2>1. top \in NeedMaps
    BY DEF NeedMaps
  <2>2. \A d \in RootIds(p, s) : RootNeed(p, s, d) <= top[d]
    BY RootsTyped DEF Needs, Opaque, Definition
  <2>3. \A d \in Ids : \A o \in Demands(p, s, d, top[d]) : o[2] <= top[o[1]]
    BY DemandsTyped DEF Needs, Opaque, Definition
  <2> QED BY <2>1, <2>2, <2>3 DEF Closed, Members
<1>4. ASSUME NEW g \in closed, NEW d \in Ids
      PROVE  f[d] <= g[d]
  <2>1. g[d] \in {0, 1, 2} /\ Is(d, g[d])
    BY <1>1
  <2>2. f[d] = IF Is(d, NoNeed) THEN NoNeed ELSE IF Is(d, Opaque) THEN Opaque ELSE Definition
    OBVIOUS
  <2> HIDE DEF f, Is, closed
  <2> QED BY <2>1, <2>2 DEF NoNeed, Opaque, Definition
<1>5. ASSUME NEW d \in Ids
      PROVE  \E g \in closed : g[d] = f[d]
  <2>1. PICK g \in closed : TRUE
    BY <1>3
  <2>2. g[d] \in {NoNeed, Opaque, Definition} /\ Is(d, g[d])
    BY <1>1 DEF NoNeed, Opaque, Definition
  <2>3. f[d] = IF Is(d, NoNeed) THEN NoNeed ELSE IF Is(d, Opaque) THEN Opaque ELSE Definition
    OBVIOUS
  <2>4. Is(d, f[d])
    <3> HIDE DEF f, Is, closed
    <3> QED BY <2>2, <2>3
  <2> QED BY <2>4
<1> HIDE DEF f
<1>6. \A d \in RootIds(p, s) : RootNeed(p, s, d) <= f[d]
  <2> SUFFICES ASSUME NEW d \in RootIds(p, s) PROVE RootNeed(p, s, d) <= f[d]
    OBVIOUS
  <2>1. d \in Ids
    BY RootsTyped
  <2>2. PICK g \in closed : g[d] = f[d]
    BY <1>5, <2>1
  <2> QED BY <2>2 DEF Closed
<1>7. ASSUME NEW d \in Members(f), NEW o \in Demands(p, s, d, f[d])
      PROVE  o[2] <= f[o[1]]
  <2>1. d \in Ids /\ f[d] \in Needs
    BY <1>2 DEF Members, NeedMaps, Needs
  <2>2. o[1] \in Ids /\ o[2] \in Needs
    BY <2>1, DemandsTyped
  <2>3. PICK g \in closed : g[o[1]] = f[o[1]]
    BY <1>5, <2>2
  <2>4. g \in NeedMaps /\ Closed(p, s, g)
    BY <2>3
  <2>5. g[d] \in Needs /\ f[d] <= g[d] /\ d \in Members(g)
    <3>1. f[d] <= g[d] /\ g[d] \in {0, 1, 2}
      BY <1>1, <1>4, <2>1, <2>3, <2>4
    <3> QED BY <2>1, <3>1 DEF Needs, Members, NoNeed, Opaque, Definition
  <2>6. PICK q \in Demands(p, s, d, g[d]) : q[1] = o[1] /\ o[2] <= q[2]
    BY <2>1, <2>5, DemandsGrow
  <2>7. q[2] <= g[q[1]] /\ q[2] \in Needs
    BY <2>1, <2>4, <2>5, <2>6, DemandsTyped DEF Closed
  <2>8. g[o[1]] \in {0, 1, 2}
    BY <1>1, <2>2, <2>4
  <2> QED BY <2>2, <2>3, <2>6, <2>7, <2>8 DEF Needs, Opaque, Definition
<1>8. Closed(p, s, f)
  BY <1>6, <1>7 DEF Closed
<1>9. LeastClosed(p, s, f)
  BY <1>4, <1>8 DEF LeastClosed
<1> QED BY <1>2, <1>9

LEMMA AnswerIsLeast ==
  ASSUME NEW p, IsSourcePackage(p), IsChecked(p), NEW s, IsSelection(s)
  PROVE  LET answer == Answer(p, s) IN
         /\ answer.closure \in NeedMaps
         /\ LeastClosed(View(p), s, answer.closure)
         /\ answer.blockers = ClosureBlockers(View(p), s, answer.closure)
<1> DEFINE V == View(p)
           closed == {f \in NeedMaps : Closed(V, s, f)}
           closure == CHOOSE f \in closed : \A g \in closed : \A d \in Ids : f[d] <= g[d]
           blockers == ClosureBlockers(V, s, closure)
<1>1. IsPackage(V)
  BY ViewIsPackage
<1>2. Answer(p, s) = [closure |-> closure, blockers |-> blockers]
  BY DEF Answer
<1> HIDE DEF V
<1>3. \E f \in closed : \A g \in closed : \A d \in Ids : f[d] <= g[d]
  BY <1>1, AnswerExists DEF LeastClosed
<1>4. closure \in closed /\ \A g \in closed : \A d \in Ids : closure[d] <= g[d]
  <2> HIDE DEF closed
  <2> QED BY <1>3
<1> HIDE DEF closure
<1>5. closure \in NeedMaps /\ LeastClosed(V, s, closure)
  BY <1>4 DEF LeastClosed
<1> HIDE DEF blockers
<1>6. Answer(p, s).closure = closure /\ Answer(p, s).blockers = blockers
  BY <1>2
<1> QED BY <1>5, <1>6 DEF V, blockers

-----------------------------------------------------------------------------
(* The answer of a part of a package, and of a package in a larger one *)

Only(f, S) == [d \in Ids |-> IF d \in S THEN f[d] ELSE NoNeed]

\* The visits of S find the same to follow in both packages, and stay in S.
SameOn(S, P, Q) ==
  /\ S \subseteq P.decls /\ S \subseteq Q.decls
  /\ \A d \in S : /\ P.kind[d] = Q.kind[d] /\ P.edges[d] = Q.edges[d]
                  /\ P.incomplete[d] = Q.incomplete[d]
                  /\ \A e \in P.edges[d] : e.to \in S

LEMMA DemandsSame ==
  ASSUME NEW S, NEW P, NEW Q, SameOn(S, P, Q), NEW s, NEW d \in S, NEW n
  PROVE  /\ Demands(P, s, d, n) = Demands(Q, s, d, n)
         /\ RootNeed(P, s, d) = RootNeed(Q, s, d)
<1>1. \A e : EdgeNeed(P, d, n, e) = EdgeNeed(Q, d, n, e)
  BY DEF EdgeNeed, SameOn
<1>2. /\ Visited(P, s, d, n) = Visited(Q, s, d, n)
      /\ BodyVisited(P, d, n) = BodyVisited(Q, d, n)
      /\ P.edges[d] = Q.edges[d]
  BY DEF Visited, NonRecordRoot, BodyVisited, SameOn
<1>3. Demands(P, s, d, n) = Demands(Q, s, d, n)
  BY <1>1, <1>2 DEF Demands
<1>4. RootNeed(P, s, d) = RootNeed(Q, s, d)
  BY DEF RootNeed, SameOn
<1> QED BY <1>3, <1>4

\* What lies outside of S is not needed: a closed map restricted to S is closed.
LEMMA OnlyIsClosed ==
  ASSUME NEW P, IsPackage(P), NEW Q, NEW S \in SUBSET Ids, SameOn(S, P, Q),
         NEW s, RootIds(P, s) = RootIds(Q, s), RootIds(P, s) \subseteq S,
         NEW f \in NeedMaps, Closed(P, s, f)
  PROVE  Only(f, S) \in NeedMaps /\ Closed(Q, s, Only(f, S))
<1> DEFINE h == Only(f, S)
<1>1. h \in NeedMaps /\ \A d \in S : h[d] = f[d]
  BY DEF Only, NeedMaps
<1>2. Members(h) \subseteq S
  BY DEF Only, Members
<1> HIDE DEF h
<1>3. \A d \in RootIds(Q, s) : RootNeed(Q, s, d) <= h[d]
  BY <1>1, DemandsSame DEF Closed
<1>4. ASSUME NEW d \in Members(h), NEW o \in Demands(Q, s, d, h[d])
      PROVE  o[2] <= h[o[1]]
  <2>1. d \in S /\ d \in Members(f) /\ h[d] = f[d]
    BY <1>1, <1>2, <1>4 DEF Members
  <2>2. o \in Demands(P, s, d, f[d])
    BY <1>4, <2>1, DemandsSame
  <2>3. o[1] \in S
    BY <2>1, <2>2 DEF Demands, SameOn
  <2> QED BY <1>1, <2>1, <2>2, <2>3 DEF Closed
<1> QED BY <1>1, <1>3, <1>4 DEF Closed, h

\* The closure of what lies within S is found in a package with all of S.
LEMMA ClosureSame ==
  ASSUME NEW P, IsPackage(P), NEW Q, IsPackage(Q),
         NEW S \in SUBSET Ids, SameOn(S, P, Q),
         NEW s, RootIds(P, s) = RootIds(Q, s), RootIds(P, s) \subseteq S,
         NEW f \in NeedMaps, LeastClosed(P, s, f),
         NEW g \in NeedMaps, LeastClosed(Q, s, g)
  PROVE  f = g /\ Members(f) \subseteq S
<1>1. SameOn(S, Q, P)
  BY DEF SameOn
<1>2. Only(f, S) \in NeedMaps /\ Closed(Q, s, Only(f, S))
  BY OnlyIsClosed DEF LeastClosed
<1>3. Only(g, S) \in NeedMaps /\ Closed(P, s, Only(g, S))
  BY <1>1, OnlyIsClosed DEF LeastClosed
<1>4. \A d \in Ids : f[d] <= Only(g, S)[d] /\ g[d] <= Only(f, S)[d]
  BY <1>2, <1>3 DEF LeastClosed
<1>5. ASSUME NEW d \in Ids
      PROVE  f[d] = g[d] /\ (d \notin S => f[d] = NoNeed)
  <2>1. f[d] \in {0, 1, 2} /\ g[d] \in {0, 1, 2}
    BY DEF NeedMaps, NoNeed, Opaque, Definition
  <2> QED BY <1>4, <2>1 DEF Only, NoNeed
<1>6. f = g
  BY <1>5 DEF NeedMaps
<1> QED BY <1>5, <1>6 DEF Members

\* No member of an answer is missing from the package but a root may be.
LEMMA MembersAreDeclared ==
  ASSUME NEW P, IsPackage(P), NEW s, RootIds(P, s) \subseteq P.decls,
         NEW f \in NeedMaps, LeastClosed(P, s, f)
  PROVE  Members(f) \subseteq P.decls
<1>1. SameOn(P.decls, P, P) /\ P.decls \in SUBSET Ids
  BY DEF SameOn, IsPackage, ReferencesChecked, HasPackageShape
<1> QED BY <1>1, ClosureSame

-----------------------------------------------------------------------------
(* What retain does to an answer *)

LEMMA VisitsSame ==
  ASSUME NEW S, NEW P, NEW Q, SameOn(S, P, Q), NEW s, NEW d \in S, NEW n,
         P.supported[d] = Q.supported[d], P.attrsOk[d] = Q.attrsOk[d],
         P.bodyOk[d] = Q.bodyOk[d]
  PROVE  VisitBlockers(P, s, d, n) = VisitBlockers(Q, s, d, n)
<1>1. /\ d \in P.decls /\ d \in Q.decls
      /\ NonRecordRoot(P, s, d, n) = NonRecordRoot(Q, s, d, n)
      /\ Visited(P, s, d, n) = Visited(Q, s, d, n)
      /\ UnsupportedAt(P, d, n) = UnsupportedAt(Q, d, n)
      /\ IncompleteAt(P, d, n) = IncompleteAt(Q, d, n)
  BY DEF SameOn, Visited, NonRecordRoot, UnsupportedAt, IncompleteAt, BodyVisited
<1>2. Faults(P, s, d, n) = Faults(Q, s, d, n)
  BY <1>1 DEF Faults
<1> QED BY <1>2 DEF VisitBlockers

\* A visit never says that the package is incomplete.
LEMMA VisitsNamed ==
  ASSUME NEW P, NEW s, NEW f
  PROVE  Blocker("PackageIncomplete", NoDecl)
           \notin (UNION {VisitBlockers(P, s, d, f[d]) : d \in Members(f)})
<1>1. \A d : \A b \in VisitBlockers(P, s, d, f[d]) : b.what # "PackageIncomplete"
  BY DEF VisitBlockers, Faults, Blocker
<1>2. Blocker("PackageIncomplete", NoDecl).what = "PackageIncomplete"
  BY DEF Blocker
<1> QED BY <1>1, <1>2

LEMMA ViewOf ==
  ASSUME NEW p, IsSourcePackage(p)
  PROVE  LET V == View(p) IN
         /\ V.decls = DOMAIN p.decls /\ DOMAIN p.decls \subseteq Ids
         /\ \A d \in DOMAIN p.decls :
              /\ V.kind[d] = p.decls[d].head.kind
              /\ V.edges[d] = {[to |-> r.to, via |-> r.via] : r \in p.decls[d].head.refs}
              /\ V.supported[d] = p.decls[d].head.supported
              /\ V.attrsOk[d] = (\A o \in p.decls[d].occurrences : o.attrsOk)
              /\ V.bodyOk[d] = p.decls[d].head.bodyOk
              /\ V.incomplete[d] = p.decls[d].head.incomplete
         /\ V.diagnostics = {[impact |-> g.impact, decl |-> g.decl, stage |-> g.stage,
                              code |-> g.code] : g \in p.diagnostics}
         /\ V.macroCodes = {p.macros[m].head.code : m \in DOMAIN p.macros} \ {"Supported"}
<1>1. DOMAIN p.decls \subseteq Ids
  BY DEF IsSourcePackage, IsTable
<1>2. \A d \in DOMAIN p.decls : p.decls[d].head.supported \in BOOLEAN
                             /\ p.decls[d].head.bodyOk \in BOOLEAN
                             /\ p.decls[d].head.incomplete \in BOOLEAN
  BY DEF IsSourcePackage, IsTable, TableEntry, DeclarationHead
<1> QED BY <1>1, <1>2 DEF View

\* The roots that retain starts from are those of a completion.
LEMMA RootsAgree ==
  ASSUME NEW p, IsSourcePackage(p), NEW s
  PROVE  Roots(p, s) = RootIds(View(p), s)
<1>1. {d \in DOMAIN p.decls : p.decls[d].head.supported}
        = {d \in View(p).decls : View(p).supported[d]}
  BY ViewOf
<1> QED BY <1>1 DEF Roots, RootIds

\* The package-level blocker of a projection is that of the whole package,
\* but for a rejection over a declaration that is left out.
LEMMA RetainedBlockers ==
  ASSUME NEW p, IsSourcePackage(p), IsChecked(p), NEW S \in SUBSET DOMAIN p.decls,
         NEW r, r = Retained(p, S), IsSourcePackage(r)
  PROVE  \/ PackageBlockers(View(r)) = PackageBlockers(View(p))
         \/ /\ \E g \in p.diagnostics :
                 /\ g.decl \notin DOMAIN r.decls \cup {NoDecl}
                 /\ g.impact = "ForcesRejected"
            /\ PackageBlockers(View(p)) = {Blocker("PackageIncomplete", NoDecl)}
            /\ PackageBlockers(View(r)) = {}
<1> DEFINE P == View(p)
           Q == View(r)
<1>1. /\ r.diagnostics = {g \in p.diagnostics : g.decl # NoDecl => g.decl \in S}
      /\ r.macros = p.macros /\ DOMAIN r.decls = S
  BY DEF Retained, RetainedDiagnostics
<1>2. P.macroCodes = Q.macroCodes
  <2>1. P.macroCodes = {p.macros[m].head.code : m \in DOMAIN p.macros} \ {"Supported"}
    BY DEF View
  <2>2. Q.macroCodes = {r.macros[m].head.code : m \in DOMAIN r.macros} \ {"Supported"}
    BY DEF View
  <2> QED BY <1>1, <2>1, <2>2
<1>3. /\ P.diagnostics = {[impact |-> g.impact, decl |-> g.decl, stage |-> g.stage,
                           code |-> g.code] : g \in p.diagnostics}
      /\ Q.diagnostics = {[impact |-> g.impact, decl |-> g.decl, stage |-> g.stage,
                           code |-> g.code] : g \in r.diagnostics}
  BY ViewOf
<1> HIDE DEF P, Q
<1>4. /\ Q.diagnostics \subseteq P.diagnostics
      /\ \A g \in P.diagnostics : g.decl = NoDecl => g \in Q.diagnostics
  BY <1>1, <1>3
<1>5. PackageScoped(P) = PackageScoped(Q)
  BY <1>2, <1>4 DEF PackageScoped, Forcing
<1>6. Rejected(Q) => Rejected(P)
  BY <1>4 DEF Rejected
<1>7. CASE Rejected(P) /\ ~Rejected(Q)
  <2>1. PICK g \in p.diagnostics : g.impact = "ForcesRejected"
    BY <1>3, <1>7 DEF Rejected
  <2>2. g \notin r.diagnostics
    <3> DEFINE seen == [impact |-> g.impact, decl |-> g.decl, stage |-> g.stage, code |-> g.code]
    <3>1. seen.impact = "ForcesRejected"
      BY <2>1
    <3>2. g \in r.diagnostics => seen \in Q.diagnostics
      BY <1>3
    <3> HIDE DEF seen
    <3> QED BY <1>7, <3>1, <3>2 DEF Rejected
  <2>3. g.decl \notin DOMAIN r.decls \cup {NoDecl}
    BY <1>1, <2>2
  <2> QED BY <1>5, <1>7, <2>1, <2>3 DEF PackageBlockers, P, Q
<1>8. CASE Rejected(P) <=> Rejected(Q)
  BY <1>5, <1>8 DEF PackageBlockers, P, Q
<1> QED BY <1>6, <1>7, <1>8

\* A projection onto all that the roots reach answers as the whole package.
LEMMA RetainAnswer ==
  ASSUME NEW p, IsSourcePackage(p), IsChecked(p), NEW s, IsSelection(s),
         Reached(p, Roots(p, s)) \subseteq DOMAIN p.decls,
         NEW r, r = Retained(p, Reached(p, Roots(p, s))), IsSourcePackage(r), IsChecked(r)
  PROVE  LET before == Answer(p, s)
             after == Answer(r, s) IN
         /\ after.closure = before.closure
         /\ \/ after.blockers = before.blockers
            \/ /\ \E g \in p.diagnostics :
                    /\ g.decl \notin DOMAIN r.decls \cup {NoDecl}
                    /\ g.impact = "ForcesRejected"
               /\ after.blockers = before.blockers \ {Blocker("PackageIncomplete", NoDecl)}
<1> DEFINE S == Reached(p, Roots(p, s))
           P == View(p)
           Q == View(r)
           f == Answer(p, s).closure
           g == Answer(r, s).closure
<1>1. IsPackage(P) /\ IsPackage(Q)
  BY ViewIsPackage
<1>2. r.decls = [d \in S |-> p.decls[d]]
  BY DEF Retained
<1>3. P.decls = DOMAIN p.decls /\ Q.decls = S /\ S \in SUBSET Ids
  BY <1>2, ViewOf
<1>4. \A d \in S : /\ P.kind[d] = Q.kind[d] /\ P.edges[d] = Q.edges[d]
                   /\ P.incomplete[d] = Q.incomplete[d]
                   /\ P.supported[d] = Q.supported[d] /\ P.attrsOk[d] = Q.attrsOk[d]
                   /\ P.bodyOk[d] = Q.bodyOk[d]
  <2> SUFFICES ASSUME NEW d \in S
               PROVE  /\ P.kind[d] = Q.kind[d] /\ P.edges[d] = Q.edges[d]
                      /\ P.incomplete[d] = Q.incomplete[d]
                      /\ P.supported[d] = Q.supported[d] /\ P.attrsOk[d] = Q.attrsOk[d]
                      /\ P.bodyOk[d] = Q.bodyOk[d]
    OBVIOUS
  <2>1. r.decls[d] = p.decls[d] /\ d \in DOMAIN p.decls /\ d \in DOMAIN r.decls
    BY <1>2
  <2>2. /\ P.kind[d] = p.decls[d].head.kind
        /\ P.edges[d] = {[to |-> x.to, via |-> x.via] : x \in p.decls[d].head.refs}
        /\ P.supported[d] = p.decls[d].head.supported
        /\ P.attrsOk[d] = (\A o \in p.decls[d].occurrences : o.attrsOk)
        /\ P.bodyOk[d] = p.decls[d].head.bodyOk
        /\ P.incomplete[d] = p.decls[d].head.incomplete
    BY <2>1, ViewOf
  <2>3. /\ Q.kind[d] = r.decls[d].head.kind
        /\ Q.edges[d] = {[to |-> x.to, via |-> x.via] : x \in r.decls[d].head.refs}
        /\ Q.supported[d] = r.decls[d].head.supported
        /\ Q.attrsOk[d] = (\A o \in r.decls[d].occurrences : o.attrsOk)
        /\ Q.bodyOk[d] = r.decls[d].head.bodyOk
        /\ Q.incomplete[d] = r.decls[d].head.incomplete
    BY ONLY <2>1, IsSourcePackage(r), ViewOf
  <2> HIDE DEF S, P, Q
  <2> QED BY <2>1, <2>2, <2>3
<1>5. ASSUME NEW d \in S, NEW e \in P.edges[d] PROVE e.to \in S
  <2>1. P.edges[d] = {[to |-> x.to, via |-> x.via] : x \in p.decls[d].head.refs}
    BY ViewOf
  <2>2. Mentions(p.decls[d].head) \subseteq S
    BY ReachedIsClosed
  <2> QED BY <2>1, <2>2 DEF Mentions
<1>6. SameOn(S, P, Q)
  BY <1>3, <1>4, <1>5 DEF SameOn
<1>7. RootIds(P, s) \subseteq S
  <2>1. Roots(p, s) \subseteq Ids
    BY RootsAgree, RootsTyped, <1>1
  <2>2. Roots(p, s) \subseteq S
    BY <2>1 DEF Reached
  <2> QED BY <2>2, RootsAgree
<1>8. RootIds(P, s) = RootIds(Q, s)
  BY <1>3, <1>4, <1>7 DEF RootIds
<1>9. /\ f \in NeedMaps /\ LeastClosed(P, s, f)
      /\ g \in NeedMaps /\ LeastClosed(Q, s, g)
      /\ Answer(p, s).blockers = ClosureBlockers(P, s, f)
      /\ Answer(r, s).blockers = ClosureBlockers(Q, s, g)
  BY AnswerIsLeast
<1>10. \/ PackageBlockers(Q) = PackageBlockers(P)
       \/ /\ \E x \in p.diagnostics : /\ x.decl \notin DOMAIN r.decls \cup {NoDecl}
                                      /\ x.impact = "ForcesRejected"
          /\ PackageBlockers(P) = {Blocker("PackageIncomplete", NoDecl)}
          /\ PackageBlockers(Q) = {}
  BY RetainedBlockers
<1> HIDE DEF S, P, Q, f, g
<1>11. f = g /\ Members(f) \subseteq S
  BY <1>1, <1>3, <1>6, <1>7, <1>8, <1>9, ClosureSame
<1>12. \A d \in Members(f) : VisitBlockers(P, s, d, f[d]) = VisitBlockers(Q, s, d, f[d])
  BY <1>4, <1>6, <1>11, VisitsSame
<1> DEFINE visits == UNION {VisitBlockers(P, s, d, f[d]) : d \in Members(f)}
<1>13. /\ Answer(p, s).blockers = PackageBlockers(P) \cup visits
       /\ Answer(r, s).blockers = PackageBlockers(Q) \cup visits
  BY <1>9, <1>11, <1>12 DEF ClosureBlockers
<1>14. Blocker("PackageIncomplete", NoDecl) \notin visits
  BY VisitsNamed
<1> HIDE DEF visits
<1> QED BY <1>10, <1>11, <1>13, <1>14 DEF f, g

-----------------------------------------------------------------------------
(* What merge does to an answer *)

\* P is found in Q as it is, where only an attribute may be added to it.
Grows(P, Q) ==
  /\ P.decls \subseteq Q.decls
  /\ \A d \in P.decls : /\ P.kind[d] = Q.kind[d] /\ P.edges[d] = Q.edges[d]
                        /\ P.incomplete[d] = Q.incomplete[d]
                        /\ P.supported[d] = Q.supported[d] /\ P.bodyOk[d] = Q.bodyOk[d]
                        /\ Q.attrsOk[d] => P.attrsOk[d]
  /\ P.diagnostics \subseteq Q.diagnostics

\* A larger package needs no less.
LEMMA ClosureGrows ==
  ASSUME NEW P, IsPackage(P), NEW Q, IsPackage(Q), Grows(P, Q),
         NEW s, IsSelection(s), s.ids \subseteq P.decls,
         NEW f \in NeedMaps, LeastClosed(P, s, f),
         NEW g \in NeedMaps, LeastClosed(Q, s, g)
  PROVE  /\ Members(f) \subseteq P.decls
         /\ \A d \in Members(f) : f[d] \in Needs /\ g[d] \in Needs /\ f[d] <= g[d]
<1>1. SameOn(P.decls, Q, P)
  BY DEF Grows, SameOn, IsPackage, ReferencesChecked
<1>2. RootIds(P, s) \subseteq RootIds(Q, s) /\ RootIds(P, s) \subseteq P.decls
  BY DEF RootIds, Grows, IsSelection
<1>3. \A d \in RootIds(P, s) : RootNeed(P, s, d) <= g[d]
  BY <1>1, <1>2, DemandsSame DEF LeastClosed, Closed
<1>4. ASSUME NEW d \in Members(g), NEW o \in Demands(P, s, d, g[d])
      PROVE  o[2] <= g[o[1]]
  <2>1. d \in P.decls
    BY <1>4 DEF Demands, Visited
  <2>2. o \in Demands(Q, s, d, g[d])
    BY <1>1, <1>4, <2>1, DemandsSame
  <2> QED BY <1>4, <2>2 DEF LeastClosed, Closed
<1>5. Closed(P, s, g)
  BY <1>3, <1>4 DEF Closed
<1>6. \A d \in Ids : f[d] <= g[d]
  BY <1>5 DEF LeastClosed
<1>7. ASSUME NEW d \in Members(f)
      PROVE  f[d] \in Needs /\ g[d] \in Needs /\ f[d] <= g[d]
  <2>1. d \in Ids /\ f[d] # NoNeed /\ f[d] <= g[d]
    BY <1>6, <1>7 DEF Members
  <2>2. f[d] \in {0, 1, 2} /\ g[d] \in {0, 1, 2}
    BY <2>1 DEF NeedMaps, NoNeed, Opaque, Definition
  <2> QED BY <2>1, <2>2 DEF Needs, NoNeed, Opaque, Definition
<1>8. Members(f) \subseteq P.decls
  BY <1>2, MembersAreDeclared
<1> QED BY <1>7, <1>8

\* An opaque selection needs no more of its roots than to be opaque.
LEMMA OpaqueClosure ==
  ASSUME NEW Q, IsPackage(Q), NEW s, IsSelection(s), s.mode = "OpaqueOnly",
         NEW g \in NeedMaps, LeastClosed(Q, s, g), NEW d \in Members(g)
  PROVE  g[d] = Opaque
<1> DEFINE k == [x \in Ids |-> IF x \in s.ids THEN Opaque ELSE NoNeed]
<1>1. k \in NeedMaps
  BY DEF NeedMaps
<1>2. \A x \in RootIds(Q, s) : RootNeed(Q, s, x) <= k[x]
  BY DEF RootIds, RootNeed, IsSelection, Opaque
<1>3. \A x \in Members(k) : Demands(Q, s, x, k[x]) = {}
  BY DEF Members, Demands, Visited, NonRecordRoot, BodyVisited, NoNeed, Opaque
<1>4. Closed(Q, s, k)
  BY <1>2, <1>3 DEF Closed
<1>5. d \in Ids /\ g[d] # NoNeed /\ g[d] <= k[d]
  BY <1>1, <1>4 DEF LeastClosed, Members
<1>6. g[d] \in {0, 1, 2}
  BY <1>5 DEF NeedMaps, NoNeed, Opaque, Definition
<1> QED BY <1>5, <1>6 DEF NoNeed, Opaque

\* What a visit finds to refuse it finds in a larger package, and at a greater need.
LEMMA VisitsGrow ==
  ASSUME NEW P, NEW Q, Grows(P, Q), NEW s, NEW d \in P.decls,
         NEW n \in Needs, NEW m \in Needs, n <= m,
         s.mode = "OpaqueOnly" => n = m
  PROVE  VisitBlockers(P, s, d, n) \subseteq VisitBlockers(Q, s, d, m)
<1>1. /\ d \in Q.decls /\ P.kind[d] = Q.kind[d]
      /\ P.incomplete[d] = Q.incomplete[d]
      /\ P.supported[d] = Q.supported[d] /\ P.bodyOk[d] = Q.bodyOk[d]
      /\ Q.attrsOk[d] => P.attrsOk[d]
  BY DEF Grows
<1>2. NonRecordRoot(P, s, d, n) = NonRecordRoot(Q, s, d, m)
  BY <1>1 DEF NonRecordRoot
<1>3. Visited(P, s, d, n) = Visited(Q, s, d, m)
  BY <1>1, <1>2 DEF Visited
<1>4. BodyVisited(P, d, n) => BodyVisited(Q, d, m)
  BY <1>1 DEF BodyVisited, Needs, Opaque, Definition
<1>5. UnsupportedAt(P, d, n) => UnsupportedAt(Q, d, m)
  BY <1>1, <1>4 DEF UnsupportedAt
<1>6. IncompleteAt(P, d, n) => IncompleteAt(Q, d, m)
  BY <1>1 DEF IncompleteAt, Needs, Opaque, Definition
<1>7. Faults(P, s, d, n) \subseteq Faults(Q, s, d, m)
  BY <1>1, <1>2, <1>3, <1>5, <1>6 DEF Faults
<1> QED BY <1>7 DEF VisitBlockers

LEMMA MergedView ==
  ASSUME NEW p, IsSourcePackage(p), NEW m, IsSourcePackage(m), IsWithin(p, m),
         p.diagnostics \subseteq m.diagnostics
  PROVE  Grows(View(p), View(m))
<1> DEFINE P == View(p)
           Q == View(m)
<1>1. \A d \in DOMAIN p.decls :
        /\ d \in DOMAIN m.decls /\ m.decls[d].head = p.decls[d].head
        /\ p.decls[d].occurrences \subseteq m.decls[d].occurrences
  BY DEF IsWithin, SameHeadsIn
<1>2. P.decls = DOMAIN p.decls /\ Q.decls = DOMAIN m.decls
  BY ViewOf
<1>3. ASSUME NEW d \in DOMAIN p.decls
      PROVE  /\ P.kind[d] = Q.kind[d] /\ P.edges[d] = Q.edges[d]
             /\ P.incomplete[d] = Q.incomplete[d]
             /\ P.supported[d] = Q.supported[d] /\ P.bodyOk[d] = Q.bodyOk[d]
             /\ Q.attrsOk[d] => P.attrsOk[d]
  <2>1. /\ P.kind[d] = p.decls[d].head.kind
        /\ P.edges[d] = {[to |-> x.to, via |-> x.via] : x \in p.decls[d].head.refs}
        /\ P.supported[d] = p.decls[d].head.supported
        /\ P.attrsOk[d] = (\A o \in p.decls[d].occurrences : o.attrsOk)
        /\ P.bodyOk[d] = p.decls[d].head.bodyOk
        /\ P.incomplete[d] = p.decls[d].head.incomplete
    BY ViewOf
  <2>2. /\ Q.kind[d] = m.decls[d].head.kind
        /\ Q.edges[d] = {[to |-> x.to, via |-> x.via] : x \in m.decls[d].head.refs}
        /\ Q.supported[d] = m.decls[d].head.supported
        /\ Q.attrsOk[d] = (\A o \in m.decls[d].occurrences : o.attrsOk)
        /\ Q.bodyOk[d] = m.decls[d].head.bodyOk
        /\ Q.incomplete[d] = m.decls[d].head.incomplete
    BY <1>1, ViewOf
  <2> HIDE DEF P, Q
  <2> QED BY <1>1, <2>1, <2>2
<1>4. P.diagnostics \subseteq Q.diagnostics
  BY DEF View
<1> QED BY <1>1, <1>2, <1>3, <1>4 DEF Grows

\* A package merged into a larger one keeps its refusals, but for what a macro
\* of the other package accounts for.
LEMMA MergeAnswer ==
  ASSUME NEW p, IsSourcePackage(p), IsChecked(p), NEW m, IsSourcePackage(m), IsChecked(m),
         IsWithin(p, m), p.diagnostics \subseteq m.diagnostics,
         NEW s, IsSelection(s), s.ids \subseteq DOMAIN p.decls
  PROVE  LET hidden == Answer(p, s).blockers \ Answer(m, s).blockers IN
         \/ hidden = {}
         \/ /\ hidden = {Blocker("PackageIncomplete", NoDecl)}
            /\ {g.code : g \in PackageScoped(View(p))} \subseteq View(m).macroCodes
<1> DEFINE P == View(p)
           Q == View(m)
           f == Answer(p, s).closure
           g == Answer(m, s).closure
           visits == UNION {VisitBlockers(P, s, d, f[d]) : d \in Members(f)}
           visited == UNION {VisitBlockers(Q, s, d, g[d]) : d \in Members(g)}
<1>1. IsPackage(P) /\ IsPackage(Q) /\ Grows(P, Q) /\ P.decls = DOMAIN p.decls
  BY ViewIsPackage, MergedView, ViewOf
<1>2. /\ f \in NeedMaps /\ LeastClosed(P, s, f)
      /\ g \in NeedMaps /\ LeastClosed(Q, s, g)
      /\ Answer(p, s).blockers = ClosureBlockers(P, s, f)
      /\ Answer(m, s).blockers = ClosureBlockers(Q, s, g)
  BY AnswerIsLeast
<1> HIDE DEF P, Q, f, g
<1>3. /\ Members(f) \subseteq P.decls
      /\ \A d \in Members(f) : f[d] \in Needs /\ g[d] \in Needs /\ f[d] <= g[d]
  BY <1>1, <1>2, ClosureGrows
<1>4. ASSUME NEW d \in Members(f)
      PROVE  d \in Members(g) /\ VisitBlockers(P, s, d, f[d]) \subseteq VisitBlockers(Q, s, d, g[d])
  <2>1. d \in Members(g)
    BY <1>3 DEF Members, Needs, NoNeed, Opaque, Definition
  <2>2. s.mode = "OpaqueOnly" => f[d] = g[d]
    BY <1>1, <1>2, <2>1, OpaqueClosure
  <2> QED BY <1>1, <1>3, <2>1, <2>2, VisitsGrow
<1>5. visits \subseteq visited
  BY <1>4
<1>6. Blocker("PackageIncomplete", NoDecl) \notin visits
  BY VisitsNamed
<1>7. /\ Answer(p, s).blockers = PackageBlockers(P) \cup visits
      /\ Answer(m, s).blockers = PackageBlockers(Q) \cup visited
  BY <1>2 DEF ClosureBlockers
<1> HIDE DEF visits, visited
<1>8. CASE PackageBlockers(P) = {} \/ PackageBlockers(Q) # {}
  <2>1. PackageBlockers(P) \subseteq PackageBlockers(Q)
    BY <1>8 DEF PackageBlockers
  <2> QED BY <1>5, <1>7, <2>1
<1>9. CASE PackageBlockers(P) # {} /\ PackageBlockers(Q) = {}
  <2>1. PackageBlockers(P) = {Blocker("PackageIncomplete", NoDecl)}
    BY <1>9 DEF PackageBlockers
  <2>2. PackageScoped(Q) = {}
    BY <1>9 DEF PackageBlockers
  <2>3. ASSUME NEW x \in PackageScoped(P) PROVE x.code \in Q.macroCodes
    <3>1. x \in Q.diagnostics
      BY <1>1, <2>3 DEF PackageScoped, Forcing, Grows
    <3> QED BY <2>2, <2>3, <3>1 DEF PackageScoped, Forcing
  <2> QED BY <1>5, <1>6, <1>7, <1>9, <2>1, <2>3 DEF P, Q
<1> QED BY <1>8, <1>9

-----------------------------------------------------------------------------
(* Every answer of a behaviour *)

\* The selections of a caller are ones that may be asked for.
SelectionsInv == \A s \in selections : IsSelection(s)

LEMMA SelectionsInit == Init => SelectionsInv
BY CallersAssumption DEF Init, SelectionsInv

LEMMA SelectionsNext == SelectionsInv /\ [Next]_vars => SelectionsInv'
<1> SUFFICES ASSUME SelectionsInv, [Next]_vars PROVE SelectionsInv'
  OBVIOUS
<1>1. selections' = selections
  BY DEF Next, Merge, Retain, Adds, vars
<1> QED BY <1>1 DEF SelectionsInv

LEMMA RetainErrorsNone ==
  ASSUME NEW p, NEW s, NEW S, "none" \in RetainErrors(p, s, S)
  PROVE  S \subseteq DOMAIN p.decls /\ IsChecked(Retained(p, S))
<1>1. Refusals(p, s, S) = {} /\ IsChecked(Retained(p, S))
  BY DEF RetainErrors, Refusals
<1> QED BY <1>1 DEF Refusals

LEMMA RetainAnswersNext ==
  RetainKeepsAnswer /\ HeldInv /\ SelectionsInv /\ [Next]_vars => RetainKeepsAnswer'
<1> SUFFICES ASSUME RetainKeepsAnswer, HeldInv, SelectionsInv, [Next]_vars
             PROVE  RetainKeepsAnswer'
  OBVIOUS
<1>1. ASSUME NEW x \in held, NEW y \in held, Merge(x, y) PROVE RetainKeepsAnswer'
  <2>1. last'.op = "merge"
    BY <1>1 DEF Merge
  <2> QED BY <2>1 DEF RetainKeepsAnswer, Made
<1>2. ASSUME NEW x \in held, NEW s \in selections, Retain(x, s) PROVE RetainKeepsAnswer'
  <2> DEFINE S == Reached(x.pkg, Roots(x.pkg, s))
             result == Retained(x.pkg, S)
  <2>1. PICK e \in RetainErrors(x.pkg, s, S) :
          last' = [op |-> "retain", of |-> {x.pkg}, choice |-> s, error |-> e,
                   result |-> result]
    BY <1>2 DEF Retain
  <2>2. SUFFICES ASSUME e = "none" PROVE RetainKeepsAnswer'
    <3>1. last'.error = e
      BY <2>1
    <3> QED BY <2>2, <3>1 DEF RetainKeepsAnswer, Made
  <2>3. S \subseteq DOMAIN x.pkg.decls /\ IsChecked(result)
    BY <2>1, <2>2, RetainErrorsNone
  <2>4. IsSourcePackage(x.pkg) /\ IsChecked(x.pkg) /\ IsSelection(s)
    BY DEF HeldInv, IsHeld, SelectionsInv
  <2>5. IsSourcePackage(result)
    BY <2>4, RetainedTyped
  <2>6. /\ Answer(result, s).closure = Answer(x.pkg, s).closure
        /\ \/ Answer(result, s).blockers = Answer(x.pkg, s).blockers
           \/ /\ \E g \in x.pkg.diagnostics :
                   /\ g.decl \notin DOMAIN result.decls \cup {NoDecl}
                   /\ g.impact = "ForcesRejected"
              /\ Answer(result, s).blockers
                   = Answer(x.pkg, s).blockers \ {Blocker("PackageIncomplete", NoDecl)}
    BY <2>3, <2>4, <2>5, RetainAnswer
  <2>7. last'.of = {x.pkg} /\ last'.choice = s /\ last'.result = result
    BY <2>1
  <2> HIDE DEF result
  <2> QED BY <2>6, <2>7 DEF RetainKeepsAnswer
<1>3. CASE UNCHANGED vars
  BY <1>3 DEF vars, RetainKeepsAnswer, Made
<1> QED BY <1>1, <1>2, <1>3 DEF Next

LEMMA MergeAnswersNext ==
  MergeHidesNothing /\ HeldInv /\ SelectionsInv /\ [Next]_vars => MergeHidesNothing'
<1> SUFFICES ASSUME MergeHidesNothing, HeldInv, SelectionsInv, [Next]_vars
             PROVE  MergeHidesNothing'
  OBVIOUS
<1>1. ASSUME NEW x \in held, NEW y \in held, Merge(x, y) PROVE MergeHidesNothing'
  <2> DEFINE result == Merged(x.pkg, y.pkg)
             e == MergeError(x.pkg, y.pkg)
  <2>1. /\ last' = [op |-> "merge", of |-> {x.pkg, y.pkg}, error |-> e, result |-> result]
        /\ selections' = selections
    BY <1>1 DEF Merge, Adds
  <2>2. SUFFICES ASSUME e = "none" PROVE MergeHidesNothing'
    <3>1. last'.error = e
      BY <2>1
    <3> QED BY <2>2, <3>1 DEF MergeHidesNothing, Made
  <2>3. /\ IsSourcePackage(x.pkg) /\ IsChecked(x.pkg)
        /\ IsSourcePackage(y.pkg) /\ IsChecked(y.pkg)
    BY DEF HeldInv, IsHeld
  <2>4. Agree(x.pkg, y.pkg) /\ IsChecked(result)
    BY <2>2, <2>3, MergeErrors
  <2>5. IsSourcePackage(result) /\ IsWithin(x.pkg, result) /\ IsWithin(y.pkg, result)
    BY <2>3, <2>4, MergedTyped, WithinMerged
  <2>6. x.pkg.diagnostics \subseteq result.diagnostics /\ y.pkg.diagnostics \subseteq result.diagnostics
    BY DEF Merged, MergedDiagnostics
  <2>7. last'.of = {x.pkg, y.pkg} /\ last'.result = result
    BY <2>1
  <2> HIDE DEF result, e
  <2>8. ASSUME NEW p \in {x.pkg, y.pkg}, NEW s \in selections, s.ids \subseteq DOMAIN p.decls
        PROVE  LET hidden == Answer(p, s).blockers \ Answer(result, s).blockers IN
               \/ hidden = {}
               \/ /\ hidden = {Blocker("PackageIncomplete", NoDecl)}
                  /\ {g.code : g \in PackageScoped(View(p))} \subseteq View(result).macroCodes
    <3>1. /\ IsSourcePackage(p) /\ IsChecked(p) /\ IsWithin(p, result)
          /\ p.diagnostics \subseteq result.diagnostics /\ IsSelection(s)
      BY <2>3, <2>5, <2>6 DEF SelectionsInv
    <3> QED BY <2>4, <2>5, <2>8, <3>1, MergeAnswer
  <2> QED BY <2>1, <2>7, <2>8 DEF MergeHidesNothing
<1>2. ASSUME NEW x \in held, NEW s \in selections, Retain(x, s) PROVE MergeHidesNothing'
  <2>1. last'.op = "retain"
    BY <1>2 DEF Retain
  <2> QED BY <2>1 DEF MergeHidesNothing, Made
<1>3. CASE UNCHANGED vars
  BY <1>3 DEF vars, MergeHidesNothing, Made
<1> QED BY <1>1, <1>2, <1>3 DEF Next

\* A projection answers a completion of its own selection as the whole package.
THEOREM RetainAnswers == Spec => []RetainKeepsAnswer
<1>1. Init => RetainKeepsAnswer
  BY DEF Init, Nothing, RetainKeepsAnswer, Made
<1> QED BY <1>1, Held, SelectionsInit, SelectionsNext, RetainAnswersNext, PTL DEF Spec

\* A merge hides no refusal of a package but one a macro of the other explains.
THEOREM MergeAnswers == Spec => []MergeHidesNothing
<1>1. Init => MergeHidesNothing
  BY DEF Init, Nothing, MergeHidesNothing, Made
<1> QED BY <1>1, Held, SelectionsInit, SelectionsNext, MergeAnswersNext, PTL DEF Spec

=============================================================================
