---------------------------- MODULE ExtractionProofs ----------------------------
(***************************************************************************)
(* Proofs about Extraction, for all units, segments and files: of the      *)
(* mentions of a unit, the ranges they are read from and what is said of   *)
(* them, a scan makes a package that validation accepts.                   *)
(***************************************************************************)
EXTENDS Extraction, FiniteSetTheorems, SequenceTheorems, TLAPS

-----------------------------------------------------------------------------
(* The parts of the invariant *)

\* The mentions of a declaration that were lowered, and its first mention.
LoweredOf(d) == {k \in 1..(next - 1) : Mentions[k].d = d}
First(d) == Min({k \in DOMAIN Mentions : Mentions[k].d = d})

\* The kind a mention lowers to, unless it is not supported.
FormOfKind(m) ==
  IF m.form \in {"struct", "union"} THEN "record"
  ELSE IF m.form = "enum" THEN "enum"
  ELSE IF m.form = "typedef" THEN "alias"
  ELSE IF IsFunction(m.levels) THEN "function" ELSE "variable"

ConfigInv ==
  /\ unit \in Units
  /\ phase \in {"lower", "remap", "package", "done"}
  /\ next \in 1..(Len(Mentions) + 1)
  /\ phase # "lower" => next = Len(Mentions) + 1
  /\ drafts \in [Indexed -> {drafts[d] : d \in Indexed}]
  /\ \A d \in Indexed :
       drafts[d] = [occurrences |-> drafts[d].occurrences, kind |-> drafts[d].kind,
                    support |-> drafts[d].support]

\* A set of declarations that holds all that a chain of aliases ends at a
\* pointer from, and all that conflict: what conflicts may have been a pointer.
PointersIn(set) ==
  \A d \in Indexed :
    LET kind == drafts[d].kind IN
    \/ kind.form = "unsupported"
    \/ kind.form = "alias" /\ OutermostOf(kind.type) \in {"pointer"} \cup set
    => d \in set

EndsAtPointer(d) == \A set \in SUBSET Indexed : PointersIn(set) => d \in set

PointersInv == pointers \subseteq Indexed /\ \A d \in pointers : EndsAtPointer(d)

\* A type names what is mentioned as such; `restrict` is on a pointer.
TypeInv(type) ==
  /\ type = TypeOver(type.base, type.layers, type.restrict)
  /\ type.restrict \in BOOLEAN
  /\ type.base.as \in DOMAIN FormsOf \cup {"none"}
  /\ type.base.to # NoDecl =>
       /\ type.base.as \in {"alias", "record", "enum"}
       /\ \E j \in DOMAIN Mentions : /\ Mentions[j].d = type.base.to
                                     /\ Mentions[j].form \in FormsOf[type.base.as]
  /\ type.base.as = "alias" => type.base.to # NoDecl
  /\ type.restrict /\ type.layers = <<>> => type.base.as = "alias" /\ EndsAtPointer(type.base.to)

\* A kind that is supported, and what is left of it when it is incomplete.
KnownKind(kind) ==
  /\ kind = KindOf(kind.form, kind.tag, kind.complete, kind.type, kind.members)
  /\ kind.form \in {"record", "enum", "function", "variable", "alias"}
  /\ kind.complete \in BOOLEAN
  /\ TypeInv(kind.type)
  /\ \A i \in DOMAIN kind.members : TypeInv(kind.members[i].type)
  /\ ~kind.complete \/ kind.form = "alias" => DOMAIN kind.members = {}

\* A kind is that of every mention lowered so far, or there is a conflict or
\* something that is not supported.  An alias is of what was declared before it.
KindInv(d) ==
  LET kind == drafts[d].kind IN
  /\ kind.form = "none" <=> LoweredOf(d) = {}
  /\ kind.form = "unsupported" => drafts[d].support # Supported
  /\ kind.form \notin {"none", "unsupported"} =>
       /\ KnownKind(kind)
       /\ \A k \in LoweredOf(d) : FormOfKind(Mentions[k]) = kind.form
       /\ kind.form = "alias" /\ kind.type.base.as = "alias" =>
            First(kind.type.base.to) < First(d)

\* Before it is mapped: an occurrence for each mention that was lowered, told
\* from those with the same tokens by its ordinal.
OccurrencesInv(d) ==
  LET occurrences == drafts[d].occurrences IN
  /\ IsFiniteSet(occurrences)
  /\ \A k \in LoweredOf(d) : \E o \in occurrences : o.range = RangeOf(k)
  /\ \A o \in occurrences :
       /\ \E k \in LoweredOf(d) :
            o = [range |-> RangeOf(k), tokens |-> <<o.tokens[1], o.tokens[2]>>,
                 origin |-> "Generated", chain |-> <<>>, attrsOk |-> o.attrsOk]
       /\ o.tokens[2] \in Nat
       /\ o.tokens[2] < Cardinality({x \in occurrences : x.tokens[1] = o.tokens[1]})
  /\ \A o1, o2 \in occurrences : o1.tokens = o2.tokens => o1 = o2

\* Before they are mapped: the members stand within one mention.
StandIn(members, k) ==
  \A i \in DOMAIN members :
    /\ i \in DOMAIN Mentions[k].members
    /\ members[i] = [name |-> members[i].name, type |-> members[i].type,
                      range |-> MemberAt(k, i), support |-> members[i].support]

MembersInv(d) ==
  LET kind == drafts[d].kind IN
  kind.form \notin {"none", "unsupported"} => \E k \in LoweredOf(d) : StandIn(kind.members, k)

\* A range of the generated text that something has.
IsWritten(range) ==
  \E k \in DOMAIN Mentions :
    \/ range = RangeOf(k)
    \/ \E i \in DOMAIN Mentions[k].members : range = MemberAt(k, i)

DiagnosticsInv ==
  \A g \in diagnostics :
    /\ g = Bound(g.decl, g.code, g.error, g.range)
    /\ g.decl \in Indexed /\ drafts[g.decl].support # Supported
    /\ IsWritten(g.range)

LoweringInv ==
  /\ \A d \in Indexed : OccurrencesInv(d) /\ MembersInv(d)
  /\ DiagnosticsInv

SaidInv == \A d \in Indexed : drafts[d].support # Supported => \E g \in diagnostics : g.decl = d

\* Nothing was left in the generated text.
AllMapped ==
  /\ unit.traced
  /\ \A k \in DOMAIN Mentions : IsMapped(RangeOf(k))
  /\ \A span \in unit.skipped : IsMapped(span)

RoleOf(file) == IF file = Generated THEN "Generated" ELSE FileRole[file]

\* A range of a file that was read, or of the generated text if that is kept.
IsPlaced(range) ==
  /\ range.file \in DOMAIN FileRole \cup {Generated}
  /\ range.start \in Nat /\ range.end \in 0..FileLength /\ range.start < range.end
  /\ AllMapped => range.file # Generated

PlacedDraft(d) ==
  LET occurrences == drafts[d].occurrences
      members == MembersKept(drafts[d].kind) IN
  /\ \A k \in LoweredOf(d) : \E o \in occurrences :
       ~unit.traced \/ ~IsMapped(RangeOf(k)) => o.range.file = Generated
  /\ \A o \in occurrences :
       /\ IsPlaced(o.range) /\ o.origin = RoleOf(o.range.file)
       /\ \A i \in DOMAIN o.chain : /\ IsPlace(o.chain[i].directive)
                                    /\ o.chain[i].included \in DOMAIN FileRole
  /\ \A o1, o2 \in occurrences : o1.tokens = o2.tokens => o1 = o2
  /\ \A i \in DOMAIN members :
       /\ IsPlaced(members[i].range)
       /\ \E o \in occurrences : RangeContains(o.range, members[i].range)

PlacedInv ==
  /\ \A d \in Indexed : PlacedDraft(d)
  /\ \A g \in diagnostics :
       /\ g.impact = "ForcesPartial" /\ g.decl \in Indexed \cup {NoDecl}
       /\ g.decl # NoDecl => drafts[g.decl].support # Supported
       /\ IsPlaced(g.range)
  /\ \A span \in unit.skipped :
       ~unit.traced \/ ~IsMapped(span) => \E g \in diagnostics : g.range = span

Packaged ==
  IF unit.traced /\ IsAccepted(PackageWith(FALSE)) THEN PackageWith(FALSE)
  ELSE IF IsAccepted(PackageWith(TRUE)) THEN PackageWith(TRUE)
  ELSE Without("refused")

IInv ==
  /\ ConfigInv
  /\ PointersInv
  /\ \A d \in Indexed : KindInv(d)
  /\ phase \in {"lower", "remap"} => LoweringInv
  /\ phase \in {"remap", "package", "done"} => SaidInv
  /\ phase \in {"package", "done"} => PlacedInv
  /\ phase = "done" => package = Packaged

-----------------------------------------------------------------------------
(* Numbers *)

\* By the order of the initial intervals: the library's induction on numbers
\* takes an operator.
LEMMA LeastExists ==
  ASSUME NEW T, T \subseteq Nat, T # {}
  PROVE  \E i \in T : \A j \in T : i <= j
<1> DEFINE below == {0..i : i \in T}
<1>1. below \subseteq FiniteSubsetsOf(Nat) /\ below # {}
  <2>1. ASSUME NEW i \in T
        PROVE  0..i \in SUBSET Nat /\ IsFiniteSet(0..i)
    BY FS_Interval
  <2> QED
    BY <2>1 DEF FiniteSubsetsOf
<1>2. PICK m \in below : \A x \in below : <<x, m>> \notin StrictSubsetOrdering(Nat)
  <2> DEFINE order == StrictSubsetOrdering(Nat)
             all   == FiniteSubsetsOf(Nat)
  <2>1. IsWellFoundedOn(order, all)
    BY FS_StrictSubsetOrderingWellFounded
  <2> HIDE DEF order, all, below
  <2>2. \E m \in below : \A x \in below : ~(<<x, m>> \in order)
    BY <1>1, <2>1, WFMin DEF all
  <2> QED
    BY <2>2 DEF order
<1>3. PICK i \in T : m = 0..i
  BY <1>2
<1>4. ASSUME NEW j \in T, j < i
      PROVE  FALSE
  <2>1. 0..j \in below /\ 0..j \subseteq Nat /\ m \subseteq Nat
    BY <1>3
  <2>2. 0..j \subseteq m /\ 0..j # m
    <3>1. i \in m /\ i \notin 0..j
      BY <1>3, <1>4
    <3> QED
      BY <1>3, <1>4, <3>1
  <2> QED
    BY <1>2, <2>1, <2>2 DEF StrictSubsetOrdering
<1> QED
  BY <1>4

LEMMA MinIsLeast ==
  ASSUME NEW T, T \subseteq Nat, T # {}
  PROVE  Min(T) \in T /\ \A n \in T : Min(T) <= n
BY LeastExists DEF Min

\* The greatest below a bound is the least distance from it.
LEMMA GreatestExists ==
  ASSUME NEW b \in Nat, NEW T, T \subseteq 0..b, T # {}
  PROVE  \E i \in T : \A j \in T : j <= i
<1> DEFINE far == {b - i : i \in T}
<1>1. far \subseteq Nat /\ far # {}
  <2>1. \A i \in T : b - i \in Nat
    OBVIOUS
  <2>2. \E i \in T : b - i \in far
    OBVIOUS
  <2> QED BY <2>1, <2>2
<1>2. PICK n \in far : \A x \in far : n <= x
  <2> HIDE DEF far
  <2> QED BY <1>1, LeastExists
<1>3. PICK i \in T : n = b - i
  BY <1>2
<1>4. \A j \in T : b - i <= b - j
  BY <1>2, <1>3
<1> QED
  BY <1>4

LEMMA MaxIsGreatest ==
  ASSUME NEW b \in Nat, NEW T, T \subseteq 0..b, T # {}
  PROVE  Max(T) \in T /\ \A n \in T : n <= Max(T)
<1>1. \E i \in T : \A j \in T : i >= j
  BY GreatestExists
<1>2. Max(T) \in T /\ \A n \in T : Max(T) >= n
  BY <1>1 DEF Max
<1> QED
  BY <1>2

-----------------------------------------------------------------------------
(* Statuses *)

\* The first fault is a fault.
LEMMA FaultIsFound ==
  ASSUME NEW statuses, DOMAIN statuses \subseteq Nat
  PROVE  FirstFault(statuses) = Supported
           <=> \A i \in DOMAIN statuses : statuses[i] = Supported
<1> DEFINE faults == {i \in DOMAIN statuses : statuses[i] # Supported}
<1>1. CASE faults = {}
  BY <1>1 DEF FirstFault
<1>2. CASE faults # {}
  <2>1. Min(faults) \in faults
    <3>1. faults \subseteq Nat
      OBVIOUS
    <3> HIDE DEF faults
    <3> QED BY <1>2, <3>1, MinIsLeast
  <2> QED BY <1>2, <2>1 DEF FirstFault
<1> QED
  BY <1>1, <1>2

LEMMA FaultsDiffer ==
  \A code : PartialAs(code) # Supported /\ UnsupportedAs(code) # Supported
BY DEF PartialAs, UnsupportedAs, Supported

-----------------------------------------------------------------------------
(* Units *)

LEMMA UnitFacts ==
  ASSUME unit \in Units
  PROVE  /\ Len(Mentions) \in Nat /\ DOMAIN Mentions = 1..Len(Mentions)
         /\ 10 * Len(Mentions) + 9 <= FileLength
         /\ \A k \in DOMAIN Mentions : IsMention(Mentions[k], Mentions, k)
         /\ unit.traced \in BOOLEAN
         /\ \A s \in unit.segments : IsSegment(s)
         /\ \A span \in unit.skipped : IsSpan(span)
         /\ unit.traced => \A k \in DOMAIN Mentions : \A i \in DOMAIN Mentions[k].members :
                             Met(MemberAt(k, i)) # {}
<1>1. IsUnit(unit)
  BY UnitsAssumption
<1>2. Mentions \in Seq({Mentions[k] : k \in DOMAIN Mentions})
  BY <1>1 DEF IsUnit, Mentions
<1>3. Len(Mentions) \in Nat /\ DOMAIN Mentions = 1..Len(Mentions)
  BY <1>2, LenProperties
<1>4. ASSUME unit.traced, NEW k \in DOMAIN Mentions, NEW i \in DOMAIN Mentions[k].members
      PROVE  Met(MemberAt(k, i)) # {}
  <2>1. PICK s \in unit.segments : s.start < 10 * k + i + 1 /\ s.end > 10 * k + i
    BY <1>1, <1>4 DEF IsUnit, Mentions
  <2> QED BY <2>1 DEF Met, MemberAt
<1> QED
  BY <1>1, <1>3, <1>4 DEF IsUnit, Mentions

LEMMA MemberPlaces ==
  ASSUME unit \in Units, NEW k \in DOMAIN Mentions
  PROVE  /\ k \in 1..Len(Mentions)
         /\ \E n \in 0..8 : DOMAIN Mentions[k].members = 1..n
         /\ DOMAIN Mentions[k].members \subseteq 1..8
<1>1. k \in 1..Len(Mentions) /\ IsMention(Mentions[k], Mentions, k)
  BY UnitFacts
<1>2. PICK n \in 0..8 : DOMAIN Mentions[k].members = 1..n
  BY <1>1 DEF IsMention, MaxMembers
<1>3. DOMAIN Mentions[k].members \subseteq 1..8
  BY <1>2
<1> QED
  BY <1>1, <1>2, <1>3

\* The members of a mention stand within it, and all of it within the text.
LEMMA RangeFacts ==
  ASSUME unit \in Units, NEW k \in DOMAIN Mentions
  PROVE  /\ RangeOf(k).file = Generated
         /\ RangeOf(k).start \in Nat /\ RangeOf(k).end \in 0..FileLength
         /\ RangeOf(k).start < RangeOf(k).end
         /\ \A i \in DOMAIN Mentions[k].members :
              /\ MemberAt(k, i).file = Generated
              /\ MemberAt(k, i).start \in Nat /\ MemberAt(k, i).end \in 0..FileLength
              /\ MemberAt(k, i).start < MemberAt(k, i).end
              /\ RangeContains(RangeOf(k), MemberAt(k, i))
<1>1. k \in 1..Len(Mentions) /\ Len(Mentions) \in Nat /\ 10 * Len(Mentions) + 9 <= FileLength
  BY UnitFacts
<1>2. FileLength \in Nat
  BY UnitsAssumption
<1>3. Mentions[k].inner \in 0..(k - 1)
  BY UnitFacts DEF IsMention
<1>4. DOMAIN Mentions[k].members \subseteq 1..8
  BY MemberPlaces
<1>5. /\ RangeOf(k).file = Generated
      /\ RangeOf(k).start = 10 * (k - Mentions[k].inner) /\ RangeOf(k).end = 10 * k + 9
  BY DEF RangeOf
<1>6. \A i : /\ MemberAt(k, i).file = Generated
             /\ MemberAt(k, i).start = 10 * k + i /\ MemberAt(k, i).end = 10 * k + i + 1
  BY DEF MemberAt
<1>7. /\ RangeOf(k).start \in Nat /\ RangeOf(k).end \in 0..FileLength
      /\ RangeOf(k).start < RangeOf(k).end
  BY <1>1, <1>2, <1>3, <1>5
<1>8. ASSUME NEW i \in DOMAIN Mentions[k].members
      PROVE  /\ MemberAt(k, i).start \in Nat /\ MemberAt(k, i).end \in 0..FileLength
             /\ MemberAt(k, i).start < MemberAt(k, i).end
             /\ RangeContains(RangeOf(k), MemberAt(k, i))
  <2>1. i \in 1..8
    BY <1>4
  <2>2. MemberAt(k, i).start \in Nat /\ MemberAt(k, i).end \in 0..FileLength
    BY <1>1, <1>2, <1>6, <2>1
  <2>3. RangeOf(k).start <= MemberAt(k, i).start /\ MemberAt(k, i).end <= RangeOf(k).end
    <3>1. \A n \in 0..(k - 1) : 10 * (k - n) <= 10 * k + i /\ 10 * k + i + 1 <= 10 * k + 9
      BY <1>1, <2>1
    <3> QED BY <1>3, <1>5, <1>6, <3>1
  <2> QED BY <1>5, <1>6, <2>1, <2>2, <2>3 DEF RangeContains
<1> QED
  BY <1>5, <1>6, <1>7, <1>8

-----------------------------------------------------------------------------
(* The map of the segments *)

\* A mapped range is a place of one file, and spans what every segment it meets
\* was read from.
LEMMA MapFacts ==
  ASSUME unit \in Units, NEW range, IsMapped(range)
  PROVE  /\ IsPlace(MapRange(range))
         /\ MapRange(range) = [file |-> MapRange(range).file, start |-> MapRange(range).start,
                               end |-> MapRange(range).end]
         /\ \A s \in Met(range) : /\ s.anchor.file = MapRange(range).file
                                  /\ MapRange(range).start <= s.anchor.start
                                  /\ s.anchor.end <= MapRange(range).end
         /\ \E s \in Met(range) : s.anchor.start = MapRange(range).start
         /\ \E s \in Met(range) : s.anchor.end = MapRange(range).end
<1> DEFINE anchors == {s.anchor : s \in Met(range)}
           starts == {a.start : a \in anchors}
           ends == {a.end : a \in anchors}
<1>1. Met(range) # {} /\ \A s \in Met(range) : IsSegment(s)
  BY UnitFacts DEF IsMapped, Met
<1>2. \A a \in anchors : IsPlace(a)
  BY <1>1 DEF IsSegment
<1>3. FileLength \in Nat
  BY UnitsAssumption
<1>4. starts \subseteq Nat /\ starts # {} /\ ends \subseteq 0..FileLength /\ ends # {}
  BY <1>1, <1>2 DEF IsPlace
<1>5. /\ Min(starts) \in starts /\ \A n \in starts : Min(starts) <= n
      /\ Max(ends) \in ends /\ \A n \in ends : n <= Max(ends)
  <2> HIDE DEF starts, ends
  <2> QED BY <1>3, <1>4, MinIsLeast, MaxIsGreatest
<1>6. MapRange(range) = [file |-> (CHOOSE a \in anchors : TRUE).file,
                         start |-> Min(starts), end |-> Max(ends)]
  BY DEF MapRange
<1>7. MapRange(range).start = Min(starts) /\ MapRange(range).end = Max(ends)
  <2> HIDE DEF starts, ends, anchors
  <2> QED BY <1>6
<1>8. PICK first \in Met(range) : first.anchor = CHOOSE a \in anchors : TRUE
  <2>1. (CHOOSE a \in anchors : TRUE) \in anchors
    BY <1>1
  <2> QED BY <2>1
<1>9. MapRange(range).file = first.anchor.file
  BY <1>6, <1>8
<1>10. \A s \in Met(range) : s.anchor.file = first.anchor.file
  BY DEF IsMapped
<1>11. PICK s1 \in Met(range) : s1.anchor.start = MapRange(range).start
  <2>1. \A n \in starts : \E s \in Met(range) : s.anchor.start = n
    OBVIOUS
  <2> HIDE DEF starts
  <2> QED BY <1>5, <1>7, <2>1
<1>12. PICK s2 \in Met(range) : s2.anchor.end = MapRange(range).end
  <2>1. \A n \in ends : \E s \in Met(range) : s.anchor.end = n
    OBVIOUS
  <2> HIDE DEF ends
  <2> QED BY <1>5, <1>7, <2>1
<1>13. \A s \in Met(range) : /\ MapRange(range).start <= s.anchor.start
                             /\ s.anchor.end <= MapRange(range).end
  BY <1>5, <1>6
<1>14. IsPlace(MapRange(range))
  <2>1. IsPlace(s1.anchor) /\ IsPlace(s2.anchor)
    BY <1>2
  <2>2. s1.anchor.end <= s2.anchor.end
    BY <1>12, <1>13
  <2>3. s1.anchor.start < s2.anchor.end
    BY <2>1, <2>2, <1>3 DEF IsPlace
  <2> QED BY <1>9, <1>10, <1>11, <1>12, <2>1, <2>3 DEF IsPlace
<1> QED
  BY <1>6, <1>9, <1>10, <1>11, <1>12, <1>13, <1>14

\* What stands within a range that is mapped is mapped into the same place.
LEMMA MapsWithin ==
  ASSUME unit \in Units, unit.traced,
         NEW k \in DOMAIN Mentions, NEW i \in DOMAIN Mentions[k].members,
         IsMapped(RangeOf(k))
  PROVE  /\ IsMapped(MemberAt(k, i))
         /\ RangeContains(MapRange(RangeOf(k)), MapRange(MemberAt(k, i)))
<1>1. Met(MemberAt(k, i)) # {}
  BY UnitFacts
<1>2. Met(MemberAt(k, i)) \subseteq Met(RangeOf(k))
  <2>1. /\ RangeOf(k).start \in Nat /\ RangeOf(k).end \in Nat
        /\ MemberAt(k, i).start \in Nat /\ MemberAt(k, i).end \in Nat
        /\ RangeOf(k).start <= MemberAt(k, i).start /\ MemberAt(k, i).end <= RangeOf(k).end
    BY RangeFacts, UnitsAssumption DEF RangeContains
  <2>2. \A s \in unit.segments : s.start \in Nat /\ s.end \in Nat
    BY UnitFacts DEF IsSegment
  <2> QED BY <2>1, <2>2 DEF Met
<1>3. IsMapped(MemberAt(k, i))
  BY <1>1, <1>2 DEF IsMapped
<1>4. PICK s1 \in Met(MemberAt(k, i)) : s1.anchor.start = MapRange(MemberAt(k, i)).start
  BY <1>3, MapFacts
<1>5. PICK s2 \in Met(MemberAt(k, i)) : s2.anchor.end = MapRange(MemberAt(k, i)).end
  BY <1>3, MapFacts
<1>6. MapRange(MemberAt(k, i)).file = s1.anchor.file
  BY <1>3, MapFacts
<1>7. /\ s1.anchor.file = MapRange(RangeOf(k)).file
      /\ MapRange(RangeOf(k)).start <= s1.anchor.start
      /\ s2.anchor.end <= MapRange(RangeOf(k)).end
  BY <1>2, MapFacts
<1> QED
  BY <1>3, <1>4, <1>5, <1>6, <1>7 DEF RangeContains

-----------------------------------------------------------------------------
(* Mentions *)

LEMMA MentionFacts ==
  ASSUME unit \in Units, NEW k \in DOMAIN Mentions
  PROVE  /\ k \in Nat /\ Mentions[k].d \in Indexed /\ Mentions[k].d \in Ids
         /\ Mentions[k].d # NoDecl
         /\ Mentions[k].body \in BOOLEAN /\ Mentions[k].static \in BOOLEAN
         /\ Mentions[k].form \in Forms /\ Mentions[k].flaw \in FlawCodes
         /\ IsTag(Mentions[k]) /\ ~Mentions[k].body => DOMAIN Mentions[k].members = {}
         /\ Mentions[k].static => Mentions[k].form = "object"
<1>1. IsMention(Mentions[k], Mentions, k) /\ k \in Nat
  BY UnitFacts
<1>2. Mentions[k].d \in Ids
  BY <1>1 DEF IsMention
<1>3. Mentions[k].d # NoDecl
  BY <1>2, UnitsAssumption
<1>4. IsTag(Mentions[k]) /\ ~Mentions[k].body => DOMAIN Mentions[k].members = {}
  <2>1. DOMAIN (<< >>) = {}
    OBVIOUS
  <2> QED BY <1>1, <2>1 DEF IsMention
<1> QED
  BY <1>1, <1>2, <1>3, <1>4 DEF IsMention, Indexed

LEMMA FirstFacts ==
  ASSUME unit \in Units, NEW d \in Indexed
  PROVE  /\ First(d) \in DOMAIN Mentions /\ Mentions[First(d)].d = d
         /\ \A k \in DOMAIN Mentions : Mentions[k].d = d => First(d) <= k
<1> DEFINE T == {k \in DOMAIN Mentions : Mentions[k].d = d}
<1>1. T \subseteq Nat /\ T # {}
  <2>1. \A k \in DOMAIN Mentions : k \in Nat
    BY UnitFacts
  <2> QED BY <2>1 DEF Indexed
<1>2. Min(T) \in T /\ \A n \in T : Min(T) <= n
  <2> HIDE DEF T
  <2> QED BY <1>1, MinIsLeast
<1>3. First(d) = Min(T)
  BY DEF First
<1> QED
  BY <1>2, <1>3

LEMMA FirstMentionIsAt ==
  ASSUME unit \in Units, NEW d \in Indexed
  PROVE  FirstMention(d) = Mentions[First(d)]
<1> DEFINE P(k) == Mentions[k].d = d /\ \A j \in 1..(k - 1) : Mentions[j].d # d
<1>1. DOMAIN Mentions = 1..Len(Mentions) /\ Len(Mentions) \in Nat
  BY UnitFacts
<1>2. First(d) \in DOMAIN Mentions /\ P(First(d))
  BY <1>1, FirstFacts
<1>3. \A k \in DOMAIN Mentions : P(k) => k = First(d)
  <2> SUFFICES ASSUME NEW k \in DOMAIN Mentions, P(k), k # First(d) PROVE FALSE
    OBVIOUS
  <2>1. First(d) <= k /\ First(d) \in Nat /\ k \in Nat
    BY <1>1, FirstFacts
  <2>2. First(d) \in 1..(k - 1)
    BY <1>1, <1>2, <2>1
  <2> QED BY <1>2, <2>2
<1>4. (CHOOSE k \in DOMAIN Mentions : P(k)) = First(d)
  <2> HIDE DEF P
  <2> QED BY <1>2, <1>3
<1> QED
  BY <1>4 DEF FirstMention

\* What a mention or a member of it names was mentioned as such.
LEMMA BaseFacts ==
  ASSUME unit \in Units, NEW k \in DOMAIN Mentions,
         NEW x \in {Mentions[k]} \cup {Mentions[k].members[i] : i \in DOMAIN Mentions[k].members}
  PROVE  /\ x.restrict \in BOOLEAN
         /\ x.base.as \in DOMAIN FormsOf /\ (x.base.as = "scalar" <=> x.base.to = NoDecl)
         /\ x.base.to \in Indexed =>
              \E j \in DOMAIN Mentions : /\ Mentions[j].d = x.base.to
                                         /\ Mentions[j].form \in FormsOf[x.base.as]
                                         /\ x.base.as = "alias" => j < k
<1>1. IsMention(Mentions[k], Mentions, k)
  BY UnitFacts
<1>2. x.restrict \in BOOLEAN /\ IsBase(x.base, Mentions, k)
  BY <1>1 DEF IsMention
<1> QED
  BY <1>2 DEF IsBase, Indexed

LEMMA NewType ==
  ASSUME unit \in Units, PointersInv, NEW k \in DOMAIN Mentions,
         NEW x \in {Mentions[k]} \cup {Mentions[k].members[i] : i \in DOMAIN Mentions[k].members},
         NEW layers
  PROVE  LET type == FinishType(x, layers) IN
         /\ TypeInv(type)
         /\ type.base.as = "alias" => type.base.to \in Indexed /\ First(type.base.to) < k
<1> DEFINE type == FinishType(x, layers)
           whole == TypeOver(BaseType(x.base), layers, x.restrict)
<1> SUFFICES /\ TypeInv(type)
             /\ type.base.as = "alias" => type.base.to \in Indexed /\ First(type.base.to) < k
  OBVIOUS
<1>1. /\ x.restrict \in BOOLEAN /\ x.base.as \in DOMAIN FormsOf
      /\ x.base.as = "scalar" <=> x.base.to = NoDecl
  BY BaseFacts
<1>2. BaseType(x.base) = NoBase \/ (BaseType(x.base) = x.base /\ x.base.to \in Indexed \cup {NoDecl})
  BY DEF BaseType
<1>3. NoBase.as = "none" /\ NoBase.to = NoDecl
  BY DEF NoBase
<1>4. DOMAIN FormsOf = {"alias", "record", "enum", "scalar"}
  BY DEF FormsOf
<1>5. /\ whole.base = BaseType(x.base) /\ whole.layers = layers /\ whole.restrict = x.restrict
      /\ whole = TypeOver(whole.base, whole.layers, whole.restrict)
  BY DEF TypeOver
<1>6. CASE x.restrict /\ ~IsPointer(whole)
  <2>1. type = TypeOver(NoBase, <<>>, FALSE)
    BY <1>6 DEF FinishType
  <2>2. /\ type.base = NoBase /\ type.restrict = FALSE
        /\ type = TypeOver(type.base, type.layers, type.restrict)
    BY <2>1 DEF TypeOver
  <2>3. type.base.as = "none" /\ type.base.to = NoDecl
    BY <1>3, <2>2
  <2> HIDE DEF type
  <2> QED BY <2>2, <2>3 DEF TypeInv
<1>7. CASE ~(x.restrict /\ ~IsPointer(whole))
  <2>1. type = whole
    BY <1>7 DEF FinishType
  <2>2. ASSUME whole.base.to # NoDecl
        PROVE  /\ whole.base.as \in {"alias", "record", "enum"}
               /\ \E j \in DOMAIN Mentions : /\ Mentions[j].d = whole.base.to
                                             /\ Mentions[j].form \in FormsOf[whole.base.as]
    BY <1>1, <1>2, <1>3, <1>4, <1>5, <2>2, BaseFacts
  <2>3. whole.base.as = "alias" => whole.base.to # NoDecl /\ whole.base.to \in Indexed
    BY <1>1, <1>2, <1>3, <1>5
  <2>4. whole.base.as = "alias" => First(whole.base.to) < k
    <3> SUFFICES ASSUME whole.base.as = "alias" PROVE First(whole.base.to) < k
      OBVIOUS
    <3>1. whole.base = x.base
      BY <1>2, <1>3, <1>5
    <3>2. PICK j \in DOMAIN Mentions : Mentions[j].d = whole.base.to /\ j < k
      BY <2>3, <3>1, BaseFacts
    <3>3. First(whole.base.to) <= j /\ First(whole.base.to) \in DOMAIN Mentions
      BY <2>3, <3>2, FirstFacts
    <3> QED BY <3>2, <3>3, UnitFacts
  <2>5. whole.restrict /\ whole.layers = <<>> =>
          whole.base.as = "alias" /\ EndsAtPointer(whole.base.to)
    BY <1>5, <1>7 DEF IsPointer, PointersInv
  <2>6. whole.base.as \in DOMAIN FormsOf \cup {"none"}
    BY <1>1, <1>2, <1>3, <1>5
  <2> HIDE DEF whole, type
  <2> QED BY <1>1, <1>5, <2>1, <2>2, <2>3, <2>4, <2>5, <2>6 DEF TypeInv
<1> QED
  BY <1>6, <1>7

-----------------------------------------------------------------------------
(* The kind a mention lowers to *)

LEMMA NewMembers ==
  ASSUME unit \in Units, PointersInv, NEW k \in DOMAIN Mentions
  PROVE  LET members == MembersOf(Mentions[k], k) IN
         /\ DOMAIN members = DOMAIN Mentions[k].members
         /\ StandIn(members, k)
         /\ \A i \in DOMAIN members : TypeInv(members[i].type)
<1> DEFINE m == Mentions[k]
           members == MembersOf(m, k)
<1>1. /\ DOMAIN members = DOMAIN m.members
      /\ \A i \in DOMAIN m.members : members[i] = Member(m, k, i)
  BY DEF MembersOf
<1>2. ASSUME NEW i \in DOMAIN m.members
      PROVE  /\ Member(m, k, i).type = FinishType(m.members[i], Lowered(m.members[i].levels))
             /\ Member(m, k, i) = [name |-> Member(m, k, i).name, type |-> Member(m, k, i).type,
                                   range |-> MemberAt(k, i), support |-> Member(m, k, i).support]
  BY DEF Member
<1>3. ASSUME NEW i \in DOMAIN m.members
      PROVE  TypeInv(Member(m, k, i).type)
  BY <1>2, NewType
<1> QED
  BY <1>1, <1>2, <1>3 DEF StandIn

LEMMA SupportOfKinds ==
  ASSUME NEW kind, kind.form # "unsupported",
         NEW n \in Nat, DOMAIN kind.members = 1..n,
         NEW i \in DOMAIN kind.members, kind.members[i].support # Supported
  PROVE  KindSupport(kind) # Supported
<1> DEFINE rest == [j \in DOMAIN kind.members |-> kind.members[j].support]
           all == <<kind.type.base.support>> \o rest
<1>1. KindSupport(kind) = FirstFault(all)
  BY DEF KindSupport
<1>2. rest \in Seq({kind.members[j].support : j \in DOMAIN kind.members}) /\ Len(rest) = n
  OBVIOUS
<1>3. <<kind.type.base.support>> \in Seq({kind.type.base.support})
  OBVIOUS
<1>4. DOMAIN all \subseteq Nat /\ 1 + i \in DOMAIN all /\ all[1 + i] = kind.members[i].support
  OBVIOUS
<1> HIDE DEF all
<1> QED
  BY <1>1, <1>4, FaultIsFound

LEMMA NewKind ==
  ASSUME unit \in Units, PointersInv, NEW k \in DOMAIN Mentions
  PROVE  LET kind == LowerKind(Mentions[k], k) IN
         /\ kind.form \in {FormOfKind(Mentions[k]), "unsupported"}
         /\ kind.form = "unsupported" => KindSupport(kind) # Supported
         /\ kind.form # "unsupported" => KnownKind(kind) /\ StandIn(kind.members, k)
         /\ kind.form = "alias" /\ kind.type.base.as = "alias" =>
              kind.type.base.to \in Indexed /\ First(kind.type.base.to) < k
         /\ Unsized(Mentions[k], k) # {} => KindSupport(kind) # Supported
<1> DEFINE m == Mentions[k]
           kind == LowerKind(m, k)
<1> SUFFICES /\ kind.form \in {FormOfKind(m), "unsupported"}
             /\ kind.form = "unsupported" => KindSupport(kind) # Supported
             /\ kind.form # "unsupported" => KnownKind(kind) /\ StandIn(kind.members, k)
             /\ kind.form = "alias" /\ kind.type.base.as = "alias" =>
                  kind.type.base.to \in Indexed /\ First(kind.type.base.to) < k
             /\ Unsized(m, k) # {} => KindSupport(kind) # Supported
  OBVIOUS
<1>1. m.form \in {"struct", "union", "enum", "typedef", "object"}
  BY MentionFacts DEF Forms
<1>2. \A form, tag, complete, type, members :
        LET x == KindOf(form, tag, complete, type, members) IN
        /\ x = KindOf(x.form, x.tag, x.complete, x.type, x.members)
        /\ x.form = form /\ x.complete = complete /\ x.type = type /\ x.members = members
  BY DEF KindOf
<1>3. \A code, tokens : /\ Unsupported(code, tokens).form = "unsupported"
                        /\ KindSupport(Unsupported(code, tokens)) # Supported
  BY FaultsDiffer DEF Unsupported, KindSupport
<1>4. /\ DOMAIN (<< >>) = {}
      /\ StandIn(<< >>, k) /\ \A i \in DOMAIN << >> : TypeInv(<< >>[i].type)
  BY DEF StandIn
<1>5. LET members == MembersOf(m, k) IN
      /\ DOMAIN members = DOMAIN m.members /\ StandIn(members, k)
      /\ \A i \in DOMAIN members : TypeInv(members[i].type)
  BY NewMembers
<1>6. \A layers : LET type == FinishType(m, layers) IN
        /\ TypeInv(type)
        /\ type.base.as = "alias" => type.base.to \in Indexed /\ First(type.base.to) < k
  BY NewType
<1>7. CASE IsTag(m)
  <2>1. m.form \in {"struct", "union", "enum"}
    BY <1>7 DEF IsTag
  <2>2. kind = KindOf(IF m.form = "enum" THEN "enum" ELSE "record", m.form, m.body, NoType,
                      MembersOf(m, k))
    <3>1. LowerKind(m, k) = TagKind(m, k)
      BY <1>7, <2>1 DEF LowerKind
    <3> QED BY <3>1 DEF TagKind
  <2>3. TypeInv(NoType)
    <3>1. /\ NoType.base.as = "scalar" /\ NoType.base.to = NoDecl /\ NoType.restrict = FALSE
          /\ NoType = TypeOver(NoType.base, NoType.layers, NoType.restrict)
      BY DEF NoType, TypeOver
    <3> QED BY <3>1 DEF TypeInv, FormsOf
  <2>4. FormOfKind(m) = IF m.form = "enum" THEN "enum" ELSE "record"
    BY <2>1 DEF FormOfKind
  <2>5. ~m.body => DOMAIN MembersOf(m, k) = {}
    BY <1>5, <1>7, MentionFacts
  <2>6. m.body \in BOOLEAN
    BY MentionFacts
  <2>7. /\ kind.form = FormOfKind(m) /\ kind.form \in {"record", "enum"}
        /\ kind.complete = m.body /\ kind.type = NoType /\ kind.members = MembersOf(m, k)
        /\ kind = KindOf(kind.form, kind.tag, kind.complete, kind.type, kind.members)
    BY <1>2, <2>2, <2>4
  <2>8. KnownKind(kind)
    <3> HIDE DEF kind
    <3> QED BY <1>5, <2>3, <2>5, <2>6, <2>7 DEF KnownKind
  <2>9. ASSUME Unsized(m, k) # {}
        PROVE  KindSupport(kind) # Supported
    <3>1. PICK i \in DOMAIN m.members : IsUnsized(m, i)
      BY <2>9 DEF Unsized
    <3>2. MembersOf(m, k)[i].support = UnsupportedAs("E1212")
      BY <3>1 DEF MembersOf, Member
    <3>3. PICK n \in 0..8 : DOMAIN m.members = 1..n
      BY MemberPlaces
    <3>4. kind.members[i].support # Supported /\ i \in DOMAIN kind.members
      BY <1>5, <2>7, <3>2, FaultsDiffer
    <3>5. DOMAIN kind.members = 1..n /\ n \in Nat /\ kind.form # "unsupported"
      BY <1>5, <2>7, <3>3
    <3> HIDE DEF kind
    <3> QED BY <3>4, <3>5, SupportOfKinds
  <2> HIDE DEF kind
  <2> QED BY <1>5, <2>7, <2>8, <2>9
<1>8. ASSUME m.form \in {"typedef", "object"}
      PROVE  Unsized(m, k) = {}
  BY <1>8 DEF Unsized, IsUnsized
<1>9. CASE m.form = "typedef"
  <2>1. kind = KindOf("alias", "", TRUE, FinishType(m, Lowered(m.levels)), <<>>)
    BY <1>9 DEF LowerKind, IsTag
  <2> HIDE DEF kind
  <2>2. /\ kind.form = "alias" /\ kind.complete = TRUE
        /\ kind.type = FinishType(m, Lowered(m.levels)) /\ kind.members = <<>>
        /\ kind = KindOf(kind.form, kind.tag, kind.complete, kind.type, kind.members)
    BY <2>1 DEF KindOf
  <2>3. FormOfKind(m) = "alias"
    BY <1>9 DEF FormOfKind
  <2>4. KnownKind(kind)
    BY <1>4, <1>6, <2>2 DEF KnownKind
  <2> QED BY <1>4, <1>6, <1>8, <1>9, <2>2, <2>3, <2>4
<1>10. CASE m.form = "object" /\ IsFunction(m.levels)
  <2>1. kind = FunctionKind(m, k)
    BY <1>10 DEF LowerKind, IsTag
  <2>2. FormOfKind(m) = "function"
    BY <1>10 DEF FormOfKind
  <2>3. CASE m.flaw \in {"E1214", "E1211"}
    <3>1. kind = Unsupported(m.flaw, m.tokens)
      BY <2>1, <2>3 DEF FunctionKind
    <3>2. kind.form = "unsupported" /\ KindSupport(kind) # Supported
      BY <1>3, <3>1
    <3> HIDE DEF kind
    <3> QED BY <3>2
  <2>4. CASE m.flaw \notin {"E1214", "E1211"}
    <3>1. kind = KindOf("function", "", TRUE, FinishType(m, Returned(m.levels)), MembersOf(m, k))
      BY <2>1, <2>4 DEF FunctionKind
    <3> HIDE DEF kind
    <3>2. /\ kind.form = "function" /\ kind.complete = TRUE
          /\ kind.type = FinishType(m, Returned(m.levels)) /\ kind.members = MembersOf(m, k)
          /\ kind = KindOf(kind.form, kind.tag, kind.complete, kind.type, kind.members)
      BY <3>1 DEF KindOf
    <3>3. KnownKind(kind)
      BY <1>5, <1>6, <3>2 DEF KnownKind
    <3> QED BY <1>5, <1>8, <1>10, <2>2, <3>2, <3>3
  <2> QED BY <2>3, <2>4
<1>11. CASE m.form = "object" /\ ~IsFunction(m.levels)
  <2>1. kind = ObjectKind(m)
    BY <1>11 DEF LowerKind, IsTag
  <2>2. FormOfKind(m) = "variable"
    BY <1>11 DEF FormOfKind
  <2>3. CASE m.flaw = "E1211"
    <3>1. kind = Unsupported(m.flaw, m.tokens)
      BY <2>1, <2>3 DEF ObjectKind
    <3>2. kind.form = "unsupported" /\ KindSupport(kind) # Supported
      BY <1>3, <3>1
    <3> HIDE DEF kind
    <3> QED BY <3>2
  <2>4. CASE m.flaw # "E1211"
    <3>1. kind = KindOf("variable", "", TRUE, FinishType(m, Lowered(m.levels)), <<>>)
      BY <2>1, <2>4 DEF ObjectKind
    <3> HIDE DEF kind
    <3>2. /\ kind.form = "variable" /\ kind.complete = TRUE
          /\ kind.type = FinishType(m, Lowered(m.levels)) /\ kind.members = <<>>
          /\ kind = KindOf(kind.form, kind.tag, kind.complete, kind.type, kind.members)
      BY <3>1 DEF KindOf
    <3>3. KnownKind(kind)
      BY <1>4, <1>6, <3>2 DEF KnownKind
    <3> QED BY <1>4, <1>8, <1>11, <2>2, <3>2, <3>3
  <2> QED BY <2>3, <2>4
<1> QED
  BY <1>1, <1>7, <1>9, <1>10, <1>11 DEF IsTag

-----------------------------------------------------------------------------
(* What lowering a mention makes of the draft of its declaration *)

LEMMA Redeclared ==
  ASSUME NEW left, NEW right
  PROVE  LET action == RedeclarationAction(left, right) IN
         /\ action \in {"Keep", "Replace", "Conflict"}
         /\ left.form = "none" => action = "Replace"
         /\ action = "Keep" => left.form = right.form
         /\ action = "Replace" /\ left.form # "none" =>
              left.form = right.form /\ left.form \in {"record", "enum"}
BY DEF RedeclarationAction

LEMMA DraftUpdates ==
  ASSUME NEW occurrences, NEW kind, NEW support, NEW x
  PROVE  LET draft == [occurrences |-> occurrences, kind |-> kind, support |-> support] IN
         /\ [draft EXCEPT !.support = x] = [occurrences |-> occurrences, kind |-> kind, support |-> x]
         /\ [draft EXCEPT !.occurrences = x] = [occurrences |-> x, kind |-> kind, support |-> support]
OBVIOUS

\* What lowering mention m makes of the draft of its declaration.
Lowers(old, m, k, new) ==
  LET kind == LowerKind(m, k)
      action == RedeclarationAction(old.kind, kind)
      same == {o \in old.occurrences : o.tokens[1] = m.tokens} IN
  /\ new = [occurrences |-> new.occurrences, kind |-> new.kind, support |-> new.support]
  /\ new.occurrences = old.occurrences \cup {OccurrenceAt(m, k, Cardinality(same))}
  /\ action \in {"Keep", "Replace", "Conflict"}
  /\ action = "Keep" => new.kind = old.kind /\ old.kind.form = kind.form
  /\ action = "Replace" => new.kind = kind
  /\ action = "Conflict" => new.kind.form = "unsupported" /\ new.support # Supported
  /\ old.kind.form = "none" => action = "Replace"
  /\ action = "Replace" /\ old.kind.form # "none" =>
       old.kind.form = kind.form /\ old.kind.form \in {"record", "enum"}
  /\ old.support # Supported => new.support # Supported
  /\ KindSupport(kind) # Supported => new.support # Supported
  /\ ~IsTag(m) /\ m.flaw # "" => new.support # Supported

LEMMA LoweredDraft ==
  ASSUME NEW draft, NEW m, NEW k, m.flaw \in FlawCodes,
         draft = [occurrences |-> draft.occurrences, kind |-> draft.kind,
                  support |-> draft.support]
  PROVE  LET seen == WithOccurrence(draft, m, k)
             kept == WithKind(seen, LowerKind(m, k)) IN
         /\ seen.kind = draft.kind
         /\ kept.kind = WithFlaw(kept, m).kind
         /\ seen.occurrences = WithFlaw(kept, m).occurrences
         /\ Lowers(draft, m, k, WithFlaw(kept, m))
<1> DEFINE same == {o \in draft.occurrences : o.tokens[1] = m.tokens}
           occurrences == draft.occurrences \cup {OccurrenceAt(m, k, Cardinality(same))}
           seen == WithOccurrence(draft, m, k)
           kind == LowerKind(m, k)
           kept == WithKind(seen, kind)
           lowered == WithFlaw(kept, m)
           action == RedeclarationAction(draft.kind, kind)
           refused == Unsupported("E1204", LastOf(seen.occurrences).tokens[1])
<1>1. seen = [occurrences |-> occurrences, kind |-> draft.kind, support |-> draft.support]
  <2>1. seen = [draft EXCEPT !.occurrences = occurrences]
    BY DEF WithOccurrence
  <2> HIDE DEF occurrences, seen
  <2> QED BY <2>1, DraftUpdates
<1>2. action \in {"Keep", "Replace", "Conflict"}
  <2> HIDE DEF kind
  <2> QED BY Redeclared
<1> HIDE DEF occurrences, seen, kind
<1>3. /\ seen.kind = draft.kind /\ seen.occurrences = occurrences
      /\ seen.support = draft.support
  BY <1>1
<1>4. kept = [seen EXCEPT
        !.kind = CASE action = "Keep" -> @
                   [] action = "Replace" -> kind
                   [] action = "Conflict" -> refused,
        !.support = CASE action = "Conflict" -> UnsupportedAs("E1204")
                      [] action # "Conflict" /\ KindSupport(kind) # Supported -> KindSupport(kind)
                      [] action # "Conflict" /\ KindSupport(kind) = Supported -> @]
  BY <1>3 DEF WithKind
<1> HIDE DEF kept, refused, action
<1>5. /\ kept = [occurrences |-> occurrences, kind |-> kept.kind, support |-> kept.support]
      /\ action = "Keep" => kept.kind = draft.kind
      /\ action = "Replace" => kept.kind = kind
      /\ action = "Conflict" => kept.kind = refused /\ kept.support = UnsupportedAs("E1204")
      /\ action # "Conflict" /\ KindSupport(kind) # Supported => kept.support = KindSupport(kind)
      /\ action # "Conflict" /\ KindSupport(kind) = Supported => kept.support = draft.support
  BY <1>1, <1>2, <1>4
<1>6. refused.form = "unsupported"
  BY DEF refused, Unsupported
<1>7. /\ draft.support # Supported => kept.support # Supported
      /\ KindSupport(kind) # Supported => kept.support # Supported
      /\ action = "Conflict" => kept.support # Supported
  BY <1>5, FaultsDiffer
<1>8. /\ lowered = [occurrences |-> occurrences, kind |-> kept.kind, support |-> lowered.support]
      /\ kept.support # Supported => lowered.support # Supported
      /\ ~IsTag(m) /\ m.flaw # "" => lowered.support # Supported
  <2>1. CASE IsTag(m) \/ m.flaw = ""
    <3>1. lowered = kept
      BY <2>1 DEF WithFlaw
    <3> QED BY <1>5, <2>1, <3>1
  <2>2. CASE m.flaw = "P1205" /\ ~IsTag(m)
    <3> DEFINE now == IF kept.support = Supported THEN PartialAs(m.flaw) ELSE kept.support
    <3>1. lowered = [kept EXCEPT !.support = now]
      BY <2>2 DEF WithFlaw, IsTag
    <3>2. now # Supported
      BY FaultsDiffer
    <3> HIDE DEF now, lowered
    <3>3. lowered = [occurrences |-> occurrences, kind |-> kept.kind, support |-> now]
      BY <1>5, <3>1, DraftUpdates
    <3> QED BY <3>2, <3>3
  <2>3. CASE m.flaw \in {"E1211", "E1214", "E1215", "E1216"} /\ ~IsTag(m)
    <3>1. lowered = [kept EXCEPT !.support = UnsupportedAs(m.flaw)]
      BY <2>3 DEF WithFlaw, IsTag
    <3> HIDE DEF lowered
    <3>2. lowered = [occurrences |-> occurrences, kind |-> kept.kind,
                     support |-> UnsupportedAs(m.flaw)]
      BY <1>5, <3>1, DraftUpdates
    <3> QED BY <3>2, FaultsDiffer
  <2> QED BY <2>1, <2>2, <2>3 DEF FlawCodes
<1>9. /\ action = "Keep" => draft.kind.form = kind.form
      /\ draft.kind.form = "none" => action = "Replace"
      /\ action = "Replace" /\ draft.kind.form # "none" =>
           draft.kind.form = kind.form /\ draft.kind.form \in {"record", "enum"}
  BY Redeclared DEF action
<1>10. lowered.kind = kept.kind /\ lowered.occurrences = occurrences
  <2>1. \A said : LET x == [occurrences |-> occurrences, kind |-> kept.kind, support |-> said] IN
          x.kind = kept.kind /\ x.occurrences = occurrences
    OBVIOUS
  <2> HIDE DEF lowered
  <2> QED BY <1>8, <2>1
<1>11. Lowers(draft, m, k, lowered)
  <2> HIDE DEF lowered
  <2> QED BY <1>2, <1>5, <1>6, <1>7, <1>8, <1>9, <1>10
          DEF Lowers, occurrences, kind, action
<1> QED
  BY <1>3, <1>10, <1>11 DEF seen, kind, kept

-----------------------------------------------------------------------------
(* The initial states *)

LEMMA Starts == Init => IInv
<1> SUFFICES ASSUME Init PROVE IInv
  OBVIOUS
<1>1. /\ unit \in Units /\ phase = "lower" /\ next = 1 /\ pointers = {} /\ diagnostics = {}
      /\ drafts = [d \in Indexed |-> Blank]
  BY DEF Init
<1>2. \A d \in Indexed : drafts[d] = Blank
  BY <1>1
<1>3. Blank = [occurrences |-> {}, kind |-> NoKind, support |-> Supported] /\ NoKind.form = "none"
  BY DEF Blank, NoKind
<1>4. \A d : LoweredOf(d) = {}
  BY <1>1 DEF LoweredOf
<1>5. ConfigInv
  <2>1. next \in 1..(Len(Mentions) + 1)
    BY <1>1, UnitFacts
  <2> QED BY <1>1, <1>2, <1>3, <2>1 DEF ConfigInv
<1>6. PointersInv
  BY <1>1 DEF PointersInv
<1>7. \A d \in Indexed : KindInv(d) /\ MembersInv(d)
  BY <1>2, <1>3, <1>4 DEF KindInv, MembersInv
<1>8. \A d \in Indexed : OccurrencesInv(d)
  <2>1. \A d \in Indexed : drafts[d].occurrences = {}
    BY <1>2, <1>3
  <2> QED BY <2>1, <1>4, FS_EmptySet DEF OccurrencesInv
<1>9. DiagnosticsInv
  BY <1>1 DEF DiagnosticsInv
<1> QED
  BY <1>1, <1>5, <1>6, <1>7, <1>8, <1>9 DEF IInv, LoweringInv

-----------------------------------------------------------------------------
(* Lowering *)

\* What a step of lowering does: the draft of one declaration is another one.
LEMMA LowerFacts ==
  ASSUME ConfigInv, Lower
  PROVE  /\ unit' = unit /\ Mentions' = Mentions /\ Indexed' = Indexed
         /\ phase = "lower" /\ phase' = "lower" /\ next' = next + 1 /\ next \in DOMAIN Mentions
         /\ next \in Nat /\ Mentions[next].d \in Indexed
         /\ \A d : LoweredOf(d)' = LoweredOf(d) \cup
                                     (IF d = Mentions[next].d THEN {next} ELSE {})
         /\ \A d \in Indexed : d # Mentions[next].d => drafts'[d] = drafts[d]
         /\ DOMAIN drafts' = Indexed
         /\ drafts'[Mentions[next].d] =
              WithFlaw(WithKind(WithOccurrence(drafts[Mentions[next].d], Mentions[next], next),
                                LowerKind(Mentions[next], next)), Mentions[next])
<1>1. unit \in Units /\ unit' = unit /\ Mentions' = Mentions /\ Indexed' = Indexed
  BY DEF Lower, Mentions, Indexed, ConfigInv
<1>2. /\ phase = "lower" /\ phase' = "lower" /\ next' = next + 1 /\ next <= Len(Mentions)
      /\ next \in 1..(Len(Mentions) + 1)
  BY DEF Lower, ConfigInv
<1>3. next \in DOMAIN Mentions /\ next \in Nat
  BY <1>1, <1>2, UnitFacts
<1>4. Mentions[next].d \in Indexed
  BY <1>3 DEF Indexed
<1>5. \A d : LoweredOf(d)' = LoweredOf(d) \cup (IF d = Mentions[next].d THEN {next} ELSE {})
  <2>1. 1..(next' - 1) = 1..(next - 1) \cup {next}
    BY <1>2, <1>3
  <2> QED BY <1>1, <2>1 DEF LoweredOf
<1>6. drafts' = [drafts EXCEPT ![Mentions[next].d] =
        WithFlaw(WithKind(WithOccurrence(drafts[Mentions[next].d], Mentions[next], next),
                          LowerKind(Mentions[next], next)), Mentions[next])]
  BY DEF Lower
<1>7. DOMAIN drafts = Indexed
  BY DEF ConfigInv
<1> QED
  BY <1>1, <1>2, <1>3, <1>4, <1>5, <1>6, <1>7

\* What became of the draft, in the terms of the one there was.
LEMMA LowersTo ==
  ASSUME ConfigInv, Lower
  PROVE  LET m == Mentions[next]
             seen == WithOccurrence(drafts[m.d], m, next) IN
         /\ Lowers(drafts[m.d], m, next, drafts'[m.d])
         /\ seen.kind = drafts[m.d].kind
         /\ WithKind(seen, LowerKind(m, next)).kind = drafts'[m.d].kind
         /\ seen.occurrences = drafts'[m.d].occurrences
<1> DEFINE m == Mentions[next]
           old == drafts[m.d]
<1>1. next \in DOMAIN Mentions /\ m.d \in Indexed
  BY LowerFacts
<1>2. m.flaw \in FlawCodes
  BY <1>1, MentionFacts DEF ConfigInv
<1>3. old = [occurrences |-> old.occurrences, kind |-> old.kind, support |-> old.support]
  BY <1>1 DEF ConfigInv
<1>4. drafts'[m.d] = WithFlaw(WithKind(WithOccurrence(old, m, next), LowerKind(m, next)), m)
  BY LowerFacts
<1> HIDE DEF old
<1>5. LET seen == WithOccurrence(old, m, next)
          kept == WithKind(seen, LowerKind(m, next)) IN
      /\ seen.kind = old.kind
      /\ kept.kind = WithFlaw(kept, m).kind
      /\ seen.occurrences = WithFlaw(kept, m).occurrences
      /\ Lowers(old, m, next, WithFlaw(kept, m))
  BY <1>2, <1>3, LoweredDraft
<1> QED
  BY <1>4, <1>5 DEF old

LEMMA LowerKeepsConfig ==
  ASSUME ConfigInv, Lower
  PROVE  ConfigInv'
<1>1. /\ unit \in Units /\ unit' = unit /\ Mentions' = Mentions /\ Indexed' = Indexed
      /\ phase' = "lower" /\ next' = next + 1 /\ next \in DOMAIN Mentions
      /\ \A d \in Indexed : d # Mentions[next].d => drafts'[d] = drafts[d]
      /\ DOMAIN drafts' = Indexed
  BY LowerFacts DEF ConfigInv
<1>2. next' \in 1..(Len(Mentions) + 1)
  BY <1>1, UnitFacts
<1>3. \A d \in Indexed :
        drafts'[d] = [occurrences |-> drafts'[d].occurrences, kind |-> drafts'[d].kind,
                      support |-> drafts'[d].support]
  BY <1>1, LowersTo DEF ConfigInv, Lowers
<1>4. drafts' \in [Indexed -> {drafts'[d] : d \in Indexed}]
  <2>1. drafts' = [d \in Indexed |-> drafts'[d]]
    BY <1>1 DEF Lower
  <2> QED BY <2>1
<1> QED
  BY <1>1, <1>2, <1>3, <1>4 DEF ConfigInv

\* An alias stays what it is until it conflicts, and a conflict stays one.
LEMMA KindsSettle ==
  ASSUME ConfigInv, Lower, NEW d \in Indexed
  PROVE  /\ drafts[d].kind.form = "unsupported" => drafts'[d].kind.form = "unsupported"
         /\ drafts[d].kind.form = "alias" =>
              drafts'[d].kind = drafts[d].kind \/ drafts'[d].kind.form = "unsupported"
<1>1. CASE d # Mentions[next].d
  BY <1>1, LowerFacts
<1>2. CASE d = Mentions[next].d
  BY <1>2, LowersTo DEF Lowers
<1> QED
  BY <1>1, <1>2

LEMMA PointersStay ==
  ASSUME ConfigInv, Lower
  PROVE  /\ \A set \in SUBSET Indexed : PointersIn(set)' => PointersIn(set)
         /\ \A d : EndsAtPointer(d) => EndsAtPointer(d)'
         /\ \A type : TypeInv(type) => TypeInv(type)'
<1>1. Mentions' = Mentions /\ Indexed' = Indexed
  BY LowerFacts
<1>2. ASSUME NEW set \in SUBSET Indexed, PointersIn(set)'
      PROVE  PointersIn(set)
  BY <1>1, <1>2, KindsSettle DEF PointersIn
<1>3. ASSUME NEW d, EndsAtPointer(d)
      PROVE  EndsAtPointer(d)'
  BY <1>1, <1>2, <1>3 DEF EndsAtPointer
<1>4. ASSUME NEW type, TypeInv(type)
      PROVE  TypeInv(type)'
  BY <1>1, <1>3, <1>4 DEF TypeInv
<1> QED
  BY <1>2, <1>3, <1>4

LEMMA LowerKeepsKinds ==
  ASSUME ConfigInv, PointersInv, \A d \in Indexed : KindInv(d), Lower, NEW d \in Indexed
  PROVE  KindInv(d)'
<1> DEFINE m == Mentions[next]
           kind == LowerKind(m, next)
           old == drafts[m.d]
           new == drafts'[m.d]
<1>1. /\ unit \in Units /\ Mentions' = Mentions /\ Indexed' = Indexed
      /\ next \in DOMAIN Mentions /\ m.d \in Indexed
      /\ \A x : LoweredOf(x)' = LoweredOf(x) \cup (IF x = m.d THEN {next} ELSE {})
      /\ \A x \in Indexed : x # m.d => drafts'[x] = drafts[x]
  BY LowerFacts DEF ConfigInv
<1>2. \A x : First(x)' = First(x)
  BY <1>1 DEF First
<1>3. \A x : KnownKind(x) => KnownKind(x)'
  BY PointersStay DEF KnownKind
<1>4. CASE d # m.d
  <2>1. drafts'[d] = drafts[d] /\ LoweredOf(d)' = LoweredOf(d)
    BY <1>1, <1>4
  <2> QED BY <1>1, <1>2, <1>3, <2>1 DEF KindInv
<1>5. CASE d = m.d
  <2>1. /\ kind.form \in {FormOfKind(m), "unsupported"}
        /\ kind.form = "unsupported" => KindSupport(kind) # Supported
        /\ kind.form # "unsupported" => KnownKind(kind)
        /\ kind.form = "alias" /\ kind.type.base.as = "alias" => First(kind.type.base.to) < next
    BY <1>1, NewKind
  <2>2. LoweredOf(d)' = LoweredOf(d) \cup {next} /\ next \in LoweredOf(d)'
    BY <1>1, <1>5
  <2>3. Lowers(old, m, next, new)
    BY LowersTo
  <2>4. KindInv(d)
    OBVIOUS
  <2>5. CASE RedeclarationAction(old.kind, kind) = "Keep"
    <3>1. new.kind = old.kind /\ old.kind.form = kind.form
      BY <2>3, <2>5 DEF Lowers
    <3>2. old.kind.form # "none"
      BY <2>3, <2>5 DEF Lowers
    <3>3. new.kind.form = "unsupported" => new.support # Supported
      BY <1>5, <2>3, <2>4, <3>1 DEF Lowers, KindInv
    <3>4. old.kind.form \notin {"none", "unsupported"} =>
            \A k \in LoweredOf(d) \cup {next} : FormOfKind(Mentions[k]) = old.kind.form
      BY <1>5, <2>1, <2>4, <3>1 DEF KindInv
    <3> HIDE DEF kind
    <3> QED BY <1>1, <1>2, <1>3, <1>5, <2>2, <2>4, <3>1, <3>2, <3>3, <3>4 DEF KindInv
  <2>6. CASE RedeclarationAction(old.kind, kind) = "Replace"
    <3>1. new.kind = kind
      BY <2>3, <2>6 DEF Lowers
    <3>2. kind.form # "none"
      BY <2>1 DEF FormOfKind
    <3>3. new.kind.form = "unsupported" => new.support # Supported
      BY <2>1, <2>3, <3>1 DEF Lowers
    <3>4. ASSUME kind.form # "unsupported", NEW k \in LoweredOf(d) \cup {next}
          PROVE  FormOfKind(Mentions[k]) = kind.form
      <4>1. CASE old.kind.form = "none"
        BY <1>5, <2>1, <2>4, <3>4, <4>1 DEF KindInv
      <4>2. CASE old.kind.form # "none"
        <5>1. old.kind.form = kind.form
          BY <2>3, <2>6, <4>2 DEF Lowers
        <5> QED BY <1>5, <2>1, <2>4, <3>4, <4>2, <5>1 DEF KindInv
      <4> QED BY <4>1, <4>2
    <3>5. kind.form = "alias" => First(d) = next
      <4> SUFFICES ASSUME kind.form = "alias" PROVE First(d) = next
        OBVIOUS
      <4>1. old.kind.form = "none"
        BY <2>3, <2>6 DEF Lowers
      <4>2. LoweredOf(d) = {}
        BY <1>5, <2>4, <4>1 DEF KindInv
      <4>3. First(d) \in DOMAIN Mentions /\ Mentions[First(d)].d = d /\ First(d) <= next
        BY <1>1, <1>5, FirstFacts
      <4> QED BY <1>1, <4>2, <4>3, UnitFacts DEF LoweredOf
    <3> HIDE DEF kind
    <3> QED BY <1>1, <1>2, <1>3, <1>5, <2>1, <2>2, <3>1, <3>2, <3>3, <3>4, <3>5 DEF KindInv
  <2>7. CASE RedeclarationAction(old.kind, kind) = "Conflict"
    <3>1. new.kind.form = "unsupported" /\ new.support # Supported
      BY <2>3, <2>7 DEF Lowers
    <3> QED BY <1>5, <2>2, <3>1 DEF KindInv
  <2> QED BY <2>3, <2>5, <2>6, <2>7 DEF Lowers
<1> QED
  BY <1>4, <1>5

LEMMA LowerKeepsPointers ==
  ASSUME ConfigInv, PointersInv, Lower
  PROVE  PointersInv'
<1> DEFINE m == Mentions[next]
           kind == drafts'[m.d].kind
<1>1. Indexed' = Indexed /\ m.d \in Indexed
  BY LowerFacts
<1>2. pointers' = IF kind.form = "alias" /\ IsPointer(kind.type)
                  THEN pointers \cup {m.d} ELSE pointers \ {m.d}
  BY LowersTo DEF Lower
<1>3. \A d \in pointers : d \in Indexed /\ EndsAtPointer(d)'
  BY PointersStay DEF PointersInv
<1>4. ASSUME kind.form = "alias", IsPointer(kind.type), NEW d, d = m.d
      PROVE  EndsAtPointer(d)'
  <2> SUFFICES ASSUME NEW set \in SUBSET Indexed, PointersIn(set)'
               PROVE  d \in set
    BY <1>1 DEF EndsAtPointer
  <2>1. OutermostOf(kind.type) \in {"pointer"} \cup set => d \in set
    BY <1>1, <1>4 DEF PointersIn
  <2>2. CASE kind.type.layers # <<>> /\ kind.type.layers[1] = "*"
    BY <2>1, <2>2 DEF OutermostOf
  <2>3. CASE kind.type.layers = <<>> /\ kind.type.base.as = "alias" /\ kind.type.base.to \in pointers
    <3>1. kind.type.base.to \in set
      BY <1>1, <1>3, <2>3 DEF EndsAtPointer
    <3> QED BY <2>1, <2>3, <3>1 DEF OutermostOf
  <2> QED BY <1>4, <2>2, <2>3 DEF IsPointer
<1> QED
  BY <1>1, <1>2, <1>3, <1>4 DEF PointersInv

LEMMA LastIsOne ==
  ASSUME unit \in Units, NEW occurrences, occurrences # {},
         \A o \in occurrences : \E k \in DOMAIN Mentions : o.range = RangeOf(k)
  PROVE  LastOf(occurrences) \in occurrences
<1> DEFINE starts == {o.range.start : o \in occurrences}
<1>1. starts \subseteq 0..FileLength /\ starts # {} /\ FileLength \in Nat
  <2>1. FileLength \in Nat
    BY UnitsAssumption
  <2>2. \A k \in DOMAIN Mentions : RangeOf(k).start \in 0..FileLength
    BY <2>1, RangeFacts
  <2> QED BY <2>1, <2>2
<1>2. PICK n \in starts : \A x \in starts : x <= n
  <2> HIDE DEF starts
  <2> QED BY <1>1, GreatestExists
<1>3. \E o \in occurrences : \A x \in occurrences : x.range.start <= o.range.start
  BY <1>2
<1> QED
  BY <1>3 DEF LastOf

LEMMA LowerKeepsOccurrences ==
  ASSUME ConfigInv, Lower, NEW d \in Indexed, OccurrencesInv(d)
  PROVE  OccurrencesInv(d)'
<1> DEFINE m == Mentions[next]
           old == drafts[d].occurrences
           new == drafts'[d].occurrences
           same == {o \in old : o.tokens[1] = m.tokens}
           added == OccurrenceAt(m, next, Cardinality(same))
<1>1. /\ unit \in Units /\ Mentions' = Mentions /\ next \in DOMAIN Mentions
      /\ LoweredOf(d)' = LoweredOf(d) \cup (IF d = m.d THEN {next} ELSE {})
      /\ d # m.d => drafts'[d] = drafts[d]
  BY LowerFacts DEF ConfigInv
<1>2. \A k : RangeOf(k)' = RangeOf(k)
  BY <1>1 DEF RangeOf
<1>3. CASE d # m.d
  <2>1. drafts'[d] = drafts[d] /\ LoweredOf(d)' = LoweredOf(d)
    BY <1>1, <1>3
  <2> QED BY <1>2, <2>1 DEF OccurrencesInv
<1>4. CASE d = m.d
  <2>1. new = old \cup {added}
    BY <1>4, LowersTo DEF Lowers
  <2>2. /\ IsFiniteSet(old)
        /\ \A o \in old :
             /\ \E k \in LoweredOf(d) :
                  o = [range |-> RangeOf(k), tokens |-> <<o.tokens[1], o.tokens[2]>>,
                       origin |-> "Generated", chain |-> <<>>, attrsOk |-> o.attrsOk]
             /\ o.tokens[2] \in Nat
             /\ o.tokens[2] < Cardinality({x \in old : x.tokens[1] = o.tokens[1]})
    BY DEF OccurrencesInv
  <2>3. same \subseteq old /\ IsFiniteSet(same) /\ Cardinality(same) \in Nat
    BY <2>2, FS_Subset, FS_CardinalityType
  <2>4. /\ added.range = RangeOf(next) /\ added.tokens = <<m.tokens, Cardinality(same)>>
        /\ added = [range |-> RangeOf(next), tokens |-> <<added.tokens[1], added.tokens[2]>>,
                    origin |-> "Generated", chain |-> <<>>, attrsOk |-> added.attrsOk]
    BY DEF OccurrenceAt
  <2>5. added.tokens[1] = m.tokens /\ added.tokens[2] = Cardinality(same)
    BY <2>4
  <2>6. added \notin same
    BY <2>2, <2>3, <2>5
  <2>7. Cardinality(same \cup {added}) = Cardinality(same) + 1
    BY <2>3, <2>6, FS_AddElement
  <2> HIDE DEF new, old, added
  <2>8. {x \in new : x.tokens[1] = m.tokens} = same \cup {added}
    BY <2>1, <2>5
  <2>9. ASSUME NEW o \in new
        PROVE  /\ \E k \in LoweredOf(d)' :
                    o = [range |-> RangeOf(k), tokens |-> <<o.tokens[1], o.tokens[2]>>,
                         origin |-> "Generated", chain |-> <<>>, attrsOk |-> o.attrsOk]
               /\ o.tokens[2] \in Nat
               /\ o.tokens[2] < Cardinality({x \in new : x.tokens[1] = o.tokens[1]})
    <3>1. CASE o = added
      <4>1. {x \in new : x.tokens[1] = o.tokens[1]} = same \cup {added}
        BY <2>5, <2>8, <3>1
      <4>2. next \in LoweredOf(d)'
        BY <1>1, <1>4
      <4>3. o.tokens[2] \in Nat /\ o.tokens[2] < Cardinality({x \in new : x.tokens[1] = o.tokens[1]})
        <5>1. o.tokens[2] = Cardinality(same)
          BY <2>5, <3>1
        <5> DEFINE alike == {x \in new : x.tokens[1] = o.tokens[1]}
        <5>2. alike = same \cup {added}
          BY <4>1
        <5> HIDE DEF same, alike
        <5>3. Cardinality(alike) = Cardinality(same) + 1
          BY <2>7, <5>2
        <5>4. o.tokens[2] \in Nat /\ o.tokens[2] < Cardinality(alike)
          BY <2>3, <5>1, <5>3
        <5> QED BY <5>4 DEF alike
      <4> QED BY <2>4, <3>1, <4>2, <4>3
    <3>2. CASE o \in old /\ o.tokens[1] = m.tokens
      <4>1. {x \in new : x.tokens[1] = o.tokens[1]} = same \cup {added}
        BY <2>8, <3>2
      <4>2. {x \in old : x.tokens[1] = o.tokens[1]} = same
        BY <3>2
      <4>3. o.tokens[2] \in Nat /\ o.tokens[2] < Cardinality(same)
        BY <2>2, <3>2, <4>2
      <4>4. o.tokens[2] < Cardinality({x \in new : x.tokens[1] = o.tokens[1]})
        <5> HIDE DEF same
        <5> QED BY <2>3, <2>7, <4>1, <4>3
      <4> QED BY <1>1, <2>2, <3>2, <4>3, <4>4
    <3>3. CASE o \in old /\ o.tokens[1] # m.tokens
      <4>1. {x \in new : x.tokens[1] = o.tokens[1]} = {x \in old : x.tokens[1] = o.tokens[1]}
        BY <2>1, <2>5, <3>3
      <4> QED BY <1>1, <2>2, <3>3, <4>1
    <3> QED BY <2>1, <3>1, <3>2, <3>3
  <2>10. ASSUME NEW o1 \in new, NEW o2 \in new, o1.tokens = o2.tokens
         PROVE  o1 = o2
    <3>1. ASSUME NEW o \in old, o.tokens = added.tokens
          PROVE  FALSE
      <4>1. o \in same
        BY <2>5, <3>1
      <4>2. o.tokens[2] < Cardinality({x \in old : x.tokens[1] = o.tokens[1]})
        BY <2>2
      <4>3. {x \in old : x.tokens[1] = o.tokens[1]} = same
        BY <2>5, <3>1
      <4>4. o.tokens[2] = Cardinality(same)
        BY <2>5, <3>1
      <4> HIDE DEF same
      <4> QED BY <2>3, <4>2, <4>3, <4>4
    <3> QED BY <2>1, <2>10, <3>1 DEF OccurrencesInv, old
  <2>11. \A k \in LoweredOf(d)' : \E o \in new : o.range = RangeOf(k)
    BY <1>1, <1>4, <2>1, <2>4 DEF OccurrencesInv, old
  <2>12. IsFiniteSet(new)
    BY <2>1, <2>2, FS_AddElement
  <2> QED BY <1>2, <2>9, <2>10, <2>11, <2>12 DEF OccurrencesInv, new
<1> QED
  BY <1>3, <1>4

LEMMA LowerKeepsMembers ==
  ASSUME ConfigInv, PointersInv, Lower, NEW d \in Indexed, KindInv(d), MembersInv(d)
  PROVE  MembersInv(d)'
<1> DEFINE m == Mentions[next]
           kind == LowerKind(m, next)
           old == drafts[m.d]
           new == drafts'[m.d]
<1>1. /\ unit \in Units /\ Mentions' = Mentions /\ next \in DOMAIN Mentions
      /\ LoweredOf(d)' = LoweredOf(d) \cup (IF d = m.d THEN {next} ELSE {})
      /\ d # m.d => drafts'[d] = drafts[d]
  BY LowerFacts DEF ConfigInv
<1>2. \A members, k : StandIn(members, k)' <=> StandIn(members, k)
  BY <1>1 DEF StandIn
<1>3. CASE d # m.d
  <2>1. drafts'[d] = drafts[d] /\ LoweredOf(d)' = LoweredOf(d)
    BY <1>1, <1>3
  <2> QED BY <1>2, <2>1 DEF MembersInv
<1>4. CASE d = m.d
  <2>1. Lowers(old, m, next, new)
    BY LowersTo
  <2>2. kind.form # "unsupported" => StandIn(kind.members, next)
    BY <1>1, NewKind
  <2> HIDE DEF kind
  <2>3. CASE new.kind = old.kind
    BY <1>1, <1>2, <1>4, <2>3 DEF MembersInv
  <2>4. CASE new.kind = kind
    BY <1>1, <1>2, <1>4, <2>2, <2>4 DEF MembersInv
  <2>5. CASE new.kind.form = "unsupported"
    BY <1>4, <2>5 DEF MembersInv
  <2> QED BY <2>1, <2>3, <2>4, <2>5 DEF Lowers, kind
<1> QED
  BY <1>3, <1>4

LEMMA LowerKeepsDiagnostics ==
  ASSUME ConfigInv, PointersInv, \A d \in Indexed : OccurrencesInv(d), DiagnosticsInv, Lower
  PROVE  DiagnosticsInv'
<1> DEFINE m == Mentions[next]
           kind == LowerKind(m, next)
           seen == WithOccurrence(drafts[m.d], m, next)
           new == drafts'[m.d]
           Fits(g) == /\ g = Bound(g.decl, g.code, g.error, g.range)
                      /\ g.decl \in Indexed /\ drafts'[g.decl].support # Supported
                      /\ IsWritten(g.range)
<1>1. /\ unit \in Units /\ Mentions' = Mentions /\ Indexed' = Indexed
      /\ next \in DOMAIN Mentions /\ m.d \in Indexed
      /\ \A d \in Indexed : d # m.d => drafts'[d] = drafts[d]
  BY LowerFacts DEF ConfigInv
<1>2. \A range : IsWritten(range)' <=> IsWritten(range)
  BY <1>1 DEF IsWritten, RangeOf
<1>3. diagnostics' = diagnostics \cup Unsized(m, next) \cup Conflicts(seen, kind, m)
                                 \cup Flaws(m, next)
  BY DEF Lower
<1>4. Lowers(drafts[m.d], m, next, new)
  BY LowersTo
<1>5. \A code, error, range :
        LET g == Bound(m.d, code, error, range) IN
        /\ g.decl = m.d /\ g.range = range
        /\ g = Bound(g.decl, g.code, g.error, g.range)
  BY DEF Bound
<1>6. ASSUME NEW g \in diagnostics
      PROVE  Fits(g)
  BY <1>1, <1>4 DEF DiagnosticsInv, Lowers
<1>7. ASSUME NEW g \in Unsized(m, next)
      PROVE  Fits(g)
  <2>1. PICK i \in DOMAIN m.members : g = Bound(m.d, "E1212", TRUE, MemberAt(next, i))
    BY DEF Unsized
  <2>2. new.support # Supported
    BY <1>1, <1>4, NewKind DEF Lowers
  <2>3. IsWritten(MemberAt(next, i))
    BY <1>1 DEF IsWritten
  <2> QED BY <1>1, <2>1, <2>2, <2>3 DEF Bound
<1>8. ASSUME NEW g \in Conflicts(seen, kind, m)
      PROVE  Fits(g)
  <2>1. /\ RedeclarationAction(seen.kind, kind) = "Conflict"
        /\ g = Bound(m.d, "E1204", TRUE, LastOf(seen.occurrences).range)
    BY DEF Conflicts
  <2>2. new.support # Supported
    BY <1>4, <2>1, LowersTo DEF Lowers
  <2>3. /\ new.occurrences # {} /\ seen.occurrences = new.occurrences
        /\ \A o \in new.occurrences : \E k \in DOMAIN Mentions : o.range = RangeOf(k)
    <3>1. /\ seen.occurrences = new.occurrences
          /\ new.occurrences = drafts[m.d].occurrences \cup
               {OccurrenceAt(m, next,
                  Cardinality({o \in drafts[m.d].occurrences : o.tokens[1] = m.tokens}))}
      BY <1>4, LowersTo DEF Lowers
    <3>2. \A n : OccurrenceAt(m, next, n).range = RangeOf(next)
      BY DEF OccurrenceAt
    <3>3. \A o \in drafts[m.d].occurrences : \E k \in LoweredOf(m.d) : o.range = RangeOf(k)
      <4> SUFFICES ASSUME NEW o \in drafts[m.d].occurrences
                   PROVE  \E k \in LoweredOf(m.d) : o.range = RangeOf(k)
        OBVIOUS
      <4>1. OccurrencesInv(m.d)
        BY <1>1
      <4>2. PICK k \in LoweredOf(m.d) :
              o = [range |-> RangeOf(k), tokens |-> <<o.tokens[1], o.tokens[2]>>,
                   origin |-> "Generated", chain |-> <<>>, attrsOk |-> o.attrsOk]
        BY <4>1 DEF OccurrencesInv
      <4>3. \A tokens, attrsOk :
              [range |-> RangeOf(k), tokens |-> tokens, origin |-> "Generated", chain |-> <<>>,
               attrsOk |-> attrsOk].range = RangeOf(k)
        OBVIOUS
      <4>4. o.range = RangeOf(k)
        BY <4>2, <4>3
      <4> QED BY <4>4
    <3>4. LoweredOf(m.d) \subseteq DOMAIN Mentions
      BY <1>1, UnitFacts DEF LoweredOf
    <3> QED BY <1>1, <3>1, <3>2, <3>3, <3>4
  <2>4. LastOf(new.occurrences) \in new.occurrences
    BY <1>1, <2>3, LastIsOne
  <2>5. IsWritten(LastOf(new.occurrences).range)
    BY <2>3, <2>4 DEF IsWritten
  <2> QED BY <1>1, <2>1, <2>2, <2>3, <2>5 DEF Bound
<1>9. ASSUME NEW g \in Flaws(m, next)
      PROVE  Fits(g)
  <2>1. ~IsTag(m) /\ m.flaw # "" /\ g = Bound(m.d, m.flaw, m.flaw # "P1205", RangeOf(next))
    BY DEF Flaws
  <2>2. new.support # Supported
    BY <1>4, <2>1 DEF Lowers
  <2>3. IsWritten(RangeOf(next))
    BY <1>1 DEF IsWritten
  <2> QED BY <1>1, <2>1, <2>2, <2>3 DEF Bound
<1> HIDE DEF Fits
<1>10. \A g \in diagnostics' : Fits(g)
  BY <1>3, <1>6, <1>7, <1>8, <1>9
<1> QED
  BY <1>1, <1>2, <1>10 DEF DiagnosticsInv, Fits

-----------------------------------------------------------------------------
(* Steps that leave the drafts alone *)

LEMMA SameDrafts ==
  ASSUME UNCHANGED <<unit, next, drafts, pointers>>
  PROVE  /\ Mentions' = Mentions /\ Indexed' = Indexed
         /\ PointersInv => PointersInv'
         /\ \A d : LoweredOf(d)' = LoweredOf(d)
         /\ \A d : KindInv(d) => KindInv(d)'
         /\ \A d : OccurrencesInv(d) => OccurrencesInv(d)'
         /\ \A d : MembersInv(d) => MembersInv(d)'
         /\ \A range : IsWritten(range)' <=> IsWritten(range)
<1>1. Mentions' = Mentions /\ Indexed' = Indexed
  BY DEF Mentions, Indexed
<1>2. /\ \A d : LoweredOf(d)' = LoweredOf(d) /\ First(d)' = First(d)
      /\ \A k : RangeOf(k)' = RangeOf(k)
  BY <1>1 DEF LoweredOf, First, RangeOf
<1>3. \A set : PointersIn(set)' <=> PointersIn(set)
  BY <1>1 DEF PointersIn
<1>4. \A d : EndsAtPointer(d)' <=> EndsAtPointer(d)
  BY <1>1, <1>3 DEF EndsAtPointer
<1>5. \A type : TypeInv(type)' <=> TypeInv(type)
  BY <1>1, <1>4 DEF TypeInv
<1>6. \A kind : KnownKind(kind)' <=> KnownKind(kind)
  BY <1>5 DEF KnownKind
<1>7. \A members, k : StandIn(members, k)' <=> StandIn(members, k)
  BY <1>1 DEF StandIn
<1>8. PointersInv => PointersInv'
  BY <1>1, <1>4 DEF PointersInv
<1>9. \A d : KindInv(d) => KindInv(d)'
  BY <1>1, <1>2, <1>6 DEF KindInv
<1>10. \A d : OccurrencesInv(d) => OccurrencesInv(d)'
  BY <1>2 DEF OccurrencesInv
<1>11. \A d : MembersInv(d) => MembersInv(d)'
  BY <1>2, <1>7 DEF MembersInv
<1>12. \A range : IsWritten(range)' <=> IsWritten(range)
  BY <1>1, <1>2 DEF IsWritten
<1> QED
  BY <1>1, <1>2, <1>8, <1>9, <1>10, <1>11, <1>12

\* When all mentions were lowered every declaration has one and a kind.
LEMMA AllLowered ==
  ASSUME ConfigInv, next = Len(Mentions) + 1, NEW d \in Indexed
  PROVE  /\ LoweredOf(d) = {k \in DOMAIN Mentions : Mentions[k].d = d}
         /\ LoweredOf(d) # {}
         /\ First(d) \in LoweredOf(d)
         /\ KindInv(d) => drafts[d].kind.form # "none"
<1>1. unit \in Units
  BY DEF ConfigInv
<1>2. LoweredOf(d) = {k \in DOMAIN Mentions : Mentions[k].d = d}
  <2>1. DOMAIN Mentions = 1..(next - 1)
    BY <1>1, UnitFacts
  <2> QED BY <2>1 DEF LoweredOf
<1>3. First(d) \in LoweredOf(d)
  BY <1>1, <1>2, FirstFacts
<1> QED
  BY <1>2, <1>3 DEF KindInv

\* An occurrence is at a mention of the declaration.
LEMMA OccurrencePlaces ==
  ASSUME unit \in Units, ConfigInv, NEW d \in Indexed, OccurrencesInv(d),
         NEW o \in drafts[d].occurrences
  PROVE  \E k \in LoweredOf(d) :
           /\ k \in DOMAIN Mentions /\ o.range = RangeOf(k)
           /\ o.origin = "Generated" /\ o.chain = <<>>
           /\ o = [range |-> o.range, tokens |-> o.tokens, origin |-> o.origin,
                   chain |-> o.chain, attrsOk |-> o.attrsOk]
<1>1. PICK k \in LoweredOf(d) :
        o = [range |-> RangeOf(k), tokens |-> <<o.tokens[1], o.tokens[2]>>,
             origin |-> "Generated", chain |-> <<>>, attrsOk |-> o.attrsOk]
  BY DEF OccurrencesInv
<1>2. \A tokens, attrsOk :
        LET x == [range |-> RangeOf(k), tokens |-> tokens, origin |-> "Generated",
                  chain |-> <<>>, attrsOk |-> attrsOk] IN
        /\ x.range = RangeOf(k) /\ x.origin = "Generated" /\ x.chain = <<>>
        /\ x = [range |-> x.range, tokens |-> x.tokens, origin |-> x.origin,
                chain |-> x.chain, attrsOk |-> x.attrsOk]
  OBVIOUS
<1>3. k \in DOMAIN Mentions
  BY UnitFacts DEF LoweredOf, ConfigInv
<1>4. /\ o.range = RangeOf(k) /\ o.origin = "Generated" /\ o.chain = <<>>
      /\ o = [range |-> o.range, tokens |-> o.tokens, origin |-> o.origin,
              chain |-> o.chain, attrsOk |-> o.attrsOk]
  BY <1>1, <1>2
<1> QED
  BY <1>3, <1>4

LEMMA FinishKeeps ==
  ASSUME IInv, Finish
  PROVE  IInv'
<1>1. /\ ConfigInv /\ PointersInv /\ \A d \in Indexed : KindInv(d)
      /\ \A d \in Indexed : OccurrencesInv(d) /\ MembersInv(d)
      /\ DiagnosticsInv /\ unit \in Units
  BY DEF IInv, Finish, LoweringInv, ConfigInv
<1>2. /\ UNCHANGED <<unit, next, drafts, pointers>> /\ phase' = "remap"
      /\ next = Len(Mentions) + 1
  <2>1. next > Len(Mentions) /\ next \in 1..(Len(Mentions) + 1)
    BY <1>1 DEF Finish, ConfigInv
  <2>2. next = Len(Mentions) + 1
    BY <1>1, <2>1, UnitFacts
  <2> QED BY <2>2 DEF Finish
<1>3. /\ Mentions' = Mentions /\ Indexed' = Indexed /\ PointersInv'
      /\ \A d \in Indexed' : KindInv(d)' /\ OccurrencesInv(d)' /\ MembersInv(d)'
      /\ \A range : IsWritten(range)' <=> IsWritten(range)
  BY <1>1, <1>2, SameDrafts
<1>4. ConfigInv'
  BY <1>1, <1>2, <1>3 DEF ConfigInv
<1>5. ASSUME NEW d \in Indexed
      PROVE  IsWritten(LastOf(drafts[d].occurrences).range)
  <2>1. drafts[d].occurrences # {}
    BY <1>1, <1>2, AllLowered DEF OccurrencesInv
  <2>2. \A o \in drafts[d].occurrences : \E k \in DOMAIN Mentions : o.range = RangeOf(k)
    BY <1>1, OccurrencePlaces
  <2>3. LastOf(drafts[d].occurrences) \in drafts[d].occurrences
    BY <1>1, <2>1, <2>2, LastIsOne
  <2> QED BY <2>2, <2>3 DEF IsWritten
<1> DEFINE Said(d) == Bound(d, drafts[d].support.code, drafts[d].support.level = "Unsupported",
                            LastOf(drafts[d].occurrences).range)
<1>6. diagnostics' = diagnostics \cup {Said(d) : d \in {x \in Indexed : Unreported(x)}}
  BY DEF Finish
<1>7. \A d : /\ Said(d).decl = d /\ Said(d).range = LastOf(drafts[d].occurrences).range
             /\ Said(d) = Bound(Said(d).decl, Said(d).code, Said(d).error, Said(d).range)
  BY DEF Bound
<1> HIDE DEF Said
<1>8. DiagnosticsInv'
  <2>1. ASSUME NEW g \in diagnostics'
        PROVE  /\ g = Bound(g.decl, g.code, g.error, g.range)
               /\ g.decl \in Indexed /\ drafts[g.decl].support # Supported
               /\ IsWritten(g.range)
    <3>1. CASE g \in diagnostics
      BY <1>1, <3>1 DEF DiagnosticsInv
    <3>2. ASSUME NEW d \in Indexed, Unreported(d), g = Said(d)
          PROVE  /\ g = Bound(g.decl, g.code, g.error, g.range)
                 /\ g.decl \in Indexed /\ drafts[g.decl].support # Supported
                 /\ IsWritten(g.range)
      BY <1>5, <1>7, <3>2 DEF Unreported
    <3> QED BY <1>6, <3>1, <3>2
  <2> QED BY <1>2, <1>3, <2>1 DEF DiagnosticsInv
<1>9. SaidInv'
  <2> SUFFICES ASSUME NEW d \in Indexed, drafts[d].support # Supported
               PROVE  \E g \in diagnostics' : g.decl = d
    BY <1>2, <1>3 DEF SaidInv
  <2>1. CASE Unreported(d)
    <3>1. Said(d) \in diagnostics'
      BY <1>6, <2>1
    <3> QED BY <1>7, <3>1
  <2>2. CASE ~Unreported(d)
    BY <1>6, <2>2 DEF Unreported
  <2> QED BY <2>1, <2>2
<1> QED
  BY <1>2, <1>3, <1>4, <1>8, <1>9 DEF IInv, LoweringInv

-----------------------------------------------------------------------------
(* The mapping *)

\* What is written in the generated text is placed there until all is mapped.
LEMMA WrittenIsPlaced ==
  ASSUME unit \in Units, NEW range, IsWritten(range)
  PROVE  /\ range.file = Generated
         /\ ~AllMapped => IsPlaced(range)
         /\ AllMapped => IsMapped(range)
<1>1. PICK k \in DOMAIN Mentions :
        range = RangeOf(k) \/ \E i \in DOMAIN Mentions[k].members : range = MemberAt(k, i)
  BY DEF IsWritten
<1>2. /\ range.file = Generated
      /\ range.start \in Nat /\ range.end \in 0..FileLength /\ range.start < range.end
  BY <1>1, RangeFacts
<1>3. AllMapped => IsMapped(range)
  BY <1>1, MapsWithin DEF AllMapped
<1> QED
  BY <1>2, <1>3 DEF IsPlaced

LEMMA MappedIsPlaced ==
  ASSUME unit \in Units, NEW range, IsMapped(range)
  PROVE  IsPlaced(MapRange(range)) /\ MapRange(range).file \in DOMAIN FileRole
BY MapFacts, UnitsAssumption DEF IsPlaced, IsPlace

\* What is said of a skipped range, where it is said, and that it is placed.
LEMMA RecoveryFacts ==
  ASSUME unit \in Units, NEW span \in unit.skipped
  PROVE  LET g == Recovery(span) IN
         /\ g.impact = "ForcesPartial" /\ g.decl = NoDecl
         /\ IsPlaced(g.range)
         /\ ~unit.traced \/ ~IsMapped(span) => g.range = span
<1> DEFINE now == IF unit.traced /\ IsMapped(span) THEN MapRange(span) ELSE span
<1>1. Recovery(span).range = now
      /\ Recovery(span).impact = "ForcesPartial" /\ Recovery(span).decl = NoDecl
  BY DEF Recovery
<1>2. IsSpan(span)
  BY UnitFacts
<1>3. CASE unit.traced /\ IsMapped(span)
  BY <1>1, <1>3, MappedIsPlaced
<1>4. CASE ~(unit.traced /\ IsMapped(span))
  <2>1. ~AllMapped
    BY <1>4 DEF AllMapped
  <2>2. span.file = Generated /\ span.start \in Nat /\ span.end \in 0..FileLength
        /\ span.start < span.end
    BY <1>2 DEF IsSpan
  <2>3. IsPlaced(span)
    BY <2>1, <2>2 DEF IsPlaced
  <2> QED BY <1>1, <1>4, <2>3
<1> QED
  BY <1>1, <1>3, <1>4

LEMMA MappedOccurrence ==
  ASSUME unit \in Units, NEW k \in DOMAIN Mentions, NEW o,
         o.range = RangeOf(k), o.origin = "Generated", o.chain = <<>>,
         o = [range |-> o.range, tokens |-> o.tokens, origin |-> o.origin,
              chain |-> o.chain, attrsOk |-> o.attrsOk]
  PROVE  LET x == MapOccurrence(o) IN
         /\ x.tokens = o.tokens
         /\ IsMapped(RangeOf(k)) => x.range = MapRange(RangeOf(k))
         /\ ~IsMapped(RangeOf(k)) => x.range = RangeOf(k) /\ x.range.file = Generated
         /\ unit.traced => IsPlaced(x.range)
         /\ x.origin = RoleOf(x.range.file)
         /\ \A i \in DOMAIN x.chain : /\ IsPlace(x.chain[i].directive)
                                      /\ x.chain[i].included \in DOMAIN FileRole
<1> DEFINE x == MapOccurrence(o)
           Chained(chain) == \A i \in DOMAIN chain : /\ IsPlace(chain[i].directive)
                                                     /\ chain[i].included \in DOMAIN FileRole
<1> SUFFICES /\ x.tokens = o.tokens
             /\ IsMapped(RangeOf(k)) => x.range = MapRange(RangeOf(k))
             /\ ~IsMapped(RangeOf(k)) => x.range = RangeOf(k) /\ x.range.file = Generated
             /\ unit.traced => IsPlaced(x.range)
             /\ x.origin = RoleOf(x.range.file)
             /\ Chained(x.chain)
  OBVIOUS
<1>1. CASE ~IsMapped(RangeOf(k))
  <2>1. x = o
    BY <1>1 DEF MapOccurrence
  <2>2. IsWritten(RangeOf(k)) /\ RangeOf(k).file = Generated
    BY RangeFacts DEF IsWritten
  <2>3. unit.traced => IsPlaced(RangeOf(k))
    BY <1>1, <2>2, WrittenIsPlaced
  <2>4. Chained(<<>>)
    OBVIOUS
  <2> HIDE DEF x, Chained
  <2> QED BY <1>1, <2>1, <2>2, <2>3, <2>4 DEF RoleOf
<1>2. CASE IsMapped(RangeOf(k))
  <2> DEFINE range == MapRange(RangeOf(k))
             chain == (CHOOSE s \in Met(RangeOf(k)) : TRUE).chain
  <2>1. x = [o EXCEPT !.range = range, !.origin = FileRole[range.file], !.chain = chain]
    BY <1>2 DEF MapOccurrence
  <2>2. IsPlaced(range) /\ range.file \in DOMAIN FileRole /\ range.file # Generated
    BY <1>2, MappedIsPlaced, UnitsAssumption
  <2>3. Chained(chain)
    <3>1. PICK s \in Met(RangeOf(k)) : chain = s.chain
      BY <1>2 DEF IsMapped
    <3>2. IsSegment(s)
      BY UnitFacts DEF Met
    <3> QED BY <3>1, <3>2 DEF IsSegment
  <2> HIDE DEF range, chain, x, Chained
  <2>4. \A r, t, g, c, a, r2, g2, c2 :
          LET y == [[range |-> r, tokens |-> t, origin |-> g, chain |-> c, attrsOk |-> a]
                      EXCEPT !.range = r2, !.origin = g2, !.chain = c2] IN
          y.range = r2 /\ y.tokens = t /\ y.origin = g2 /\ y.chain = c2
    OBVIOUS
  <2>5. /\ x.range = range /\ x.tokens = o.tokens /\ x.origin = FileRole[range.file]
        /\ x.chain = chain
    BY <2>1, <2>4
  <2> QED BY <1>2, <2>2, <2>3, <2>5 DEF RoleOf, range
<1> QED
  BY <1>1, <1>2

LEMMA MappedMember ==
  ASSUME NEW member, NEW occurrences, NEW range,
         member = [name |-> member.name, type |-> member.type, range |-> range,
                   support |-> member.support]
  PROVE  LET x == MapMember(member, occurrences) IN
         /\ x.type = member.type
         /\ \/ /\ IsMapped(range) /\ x.range = MapRange(range)
               /\ \E o \in occurrences : RangeContains(o.range, x.range)
            \/ /\ x.range = range
               /\ ~(IsMapped(range) /\ \E o \in occurrences : RangeContains(o.range, MapRange(range)))
<1> DEFINE x == MapMember(member, occurrences)
           inside == IsMapped(range) /\ \E o \in occurrences : RangeContains(o.range, MapRange(range))
           now == IF inside THEN MapRange(range) ELSE range
<1>1. member.range = range
  <2>1. \A n, t, s : [name |-> n, type |-> t, range |-> range, support |-> s].range = range
    OBVIOUS
  <2> QED BY <2>1
<1>2. x = [member EXCEPT !.range = now]
  BY <1>1 DEF MapMember
<1> HIDE DEF now, x
<1>3. \A n, t, r, s, r2 :
        LET y == [[name |-> n, type |-> t, range |-> r, support |-> s] EXCEPT !.range = r2] IN
        y.type = t /\ y.range = r2
  OBVIOUS
<1>4. x.type = member.type /\ x.range = now
  BY <1>2, <1>3
<1>5. CASE inside
  BY <1>4, <1>5 DEF now, x
<1>6. CASE ~inside
  BY <1>4, <1>6 DEF now, x
<1> QED
  BY <1>5, <1>6

\* The parts of a draft that the mapping leaves alone, and those it does not.
LEMMA MappedDraft ==
  ASSUME NEW old, old.kind.form = "unsupported" \/ KnownKind(old.kind)
  PROVE  LET new == MapDraft(old) IN
         /\ new = [occurrences |-> new.occurrences, kind |-> new.kind, support |-> new.support]
         /\ new.occurrences = {MapOccurrence(o) : o \in old.occurrences}
         /\ new.kind.form = old.kind.form
         /\ old.kind.form = "unsupported" => new.kind = old.kind
         /\ old.kind.form # "unsupported" =>
              /\ new.kind = KindOf(new.kind.form, new.kind.tag, new.kind.complete, new.kind.type,
                                   new.kind.members)
              /\ new.kind.complete = old.kind.complete /\ new.kind.type = old.kind.type
              /\ new.kind.members = [i \in DOMAIN old.kind.members |->
                                       MapMember(old.kind.members[i], new.occurrences)]
         /\ old.support # Supported => new.support = old.support
         /\ new.support # Supported <=> (old.support # Supported \/ OccurrenceGaps(old) # {})
<1> DEFINE occurrences == {MapOccurrence(o) : o \in old.occurrences}
           support == IF OccurrenceGaps(old) # {} /\ old.support = Supported
                      THEN PartialAs("P2000") ELSE old.support
           members == [i \in DOMAIN old.kind.members |-> MapMember(old.kind.members[i], occurrences)]
           kind == IF old.kind.form = "unsupported" THEN old.kind
                   ELSE [old.kind EXCEPT !.members = members]
           new == MapDraft(old)
<1>1. new = [occurrences |-> occurrences, support |-> support, kind |-> kind]
  BY DEF MapDraft
<1>2. /\ old.support # Supported => support = old.support
      /\ support # Supported <=> (old.support # Supported \/ OccurrenceGaps(old) # {})
  BY FaultsDiffer
<1>3. CASE old.kind.form = "unsupported"
  <2>1. kind = old.kind
    BY <1>3
  <2> HIDE DEF occurrences, support, kind, new
  <2>2. new.occurrences = occurrences /\ new.support = support /\ new.kind = old.kind
    BY <1>1, <2>1
  <2>3. new = [occurrences |-> new.occurrences, kind |-> new.kind, support |-> new.support]
    BY <1>1, <2>1, <2>2
  <2> QED BY <1>2, <1>3, <2>2, <2>3 DEF occurrences, new
<1>4. CASE old.kind.form # "unsupported"
  <2>1. old.kind = KindOf(old.kind.form, old.kind.tag, old.kind.complete, old.kind.type,
                          old.kind.members)
    BY <1>4 DEF KnownKind
  <2>2. kind = [old.kind EXCEPT !.members = members]
    BY <1>4
  <2> HIDE DEF occurrences, support, members, kind, new
  <2>3. \A form, tag, complete, type, m1, m2 :
          [KindOf(form, tag, complete, type, m1) EXCEPT !.members = m2]
            = KindOf(form, tag, complete, type, m2)
    BY DEF KindOf
  <2>4. kind = KindOf(old.kind.form, old.kind.tag, old.kind.complete, old.kind.type, members)
    BY <2>1, <2>2, <2>3
  <2>5. /\ kind.form = old.kind.form /\ kind.tag = old.kind.tag
        /\ kind.complete = old.kind.complete /\ kind.type = old.kind.type /\ kind.members = members
    BY <2>4 DEF KindOf
  <2>6. kind = KindOf(kind.form, kind.tag, kind.complete, kind.type, kind.members)
    BY <2>4, <2>5
  <2>7. new.occurrences = occurrences /\ new.support = support /\ new.kind = kind
    BY <1>1
  <2>8. new = [occurrences |-> new.occurrences, kind |-> new.kind, support |-> new.support]
    BY <1>1, <2>7
  <2>9. new.kind.members = [i \in DOMAIN old.kind.members |->
                              MapMember(old.kind.members[i], new.occurrences)]
    BY <2>5, <2>7 DEF members
  <2> QED BY <1>2, <1>4, <2>5, <2>6, <2>7, <2>8, <2>9 DEF occurrences, new
<1> QED
  BY <1>3, <1>4

\* A declaration is placed as a whole: a member that is not mapped into an
\* occurrence stands in one that is not mapped.
LEMMA PlacedByMap ==
  ASSUME ConfigInv, next = Len(Mentions) + 1, unit.traced, NEW d \in Indexed,
         KindInv(d), OccurrencesInv(d), MembersInv(d),
         NEW new, new = MapDraft(drafts[d])
  PROVE  /\ \A k \in LoweredOf(d) : \E o \in new.occurrences :
              ~unit.traced \/ ~IsMapped(RangeOf(k)) => o.range.file = Generated
         /\ \A o \in new.occurrences :
              /\ IsPlaced(o.range) /\ o.origin = RoleOf(o.range.file)
              /\ \A i \in DOMAIN o.chain : /\ IsPlace(o.chain[i].directive)
                                           /\ o.chain[i].included \in DOMAIN FileRole
         /\ \A o1, o2 \in new.occurrences : o1.tokens = o2.tokens => o1 = o2
         /\ \A i \in DOMAIN MembersKept(new.kind) :
              /\ IsPlaced(MembersKept(new.kind)[i].range)
              /\ \E o \in new.occurrences : RangeContains(o.range, MembersKept(new.kind)[i].range)
         /\ MemberGaps(drafts[d]) # {} => OccurrenceGaps(drafts[d]) # {}
         /\ \A range \in OccurrenceGaps(drafts[d]) \cup MemberGaps(drafts[d]) :
              IsWritten(range) /\ ~IsMapped(range)
<1> DEFINE old == drafts[d]
<1>1. unit \in Units
  BY DEF ConfigInv
<1>2. old.kind.form = "unsupported" \/ KnownKind(old.kind)
  BY AllLowered DEF KindInv
<1>3. /\ new.occurrences = {MapOccurrence(o) : o \in old.occurrences}
      /\ new.kind.form = old.kind.form
      /\ old.kind.form # "unsupported" =>
           new.kind.members = [i \in DOMAIN old.kind.members |->
                                 MapMember(old.kind.members[i], new.occurrences)]
  <2> HIDE DEF old
  <2> QED BY <1>2, MappedDraft DEF old
<1>4. ASSUME NEW o \in old.occurrences
      PROVE  \E k \in LoweredOf(d) :
               /\ k \in DOMAIN Mentions /\ o.range = RangeOf(k)
               /\ MapOccurrence(o).tokens = o.tokens
               /\ IsMapped(RangeOf(k)) => MapOccurrence(o).range = MapRange(RangeOf(k))
               /\ ~IsMapped(RangeOf(k)) => /\ MapOccurrence(o).range = RangeOf(k)
                                           /\ MapOccurrence(o).range.file = Generated
               /\ IsPlaced(MapOccurrence(o).range)
               /\ MapOccurrence(o).origin = RoleOf(MapOccurrence(o).range.file)
               /\ \A i \in DOMAIN MapOccurrence(o).chain :
                    /\ IsPlace(MapOccurrence(o).chain[i].directive)
                    /\ MapOccurrence(o).chain[i].included \in DOMAIN FileRole
  <2>1. PICK k \in LoweredOf(d) :
          /\ k \in DOMAIN Mentions /\ o.range = RangeOf(k)
          /\ o.origin = "Generated" /\ o.chain = <<>>
          /\ o = [range |-> o.range, tokens |-> o.tokens, origin |-> o.origin,
                  chain |-> o.chain, attrsOk |-> o.attrsOk]
    BY <1>1, OccurrencePlaces
  <2> QED BY <1>1, <2>1, MappedOccurrence
<1>5. ASSUME NEW k \in LoweredOf(d)
      PROVE  \E o \in new.occurrences :
               /\ IsMapped(RangeOf(k)) => o.range = MapRange(RangeOf(k))
               /\ ~IsMapped(RangeOf(k)) => o.range = RangeOf(k) /\ o.range.file = Generated
  <2>1. PICK o \in old.occurrences : o.range = RangeOf(k)
    BY DEF OccurrencesInv
  <2>2. MapOccurrence(o) \in new.occurrences
    BY <1>3
  <2> QED BY <1>4, <2>1, <2>2
<1>6. ASSUME NEW o1 \in new.occurrences, NEW o2 \in new.occurrences, o1.tokens = o2.tokens
      PROVE  o1 = o2
  <2>1. PICK p1 \in old.occurrences, p2 \in old.occurrences :
          o1 = MapOccurrence(p1) /\ o2 = MapOccurrence(p2)
    BY <1>3
  <2>2. p1.tokens = p2.tokens
    BY <1>4, <1>6, <2>1
  <2> QED BY <2>1, <2>2 DEF OccurrencesInv
<1>7. ASSUME old.kind.form # "unsupported"
      PROVE  \E k \in LoweredOf(d) : k \in DOMAIN Mentions /\ StandIn(old.kind.members, k)
  <2>1. LoweredOf(d) \subseteq DOMAIN Mentions /\ old.kind.form # "none"
    BY AllLowered
  <2> QED BY <1>7, <2>1 DEF MembersInv
<1>8. ASSUME NEW i \in DOMAIN MembersKept(new.kind)
      PROVE  /\ IsPlaced(MembersKept(new.kind)[i].range)
             /\ \E o \in new.occurrences :
                  RangeContains(o.range, MembersKept(new.kind)[i].range)
  <2>1. /\ old.kind.form # "unsupported" /\ MembersKept(new.kind) = new.kind.members
        /\ i \in DOMAIN old.kind.members
    <3>1. DOMAIN (<< >>) = {}
      OBVIOUS
    <3> QED BY <1>3, <1>8, <3>1 DEF MembersKept
  <2>2. PICK k \in LoweredOf(d) : k \in DOMAIN Mentions /\ StandIn(old.kind.members, k)
    BY <1>7, <2>1
  <2> DEFINE member == old.kind.members[i]
             x == MapMember(member, new.occurrences)
  <2>3. /\ i \in DOMAIN Mentions[k].members
        /\ member = [name |-> member.name, type |-> member.type, range |-> MemberAt(k, i),
                     support |-> member.support]
    BY <2>1, <2>2 DEF StandIn
  <2>4. MembersKept(new.kind)[i] = x
    BY <1>3, <2>1
  <2>5. \/ /\ IsMapped(MemberAt(k, i)) /\ x.range = MapRange(MemberAt(k, i))
           /\ \E o \in new.occurrences : RangeContains(o.range, x.range)
        \/ /\ x.range = MemberAt(k, i)
           /\ ~(/\ IsMapped(MemberAt(k, i))
                /\ \E o \in new.occurrences : RangeContains(o.range, MapRange(MemberAt(k, i))))
    <3> HIDE DEF member
    <3> QED BY <2>3, MappedMember
  <2> HIDE DEF x
  <2>6. CASE /\ IsMapped(MemberAt(k, i)) /\ x.range = MapRange(MemberAt(k, i))
             /\ \E o \in new.occurrences : RangeContains(o.range, x.range)
    BY <1>1, <2>4, <2>6, MappedIsPlaced
  <2>7. CASE /\ x.range = MemberAt(k, i)
             /\ ~(/\ IsMapped(MemberAt(k, i))
                  /\ \E o \in new.occurrences : RangeContains(o.range, MapRange(MemberAt(k, i))))
    <3>1. PICK o \in new.occurrences :
            /\ IsMapped(RangeOf(k)) => o.range = MapRange(RangeOf(k))
            /\ ~IsMapped(RangeOf(k)) => o.range = RangeOf(k)
      BY <1>5
    <3>2. ~IsMapped(RangeOf(k))
      BY <1>1, <2>2, <2>3, <2>7, <3>1, MapsWithin
    <3>3. RangeContains(o.range, MemberAt(k, i))
      BY <1>1, <2>2, <2>3, <3>1, <3>2, RangeFacts
    <3>4. IsWritten(MemberAt(k, i))
      BY <2>2, <2>3 DEF IsWritten
    <3>5. ~AllMapped
      BY <2>2, <3>2 DEF AllMapped
    <3> QED BY <1>1, <2>4, <2>7, <3>3, <3>4, <3>5, WrittenIsPlaced
  <2> QED BY <2>5, <2>6, <2>7
<1>9. ASSUME NEW range \in OccurrenceGaps(old)
      PROVE  IsWritten(range) /\ ~IsMapped(range)
  <2>1. PICK o \in old.occurrences : range = o.range /\ ~IsMapped(range)
    BY DEF OccurrenceGaps
  <2> QED BY <1>4, <2>1 DEF IsWritten
<1>10. ASSUME NEW range \in MemberGaps(old)
       PROVE  IsWritten(range) /\ ~IsMapped(range) /\ OccurrenceGaps(old) # {}
  <2>1. PICK i \in DOMAIN MembersKept(old.kind) :
          range = MembersKept(old.kind)[i].range /\ ~IsMapped(range)
    BY DEF MemberGaps
  <2>2. old.kind.form # "unsupported" /\ MembersKept(old.kind) = old.kind.members
    <3>1. DOMAIN (<< >>) = {}
      OBVIOUS
    <3> QED BY <2>1, <3>1 DEF MembersKept
  <2>3. PICK k \in LoweredOf(d) : k \in DOMAIN Mentions /\ StandIn(old.kind.members, k)
    BY <1>7, <2>2
  <2>4. i \in DOMAIN Mentions[k].members /\ range = MemberAt(k, i)
    <3> DEFINE member == old.kind.members[i]
    <3>1. /\ i \in DOMAIN Mentions[k].members
          /\ member = [name |-> member.name, type |-> member.type, range |-> MemberAt(k, i),
                       support |-> member.support]
      BY <2>1, <2>2, <2>3 DEF StandIn
    <3>2. range = member.range
      BY <2>1, <2>2
    <3> HIDE DEF member
    <3>3. \A n, t, r, s : [name |-> n, type |-> t, range |-> r, support |-> s].range = r
      OBVIOUS
    <3>4. member.range = MemberAt(k, i)
      BY <3>1, <3>3
    <3> QED BY <3>1, <3>2, <3>4
  <2>5. ~IsMapped(RangeOf(k))
    BY <1>1, <2>1, <2>3, <2>4, MapsWithin
  <2>6. PICK o \in old.occurrences : o.range = RangeOf(k)
    BY DEF OccurrencesInv
  <2>7. RangeOf(k) \in OccurrenceGaps(old)
    BY <2>5, <2>6 DEF OccurrenceGaps
  <2> QED BY <2>1, <2>3, <2>4, <2>7 DEF IsWritten
<1>11. \A o \in new.occurrences :
         /\ IsPlaced(o.range) /\ o.origin = RoleOf(o.range.file)
         /\ \A i \in DOMAIN o.chain : /\ IsPlace(o.chain[i].directive)
                                      /\ o.chain[i].included \in DOMAIN FileRole
  BY <1>3, <1>4
<1> QED
  BY <1>5, <1>6, <1>8, <1>9, <1>10, <1>11

LEMMA RemapKeeps ==
  ASSUME IInv, Remap
  PROVE  IInv'
<1>1. /\ ConfigInv /\ PointersInv /\ \A d \in Indexed : KindInv(d)
      /\ \A d \in Indexed : OccurrencesInv(d) /\ MembersInv(d)
      /\ DiagnosticsInv /\ SaidInv /\ unit \in Units /\ unit.traced
      /\ next = Len(Mentions) + 1
  BY DEF IInv, Remap, LoweringInv, ConfigInv
<1>2. /\ unit' = unit /\ next' = next /\ pointers' = pointers /\ phase' = "package"
      /\ drafts' = [d \in Indexed |-> MapDraft(drafts[d])]
  BY DEF Remap
<1>3. /\ Mentions' = Mentions /\ Indexed' = Indexed
      /\ \A d : LoweredOf(d)' = LoweredOf(d) /\ First(d)' = First(d)
  BY <1>2 DEF Mentions, Indexed, LoweredOf, First
<1>4. \A range : /\ RangeOf(range)' = RangeOf(range)
                 /\ IsMapped(range)' <=> IsMapped(range)
  BY <1>2, <1>3 DEF RangeOf, IsMapped, Met
<1>5. /\ AllMapped' <=> AllMapped
      /\ \A range : IsPlaced(range)' <=> IsPlaced(range)
  BY <1>2, <1>3, <1>4 DEF AllMapped, IsPlaced
<1>6. ASSUME NEW d \in Indexed
      PROVE  LET old == drafts[d]
                 new == drafts'[d] IN
             /\ new = MapDraft(old)
             /\ new = [occurrences |-> new.occurrences, kind |-> new.kind, support |-> new.support]
             /\ old.kind.form = "unsupported" \/ KnownKind(old.kind)
             /\ new.kind.form = old.kind.form
             /\ old.kind.form # "unsupported" =>
                  /\ new.kind = KindOf(new.kind.form, new.kind.tag, new.kind.complete, new.kind.type,
                                       new.kind.members)
                  /\ new.kind.complete = old.kind.complete /\ new.kind.type = old.kind.type
                  /\ DOMAIN new.kind.members = DOMAIN old.kind.members
                  /\ \A i \in DOMAIN old.kind.members :
                       new.kind.members[i] = MapMember(old.kind.members[i], new.occurrences)
             /\ new.support # Supported <=> (old.support # Supported \/ OccurrenceGaps(old) # {})
  <2> DEFINE old == drafts[d]
  <2>1. drafts'[d] = MapDraft(old)
    BY <1>2
  <2>2. old.kind.form = "unsupported" \/ KnownKind(old.kind)
    BY <1>1, AllLowered DEF KindInv
  <2> HIDE DEF old
  <2>3. LET new == MapDraft(old) IN
        /\ new = [occurrences |-> new.occurrences, kind |-> new.kind, support |-> new.support]
        /\ new.kind.form = old.kind.form
        /\ old.kind.form # "unsupported" =>
             /\ new.kind = KindOf(new.kind.form, new.kind.tag, new.kind.complete, new.kind.type,
                                  new.kind.members)
             /\ new.kind.complete = old.kind.complete /\ new.kind.type = old.kind.type
             /\ new.kind.members = [i \in DOMAIN old.kind.members |->
                                      MapMember(old.kind.members[i], new.occurrences)]
        /\ new.support # Supported <=> (old.support # Supported \/ OccurrenceGaps(old) # {})
    BY <2>2, MappedDraft
  <2> QED BY <2>1, <2>2, <2>3 DEF old
<1>7. ConfigInv'
  <2>1. drafts' \in [Indexed -> {drafts'[d] : d \in Indexed}]
    BY <1>2
  <2> QED BY <1>1, <1>2, <1>3, <1>6, <2>1 DEF ConfigInv
<1>8. \A set \in SUBSET Indexed : PointersIn(set)' => PointersIn(set)
  BY <1>3, <1>6 DEF PointersIn
<1>9. \A d : EndsAtPointer(d) => EndsAtPointer(d)'
  BY <1>3, <1>8 DEF EndsAtPointer
<1>10. \A type : TypeInv(type) => TypeInv(type)'
  BY <1>3, <1>9 DEF TypeInv
<1>11. PointersInv'
  BY <1>1, <1>2, <1>3, <1>9 DEF PointersInv
<1>12. ASSUME NEW d \in Indexed
       PROVE  KindInv(d)'
  <2> DEFINE old == drafts[d]
             new == drafts'[d]
  <2>1. KindInv(d)
    BY <1>1
  <2>2. old.kind.form = "unsupported" => new.support # Supported
    BY <1>6, <2>1 DEF KindInv
  <2>3. ASSUME old.kind.form # "unsupported", NEW kind, kind = new.kind
        PROVE  KnownKind(kind)'
    <3>1. KnownKind(old.kind) /\ MembersInv(d) /\ old.kind.form # "none"
      BY <1>1, <1>6, <2>3, AllLowered
    <3>2. PICK k \in LoweredOf(d) : StandIn(old.kind.members, k)
      BY <2>3, <3>1 DEF MembersInv
    <3>3. ASSUME NEW i \in DOMAIN old.kind.members
          PROVE  TypeInv(kind.members[i].type)'
      <4> DEFINE member == old.kind.members[i]
      <4>1. member = [name |-> member.name, type |-> member.type, range |-> MemberAt(k, i),
                      support |-> member.support]
        BY <3>2 DEF StandIn
      <4>2. MapMember(member, new.occurrences).type = member.type
        <5> HIDE DEF member
        <5> QED BY <4>1, MappedMember
      <4>3. kind.members[i].type = member.type /\ TypeInv(member.type)
        BY <1>6, <2>3, <3>1, <4>2 DEF KnownKind
      <4> QED BY <1>10, <4>3
    <3> QED BY <1>6, <1>10, <2>3, <3>1, <3>3 DEF KnownKind
  <2> QED BY <1>3, <1>6, <2>1, <2>2, <2>3 DEF KindInv
<1>13. ASSUME NEW d \in Indexed
       PROVE  PlacedDraft(d)'
  <2>1. LET new == drafts'[d] IN
        /\ \A k \in LoweredOf(d) : \E o \in new.occurrences :
             ~unit.traced \/ ~IsMapped(RangeOf(k)) => o.range.file = Generated
        /\ \A o \in new.occurrences :
             /\ IsPlaced(o.range) /\ o.origin = RoleOf(o.range.file)
             /\ \A i \in DOMAIN o.chain : /\ IsPlace(o.chain[i].directive)
                                          /\ o.chain[i].included \in DOMAIN FileRole
        /\ \A o1, o2 \in new.occurrences : o1.tokens = o2.tokens => o1 = o2
        /\ \A i \in DOMAIN MembersKept(new.kind) :
             /\ IsPlaced(MembersKept(new.kind)[i].range)
             /\ \E o \in new.occurrences : RangeContains(o.range, MembersKept(new.kind)[i].range)
    BY <1>1, <1>6, PlacedByMap
  <2> QED BY <1>2, <1>3, <1>4, <1>5, <2>1 DEF PlacedDraft
<1>14. ASSUME NEW d \in Indexed
       PROVE  /\ MemberGaps(drafts[d]) # {} => OccurrenceGaps(drafts[d]) # {}
              /\ \A range \in OccurrenceGaps(drafts[d]) \cup MemberGaps(drafts[d]) :
                   IsWritten(range) /\ ~IsMapped(range)
  BY <1>1, PlacedByMap
<1> DEFINE Gaps(d) == {Gap(d, range) : range \in OccurrenceGaps(drafts[d]) \cup MemberGaps(drafts[d])}
           AllMoved == {MapDiagnostic(g) : g \in diagnostics}
           AllGaps == UNION {Gaps(d) : d \in Indexed}
           Lost == {Gap(NoDecl, g.range) : g \in {x \in diagnostics : ~IsMapped(x.range)}}
           Fits(g) == /\ g.impact = "ForcesPartial" /\ g.decl \in Indexed \cup {NoDecl}
                      /\ g.decl # NoDecl => drafts'[g.decl].support # Supported
                      /\ IsPlaced(g.range)
<1>15. diagnostics' = AllMoved \cup AllGaps \cup Lost \cup Recoveries
  BY DEF Remap
<1>16. ASSUME NEW g \in diagnostics
       PROVE  /\ MapDiagnostic(g).decl = g.decl /\ Fits(MapDiagnostic(g))
  <2> DEFINE now == IF IsMapped(g.range) THEN MapRange(g.range) ELSE g.range
  <2>1. /\ g = Bound(g.decl, g.code, g.error, g.range)
        /\ g.decl \in Indexed /\ drafts[g.decl].support # Supported
        /\ IsWritten(g.range)
    BY <1>1 DEF DiagnosticsInv
  <2>2. IsPlaced(now)
    BY <1>1, <2>1, WrittenIsPlaced, MappedIsPlaced
  <2>3. MapDiagnostic(g) = [g EXCEPT !.range = now]
    BY DEF MapDiagnostic
  <2> HIDE DEF now
  <2>4. \A d, c, e, r, r2 : LET y == [Bound(d, c, e, r) EXCEPT !.range = r2] IN
          y.decl = d /\ y.range = r2 /\ y.impact = "ForcesPartial"
    BY DEF Bound
  <2>5. /\ MapDiagnostic(g).decl = g.decl /\ MapDiagnostic(g).range = now
        /\ MapDiagnostic(g).impact = "ForcesPartial"
    BY <2>1, <2>3, <2>4
  <2>6. drafts'[g.decl].support # Supported
    BY <1>6, <2>1
  <2> QED BY <2>1, <2>2, <2>5, <2>6
<1>17. \A d, range : Gap(d, range).impact = "ForcesPartial" /\ Gap(d, range).decl = d
                     /\ Gap(d, range).range = range
  BY DEF Gap
<1>18. ASSUME NEW range, IsWritten(range), ~IsMapped(range)
       PROVE  IsPlaced(range)
  BY <1>1, <1>18, WrittenIsPlaced
<1>19. ASSUME NEW d \in Indexed, NEW g \in Gaps(d)
       PROVE  g.decl = d /\ Fits(g)
  <2>1. PICK range \in OccurrenceGaps(drafts[d]) \cup MemberGaps(drafts[d]) : g = Gap(d, range)
    BY <1>19
  <2>2. drafts'[d].support # Supported
    BY <1>6, <1>14
  <2> QED BY <1>14, <1>17, <1>18, <2>1, <2>2
<1>20. ASSUME NEW g \in Lost
       PROVE  Fits(g)
  <2>1. PICK x \in diagnostics : ~IsMapped(x.range) /\ g = Gap(NoDecl, x.range)
    BY <1>20
  <2>2. IsWritten(x.range)
    BY <1>1 DEF DiagnosticsInv
  <2> QED BY <1>17, <1>18, <2>1, <2>2
<1>24. ASSUME NEW g \in Recoveries
       PROVE  Fits(g)
  BY <1>1, <1>24, RecoveryFacts DEF Recoveries
<1> HIDE DEF Fits, Gaps, Lost, AllMoved, AllGaps
<1>21. ASSUME NEW g, g \in diagnostics'
       PROVE  Fits(g)
  <2>1. ASSUME NEW x \in diagnostics, g = MapDiagnostic(x)
        PROVE  Fits(g)
    BY <1>16, <2>1
  <2>2. ASSUME NEW d \in Indexed, g \in Gaps(d)
        PROVE  Fits(g)
    BY <1>19, <2>2
  <2>3. CASE g \in Lost
    BY <1>20, <2>3
  <2>4. \/ \E x \in diagnostics : g = MapDiagnostic(x)
        \/ \E d \in Indexed : g \in Gaps(d)
        \/ g \in Lost \/ g \in Recoveries
    <3>1. g \in AllMoved \/ g \in AllGaps \/ g \in Lost \/ g \in Recoveries
      BY <1>15, <1>21
    <3> QED BY <3>1 DEF AllMoved, AllGaps
  <2> QED BY <1>24, <2>1, <2>2, <2>3, <2>4
<1>25. ASSUME NEW span \in unit.skipped, ~unit.traced \/ ~IsMapped(span)
       PROVE  \E g \in diagnostics' : g.range = span
  <2>1. Recovery(span) \in diagnostics'
    BY <1>15 DEF Recoveries
  <2> QED BY <1>1, <1>25, <2>1, RecoveryFacts
<1>22. PlacedInv'
  BY <1>2, <1>3, <1>4, <1>5, <1>13, <1>21, <1>25 DEF PlacedInv, Fits
<1>23. SaidInv'
  <2> SUFFICES ASSUME NEW d \in Indexed, drafts'[d].support # Supported
               PROVE  \E g \in diagnostics' : g.decl = d
    BY <1>3 DEF SaidInv
  <2>1. CASE drafts[d].support # Supported
    <3>1. PICK g \in diagnostics : g.decl = d
      BY <1>1, <2>1 DEF SaidInv
    <3>2. MapDiagnostic(g) \in AllMoved
      BY DEF AllMoved
    <3> QED BY <1>15, <1>16, <3>1, <3>2
  <2>2. CASE OccurrenceGaps(drafts[d]) # {}
    <3>1. PICK range \in OccurrenceGaps(drafts[d]) : TRUE
      BY <2>2
    <3>2. Gap(d, range) \in Gaps(d)
      BY DEF Gaps
    <3>3. Gap(d, range) \in AllGaps
      BY <3>2 DEF AllGaps
    <3> QED BY <1>15, <1>17, <3>3
  <2> QED BY <1>6, <2>1, <2>2
<1> QED
  BY <1>2, <1>3, <1>7, <1>11, <1>12, <1>22, <1>23 DEF IInv

\* What is left in the generated text is placed there as it was lowered.
LEMMA KeepGeneratedKeeps ==
  ASSUME IInv, KeepGenerated
  PROVE  IInv'
<1>1. /\ ConfigInv /\ PointersInv /\ \A d \in Indexed : KindInv(d)
      /\ \A d \in Indexed : OccurrencesInv(d) /\ MembersInv(d)
      /\ DiagnosticsInv /\ SaidInv /\ unit \in Units /\ ~unit.traced
      /\ next = Len(Mentions) + 1
  BY DEF IInv, KeepGenerated, LoweringInv, ConfigInv
<1>2. UNCHANGED <<unit, next, drafts, pointers>> /\ phase' = "package"
  BY DEF KeepGenerated
<1>3. /\ Mentions' = Mentions /\ Indexed' = Indexed /\ PointersInv'
      /\ \A d \in Indexed' : KindInv(d)' /\ LoweredOf(d)' = LoweredOf(d)
  BY <1>1, <1>2, SameDrafts
<1>4. ConfigInv'
  BY <1>1, <1>2, <1>3 DEF ConfigInv
<1>5. ~AllMapped /\ ~AllMapped'
  BY <1>1, <1>2 DEF AllMapped
<1>6. \A range : IsPlaced(range)' <=> IsPlaced(range)
  BY <1>5 DEF IsPlaced
<1>7. \A range : IsWritten(range) => IsPlaced(range) /\ range.file = Generated
  BY <1>1, <1>5, WrittenIsPlaced
<1>8. ASSUME NEW d \in Indexed
      PROVE  PlacedDraft(d)'
  <2> DEFINE occurrences == drafts[d].occurrences
             members == MembersKept(drafts[d].kind)
  <2>1. ASSUME NEW o \in occurrences
        PROVE  /\ IsPlaced(o.range) /\ o.origin = RoleOf(o.range.file) /\ o.range.file = Generated
               /\ \A i \in DOMAIN o.chain : /\ IsPlace(o.chain[i].directive)
                                            /\ o.chain[i].included \in DOMAIN FileRole
    <3>1. PICK k \in LoweredOf(d) : /\ k \in DOMAIN Mentions /\ o.range = RangeOf(k)
                                    /\ o.origin = "Generated" /\ o.chain = <<>>
      BY <1>1, OccurrencePlaces
    <3>2. IsWritten(o.range)
      BY <3>1 DEF IsWritten
    <3>3. IsPlaced(o.range) /\ o.range.file = Generated
      BY <1>7, <3>2
    <3>4. DOMAIN o.chain = {}
      BY <3>1
    <3> QED BY <3>1, <3>3, <3>4 DEF RoleOf
  <2>2. ASSUME NEW k \in LoweredOf(d)
        PROVE  \E o \in occurrences : o.range.file = Generated
    <3>1. OccurrencesInv(d)
      BY <1>1
    <3>2. \E o \in occurrences : o.range = RangeOf(k)
      BY <3>1 DEF OccurrencesInv
    <3> QED BY <2>1, <3>2
  <2>3. \A o1, o2 \in occurrences : o1.tokens = o2.tokens => o1 = o2
    BY <1>1 DEF OccurrencesInv
  <2>4. ASSUME NEW i \in DOMAIN members
        PROVE  /\ IsPlaced(members[i].range)
               /\ \E o \in occurrences : RangeContains(o.range, members[i].range)
    <3>1. drafts[d].kind.form # "unsupported" /\ members = drafts[d].kind.members
      <4>1. DOMAIN (<< >>) = {}
        OBVIOUS
      <4> QED BY <4>1 DEF MembersKept
    <3>2. drafts[d].kind.form # "none" /\ LoweredOf(d) \subseteq DOMAIN Mentions
      BY <1>1, AllLowered
    <3>3. PICK k \in LoweredOf(d) : k \in DOMAIN Mentions /\ StandIn(members, k)
      BY <1>1, <3>1, <3>2 DEF MembersInv
    <3> DEFINE member == members[i]
    <3>4. /\ i \in DOMAIN Mentions[k].members
          /\ member = [name |-> member.name, type |-> member.type, range |-> MemberAt(k, i),
                       support |-> member.support]
      BY <3>3 DEF StandIn
    <3>5. member.range = MemberAt(k, i)
      <4> HIDE DEF member
      <4>1. \A n, t, r, s : [name |-> n, type |-> t, range |-> r, support |-> s].range = r
        OBVIOUS
      <4> QED BY <3>4, <4>1
    <3>6. IsWritten(MemberAt(k, i)) /\ RangeContains(RangeOf(k), MemberAt(k, i))
      BY <1>1, <3>3, <3>4, RangeFacts DEF IsWritten
    <3>7. PICK o \in occurrences : o.range = RangeOf(k)
      BY <1>1 DEF OccurrencesInv
    <3> QED BY <1>7, <3>5, <3>6, <3>7
  <2> HIDE DEF occurrences, members
  <2>5. /\ occurrences' = occurrences /\ members' = members
        /\ LoweredOf(d)' = LoweredOf(d)
    BY <1>2, <1>3 DEF occurrences, members
  <2> QED BY <1>6, <2>1, <2>2, <2>3, <2>4, <2>5 DEF PlacedDraft, occurrences, members
<1>9. ASSUME NEW g, g \in diagnostics'
      PROVE  /\ g.impact = "ForcesPartial" /\ g.decl \in Indexed \cup {NoDecl}
             /\ g.decl # NoDecl => drafts[g.decl].support # Supported
             /\ IsPlaced(g.range)
  <2>0. CASE g \in Recoveries
    BY <1>1, <2>0, RecoveryFacts DEF Recoveries
  <2>1. CASE g \in diagnostics
    <3>1. /\ g = Bound(g.decl, g.code, g.error, g.range)
          /\ g.decl \in Indexed /\ drafts[g.decl].support # Supported
          /\ IsWritten(g.range)
      BY <1>1, <2>1 DEF DiagnosticsInv
    <3>2. \A d, c, e, r : Bound(d, c, e, r).impact = "ForcesPartial"
      BY DEF Bound
    <3>3. g.impact = "ForcesPartial"
      BY <3>1, <3>2
    <3> QED BY <1>7, <3>1, <3>3
  <2>2. CASE g = [Gap(NoDecl, [file |-> Generated, start |-> 0, end |-> FileLength])
                    EXCEPT !.code = "P0001"]
    <3>1. /\ g.impact = "ForcesPartial" /\ g.decl = NoDecl
          /\ g.range = [file |-> Generated, start |-> 0, end |-> FileLength]
      BY <2>2 DEF Gap
    <3>2. FileLength \in Nat /\ 0 < FileLength
      BY <1>1, UnitFacts, UnitsAssumption
    <3>3. g.range.file = Generated /\ g.range.start = 0 /\ g.range.end = FileLength
      BY <3>1
    <3>4. IsPlaced(g.range)
      BY <1>5, <3>2, <3>3 DEF IsPlaced
    <3> QED BY <3>1, <3>4
  <2> QED BY <1>9, <2>0, <2>1, <2>2 DEF KeepGenerated
<1>12. ASSUME NEW span \in unit.skipped
       PROVE  \E g \in diagnostics' : g.range = span
  <2>1. Recovery(span) \in diagnostics'
    BY DEF KeepGenerated, Recoveries
  <2> QED BY <1>1, <2>1, RecoveryFacts
<1>10. PlacedInv'
  BY <1>2, <1>3, <1>6, <1>8, <1>9, <1>12 DEF PlacedInv
<1>11. SaidInv'
  <2>1. diagnostics \subseteq diagnostics'
    BY DEF KeepGenerated
  <2> QED BY <1>1, <1>2, <1>3, <2>1 DEF SaidInv
<1> QED
  BY <1>2, <1>3, <1>4, <1>10, <1>11 DEF IInv

LEMMA LowerKeeps ==
  ASSUME IInv, Lower
  PROVE  IInv'
<1>1. /\ ConfigInv /\ PointersInv /\ \A d \in Indexed : KindInv(d)
      /\ \A d \in Indexed : OccurrencesInv(d) /\ MembersInv(d)
      /\ DiagnosticsInv
  BY DEF IInv, Lower, LoweringInv
<1>2. Indexed' = Indexed /\ phase' = "lower"
  BY <1>1, LowerFacts
<1>3. ConfigInv' /\ PointersInv' /\ DiagnosticsInv'
  BY <1>1, LowerKeepsConfig, LowerKeepsPointers, LowerKeepsDiagnostics
<1>4. \A d \in Indexed' : KindInv(d)' /\ OccurrencesInv(d)' /\ MembersInv(d)'
  BY <1>1, <1>2, LowerKeepsKinds, LowerKeepsOccurrences, LowerKeepsMembers
<1> QED
  BY <1>2, <1>3, <1>4 DEF IInv, LoweringInv

LEMMA SamePackage ==
  ASSUME UNCHANGED <<unit, next, drafts, pointers, diagnostics>>
  PROVE  /\ DiagnosticsInv => DiagnosticsInv'
         /\ SaidInv => SaidInv'
         /\ PlacedInv => PlacedInv'
         /\ Packaged' = Packaged
<1>1. /\ Mentions' = Mentions /\ Indexed' = Indexed
      /\ \A d : LoweredOf(d)' = LoweredOf(d)
      /\ \A range : IsWritten(range)' <=> IsWritten(range)
  BY SameDrafts
<1>2. DiagnosticsInv => DiagnosticsInv'
  BY <1>1 DEF DiagnosticsInv
<1>3. SaidInv => SaidInv'
  BY <1>1 DEF SaidInv
<1>4. PlacedInv => PlacedInv'
  <2>1. /\ \A k : RangeOf(k)' = RangeOf(k)
        /\ \A range : IsMapped(range)' <=> IsMapped(range)
    BY <1>1 DEF RangeOf, IsMapped, Met
  <2>2. AllMapped' <=> AllMapped
    BY <1>1, <2>1 DEF AllMapped
  <2>3. \A range : IsPlaced(range)' <=> IsPlaced(range)
    BY <2>2 DEF IsPlaced
  <2>4. \A d \in Indexed : PlacedDraft(d) => PlacedDraft(d)'
    BY <1>1, <2>1, <2>3 DEF PlacedDraft
  <2> QED BY <1>1, <2>1, <2>3, <2>4 DEF PlacedInv
<1>5. Packaged' = Packaged
  <2>1. \A d : FirstMention(d)' = FirstMention(d)
    BY <1>1 DEF FirstMention
  <2>2. \A d : IsInternal(d)' <=> IsInternal(d)
    BY <2>1 DEF IsInternal
  <2>3. \A d \in Indexed : HeadOf(d)' = HeadOf(d)
    BY <2>1, <2>2 DEF HeadOf
  <2>4. \A d : HasDoubleChild(d)' <=> HasDoubleChild(d)
    BY DEF HasDoubleChild
  <2>5. \A generated : PackageWith(generated)' = PackageWith(generated)
    BY <1>1, <2>3 DEF PackageWith
  <2>6. \A p : IsAccepted(p)' <=> IsAccepted(p)
    BY <1>1, <2>4 DEF IsAccepted
  <2> QED BY <2>5, <2>6 DEF Packaged
<1> QED
  BY <1>2, <1>3, <1>4, <1>5

\* A package is of what the scan has at the end.
LEMMA PackageKeeps ==
  ASSUME IInv, Package
  PROVE  IInv'
<1>1. /\ ConfigInv /\ PointersInv /\ \A d \in Indexed : KindInv(d)
      /\ SaidInv /\ PlacedInv /\ next = Len(Mentions) + 1
  BY DEF IInv, Package, ConfigInv
<1>2. /\ UNCHANGED <<unit, next, drafts, pointers, diagnostics>> /\ phase' = "done"
      /\ package' = Packaged
  BY DEF Package, Packaged
<1>3. /\ Mentions' = Mentions /\ Indexed' = Indexed /\ PointersInv'
      /\ \A d \in Indexed' : KindInv(d)'
  BY <1>1, <1>2, SameDrafts
<1>4. ConfigInv'
  BY <1>1, <1>2, <1>3 DEF ConfigInv
<1>5. SaidInv' /\ PlacedInv' /\ Packaged' = Packaged
  BY <1>1, <1>2, SamePackage
<1> QED
  BY <1>2, <1>3, <1>4, <1>5 DEF IInv

LEMMA Stutters ==
  ASSUME IInv, UNCHANGED vars
  PROVE  IInv'
<1>1. UNCHANGED <<unit, next, drafts, pointers, diagnostics>> /\ phase' = phase /\ package' = package
  BY DEF vars
<1>2. /\ Mentions' = Mentions /\ Indexed' = Indexed
      /\ PointersInv => PointersInv'
      /\ \A d : KindInv(d) => KindInv(d)'
      /\ \A d : OccurrencesInv(d) => OccurrencesInv(d)'
      /\ \A d : MembersInv(d) => MembersInv(d)'
  BY <1>1, SameDrafts
<1>3. ConfigInv => ConfigInv'
  BY <1>1, <1>2 DEF ConfigInv
<1>4. /\ DiagnosticsInv => DiagnosticsInv'
      /\ SaidInv => SaidInv'
      /\ PlacedInv => PlacedInv'
      /\ Packaged' = Packaged
  BY <1>1, SamePackage
<1>5. LoweringInv => LoweringInv'
  BY <1>2, <1>4 DEF LoweringInv
<1> QED
  BY <1>1, <1>2, <1>3, <1>4, <1>5 DEF IInv

-----------------------------------------------------------------------------
(* What validation accepts *)

\* What is known of a scan that has lowered and mapped everything.
Settled ==
  /\ ConfigInv /\ next = Len(Mentions) + 1
  /\ \A d \in Indexed : KindInv(d)
  /\ PlacedInv

\* No declaration refers to one that conflicts or that is not supported.
NoneRefersToUnsupported ==
  \A d, e \in Indexed :
    drafts[d].kind.form = "unsupported" => \A r \in HeadOf(e).refs : r.to # d

\* The generated text is kept, or there is nothing in it and nothing of it.
MayDrop(generated) == generated \/ (AllMapped /\ \A d \in Indexed : ~IsInternal(d))

LEMMA PackageParts ==
  ASSUME NEW generated \in BOOLEAN
  PROVE  LET p == PackageWith(generated) IN
         /\ DOMAIN p.decls = Indexed
         /\ \A d \in Indexed : /\ p.decls[d].head = HeadOf(d)
                               /\ p.decls[d].occurrences = drafts[d].occurrences
         /\ DOMAIN p.files = DOMAIN FileRole \cup (IF generated THEN {Generated} ELSE {})
         /\ \A f \in DOMAIN p.files : p.files[f].role = RoleOf(f) /\ p.files[f].length = FileLength
         /\ p.entries = {f \in DOMAIN FileRole : FileRole[f] = "Entry"} /\ p.forced = {}
         /\ p.macros = <<>> /\ p.diagnostics = diagnostics
         /\ p.verdict = VerdictOf(diagnostics) /\ p.reasons = ReasonsOf(diagnostics)
BY DEF PackageWith, FilesWith, RoleOf

LEMMA HeadParts ==
  ASSUME NEW d
  PROVE  LET h == HeadOf(d)
             kind == drafts[d].kind
             members == MembersKept(kind) IN
         /\ h.space = IF ~IsTag(FirstMention(d)) THEN "Ordinary"
                      ELSE IF FirstMention(d).named THEN "Tag" ELSE "Anonymous"
         /\ IsInternal(d) => h.scope.in = "File" /\ h.scope.file = Generated
         /\ ~IsInternal(d) => h.scope.in = "TranslationUnit"
         /\ h.internal = IsInternal(d) /\ h.kind = kind.form
         /\ h.outermost = OutermostOf(IF kind.form = "unsupported" THEN NoType ELSE kind.type)
         /\ h.refs = ReferencesOf(IF kind.form = "unsupported" THEN NoType ELSE kind.type)
                       \cup UNION {ReferencesOf(members[i].type) : i \in DOMAIN members}
         /\ h.children = {ChildOf(kind, i) : i \in DOMAIN members}
         /\ h.supported = (drafts[d].support = Supported)
         /\ h.incomplete = (kind.form = "record" /\ ~kind.complete)
<1> DEFINE kind == drafts[d].kind
           members == MembersKept(kind)
           type == OwnType(kind)
           space == IF ~IsTag(FirstMention(d)) THEN "Ordinary"
                    ELSE IF FirstMention(d).named THEN "Tag" ELSE "Anonymous"
           scope == IF IsInternal(d) THEN [in |-> "File", file |-> Generated]
                    ELSE [in |-> "TranslationUnit"]
           internal == IsInternal(d)
           types == TypesIn(kind)
           refs == UNION {ReferencesOf(t) : t \in types}
           depth == DepthOf(types)
           children == {ChildOf(kind, i) : i \in DOMAIN members}
           supported == drafts[d].support = Supported
           incomplete == kind.form = "record" /\ ~kind.complete
           bodyOk == KindSupport(kind) = Supported
           outermost == OutermostOf(type)
           form == kind.form
<1>1. HeadOf(d) = [space |-> space, scope |-> scope, internal |-> internal, kind |-> form,
                   refs |-> refs, outermost |-> outermost, depth |-> depth,
                   children |-> children, supported |-> supported, bodyOk |-> bodyOk, incomplete |-> incomplete]
  BY DEF HeadOf
<1>2. /\ IsInternal(d) => scope.in = "File" /\ scope.file = Generated
      /\ ~IsInternal(d) => scope.in = "TranslationUnit"
  OBVIOUS
<1>4. refs = ReferencesOf(type) \cup UNION {ReferencesOf(members[i].type) : i \in DOMAIN members}
  <2>1. types = {type} \cup {members[i].type : i \in DOMAIN members}
    BY DEF TypesIn
  <2> HIDE DEF type, members, types
  <2> QED BY <2>1
<1> HIDE DEF space, scope, internal, refs, children, supported, incomplete, bodyOk, outermost, depth,
             form
<1>3. /\ HeadOf(d).space = space /\ HeadOf(d).scope = scope /\ HeadOf(d).internal = internal
      /\ HeadOf(d).kind = form /\ HeadOf(d).refs = refs /\ HeadOf(d).outermost = outermost
      /\ HeadOf(d).children = children /\ HeadOf(d).supported = supported
      /\ HeadOf(d).incomplete = incomplete
  BY <1>1
<1> QED
  BY <1>2, <1>3, <1>4 DEF space, internal, children, supported, incomplete, outermost, form, OwnType

\* A place in a file of the package, with the role of that file.
LEMMA PlacedIsKnown ==
  ASSUME NEW generated \in BOOLEAN, generated \/ AllMapped,
         NEW range, IsPlaced(range) \/ IsPlace(range)
  PROVE  LET p == PackageWith(generated) IN
         /\ RangeKnown(p, range) /\ range.start # range.end
         /\ range.file \in DOMAIN p.files /\ p.files[range.file].role = RoleOf(range.file)
<1> DEFINE p == PackageWith(generated)
<1>1. /\ DOMAIN p.files = DOMAIN FileRole \cup (IF generated THEN {Generated} ELSE {})
      /\ \A f \in DOMAIN p.files : p.files[f].role = RoleOf(f) /\ p.files[f].length = FileLength
  BY PackageParts
<1>2. FileLength \in Nat
  BY UnitsAssumption
<1>3. /\ range.start \in Nat /\ range.end \in 0..FileLength /\ range.start < range.end
      /\ range.file \in DOMAIN FileRole \cup {Generated}
      /\ AllMapped => range.file # Generated
  BY UnitsAssumption DEF IsPlaced, IsPlace
<1>4. range.file \in DOMAIN p.files
  BY <1>1, <1>3
<1> HIDE DEF p
<1>5. range.start <= range.end /\ range.end <= p.files[range.file].length /\ range.start # range.end
  BY <1>1, <1>2, <1>3, <1>4
<1> QED
  BY <1>1, <1>4, <1>5 DEF RangeKnown, p

\* The kind of a declaration is that of each of its mentions.
LEMMA KindOfMentions ==
  ASSUME Settled, NEW k \in DOMAIN Mentions, NEW d, d = Mentions[k].d,
         drafts[d].kind.form # "unsupported"
  PROVE  /\ drafts[d].kind.form = FormOfKind(Mentions[k])
         /\ KnownKind(drafts[d].kind)
<1>1. d \in Indexed /\ k \in LoweredOf(d) /\ drafts[d].kind.form # "none"
  BY AllLowered DEF Settled, Indexed
<1> QED
  BY <1>1 DEF Settled, KindInv

LEMMA IdentityAccepted ==
  ASSUME Settled, NEW generated \in BOOLEAN, MayDrop(generated), NEW d \in Indexed
  PROVE  IdentityChecked(PackageWith(generated), HeadOf(d))
<1> DEFINE p == PackageWith(generated)
           h == HeadOf(d)
<1>1. /\ First(d) \in DOMAIN Mentions /\ Mentions[First(d)].d = d
      /\ FirstMention(d) = Mentions[First(d)]
  BY FirstFacts, FirstMentionIsAt DEF Settled, ConfigInv
<1>2. Mentions[First(d)].form \in Forms /\ (IsInternal(d) => Mentions[First(d)].form = "object")
  BY <1>1, MentionFacts DEF Settled, ConfigInv, IsInternal
<1>3. h.kind # "unsupported" => h.kind = FormOfKind(Mentions[First(d)])
  BY <1>1, HeadParts, KindOfMentions
<1>4. /\ h.space = IF ~IsTag(FirstMention(d)) THEN "Ordinary"
                   ELSE IF FirstMention(d).named THEN "Tag" ELSE "Anonymous"
      /\ IsInternal(d) => h.scope.in = "File" /\ h.scope.file = Generated
      /\ ~IsInternal(d) => h.scope.in = "TranslationUnit"
      /\ h.internal = IsInternal(d)
  BY HeadParts
<1>5. IsInternal(d) => Generated \in DOMAIN p.files
  BY PackageParts DEF MayDrop
<1> HIDE DEF p, h
<1>6. ScopeChecked(p, h.scope)
  BY <1>4, <1>5 DEF ScopeChecked
<1>7. h.kind \in {"record", "enum"} => h.space # "Ordinary"
  BY <1>1, <1>2, <1>3, <1>4 DEF FormOfKind, IsTag, Forms
<1>8. h.kind \in {"function", "alias", "variable"} => h.space # "Tag"
  BY <1>1, <1>2, <1>3, <1>4 DEF FormOfKind, IsTag, Forms
<1>9. h.internal => h.space # "Anonymous" /\ h.scope.in = "File"
  BY <1>1, <1>2, <1>4 DEF IsTag
<1> QED
  BY <1>6, <1>7, <1>8, <1>9 DEF IdentityChecked, p, h

LEMMA OccurrencesAccepted ==
  ASSUME Settled, NEW generated \in BOOLEAN, MayDrop(generated), NEW d \in Indexed
  PROVE  OccurrencesChecked(PackageWith(generated), PackageWith(generated).decls[d])
<1> DEFINE p == PackageWith(generated)
           occurrences == drafts[d].occurrences
<1>1. PlacedDraft(d)
  BY DEF Settled, PlacedInv
<1>2. occurrences # {}
  BY <1>1, AllLowered DEF Settled, PlacedDraft
<1>3. ASSUME NEW o \in occurrences
      PROVE  OccurrenceChecked(p, o)
  <2>1. /\ IsPlaced(o.range) /\ o.origin = RoleOf(o.range.file)
        /\ \A i \in DOMAIN o.chain : /\ IsPlace(o.chain[i].directive)
                                     /\ o.chain[i].included \in DOMAIN FileRole
    BY <1>1 DEF PlacedDraft
  <2>2. /\ RangeKnown(p, o.range) /\ o.range.start # o.range.end
        /\ p.files[o.range.file].role = RoleOf(o.range.file)
    BY <2>1, PlacedIsKnown DEF MayDrop
  <2>3. ASSUME NEW i \in DOMAIN o.chain
        PROVE  RangeKnown(p, o.chain[i].directive) /\ o.chain[i].included \in DOMAIN p.files
    BY <2>1, PlacedIsKnown, PackageParts DEF MayDrop
  <2> HIDE DEF p
  <2> QED BY <2>1, <2>2, <2>3 DEF OccurrenceChecked, OriginKnown
<1>4. ASSUME NEW o1 \in occurrences, NEW o2 \in occurrences, OccurrenceId(o1) = OccurrenceId(o2)
      PROVE  o1 = o2
  <2>1. o1.tokens = o2.tokens
    BY <1>4 DEF OccurrenceId
  <2> QED BY <1>1, <2>1 DEF PlacedDraft
<1>5. p.decls[d].occurrences = occurrences
  BY PackageParts
<1> QED
  BY <1>2, <1>3, <1>4, <1>5 DEF OccurrencesChecked

LEMMA KindAccepted ==
  ASSUME Settled, NEW d \in Indexed
  PROVE  KindChecked(HeadOf(d))
<1>1. KindInv(d) /\ drafts[d].kind.form # "none"
  BY AllLowered DEF Settled
<1>2. /\ HeadOf(d).kind = drafts[d].kind.form
      /\ HeadOf(d).supported = (drafts[d].support = Supported)
      /\ HeadOf(d).incomplete = (drafts[d].kind.form = "record" /\ ~drafts[d].kind.complete)
      /\ HeadOf(d).children =
           {ChildOf(drafts[d].kind, i) : i \in DOMAIN MembersKept(drafts[d].kind)}
  BY HeadParts
<1>3. HeadOf(d).kind = "unsupported" => ~HeadOf(d).supported
  BY <1>1, <1>2 DEF KindInv
<1>4. HeadOf(d).incomplete => HeadOf(d).children = {}
  BY <1>1, <1>2 DEF KindInv, KnownKind, MembersKept
<1> QED
  BY <1>3, <1>4 DEF KindChecked

LEMMA ChildrenAccepted ==
  ASSUME Settled, NEW generated \in BOOLEAN, MayDrop(generated),
         NEW d \in Indexed, ~HasDoubleChild(d)
  PROVE  ChildrenChecked(PackageWith(generated), PackageWith(generated).decls[d])
<1> DEFINE p == PackageWith(generated)
           kind == drafts[d].kind
           members == MembersKept(kind)
           children == {ChildOf(kind, i) : i \in DOMAIN members}
<1>1. /\ p.decls[d].head.children = children
      /\ p.decls[d].occurrences = drafts[d].occurrences
  <2>1. p.decls[d].head = HeadOf(d) /\ p.decls[d].occurrences = drafts[d].occurrences
    BY PackageParts
  <2>2. HeadOf(d).children = children
    BY HeadParts
  <2> HIDE DEF p, children
  <2> QED BY <2>1, <2>2
<1>2. PlacedDraft(d)
  BY DEF Settled, PlacedInv
<1>3. ASSUME NEW i \in DOMAIN members
      PROVE  LET c == ChildOf(kind, i) IN
             /\ RangeKnown(p, c.range) /\ c.range.start # c.range.end
             /\ OriginKnown(p, c.origin, c.range.file)
             /\ \E o \in drafts[d].occurrences : RangeContains(o.range, c.range)
  <2>1. members = kind.members
    <3>1. DOMAIN (<< >>) = {}
      OBVIOUS
    <3> QED BY <3>1 DEF MembersKept
  <2>2. /\ ChildOf(kind, i).range = members[i].range
        /\ ChildOf(kind, i).origin = RoleOf(members[i].range.file)
    BY <2>1 DEF ChildOf, RoleOf
  <2>3. /\ IsPlaced(members[i].range)
        /\ \E o \in drafts[d].occurrences : RangeContains(o.range, members[i].range)
    BY <1>2 DEF PlacedDraft
  <2>4. /\ RangeKnown(p, members[i].range) /\ members[i].range.start # members[i].range.end
        /\ p.files[members[i].range.file].role = RoleOf(members[i].range.file)
    BY <2>3, PlacedIsKnown DEF MayDrop
  <2> HIDE DEF p, kind, members
  <2> QED BY <2>2, <2>3, <2>4 DEF OriginKnown
<1>4. ASSUME NEW i \in DOMAIN members, NEW j \in DOMAIN members,
             ChildOf(kind, i).key = ChildOf(kind, j).key
      PROVE  ChildOf(kind, i) = ChildOf(kind, j)
  BY <1>4 DEF HasDoubleChild
<1> HIDE DEF p, kind, members
<1> QED
  BY <1>1, <1>3, <1>4 DEF ChildrenChecked, p

\* A declaration refers to what one of its types is of, as what that was mentioned.
LEMMA ReferenceFacts ==
  ASSUME Settled, NEW d \in Indexed, NEW r \in HeadOf(d).refs
  PROVE  /\ r.to \in Indexed
         /\ drafts[r.to].kind.form # "unsupported" => drafts[r.to].kind.form = r.as
         /\ r.as \in {"alias", "record", "enum"}
         /\ r.pointer => r.as = "alias" /\ EndsAtPointer(r.to)
         /\ drafts[d].kind.form = "alias" =>
              /\ r.to = drafts[d].kind.type.base.to /\ r.as = drafts[d].kind.type.base.as
<1> DEFINE kind == drafts[d].kind
           members == MembersKept(kind)
           own == IF kind.form = "unsupported" THEN NoType ELSE kind.type
<1>1. \/ r \in ReferencesOf(own)
      \/ \E i \in DOMAIN members : r \in ReferencesOf(members[i].type)
  <2>1. HeadOf(d).refs = ReferencesOf(own)
                           \cup UNION {ReferencesOf(members[i].type) : i \in DOMAIN members}
    BY HeadParts
  <2> HIDE DEF members, own
  <2> QED BY <2>1
<1>2. KindInv(d) /\ kind.form # "none"
  BY AllLowered DEF Settled
<1>3. r \notin ReferencesOf(NoType)
  BY DEF ReferencesOf, NoType, TypeOver
<1>4. kind.form # "unsupported" /\ own = kind.type /\ members = kind.members
  <2>1. DOMAIN (<< >>) = {}
    OBVIOUS
  <2> QED BY <1>1, <1>3, <2>1 DEF MembersKept
<1>5. KnownKind(kind)
  BY <1>2, <1>4 DEF KindInv
<1>6. PICK type : /\ TypeInv(type) /\ r \in ReferencesOf(type)
                  /\ kind.form = "alias" => type = kind.type
  BY <1>1, <1>4, <1>5 DEF KnownKind
<1>7. /\ type.base.to # NoDecl /\ r.to = type.base.to /\ r.as = type.base.as
      /\ r.pointer = (type.restrict /\ type.layers = <<>>)
  <2> DEFINE pointer == type.restrict /\ type.layers = <<>>
             via == ViaOf(type.base, type.layers)
  <2>1. /\ type.base.to # NoDecl
        /\ r = [to |-> type.base.to, as |-> type.base.as, via |-> via, pointer |-> pointer]
    BY <1>6 DEF ReferencesOf
  <2> HIDE DEF pointer, via
  <2>2. r.to = type.base.to /\ r.as = type.base.as /\ r.pointer = pointer
    BY <2>1
  <2> QED BY <2>1, <2>2 DEF pointer
<1>8. PICK j \in DOMAIN Mentions : Mentions[j].d = r.to /\ Mentions[j].form \in FormsOf[r.as]
  BY <1>6, <1>7 DEF TypeInv
<1>9. r.as \in {"alias", "record", "enum"}
  BY <1>6, <1>7 DEF TypeInv
<1>10. r.to \in Indexed
  BY <1>8 DEF Indexed
<1>11. FormOfKind(Mentions[j]) = r.as
  BY <1>8, <1>9 DEF FormOfKind, FormsOf
<1>12. drafts[r.to].kind.form # "unsupported" => drafts[r.to].kind.form = r.as
  BY <1>8, <1>11, KindOfMentions
<1>13. r.pointer => r.as = "alias" /\ EndsAtPointer(r.to)
  BY <1>6, <1>7 DEF TypeInv
<1> QED
  BY <1>6, <1>7, <1>9, <1>10, <1>12, <1>13

LEMMA TypesAccepted ==
  ASSUME Settled, NoneRefersToUnsupported, NEW generated \in BOOLEAN, NEW d \in Indexed,
         WithinDepth(HeadOf(d))
  PROVE  TypesChecked(PackageWith(generated), HeadOf(d))
<1> DEFINE p == PackageWith(generated)
<1>1. /\ DOMAIN p.decls = Indexed
      /\ \A e \in Indexed : p.decls[e].head = HeadOf(e)
  BY PackageParts
<1> HIDE DEF p
<1>2. Indexed \subseteq Ids
  BY MentionFacts DEF Settled, ConfigInv, Indexed
<1>3. \A e \in Indexed : /\ HeadOf(e).kind = drafts[e].kind.form
                         /\ drafts[e].kind.form # "unsupported" =>
                              HeadOf(e).outermost = OutermostOf(drafts[e].kind.type)
  BY HeadParts
<1>4. Aliases(p) = {e \in Indexed : drafts[e].kind.form = "alias"}
  BY <1>1, <1>3 DEF Aliases
<1>5. ASSUME NEW e \in Indexed, EndsAtPointer(e), drafts[e].kind.form # "unsupported"
      PROVE  EffectivelyPointer(p, e)
  <2> SUFFICES ASSUME NEW S \in SUBSET Aliases(p),
                      \A a \in Aliases(p) :
                        p.decls[a].head.outermost \in {"pointer"} \cup S => a \in S
               PROVE  e \in S
    BY DEF EffectivelyPointer
  <2> DEFINE lost == {a \in Indexed : drafts[a].kind.form = "unsupported"}
             set == S \cup lost
  <2>1. set \in SUBSET Indexed
    BY <1>4
  <2>2. ASSUME NEW a \in Indexed, drafts[a].kind.form = "alias",
               OutermostOf(drafts[a].kind.type) \in {"pointer"} \cup set
        PROVE  a \in set
    <3> DEFINE type == drafts[a].kind.type
    <3>1. a \in Aliases(p) /\ p.decls[a].head.outermost = OutermostOf(type)
      BY <1>1, <1>3, <1>4, <2>2
    <3>2. OutermostOf(type) \notin lost
      <4> SUFFICES ASSUME OutermostOf(type) \in lost PROVE FALSE
        OBVIOUS
      <4>1. OutermostOf(type) \in Ids /\ OutermostOf(type) # NoDecl
        BY <1>2, UnitsAssumption
      <4>2. "pointer" \notin Ids /\ "value" \notin Ids
        BY UnitsAssumption
      <4>3. OutermostOf(type) = type.base.to
        BY <4>1, <4>2 DEF OutermostOf
      <4> DEFINE r == [to |-> type.base.to, as |-> type.base.as, via |-> ViaOf(type.base, type.layers),
                       pointer |-> type.restrict /\ type.layers = <<>>]
      <4>4. r \in ReferencesOf(type)
        BY <4>1, <4>3 DEF ReferencesOf
      <4>5. r \in HeadOf(a).refs
        <5>1. ReferencesOf(type) \subseteq HeadOf(a).refs
          BY <2>2, HeadParts
        <5> QED BY <4>4, <5>1
      <4>6. r.to = OutermostOf(type)
        BY <4>3
      <4> HIDE DEF r
      <4> QED BY <4>5, <4>6 DEF NoneRefersToUnsupported
    <3> QED BY <2>2, <3>1, <3>2
  <2>3. PointersIn(set)
    BY <2>2 DEF PointersIn
  <2>4. e \in set
    BY <1>5, <2>1, <2>3 DEF EndsAtPointer
  <2> QED BY <1>5, <2>4
<1>6. ASSUME NEW r \in HeadOf(d).refs
      PROVE  /\ r.to \in DOMAIN p.decls
             /\ p.decls[r.to].head.kind = r.as
             /\ r.pointer => r.as = "alias" /\ EffectivelyPointer(p, r.to)
  <2>1. /\ r.to \in Indexed
        /\ drafts[r.to].kind.form # "unsupported" => drafts[r.to].kind.form = r.as
        /\ r.pointer => r.as = "alias" /\ EndsAtPointer(r.to)
    BY ReferenceFacts
  <2>2. drafts[r.to].kind.form # "unsupported"
    BY <2>1 DEF NoneRefersToUnsupported
  <2> QED BY <1>1, <1>3, <1>5, <2>1, <2>2
<1> QED
  BY <1>6 DEF TypesChecked, p

\* Of a set of aliases the one mentioned first refers to none of them.
LEMMA NoCycleAccepted ==
  ASSUME Settled, NEW generated \in BOOLEAN
  PROVE  NoAliasCycle(PackageWith(generated))
<1> DEFINE p == PackageWith(generated)
<1>1. /\ DOMAIN p.decls = Indexed
      /\ \A e \in Indexed : p.decls[e].head = HeadOf(e)
  BY PackageParts
<1> HIDE DEF p
<1>2. \A e \in Indexed : HeadOf(e).kind = drafts[e].kind.form
  BY HeadParts
<1> SUFFICES ASSUME NEW S \in SUBSET Aliases(p), S # {}
             PROVE  \E a \in S : \A r \in p.decls[a].head.refs : r.to \notin S
  BY DEF NoAliasCycle, p
<1>3. \A a \in S : a \in Indexed /\ drafts[a].kind.form = "alias"
  BY <1>1, <1>2 DEF Aliases
<1> DEFINE firsts == {First(a) : a \in S}
<1>4. firsts \subseteq Nat /\ firsts # {}
  <2>1. \A a \in Indexed : First(a) \in Nat
    BY FirstFacts, MentionFacts DEF Settled, ConfigInv
  <2> QED BY <1>3, <2>1
<1>5. PICK n \in firsts : \A m \in firsts : n <= m
  <2> HIDE DEF firsts
  <2> QED BY <1>4, LeastExists
<1>6. PICK a \in S : n = First(a)
  BY <1>5
<1>7. ASSUME NEW r \in HeadOf(a).refs, r.to \in S
      PROVE  FALSE
  <2>1. drafts[r.to].kind.form = "alias" /\ r.to \in Indexed
    BY <1>3, <1>7
  <2>2. /\ r.as = "alias" /\ r.to = drafts[a].kind.type.base.to
        /\ r.as = drafts[a].kind.type.base.as
    BY <1>3, <2>1, ReferenceFacts
  <2>3. KindInv(a)
    BY <1>3 DEF Settled
  <2>4. First(r.to) < First(a)
    BY <1>3, <2>2, <2>3 DEF KindInv
  <2>5. First(a) <= First(r.to) /\ First(a) \in Nat /\ First(r.to) \in Nat
    BY <1>4, <1>5, <1>6, <1>7
  <2> QED BY <2>4, <2>5
<1> QED
  BY <1>1, <1>3, <1>7

LEMMA CompletenessAccepted ==
  ASSUME Settled, NEW generated \in BOOLEAN
  PROVE  CompletenessChecked(PackageWith(generated))
<1> DEFINE p == PackageWith(generated)
           impacts == {g.impact : g \in diagnostics}
<1>1. /\ p.diagnostics = diagnostics
      /\ p.verdict = VerdictOf(diagnostics) /\ p.reasons = ReasonsOf(diagnostics)
  BY PackageParts
<1> HIDE DEF p
<1>2. \A g \in diagnostics : g.impact = "ForcesPartial"
  BY DEF Settled, PlacedInv
<1>3. \A g \in diagnostics : g.impact # "ForcesRejected" /\ Forces(g)
  BY <1>2 DEF Forces
<1>4. CASE diagnostics = {}
  <2>1. VerdictOf(diagnostics) = "Complete"
    BY <1>4 DEF VerdictOf
  <2>2. ReasonsOf(diagnostics) = {}
    BY <1>4 DEF ReasonsOf
  <2> QED BY <1>1, <1>4, <2>1, <2>2 DEF CompletenessChecked, p
<1>5. CASE diagnostics # {}
  <2>1. VerdictOf(diagnostics) = "Partial"
    BY <1>3, <1>5 DEF VerdictOf
  <2>2. "ForcesPartial" \in impacts /\ "ForcesRejected" \notin impacts
    BY <1>2, <1>5
  <2> QED BY <1>1, <2>1, <2>2 DEF CompletenessChecked, p
<1> QED
  BY <1>4, <1>5

\* Validation accepts the package, with the generated text or, if nothing is
\* left of it, without, if it is within the limits.
LEMMA Accepts ==
  ASSUME Settled, NEW generated \in BOOLEAN, MayDrop(generated),
         NoneRefersToUnsupported, \A d \in Indexed : ~HasDoubleChild(d),
         \A d \in Indexed : WithinDepth(HeadOf(d)), WithinLimits(PackageWith(generated))
  PROVE  IsAccepted(PackageWith(generated))
<1> DEFINE p == PackageWith(generated)
<1>1. /\ DOMAIN p.decls = Indexed
      /\ \A d \in Indexed : p.decls[d].head = HeadOf(d)
      /\ p.macros = <<>> /\ p.diagnostics = diagnostics
      /\ p.entries = {f \in DOMAIN FileRole : FileRole[f] = "Entry"} /\ p.forced = {}
      /\ DOMAIN p.files = DOMAIN FileRole \cup (IF generated THEN {Generated} ELSE {})
      /\ \A f \in DOMAIN p.files : p.files[f].role = RoleOf(f)
  BY PackageParts
<1>2. ASSUME NEW d \in Indexed
      PROVE  DeclarationChecked(p, p.decls[d])
  <2>1. /\ IdentityChecked(p, HeadOf(d)) /\ KindChecked(HeadOf(d)) /\ TypesChecked(p, HeadOf(d))
        /\ OccurrencesChecked(p, p.decls[d]) /\ ChildrenChecked(p, p.decls[d])
    BY IdentityAccepted, KindAccepted, TypesAccepted, OccurrencesAccepted, ChildrenAccepted
  <2> HIDE DEF p
  <2> QED BY <1>1, <2>1 DEF DeclarationChecked
<1>3. ASSUME NEW g \in diagnostics
      PROVE  DiagnosticChecked(p, g)
  <2>1. IsPlaced(g.range) /\ g.decl \in Indexed \cup {NoDecl}
    BY DEF Settled, PlacedInv
  <2>2. RangeKnown(p, g.range)
    BY <2>1, PlacedIsKnown DEF MayDrop
  <2> HIDE DEF p
  <2> QED BY <1>1, <2>1, <2>2 DEF DiagnosticChecked
<1>4. NoAliasCycle(p) /\ CompletenessChecked(p)
  BY NoCycleAccepted, CompletenessAccepted
<1> HIDE DEF p
<1>5. InputsChecked(p)
  <2>1. \E f \in DOMAIN FileRole : FileRole[f] = "Entry"
    BY UnitsAssumption
  <2>2. \A f \in DOMAIN p.files : p.files[f].role = "Entry" <=>
          f \in DOMAIN FileRole /\ FileRole[f] = "Entry"
    BY <1>1, UnitsAssumption DEF RoleOf
  <2> QED BY <1>1, <2>1, <2>2 DEF InputsChecked
<1>6. IsChecked(p)
  <2>1. DOMAIN p.macros = {}
    BY <1>1
  <2>2. WithinLimits(p)
    BY DEF p
  <2> QED BY <1>1, <1>2, <1>3, <1>4, <1>5, <2>1, <2>2 DEF IsChecked
<1> QED
  BY <1>6 DEF IsAccepted, p

\* Validation refuses what conflicts and is referred to, two children alike, and
\* what is past a limit.
LEMMA AcceptedHasNoConflict ==
  ASSUME Settled, NEW generated \in BOOLEAN, IsAccepted(PackageWith(generated))
  PROVE  /\ NoneRefersToUnsupported /\ \A d \in Indexed : ~HasDoubleChild(d)
         /\ \A d \in Indexed : WithinDepth(HeadOf(d))
         /\ WithinLimits(PackageWith(generated))
<1> DEFINE p == PackageWith(generated)
<1>1. /\ DOMAIN p.decls = Indexed
      /\ \A d \in Indexed : p.decls[d].head = HeadOf(d)
  BY PackageParts
<1>2. IsChecked(p) /\ \A d \in Indexed : ~HasDoubleChild(d)
  BY DEF IsAccepted
<1> HIDE DEF p
<1>3. \A d \in Indexed : TypesChecked(p, HeadOf(d))
  BY <1>1, <1>2 DEF IsChecked, DeclarationChecked
<1>5. WithinLimits(p) /\ \A d \in Indexed : WithinDepth(HeadOf(d))
  BY <1>2, <1>3 DEF IsChecked, TypesChecked
<1>4. ASSUME NEW e \in Indexed, NEW r \in HeadOf(e).refs, drafts[r.to].kind.form = "unsupported"
      PROVE  FALSE
  <2>1. r.as \in {"alias", "record", "enum"} /\ r.to \in Indexed
    BY ReferenceFacts
  <2>2. p.decls[r.to].head.kind = r.as
    BY <1>3 DEF TypesChecked
  <2>3. HeadOf(r.to).kind = drafts[r.to].kind.form
    BY HeadParts
  <2> QED BY <1>1, <1>4, <2>1, <2>2, <2>3
<1> QED
  BY <1>2, <1>4, <1>5 DEF NoneRefersToUnsupported, p

\* The tables of the package without the generated text are no larger.
LEMMA LimitsWithout ==
  ASSUME WithinLimits(PackageWith(TRUE))
  PROVE  WithinLimits(PackageWith(FALSE))
<1> DEFINE p == PackageWith(TRUE)
           q == PackageWith(FALSE)
<1>1. /\ DOMAIN q.files \subseteq DOMAIN p.files /\ DOMAIN q.decls = DOMAIN p.decls
      /\ q.macros = p.macros /\ q.diagnostics = p.diagnostics
  BY PackageParts
<1> HIDE DEF p, q
<1>2. WithinLimits(p) /\ Limits.files \in Nat
  BY LimitsAssumption DEF p
<1>3. IsFiniteSet(DOMAIN p.files) /\ Cardinality(DOMAIN p.files) <= Limits.files
  BY <1>2 DEF WithinLimits, AtMost
<1>4. /\ IsFiniteSet(DOMAIN q.files)
      /\ Cardinality(DOMAIN q.files) <= Cardinality(DOMAIN p.files)
  BY <1>1, <1>3, FS_Subset
<1>5. Cardinality(DOMAIN q.files) \in Nat /\ Cardinality(DOMAIN p.files) \in Nat
  BY <1>3, <1>4, FS_CardinalityType
<1>6. AtMost(DOMAIN q.files, Limits.files)
  BY <1>2, <1>3, <1>4, <1>5 DEF AtMost
<1> QED
  BY <1>1, <1>2, <1>6 DEF WithinLimits, q

\* Validation refuses a package without the generated text if something is there.
LEMMA AcceptedWithoutText ==
  ASSUME Settled, unit.traced, IsAccepted(PackageWith(FALSE))
  PROVE  AllMapped /\ \A d \in Indexed : ~IsInternal(d)
<1> DEFINE p == PackageWith(FALSE)
<1>1. /\ DOMAIN p.decls = Indexed /\ Generated \notin DOMAIN p.files
      /\ p.diagnostics = diagnostics
      /\ \A d \in Indexed : /\ p.decls[d].head = HeadOf(d)
                            /\ p.decls[d].occurrences = drafts[d].occurrences
  BY PackageParts, UnitsAssumption
<1>2. IsChecked(p)
  BY DEF IsAccepted
<1> HIDE DEF p
<1>3. \A d \in Indexed : DeclarationChecked(p, p.decls[d])
  BY <1>1, <1>2 DEF IsChecked
<1>4. ASSUME NEW d \in Indexed, IsInternal(d)
      PROVE  FALSE
  <2>1. HeadOf(d).scope.in = "File" /\ HeadOf(d).scope.file = Generated
    BY <1>4, HeadParts
  <2>2. ScopeChecked(p, HeadOf(d).scope)
    BY <1>1, <1>3 DEF DeclarationChecked, IdentityChecked
  <2> QED BY <1>1, <2>1, <2>2 DEF ScopeChecked
<1>5. ASSUME NEW k \in DOMAIN Mentions, NEW d, d = Mentions[k].d, ~IsMapped(RangeOf(k))
      PROVE  FALSE
  <2>1. d \in Indexed /\ k \in LoweredOf(d) /\ PlacedDraft(d)
    BY <1>5, AllLowered DEF Settled, Indexed, PlacedInv
  <2>2. PICK o \in drafts[d].occurrences : o.range.file = Generated
    BY <1>5, <2>1 DEF PlacedDraft
  <2>3. RangeKnown(p, o.range)
    BY <1>1, <1>3, <2>1 DEF DeclarationChecked, OccurrencesChecked, OccurrenceChecked
  <2> QED BY <1>1, <2>2, <2>3 DEF RangeKnown
<1>6. ASSUME NEW span \in unit.skipped, ~IsMapped(span)
      PROVE  FALSE
  <2>1. PICK g \in diagnostics : g.range = span
    BY <1>6 DEF Settled, PlacedInv
  <2>2. span.file = Generated /\ span.start < span.end /\ span.start \in Nat
    BY UnitFacts DEF Settled, ConfigInv, IsSpan
  <2>3. span # NoRange
    BY <2>2 DEF NoRange
  <2>4. RangeKnown(p, span)
    BY <1>1, <1>2, <2>1, <2>3 DEF IsChecked, DiagnosticChecked
  <2> QED BY <1>1, <2>2, <2>4 DEF RangeKnown
<1> QED
  BY <1>4, <1>5, <1>6 DEF AllMapped

-----------------------------------------------------------------------------
(* Theorems *)

\* In every state of a scan the drafts are of the mentions that were lowered,
\* types name what was mentioned as such, what stands within a declaration stands
\* within one of its occurrences, and what is wrong with it is said.
THEOREM Invariance == Spec => []IInv
<1>1. Init => IInv
  BY Starts
<1>2. IInv /\ [Next]_vars => IInv'
  BY LowerKeeps, FinishKeeps, RemapKeeps, KeepGeneratedKeeps, PackageKeeps, Stutters DEF Next
<1> QED
  BY <1>1, <1>2, PTL DEF Spec

\* SupportIsDiagnosed: what a package says of a declaration and of what is wrong
\* with it are one thing, through lowering, its end, the mapping and packaging.
THEOREM SupportAgrees == Spec => []SupportIsDiagnosed
<1>1. IInv => SupportIsDiagnosed
  <2> SUFFICES ASSUME IInv, phase = "done", package.verdict # "refused", NEW d \in Indexed
               PROVE  drafts[d].support # Supported <=>
                        \E g \in package.diagnostics : g.decl = d /\ Forces(g)
    BY DEF SupportIsDiagnosed, Done, Refused
  <2>1. SaidInv /\ PlacedInv /\ package = Packaged /\ unit \in Units
    BY DEF IInv, ConfigInv
  <2>2. Without("refused").verdict = "refused"
    BY DEF Without
  <2>3. \E generated \in BOOLEAN : package = PackageWith(generated)
    BY <2>1, <2>2 DEF Packaged
  <2>4. package.diagnostics = diagnostics
    BY <2>3 DEF PackageWith
  <2>5. d # NoDecl
    BY <2>1, MentionFacts DEF Indexed
  <2>6. \A g \in diagnostics : Forces(g)
    BY <2>1 DEF PlacedInv, Forces
  <2> QED BY <2>1, <2>4, <2>5, <2>6 DEF SaidInv, PlacedInv
<1> QED
  BY <1>1, Invariance, PTL

\* What a scan has at the end.
LEMMA AtTheEnd ==
  ASSUME IInv, phase = "done"
  PROVE  /\ Settled /\ package = Packaged /\ unit.traced \in BOOLEAN
         /\ \A generated \in BOOLEAN : PackageWith(generated).verdict # "refused"
         /\ Without("refused").verdict = "refused"
<1>1. Settled /\ package = Packaged
  BY DEF IInv, ConfigInv, Settled
<1>2. unit.traced \in BOOLEAN
  BY <1>1, UnitFacts DEF Settled, ConfigInv
<1>3. \A generated \in BOOLEAN : PackageWith(generated).verdict # "refused"
  BY PackageParts DEF VerdictOf
<1> QED
  BY <1>1, <1>2, <1>3 DEF Without

\* What needs the generated text is what a package without it is refused for.
LEMMA NeededOrDropped == NeedsGenerated <=> ~MayDrop(FALSE)
BY DEF NeedsGenerated, MayDrop, AllMapped

\* What is refused whatever the size of the tables.
HasFault ==
  \/ \E d \in Indexed : HasDoubleChild(d)
  \/ ~NoneRefersToUnsupported
  \/ \E d \in Indexed : ~WithinDepth(HeadOf(d))

\* OnlyConflictsRefuse: of any unit, wherever its mentions were read from and
\* whatever is wrong with them, validation accepts the package of the scan unless a
\* declaration refers to one that conflicts, two children have one name, a type is
\* too deep or a table too large.
THEOREM RefusesOnlyConflicts == Spec => []OnlyConflictsRefuse
<1>1. IInv => OnlyConflictsRefuse
  <2> SUFFICES ASSUME IInv, phase = "done"
               PROVE  package.verdict = "refused" <=>
                        HasFault \/ ~WithinLimits(PackageWith(NeedsGenerated))
    BY DEF OnlyConflictsRefuse, Done, Refused, NoneRefersToUnsupported, HasFault
  <2>1. /\ Settled /\ package = Packaged /\ unit.traced \in BOOLEAN
        /\ \A generated \in BOOLEAN : PackageWith(generated).verdict # "refused"
        /\ Without("refused").verdict = "refused"
    BY AtTheEnd
  <2>2. NeedsGenerated \in BOOLEAN
    BY DEF NeedsGenerated
  <2>3. ASSUME ~HasFault, WithinLimits(PackageWith(NeedsGenerated))
        PROVE  package.verdict # "refused"
    <3>1. CASE NeedsGenerated
      <4>1. PackageWith(NeedsGenerated) = PackageWith(TRUE)
        BY <3>1
      <4>2. IsAccepted(PackageWith(TRUE))
        BY <2>1, <2>3, <4>1, Accepts DEF MayDrop, HasFault
      <4> QED BY <2>1, <4>2 DEF Packaged
    <3>2. CASE ~NeedsGenerated
      <4>1. PackageWith(NeedsGenerated) = PackageWith(FALSE)
        BY <2>2, <3>2
      <4>2. MayDrop(FALSE) /\ unit.traced
        BY <3>2, NeededOrDropped DEF NeedsGenerated
      <4>3. IsAccepted(PackageWith(FALSE))
        BY <2>1, <2>3, <4>1, <4>2, Accepts DEF HasFault
      <4> QED BY <2>1, <4>2, <4>3 DEF Packaged
    <3> QED BY <3>1, <3>2
  <2>4. ASSUME package.verdict # "refused"
        PROVE  ~HasFault /\ WithinLimits(PackageWith(NeedsGenerated))
    <3>1. CASE unit.traced /\ IsAccepted(PackageWith(FALSE))
      <4>1. ~HasFault /\ WithinLimits(PackageWith(FALSE))
        BY <2>1, <3>1, AcceptedHasNoConflict DEF HasFault
      <4>2. ~NeedsGenerated
        BY <2>1, <3>1, AcceptedWithoutText, NeededOrDropped DEF MayDrop
      <4>3. PackageWith(NeedsGenerated) = PackageWith(FALSE)
        BY <2>2, <4>2
      <4> QED BY <4>1, <4>3
    <3>2. CASE ~(unit.traced /\ IsAccepted(PackageWith(FALSE)))
      <4>1. IsAccepted(PackageWith(TRUE))
        BY <2>1, <2>4, <3>2 DEF Packaged
      <4>2. ~HasFault /\ WithinLimits(PackageWith(TRUE))
        BY <2>1, <4>1, AcceptedHasNoConflict DEF HasFault
      <4>3. PackageWith(NeedsGenerated) \in {PackageWith(TRUE), PackageWith(FALSE)}
        BY <2>2
      <4> QED BY <4>2, <4>3, LimitsWithout
    <3> QED BY <3>1, <3>2
  <2> QED BY <2>3, <2>4
<1> QED
  BY <1>1, Invariance, PTL

\* GeneratedStaysIfNeeded: the second attempt of the scan, with the generated text,
\* is made if and only if something is left there - a declaration or what the parser
\* skipped - or has internal linkage.
THEOREM GeneratedIsDropped == Spec => []GeneratedStaysIfNeeded
<1>1. IInv => GeneratedStaysIfNeeded
  <2> SUFFICES ASSUME IInv, phase = "done", package.verdict # "refused"
               PROVE  Generated \notin DOMAIN package.files <=> ~NeedsGenerated
    BY DEF GeneratedStaysIfNeeded, Done, Refused
  <2>1. /\ Settled /\ package = Packaged /\ unit.traced \in BOOLEAN
        /\ Without("refused").verdict = "refused"
    BY AtTheEnd
  <2>2. /\ Generated \notin DOMAIN PackageWith(FALSE).files
        /\ Generated \in DOMAIN PackageWith(TRUE).files
    BY PackageParts, UnitsAssumption
  <2>3. ASSUME Generated \notin DOMAIN package.files
        PROVE  ~NeedsGenerated
    <3>1. unit.traced /\ IsAccepted(PackageWith(FALSE))
      BY <2>1, <2>2, <2>3 DEF Packaged
    <3> QED BY <2>1, <3>1, AcceptedWithoutText, NeededOrDropped DEF MayDrop
  <2>4. ASSUME ~NeedsGenerated
        PROVE  Generated \notin DOMAIN package.files
    <3>1. PICK generated \in BOOLEAN : IsAccepted(PackageWith(generated))
      BY <2>1 DEF Packaged
    <3>2. ~HasFault /\ WithinLimits(PackageWith(generated))
      BY <2>1, <3>1, AcceptedHasNoConflict DEF HasFault
    <3>3. WithinLimits(PackageWith(FALSE))
      <4>1. PackageWith(generated) \in {PackageWith(TRUE), PackageWith(FALSE)}
        OBVIOUS
      <4> QED BY <3>2, <4>1, LimitsWithout
    <3>4. MayDrop(FALSE) /\ unit.traced
      BY <2>4, NeededOrDropped DEF NeedsGenerated
    <3>5. IsAccepted(PackageWith(FALSE))
      BY <2>1, <3>2, <3>3, <3>4, Accepts DEF HasFault
    <3> QED BY <2>1, <2>2, <3>4, <3>5 DEF Packaged
  <2> QED BY <2>3, <2>4
<1> QED
  BY <1>1, Invariance, PTL

-----------------------------------------------------------------------------
(* Declarators *)

\* A fold over the levels of a declarator is a function of the sets of levels, the
\* last one of a set outside the others.
LoweredBy(levels, g) ==
  [s \in SUBSET DOMAIN levels |->
     IF s = {} THEN <<>> ELSE Applied(g[s \ {Max(s)}], levels[Max(s)])]

MeantBy(levels, g) ==
  [s \in SUBSET DOMAIN levels |->
     IF s = {} THEN <<>>
     ELSE levels[Max(s)].suffixes \o Pointers(levels[Max(s)]) \o g[s \ {Max(s)}]]

ReturnedBy(levels, g) ==
  [s \in SUBSET DOMAIN levels[1].suffixes |->
     IF s = {} THEN Pointers(levels[1])
     ELSE IF levels[1].suffixes[Max(s)] \in FunctionLayers THEN g[s \ {Max(s)}]
     ELSE <<levels[1].suffixes[Max(s)]>> \o g[s \ {Max(s)}]]

LEMMA FoldsAre ==
  ASSUME NEW levels
  PROVE  /\ Lowered(levels) = (CHOOSE g : g = LoweredBy(levels, g))[DOMAIN levels]
         /\ Meaning(levels) = (CHOOSE g : g = MeantBy(levels, g))[DOMAIN levels]
         /\ Returned(levels) = (CHOOSE g : g = ReturnedBy(levels, g))[DOMAIN levels[1].suffixes]
<1>1. Lowered(levels) = (CHOOSE g : g = LoweredBy(levels, g))[DOMAIN levels]
  BY Zenon DEF Lowered, FoldLeft, MapThenFoldSet, LoweredBy
<1>2. Meaning(levels) = (CHOOSE g : g = MeantBy(levels, g))[DOMAIN levels]
  BY Zenon DEF Meaning, FoldLeft, MapThenFoldSet, MeantBy
<1>3. Returned(levels) = (CHOOSE g : g = ReturnedBy(levels, g))[DOMAIN levels[1].suffixes]
  BY Zenon DEF Returned, FoldLeft, MapThenFoldSet, ReturnedBy
<1> QED
  BY <1>1, <1>2, <1>3

\* The parts of a level.
LEMMA LevelFacts ==
  ASSUME NEW levels \in Seq(Level), NEW k \in DOMAIN levels
  PROVE  /\ levels[k].stars \in Nat
         /\ levels[k].suffixes \in Seq(FunctionLayers \cup ArrayLayers)
         /\ Len(levels[k].suffixes) \in Nat
         /\ Pointers(levels[k]) \in Seq({"*"})
<1>1. levels[k] \in Level
  OBVIOUS
<1>2. levels[k].stars \in Nat /\ levels[k].suffixes \in Seq(FunctionLayers \cup ArrayLayers)
  BY <1>1 DEF Level
<1>3. Len(levels[k].suffixes) \in Nat
  BY <1>2, LenProperties
<1>4. Pointers(levels[k]) \in Seq({"*"})
  BY <1>2 DEF Pointers
<1> QED
  BY <1>2, <1>3, <1>4

\* One suffix, or none, is the same from either end.
LEMMA ReverseOfOne ==
  ASSUME NEW S, NEW s \in Seq(S), Len(s) <= 1
  PROVE  Reverse(s) = s
<1>1. Len(s) \in Nat /\ s = [i \in 1..Len(s) |-> s[i]]
  OBVIOUS
<1>2. \A i \in 1..Len(s) : s[(Len(s) - i) + 1] = s[i]
  BY <1>1
<1>3. [i \in 1..Len(s) |-> s[(Len(s) - i) + 1]] = [i \in 1..Len(s) |-> s[i]]
  BY <1>2
<1> QED
  BY <1>1, <1>3 DEF Reverse

\* A declarator with at most one suffix a level is lowered to what it means.
LEMMA SimpleIsLowered ==
  ASSUME NEW levels \in Seq(Level), \A i \in DOMAIN levels : Len(levels[i].suffixes) <= 1
  PROVE  Lowered(levels) = Meaning(levels)
<1>1. ASSUME NEW g
      PROVE  LoweredBy(levels, g) = MeantBy(levels, g)
  <2>1. ASSUME NEW s \in SUBSET DOMAIN levels, s # {}
        PROVE  Applied(g[s \ {Max(s)}], levels[Max(s)])
                 = levels[Max(s)].suffixes \o Pointers(levels[Max(s)]) \o g[s \ {Max(s)}]
    <3>1. Max(s) \in DOMAIN levels
      <4>1. Len(levels) \in Nat /\ s \subseteq 0..Len(levels)
        BY LenProperties
      <4> QED BY <2>1, <4>1, MaxIsGreatest
    <3>2. Reverse(levels[Max(s)].suffixes) = levels[Max(s)].suffixes
      BY <3>1, LevelFacts, ReverseOfOne
    <3> QED BY <3>2 DEF Applied
  <2> QED BY <2>1 DEF LoweredBy, MeantBy
<1>2. (CHOOSE g : g = LoweredBy(levels, g)) = (CHOOSE g : g = MeantBy(levels, g))
  BY <1>1, Zenon
<1> QED
  BY <1>2, FoldsAre

\* Levels that are plain add nothing to the first.
LEMMA OuterIsMeant ==
  ASSUME NEW levels \in Seq(Level), levels # <<>>,
         \A i \in DOMAIN levels : i > 1 => levels[i] = Plain[1]
  PROVE  Meaning(levels) = levels[1].suffixes \o Pointers(levels[1])
<1> DEFINE value == levels[1].suffixes \o Pointers(levels[1])
           known == [s \in SUBSET DOMAIN levels |-> IF 1 \in s THEN value ELSE <<>>]
           folded == CHOOSE g : g = MeantBy(levels, g)
<1>1. /\ Len(levels) \in Nat /\ Len(levels) >= 1 /\ DOMAIN levels = 1..Len(levels)
      /\ value \in Seq(FunctionLayers \cup ArrayLayers \cup {"*"})
  <2>1. Len(levels) \in Nat /\ Len(levels) >= 1 /\ DOMAIN levels = 1..Len(levels)
    BY EmptySeq, LenProperties
  <2>2. /\ levels[1].suffixes \in Seq(FunctionLayers \cup ArrayLayers)
        /\ Pointers(levels[1]) \in Seq({"*"})
    BY <2>1, LevelFacts
  <2>3. /\ levels[1].suffixes \in Seq(FunctionLayers \cup ArrayLayers \cup {"*"})
        /\ Pointers(levels[1]) \in Seq(FunctionLayers \cup ArrayLayers \cup {"*"})
    BY <2>2
  <2> QED BY <2>1, <2>3, ConcatProperties
<1>2. ASSUME NEW layers \in Seq(FunctionLayers \cup ArrayLayers \cup {"*"}),
             NEW i \in DOMAIN levels, i > 1
      PROVE  levels[i].suffixes \o Pointers(levels[i]) \o layers = layers
  <2>1. levels[i].suffixes = <<>> /\ levels[i].stars = 0
    BY <1>2 DEF Plain
  <2>2. Pointers(levels[i]) = <<>>
    BY <2>1 DEF Pointers
  <2> QED BY <2>1, <2>2
<1>3. levels[1].suffixes \o Pointers(levels[1]) \o <<>> = value
  BY <1>1
<1> HIDE DEF value
<1>4. known = MeantBy(levels, known)
  <2>1. ASSUME NEW s \in SUBSET DOMAIN levels, s # {}
        PROVE  known[s] = levels[Max(s)].suffixes \o Pointers(levels[Max(s)]) \o known[s \ {Max(s)}]
    <3>1. Max(s) \in s /\ \A n \in s : n <= Max(s)
      <4>1. s \subseteq 0..Len(levels)
        BY <1>1
      <4> QED BY <1>1, <2>1, <4>1, MaxIsGreatest
    <3>2. s \ {Max(s)} \in SUBSET DOMAIN levels
      OBVIOUS
    <3>3. CASE Max(s) = 1
      <4>1. 1 \in s /\ 1 \notin s \ {Max(s)}
        BY <3>1, <3>3
      <4>2. known[s] = value /\ known[s \ {Max(s)}] = <<>>
        BY <3>2, <4>1
      <4> QED BY <1>3, <3>3, <4>2
    <3>4. CASE Max(s) # 1
      <4>1. Max(s) \in DOMAIN levels /\ Max(s) > 1
        BY <1>1, <3>1, <3>4
      <4>2. known[s] = known[s \ {Max(s)}]
        BY <3>2, <3>4
      <4>3. known[s] \in Seq(FunctionLayers \cup ArrayLayers \cup {"*"})
        BY <1>1
      <4> QED BY <1>2, <4>1, <4>2, <4>3
    <3> QED BY <3>3, <3>4
  <2>2. known[{}] = <<>>
    OBVIOUS
  <2> QED BY <2>1, <2>2 DEF MeantBy
<1>5. folded = MeantBy(levels, folded)
  <2> HIDE DEF known
  <2> QED BY <1>4, Zenon
<1> HIDE DEF known, folded
<1>6. ASSUME NEW n \in 0..Len(levels)
      PROVE  /\ 1..n \in SUBSET DOMAIN levels
             /\ folded[1..n] = IF n = 0 THEN <<>>
                               ELSE levels[n].suffixes \o Pointers(levels[n]) \o folded[1..(n - 1)]
  <2>1. 1..n \in SUBSET DOMAIN levels /\ (n = 0 <=> 1..n = {})
    BY <1>1
  <2>2. n # 0 => Max(1..n) = n /\ (1..n) \ {n} = 1..(n - 1)
    <3>1. n # 0 => Max(1..n) \in 1..n /\ \A k \in 1..n : k <= Max(1..n)
      <4>1. n \in Nat /\ 1..n \subseteq 0..n
        BY <1>1
      <4>2. n # 0 => n \in 1..n
        BY <4>1
      <4> QED BY <4>1, <4>2, MaxIsGreatest
    <3> QED BY <1>1, <3>1
  <2>3. folded[1..n] = IF 1..n = {} THEN <<>>
                       ELSE levels[Max(1..n)].suffixes \o Pointers(levels[Max(1..n)])
                              \o folded[(1..n) \ {Max(1..n)}]
    BY <1>5, <2>1, Zenon DEF MeantBy
  <2> QED BY <2>1, <2>2, <2>3
<1>7. ASSUME NEW n \in 1..Len(levels)
      PROVE  folded[1..n] = value
  <2> DEFINE Bad == {k \in 1..Len(levels) : folded[1..k] # value}
  <2> SUFFICES ASSUME Bad # {} PROVE FALSE
    OBVIOUS
  <2>1. Bad \subseteq Nat
    OBVIOUS
  <2>2. PICK k \in Bad : \A j \in Bad : k <= j
    <3> HIDE DEF Bad
    <3> QED BY <2>1, LeastExists
  <2>3. k \in 1..Len(levels) /\ folded[1..k] # value
    BY <2>2
  <2>4. folded[1..k] = levels[k].suffixes \o Pointers(levels[k]) \o folded[1..(k - 1)]
    <3>1. k \in 0..Len(levels) /\ k # 0
      BY <1>1, <2>3
    <3> QED BY <1>6, <3>1
  <2>5. CASE k = 1
    <3>1. 0 \in 0..Len(levels) /\ k - 1 = 0
      BY <1>1, <2>5
    <3>2. folded[1..0] = <<>>
      BY <1>6, <3>1
    <3> QED BY <1>3, <2>3, <2>4, <2>5, <3>1, <3>2
  <2>6. CASE k # 1
    <3>1. k - 1 \in 1..Len(levels) /\ k - 1 \notin Bad
      BY <1>1, <2>2, <2>3, <2>6
    <3>2. folded[1..(k - 1)] = value
      BY <3>1
    <3>3. k \in DOMAIN levels /\ k > 1
      BY <1>1, <2>3, <2>6
    <3> QED BY <1>1, <1>2, <2>3, <2>4, <3>2, <3>3
  <2> QED BY <2>5, <2>6
<1>8. folded[DOMAIN levels] = value
  BY <1>1, <1>7
<1> QED
  BY <1>8, FoldsAre DEF folded, value

\* A function returns what its level means without the function.
LEMMA FunctionReturns ==
  ASSUME NEW levels, NEW x \in Seq(FunctionLayers), x = levels[1].suffixes, Len(x) = 1
  PROVE  Returned(levels) = Pointers(levels[1])
<1> DEFINE base   == Pointers(levels[1])
           known  == [s \in SUBSET DOMAIN x |-> base]
           folded == CHOOSE g : g = ReturnedBy(levels, g)
<1>1. DOMAIN x = 1..1 /\ x[1] \in FunctionLayers
  OBVIOUS
<1>2. \A s \in SUBSET DOMAIN x : s # {} => Max(s) = 1 /\ s \ {Max(s)} = {}
  <2>1. ASSUME NEW s \in SUBSET DOMAIN x, s # {}
        PROVE  Max(s) = 1 /\ s \ {Max(s)} = {}
    <3>1. s \subseteq 0..1 /\ s = {1}
      BY <1>1, <2>1
    <3>2. Max(s) \in s
      BY <3>1, MaxIsGreatest
    <3> QED BY <3>1, <3>2
  <2> QED BY <2>1
<1> HIDE DEF base
<1>3. known = ReturnedBy(levels, known)
  BY <1>1, <1>2 DEF ReturnedBy, base
<1>4. folded = ReturnedBy(levels, folded)
  <2> HIDE DEF known
  <2> QED BY <1>3, Zenon
<1> HIDE DEF known, folded
<1>5. {} \in SUBSET DOMAIN x /\ DOMAIN x \in SUBSET DOMAIN x /\ DOMAIN x # {}
  BY <1>1
<1>6. folded[{}] = base
  BY <1>4, <1>5 DEF ReturnedBy, base
<1>7. folded[DOMAIN x] = base
  BY <1>1, <1>2, <1>4, <1>5, <1>6 DEF ReturnedBy
<1> QED
  BY <1>7, FoldsAre DEF folded, base

\* The type of a function is what its declarator means, if that has no more in a
\* parenthesis than its name.
LEMMA SimpleFunctionIsReturned ==
  ASSUME NEW levels \in Seq(Level), levels # <<>>, IsSimple(levels), IsFunction(levels)
  PROVE  Meaning(levels) = <<"()">> \o Returned(levels)
<1> DEFINE x == levels[1].suffixes
<1>1. 1 \in DOMAIN levels
  BY EmptySeq, LenProperties
<1>2. /\ x \in Seq(FunctionLayers \cup ArrayLayers) /\ Len(x) \in Nat /\ Len(x) <= 1
      /\ Pointers(levels[1]) \in Seq({"*"})
  BY <1>1, LevelFacts DEF IsSimple
<1>3. PICK i \in DOMAIN x : x[i] \in FunctionLayers
  BY DEF IsFunction
<1>4. Len(x) = 1 /\ i = 1 /\ x \in Seq(FunctionLayers)
  <2> DEFINE layers == FunctionLayers \cup ArrayLayers
  <2> HIDE DEF x, layers
  <2>1. x \in Seq(layers) /\ DOMAIN x = 1..Len(x)
    BY <1>2, LenProperties DEF layers
  <2>2. i \in 1..Len(x)
    BY <1>3, <2>1
  <2>3. Len(x) = 1 /\ i = 1
    <3>1. Len(x) \in Nat /\ Len(x) <= 1
      BY <1>2
    <3>2. \A n \in Nat : n <= 1 /\ i \in 1..n => n = 1 /\ i = 1
      OBVIOUS
    <3> QED BY <2>2, <3>1, <3>2
  <2>4. \A j \in 1..Len(x) : x[j] \in FunctionLayers
    BY <1>3, <2>3
  <2>5. x \in Seq(FunctionLayers)
    BY <2>1, <2>4
  <2> QED BY <2>3, <2>5
<1>5. x = <<"()">>
  <2>1. x[1] = "()"
    BY <1>3, <1>4, Zenon DEF FunctionLayers
  <2> HIDE DEF x
  <2> QED BY <1>2, <1>4, <2>1
<1>6. Returned(levels) = Pointers(levels[1])
  BY <1>4, FunctionReturns
<1>7. Meaning(levels) = x \o Pointers(levels[1])
  BY OuterIsMeant DEF IsSimple
<1> QED
  BY <1>5, <1>6, <1>7, Zenon

\* The layers of the type that a mention of a name declares.
ShapeOf(m) ==
  IF m.form = "object" /\ IsFunction(m.levels) THEN Returned(m.levels) ELSE Lowered(m.levels)

\* A name that is supported has the layers that each mention of it lowers to.
ShapeInv ==
  \A d \in Indexed :
    LET kind == drafts[d].kind IN
    kind.form \in {"alias", "variable", "function"} /\ kind.type.base # NoBase =>
      \A k \in LoweredOf(d) : kind.type.layers = ShapeOf(Mentions[k])

LEMMA NewShape ==
  ASSUME unit \in Units, NEW k \in DOMAIN Mentions
  PROVE  LET kind == LowerKind(Mentions[k], k) IN
         kind.form \in {"alias", "variable", "function"} /\ kind.type.base # NoBase =>
           kind.type.layers = ShapeOf(Mentions[k])
<1> DEFINE m == Mentions[k]
           kind == LowerKind(m, k)
<1> SUFFICES kind.form \in {"alias", "variable", "function"} /\ kind.type.base # NoBase =>
               kind.type.layers = ShapeOf(m)
  OBVIOUS
<1>1. m.form \in {"struct", "union", "enum", "typedef", "object"}
  BY MentionFacts DEF Forms
<1>2. ASSUME NEW layers, NEW type, type = FinishType(m, layers), type.base # NoBase
      PROVE  type.layers = layers
  BY <1>2 DEF FinishType, TypeOver
<1>3. \A form, tag, complete, type, members :
        KindOf(form, tag, complete, type, members).form = form
          /\ KindOf(form, tag, complete, type, members).type = type
  BY DEF KindOf
<1>4. \A code, tokens : Unsupported(code, tokens).form = "unsupported"
  BY DEF Unsupported
<1>5. CASE IsTag(m)
  <2>1. kind = TagKind(m, k)
    <3>1. m.form \in {"struct", "union", "enum"}
      BY <1>5 DEF IsTag
    <3> QED BY <1>5, <3>1 DEF LowerKind
  <2>2. kind.form \in {"enum", "record"}
    BY <1>3, <2>1 DEF TagKind
  <2> HIDE DEF kind
  <2> QED BY <2>2
<1>6. CASE m.form = "typedef"
  <2>1. kind = KindOf("alias", "", TRUE, FinishType(m, Lowered(m.levels)), <<>>)
    BY <1>6 DEF LowerKind, IsTag
  <2> HIDE DEF kind
  <2>2. kind.type = FinishType(m, Lowered(m.levels))
    BY <2>1 DEF KindOf
  <2>3. ShapeOf(m) = Lowered(m.levels)
    BY <1>6 DEF ShapeOf
  <2> QED BY <1>2, <2>2, <2>3
<1>7. CASE m.form = "object" /\ IsFunction(m.levels)
  <2>1. kind = FunctionKind(m, k)
    BY <1>7 DEF LowerKind, IsTag
  <2>2. kind.form = "unsupported" \/ kind.type = FinishType(m, Returned(m.levels))
    <3>1. \/ kind = Unsupported(m.flaw, m.tokens)
          \/ kind = KindOf("function", "", TRUE, FinishType(m, Returned(m.levels)),
                           MembersOf(m, k))
      BY <2>1 DEF FunctionKind
    <3> HIDE DEF kind
    <3>2. CASE kind = Unsupported(m.flaw, m.tokens)
      BY <1>4, <3>2
    <3>3. CASE kind = KindOf("function", "", TRUE, FinishType(m, Returned(m.levels)), MembersOf(m, k))
      BY <3>3 DEF KindOf
    <3> QED BY <3>1, <3>2, <3>3
  <2>3. ShapeOf(m) = Returned(m.levels)
    BY <1>7 DEF ShapeOf
  <2> HIDE DEF kind
  <2> QED BY <1>2, <2>2, <2>3
<1>8. CASE m.form = "object" /\ ~IsFunction(m.levels)
  <2>1. kind = ObjectKind(m)
    BY <1>8 DEF LowerKind, IsTag
  <2>2. kind.form = "unsupported" \/ kind.type = FinishType(m, Lowered(m.levels))
    <3>1. \/ kind = Unsupported(m.flaw, m.tokens)
          \/ kind = KindOf("variable", "", TRUE, FinishType(m, Lowered(m.levels)), <<>>)
      BY <2>1 DEF ObjectKind
    <3> HIDE DEF kind
    <3>2. CASE kind = Unsupported(m.flaw, m.tokens)
      BY <1>4, <3>2
    <3>3. CASE kind = KindOf("variable", "", TRUE, FinishType(m, Lowered(m.levels)), <<>>)
      BY <3>3 DEF KindOf
    <3> QED BY <3>1, <3>2, <3>3
  <2>3. ShapeOf(m) = Lowered(m.levels)
    BY <1>8 DEF ShapeOf
  <2> HIDE DEF kind
  <2> QED BY <1>2, <2>2, <2>3
<1> QED
  BY <1>1, <1>5, <1>6, <1>7, <1>8 DEF IsTag

\* A declaration that is kept has the type of the one there was.
LEMMA KeptHasType ==
  ASSUME NEW left, NEW right, RedeclarationAction(left, right) = "Keep",
         left.form \in {"alias", "variable", "function"}
  PROVE  right.form = left.form /\ left.type = right.type
BY DEF RedeclarationAction

LEMMA LowerKeepsShapes ==
  ASSUME ConfigInv, \A d \in Indexed : KindInv(d), ShapeInv, Lower
  PROVE  ShapeInv'
<1> DEFINE m == Mentions[next]
           kind == LowerKind(m, next)
<1>1. /\ unit \in Units /\ Mentions' = Mentions /\ Indexed' = Indexed
      /\ next \in DOMAIN Mentions /\ m.d \in Indexed
      /\ \A d : LoweredOf(d)' = LoweredOf(d) \cup (IF d = m.d THEN {next} ELSE {})
      /\ \A d \in Indexed : d # m.d => drafts'[d] = drafts[d]
  BY LowerFacts DEF ConfigInv
<1>2. ASSUME NEW d \in Indexed, NEW old, NEW new, old = drafts[d].kind, new = drafts'[d].kind,
             new.form \in {"alias", "variable", "function"}, new.type.base # NoBase,
             NEW k \in LoweredOf(d)'
      PROVE  new.type.layers = ShapeOf(Mentions[k])
  <2>1. CASE d # m.d
    <3>1. new = old /\ k \in LoweredOf(d)
      BY <1>1, <1>2, <2>1
    <3> QED BY <1>2, <3>1 DEF ShapeInv
  <2>2. CASE d = m.d
    <3>1. k \in LoweredOf(d) \/ k = next
      BY <1>1, <2>2
    <3>2. /\ kind.form \in {"alias", "variable", "function"} /\ kind.type.base # NoBase =>
               kind.type.layers = ShapeOf(Mentions[next])
      BY <1>1, NewShape
    <3>3. Lowers(drafts[d], m, next, drafts'[d])
      BY <2>2, LowersTo
    <3> DEFINE action == RedeclarationAction(old, kind)
    <3>4. /\ action \in {"Keep", "Replace", "Conflict"}
          /\ action = "Keep" => new = old
          /\ action = "Replace" => new = kind
          /\ action = "Conflict" => new.form = "unsupported"
          /\ action = "Replace" /\ old.form # "none" =>
               old.form = kind.form /\ old.form \in {"record", "enum"}
      BY <1>2, <3>3 DEF Lowers
    <3> HIDE DEF kind
    <3>5. CASE action = "Keep"
      <4>1. new = old /\ kind.form = old.form /\ old.type = kind.type
        BY <1>2, <3>4, <3>5, KeptHasType
      <4> QED BY <1>2, <3>1, <3>2, <4>1 DEF ShapeInv
    <3>6. CASE action = "Replace"
      <4>1. old.form = "none" /\ new = kind
        BY <1>2, <3>4, <3>6
      <4>2. LoweredOf(d) = {}
        BY <1>2, <4>1 DEF KindInv
      <4> QED BY <1>2, <3>1, <3>2, <4>1, <4>2
    <3> HIDE DEF action
    <3> QED BY <1>2, <3>4, <3>5, <3>6 DEF action
  <2> QED BY <2>1, <2>2
<1> QED
  BY <1>1, <1>2 DEF ShapeInv

LEMMA ShapesStay ==
  ASSUME ShapeInv, Mentions' = Mentions, next' = next, Indexed' = Indexed,
         \A d \in Indexed : /\ drafts'[d].kind.form = drafts[d].kind.form
                            /\ drafts[d].kind.form # "unsupported" =>
                                 drafts'[d].kind.type = drafts[d].kind.type
  PROVE  ShapeInv'
<1>1. \A d : LoweredOf(d)' = LoweredOf(d)
  BY DEF LoweredOf
<1> QED
  BY <1>1 DEF ShapeInv

LEMMA RemapKeepsShapes ==
  ASSUME ConfigInv, \A d \in Indexed : KindInv(d), next = Len(Mentions) + 1, ShapeInv, Remap
  PROVE  ShapeInv'
<1>1. /\ Mentions' = Mentions /\ Indexed' = Indexed /\ next' = next
      /\ \A d \in Indexed : drafts'[d] = MapDraft(drafts[d])
  BY DEF Remap, Mentions, Indexed
<1>2. ASSUME NEW d \in Indexed
      PROVE  /\ drafts'[d].kind.form = drafts[d].kind.form
             /\ drafts[d].kind.form # "unsupported" =>
                  drafts'[d].kind.type = drafts[d].kind.type
  <2> DEFINE kind == drafts[d].kind
  <2>1. KindInv(d) /\ LoweredOf(d) # {}
    BY AllLowered
  <2>2. kind.form \notin {"none", "unsupported"} =>
          kind = KindOf(kind.form, kind.tag, kind.complete, kind.type, kind.members)
    BY <2>1 DEF KindInv, KnownKind
  <2>3. kind.form # "none"
    BY <2>1 DEF KindInv
  <2> HIDE DEF kind
  <2>4. \E members : drafts'[d].kind = IF kind.form = "unsupported" THEN kind
                                       ELSE [kind EXCEPT !.members = members]
    <3> DEFINE mapped == [i \in DOMAIN kind.members |->
                            MapMember(kind.members[i], {MapOccurrence(o) : o \in drafts[d].occurrences})]
    <3>1. drafts'[d].kind = MapDraft(drafts[d]).kind
      BY <1>1
    <3>2. MapDraft(drafts[d]).kind = IF kind.form = "unsupported" THEN kind
                                     ELSE [kind EXCEPT !.members = mapped]
      BY DEF MapDraft, kind
    <3> HIDE DEF mapped
    <3> QED BY <3>1, <3>2
  <2>5. \A members : kind.form # "unsupported" =>
          [kind EXCEPT !.members = members].form = kind.form
            /\ [kind EXCEPT !.members = members].type = kind.type
    BY <2>2, <2>3 DEF KindOf
  <2> QED BY <2>4, <2>5 DEF kind
<1> QED
  BY <1>1, <1>2, ShapesStay

\* SimpleDeclaratorsAreExact: a name has the type that every declarator of it means,
\* however often it was declared, if each level of the declarator has at most one
\* suffix and the declarator of a function nothing but the name in its parentheses.
THEOREM SimpleDeclaratorsMean == Spec => []SimpleDeclaratorsAreExact
<1>1. Init => ShapeInv
  <2> SUFFICES ASSUME Init PROVE ShapeInv
    OBVIOUS
  <2>1. \A d \in Indexed : drafts[d].kind.form = "none"
    BY DEF Init, Blank, NoKind
  <2> QED BY <2>1 DEF ShapeInv
<1>2. IInv /\ ShapeInv /\ [Next]_vars => ShapeInv'
  <2> SUFFICES ASSUME IInv, ShapeInv, [Next]_vars PROVE ShapeInv'
    OBVIOUS
  <2>1. ConfigInv /\ \A d \in Indexed : KindInv(d)
    BY DEF IInv
  <2>2. CASE Lower
    BY <2>1, <2>2, LowerKeepsShapes
  <2>3. CASE Remap
    BY <2>1, <2>3, RemapKeepsShapes DEF ConfigInv, Remap
  <2>4. CASE Finish \/ KeepGenerated \/ Package \/ UNCHANGED vars
    <3>1. UNCHANGED <<unit, next, drafts>>
      BY <2>4 DEF Finish, KeepGenerated, Package, vars
    <3>2. Mentions' = Mentions /\ Indexed' = Indexed
      BY <3>1 DEF Mentions, Indexed
    <3> QED BY <3>1, <3>2, ShapesStay
  <2> QED BY <2>2, <2>3, <2>4 DEF Next
<1>3. IInv /\ ShapeInv => SimpleDeclaratorsAreExact
  <2> SUFFICES ASSUME IInv, ShapeInv, NEW k \in 1..(next - 1),
                      IsLowered(k), IsSimple(Mentions[k].levels)
               PROVE  DeclaredLayers(drafts[Mentions[k].d].kind) = Meaning(Mentions[k].levels)
    BY DEF SimpleDeclaratorsAreExact
  <2> DEFINE m == Mentions[k]
             kind == drafts[m.d].kind
  <2>1. unit \in Units /\ next \in 1..(Len(Mentions) + 1) /\ \A d \in Indexed : KindInv(d)
    BY DEF IInv, ConfigInv
  <2>2. k \in DOMAIN Mentions /\ m.d \in Indexed /\ k \in LoweredOf(m.d)
    BY <2>1, UnitFacts DEF Indexed, LoweredOf
  <2>3. m.levels \in Seq(Level) /\ m.levels # <<>>
    BY <2>1, <2>2, UnitFacts DEF IsMention
  <2>4. kind.form \in {"alias", "variable", "function"} /\ kind.type.layers = ShapeOf(m)
    BY <2>2 DEF IsLowered, ShapeInv
  <2>5. FormOfKind(m) = kind.form
    BY <2>1, <2>2, <2>4 DEF KindInv
  <2>6. CASE kind.form = "function"
    <3>1. m.form = "object" /\ IsFunction(m.levels)
      BY <2>1, <2>2, <2>5, <2>6, MentionFacts DEF FormOfKind, Forms
    <3>2. Meaning(m.levels) = <<"()">> \o Returned(m.levels)
      BY <2>3, <3>1, SimpleFunctionIsReturned
    <3>3. kind.type.layers = Returned(m.levels)
      BY <2>4, <3>1 DEF ShapeOf
    <3> HIDE DEF kind, m
    <3>4. DeclaredLayers(kind) = <<"()">> \o kind.type.layers
      BY <2>6, Zenon DEF DeclaredLayers
    <3> QED BY <3>2, <3>3, <3>4 DEF kind, m
  <2>7. CASE kind.form # "function"
    <3>1. ~(m.form = "object" /\ IsFunction(m.levels))
      BY <2>5, <2>7 DEF FormOfKind
    <3>2. kind.type.layers = Lowered(m.levels)
      BY <2>4, <3>1 DEF ShapeOf
    <3>3. Lowered(m.levels) = Meaning(m.levels)
      BY <2>3, SimpleIsLowered DEF IsSimple
    <3>4. DeclaredLayers(kind) = <<>> \o kind.type.layers
      BY <2>7 DEF DeclaredLayers
    <3>5. <<>> \o Meaning(m.levels) = Meaning(m.levels)
      BY <2>3
    <3> QED BY <3>2, <3>3, <3>4, <3>5
  <2> QED BY <2>6, <2>7
<1> QED
  BY <1>1, <1>2, <1>3, Invariance, PTL DEF Spec

=================================================================================
