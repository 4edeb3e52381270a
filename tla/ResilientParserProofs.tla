----------------------- MODULE ResilientParserProofs -----------------------
(***************************************************************************)
(* The two loops of public_api.rs, for every text, every flavour and every *)
(* grammar of which some of this holds: its declarations are not empty     *)
(* (DeclarationAdvances), they do not depend on what is left in the cache  *)
(* (CacheIsTransparent), they close the blocks they open                   *)
(* (DeclarationsBalance), it matches where a well-formed one stands        *)
(* (WellFormedIsFound) and never at a hash (NoneBeginsWithHash), they      *)
(* leave the scopes they enter (ScopesAreLeft),                            *)
(* and what they read as types and leave in the scope of the file is by    *)
(* what they declare (DeclarationsReadTypes).  These are hypotheses here,  *)
(* each named where it is used: they are about the rules of src/parser,    *)
(* and a run checks all of them for these (OutcomesAreReliable).           *)
(***************************************************************************)
EXTENDS ResilientParser, FiniteSetTheorems, TLAPS

\* Blanks are only skipped forward.
LEMMA BlanksAdvance ==
    ASSUME NEW t \in Seq(STRING), NEW i \in 1 .. Len(t) + 1, NEW j \in AfterBlanks(t, i)
    PROVE  j \in i .. Len(t) + 1 /\ \A k \in i .. j - 1 : t[k] = DIRECTIVE
  <1>1. Len(t) \in Nat
    OBVIOUS
  <1>2. CASE i = 1 /\ j = 1
    BY <1>1, <1>2
  <1>3. CASE i # 1
    BY <1>1, <1>3 DEF AfterBlanks
  <1> QED
    BY <1>2, <1>3 DEF AfterBlanks

\* Synchronisation leaves at least one token out and does not pass the end.
LEMMA SyncAdvances ==
    ASSUME NEW i \in Nat, NEW n \in SyncPoints(i)
    PROVE  n \in i + 1 .. End
  BY DEF SyncPoints

\* What is skipped behind a place to stop is directives, and that only behind a
\* semicolon.
Stopper == ";"
LEMMA SyncSkips ==
    ASSUME text \in Seq(STRING), NEW n \in 2 .. Len(text) + 1, NEW j \in AfterSync(n)
    PROVE  /\ j \in n .. Len(text) + 1 /\ \A k \in n .. j - 1 : text[k] = DIRECTIVE
           /\ j \in AfterBlanks(text, n) \/ (j = n /\ text[n - 1] # Stopper)
  <1>1. \/ j \in AfterBlanks(text, n)
        \/ j = n /\ text[n - 1] # Stopper
    BY Zenon DEF AfterSync, Stopper
  <1>2. n \in 1 .. Len(text) + 1
    OBVIOUS
  <1>3. CASE j \in AfterBlanks(text, n)
    BY <1>2, <1>3, BlanksAdvance
  <1>4. CASE j = n /\ text[n - 1] # Stopper
    BY <1>2, <1>4
  <1> QED
    BY <1>1, <1>3, <1>4

\* Appending a span that begins where the others have ended keeps them apart.
LEMMA AppendApart ==
    ASSUME NEW S, \A x \in S : x.from \in Nat /\ x.to \in Nat,
           NEW s \in Seq(S), NEW e \in S,
           \A i, j \in DOMAIN s : i < j => Before(s[i], s[j]),
           \A i \in DOMAIN s : s[i].to <= e.from
    PROVE  \A i, j \in DOMAIN Append(s, e) :
              i < j => Before(Append(s, e)[i], Append(s, e)[j])
  <1>1. /\ Len(Append(s, e)) = Len(s) + 1 /\ Len(s) \in Nat
        /\ DOMAIN Append(s, e) = 1 .. Len(s) + 1
        /\ DOMAIN s = 1 .. Len(s)
        /\ Append(s, e)[Len(s) + 1] = e
        /\ \A i \in 1 .. Len(s) : Append(s, e)[i] = s[i]
    OBVIOUS
  <1> QED
    BY <1>1 DEF Before

\* The initial scopes are scopes.
LEMMA InitialTyped == InitialScopes(flavor) \in Seq(Scopes)
  BY DEF InitialScopes, Scopes, Symbols, UNKNOWN

----------------------------------------------------------------------------
(* The invariant: what is in the unit and what was left out ends before    *)
(* pos, and nothing is left out before the second pass.                    *)

LoopInv ==
    /\ text \in Seq(STRING)
    /\ TypeOK
    /\ phase = "enter" => pos = 1 /\ items = <<>>
    /\ phase \in {"enter", "strict"} => errors = <<>>
    /\ \A i \in DOMAIN items : items[i].to <= pos
    /\ \A i \in DOMAIN errors : errors[i].to <= pos
    /\ TextIsAccounted

LEMMA InitInv == Init => LoopInv
  <1> SUFFICES ASSUME Init PROVE LoopInv
    OBVIOUS
  <1>1. text \in Seq(STRING)
    BY TextsAreTokens DEF Init
  <1>2. pos \in 1 .. End
    BY <1>1 DEF Init, End
  <1>3. TypeOK
    BY <1>2, InitialTyped DEF Init, TypeOK, Phases
  <1>4. TextIsAccounted
    BY DEF Init, TextIsAccounted
  <1> QED
    BY <1>1, <1>3, <1>4 DEF Init, LoopInv

\* A declaration joins the unit.
LEMMA TakeItemInv ==
    ASSUME LoopInv, phase \in {"strict", "recover"}, pos < End,
           NEW r, Advances(r), TakeItem(r)
    PROVE  LoopInv' /\ pos' > pos
  <1> DEFINE e == ItemOf(r)
  <1> USE DEF LoopInv
  <1>1. /\ r.at \in pos + 1 .. End /\ text' = text /\ phase' = phase
        /\ items' = Append(items, e) /\ errors' = errors
        /\ pos \in 1 .. End /\ Len(text) \in Nat /\ End' = End
    BY DEF TakeItem, Advances, TypeOK, End
  <1>2. pos' \in r.at .. End /\ \A k \in r.at .. pos' - 1 : text[k] = DIRECTIVE
    <2>1. pos' \in AfterBlanks(text, r.at) /\ r.at \in 1 .. Len(text) + 1
      BY <1>1 DEF TakeItem, End
    <2> QED
      BY <2>1, BlanksAdvance DEF End
  <1>3. e \in ItemSet /\ e.from = pos /\ e.to = r.at
    BY <1>1 DEF Advances, ItemOf, ItemSet
  <1>4. /\ ItemSet' = ItemSet /\ SpanSet' = SpanSet
        /\ items \in Seq(ItemSet) /\ errors \in Seq(SpanSet)
    BY <1>1 DEF ItemSet, SpanSet, TypeOK
  <1>5. /\ DOMAIN items = 1 .. Len(items) /\ Len(items) \in Nat
        /\ DOMAIN items' = 1 .. Len(items) + 1
        /\ items'[Len(items) + 1] = e
        /\ \A i \in 1 .. Len(items) : items'[i] = items[i] /\ items[i] \in ItemSet
    BY <1>1, <1>3, <1>4
  <1>6. /\ \A x \in ItemSet : x.from \in Nat /\ x.to \in Nat
        /\ \A x \in SpanSet : x.from \in Nat /\ x.to \in Nat
    BY <1>1 DEF ItemSet, SpanSet
  <1>7. TypeOK'
    <2>1. items' \in Seq(ItemSet)
      BY <1>1, <1>3, <1>4
    <2>2. pos' \in 1 .. End
      BY <1>1, <1>2
    <2> QED
      BY <1>1, <1>4, <2>1, <2>2 DEF TypeOK, TakeItem, Advances
  <1>8. /\ \A i \in DOMAIN items' : items'[i].to <= pos'
        /\ \A i \in DOMAIN errors' : errors'[i].to <= pos'
    BY <1>1, <1>2, <1>3, <1>4, <1>5, <1>6
  <1>9. TextIsAccounted'
    <2>1. ASSUME NEW k \in 1 .. pos' - 1 PROVE Accounted(k)'
      <3>1. CASE k \in 1 .. pos - 1
        BY <1>1, <1>5, <3>1 DEF TextIsAccounted, Accounted, Within
      <3>2. CASE k \in pos .. r.at - 1
        <4>1. Within(k, e)
          BY <1>1, <1>3, <3>2 DEF Within
        <4> QED
          BY <1>5, <4>1 DEF Accounted, Within
      <3>3. CASE k \in r.at .. pos' - 1
        BY <1>1, <1>2, <3>3 DEF Accounted
      <3> QED
        BY <1>1, <1>2, <3>1, <3>2, <3>3
    <2>2. \A i, j \in DOMAIN items' : i < j => Before(items'[i], items'[j])
      BY <1>1, <1>3, <1>4, <1>6, AppendApart DEF TextIsAccounted
    <2>3. \A i, j \in DOMAIN errors' : i < j => Before(errors'[i], errors'[j])
      BY <1>1 DEF TextIsAccounted
    <2>4. \A i \in DOMAIN items', j \in DOMAIN errors' :
             Before(items'[i], errors'[j]) \/ Before(errors'[j], items'[i])
      BY <1>1, <1>3, <1>5 DEF TextIsAccounted, Before
    <2> QED
      BY <2>1, <2>2, <2>3, <2>4 DEF TextIsAccounted, Before
  <1>10. phase' \in {"enter", "strict"} => errors' = <<>>
    BY <1>1
  <1> QED
    BY <1>1, <1>2, <1>7, <1>8, <1>9, <1>10

\* A span is left out, and the parse goes on behind it.
LEMMA LeaveOutInv ==
    ASSUME LoopInv, phase = "recover", phase' \in {"recover", "done"}, pos < End,
           NEW r, Advances(r), Fails(r),
           NEW to \in pos + 1 .. End,
           errors' = Append(errors, SpanOf(pos, to)),
           pos' \in to .. End, \A k \in to .. pos' - 1 : text[k] = DIRECTIVE
    PROVE  LoopInv' /\ pos' > pos
  <1> DEFINE e == SpanOf(pos, to)
  <1> USE DEF LoopInv
  <1>1. /\ text' = text /\ items' = items /\ errors' = Append(errors, e)
        /\ pos \in 1 .. End /\ Len(text) \in Nat /\ End \in Nat /\ End' = End
    BY DEF Fails, TypeOK, End
  <1>2. e \in SpanSet /\ e.from = pos /\ e.to = to
    BY <1>1 DEF SpanOf, SpanSet
  <1>3. /\ ItemSet' = ItemSet /\ SpanSet' = SpanSet
        /\ items \in Seq(ItemSet) /\ errors \in Seq(SpanSet)
    BY <1>1 DEF ItemSet, SpanSet, TypeOK
  <1>4. /\ DOMAIN errors = 1 .. Len(errors) /\ Len(errors) \in Nat
        /\ DOMAIN errors' = 1 .. Len(errors) + 1
        /\ errors'[Len(errors) + 1] = e
        /\ \A i \in 1 .. Len(errors) : errors'[i] = errors[i] /\ errors[i] \in SpanSet
    BY <1>1, <1>2, <1>3
  <1>5. /\ \A x \in ItemSet : x.from \in Nat /\ x.to \in Nat
        /\ \A x \in SpanSet : x.from \in Nat /\ x.to \in Nat
    BY <1>1 DEF ItemSet, SpanSet
  <1>6. TypeOK'
    <2>1. errors' \in Seq(SpanSet)
      BY <1>1, <1>2, <1>3
    <2>2. pos' \in 1 .. End
      BY <1>1
    <2> QED
      BY <1>1, <1>3, <2>1, <2>2 DEF TypeOK, Fails, Advances, Phases
  <1>7. /\ \A i \in DOMAIN items' : items'[i].to <= pos'
        /\ \A i \in DOMAIN errors' : errors'[i].to <= pos'
    BY <1>1, <1>2, <1>3, <1>4, <1>5
  <1>8. TextIsAccounted'
    <2>1. ASSUME NEW k \in 1 .. pos' - 1 PROVE Accounted(k)'
      <3>1. CASE k \in 1 .. pos - 1
        BY <1>1, <1>4, <3>1 DEF TextIsAccounted, Accounted, Within
      <3>2. CASE k \in pos .. to - 1
        <4>1. Within(k, e)
          BY <1>1, <1>2, <3>2 DEF Within
        <4> QED
          BY <1>4, <4>1 DEF Accounted, Within
      <3>3. CASE k \in to .. pos' - 1
        BY <1>1, <3>3 DEF Accounted
      <3> QED
        BY <1>1, <3>1, <3>2, <3>3
    <2>2. \A i, j \in DOMAIN errors' : i < j => Before(errors'[i], errors'[j])
      BY <1>1, <1>2, <1>3, <1>5, AppendApart DEF TextIsAccounted
    <2>3. \A i, j \in DOMAIN items' : i < j => Before(items'[i], items'[j])
      BY <1>1 DEF TextIsAccounted
    <2>4. \A i \in DOMAIN items', j \in DOMAIN errors' :
             Before(items'[i], errors'[j]) \/ Before(errors'[j], items'[i])
      BY <1>1, <1>2, <1>4 DEF TextIsAccounted, Before
    <2> QED
      BY <2>1, <2>2, <2>3, <2>4 DEF TextIsAccounted, Before
  <1> QED
    BY <1>1, <1>6, <1>7, <1>8

----------------------------------------------------------------------------
\* The second pass begins where the text begins, with nothing found so far.
LEMMA RejectedInv == LoopInv /\ StrictRejected => LoopInv'
  <1> SUFFICES ASSUME LoopInv, StrictRejected PROVE LoopInv'
    OBVIOUS
  <1>1. /\ text' = text /\ items' = <<>> /\ errors' = <<>> /\ End' = End
        /\ phase' = "recover" /\ flavor' = flavor
    BY DEF LoopInv, StrictRejected, End
  <1>2. pos' \in 1 .. End /\ \A k \in 1 .. pos' - 1 : text[k] = DIRECTIVE
    <2>1. pos' \in AfterBlanks(text, 1) /\ text \in Seq(STRING) /\ 1 \in 1 .. Len(text) + 1
      BY DEF StrictRejected, LoopInv
    <2> QED
      BY <2>1, BlanksAdvance DEF End
  <1>3. TypeOK'
    BY <1>1, <1>2, InitialTyped DEF TypeOK, StrictRejected, LoopInv, Phases
  <1>4. TextIsAccounted'
    <2>1. DOMAIN items' = {} /\ DOMAIN errors' = {}
      BY <1>1
    <2> QED
      BY <1>1, <1>2, <2>1 DEF TextIsAccounted, Accounted
  <1> QED
    BY <1>1, <1>3, <1>4 DEF LoopInv

LEMMA StartInv == LoopInv /\ Start => LoopInv'
  <1> SUFFICES ASSUME LoopInv, Start PROVE LoopInv'
    OBVIOUS
  <1>1. /\ text' = text /\ items' = <<>> /\ errors' = <<>> /\ End' = End
        /\ items = <<>> /\ errors = <<>>
        /\ phase' = "strict" /\ flavor' = flavor /\ scopes' = scopes
        /\ pos = 1 /\ text \in Seq(STRING) /\ Len(text) \in Nat
    BY DEF LoopInv, Start, End
  <1>2. Begins \in 1 .. Len(text) + 1 /\ \A k \in 1 .. Begins - 1 : text[k] = DIRECTIVE
    BY <1>1 DEF Begins, End
  <1>3. pos' \in 1 .. End /\ \A k \in 1 .. pos' - 1 : text[k] = DIRECTIVE
    <2>1. /\ pos' \in Begins .. Len(text) + 1
          /\ \A k \in Begins .. pos' - 1 : text[k] = DIRECTIVE
      BY <1>1, <1>2, BlanksAdvance DEF Start
    <2>2. PICK b \in 1 .. Len(text) + 1 : b = Begins
      BY <1>2
    <2>3. PICK p \in b .. Len(text) + 1 : p = pos'
      BY <2>1, <2>2
    <2>4. b \in Nat /\ p \in Nat
      BY <1>1, <2>2, <2>3
    <2>5. \A k \in 1 .. p - 1 : k \in 1 .. b - 1 \/ k \in b .. p - 1
      BY <2>4
    <2>6. p \in 1 .. End
      BY <1>1, <2>2, <2>3 DEF End
    <2> QED
      BY <1>2, <2>1, <2>2, <2>3, <2>5, <2>6
  <1>4. TypeOK'
    BY <1>1, <1>3 DEF TypeOK, LoopInv, Phases
  <1>5. TextIsAccounted'
    <2>1. DOMAIN items' = {} /\ DOMAIN errors' = {}
      BY <1>1
    <2> QED
      BY <1>1, <1>3, <2>1 DEF TextIsAccounted, Accounted
  <1> QED
    BY <1>1, <1>4, <1>5 DEF LoopInv

\* One step of the loops, in a state whose declarations are not empty.
LEMMA StepInv ==
    ASSUME LoopInv, DeclarationAdvances, [Next]_vars
    PROVE  LoopInv' /\ (vars' # vars /\ phase' = phase => pos' > pos)
  <1> DEFINE Goal == LoopInv' /\ (vars' # vars /\ phase' = phase => pos' > pos)
  <1>1. CASE Start
    BY <1>1, StartInv DEF Start
  <1>2. CASE StrictItem \/ RecoverItem
    <2>1. /\ phase \in {"strict", "recover"} /\ pos < End
          /\ TakeItem(Outcome) /\ Advances(Outcome)
      BY <1>2 DEF StrictItem, RecoverItem, DeclarationAdvances, Parses
    <2> QED
      BY <2>1, TakeItemInv
  <1>3. CASE StrictRejected
    BY <1>3, RejectedInv DEF StrictRejected
  <1>4. CASE RecoverSkip
    <2>1. /\ phase = "recover" /\ phase' = "recover" /\ pos < End
          /\ Fails(Outcome) /\ Advances(Outcome)
      BY <1>4 DEF RecoverSkip, DeclarationAdvances, Parses
    <2>2. PICK sync \in SyncPoints(pos) :
             /\ errors' = Append(errors, SpanOf(pos, sync))
             /\ pos' \in AfterSync(sync)
      BY <1>4 DEF RecoverSkip
    <2>3. /\ pos \in 1 .. Len(text) + 1 /\ text \in Seq(STRING) /\ Len(text) \in Nat
          /\ End = Len(text) + 1
      BY DEF LoopInv, TypeOK, End
    <2>4. sync \in pos + 1 .. End
      BY <2>3, SyncAdvances
    <2>5. pos' \in sync .. End /\ \A k \in sync .. pos' - 1 : text[k] = DIRECTIVE
      <3>1. sync \in 2 .. Len(text) + 1
        BY <2>3, <2>4
      <3> QED
        BY <2>2, <2>3, <3>1, SyncSkips
    <2> QED
      BY <2>1, <2>2, <2>4, <2>5, LeaveOutInv
  <1>5. CASE RecoverGiveUp
    <2>1. /\ phase = "recover" /\ phase' = "done" /\ pos < End
          /\ Fails(Outcome) /\ Advances(Outcome)
          /\ errors' = Append(errors, SpanOf(pos, End)) /\ pos' = End
      BY <1>5 DEF RecoverGiveUp, DeclarationAdvances, Parses
    <2>2. pos \in 1 .. End /\ End \in Nat
      BY DEF LoopInv, TypeOK, End
    <2>3. End \in pos + 1 .. End
      BY <2>1, <2>2
    <2>4. pos' \in End .. End /\ \A k \in End .. pos' - 1 : text[k] = DIRECTIVE
      BY <2>1, <2>2
    <2> QED
      BY <2>1, <2>3, <2>4, LeaveOutInv
  <1>6. CASE StrictAccepted \/ RecoverEnd
    <2>1. /\ phase \in {"strict", "recover"} /\ phase' = "done"
          /\ UNCHANGED <<text, flavor, pos, scopes, items, errors>>
      BY <1>6 DEF StrictAccepted, RecoverEnd
    <2>2. /\ End' = End /\ SpanSet' = SpanSet /\ ItemSet' = ItemSet
          /\ \A k : Accounted(k)' = Accounted(k)
      BY <2>1 DEF End, SpanSet, ItemSet, Accounted
    <2>3. TypeOK' /\ TextIsAccounted'
      BY <2>1, <2>2 DEF LoopInv, TypeOK, TextIsAccounted, Phases
    <2> QED
      BY <2>1, <2>3 DEF LoopInv
  <1>7. CASE Returned \/ UNCHANGED vars
    <2>1. UNCHANGED vars
      BY <1>7 DEF Returned
    <2> QED
      BY <2>1 DEF vars, LoopInv, TypeOK, TextIsAccounted, Accounted, End, SpanSet, ItemSet
  <1> QED
    BY <1>1, <1>2, <1>3, <1>4, <1>5, <1>6, <1>7 DEF Next

LEMMA LoopInvariant == Spec /\ []DeclarationAdvances => []LoopInv
  <1>1. LoopInv /\ DeclarationAdvances /\ [Next]_vars => LoopInv'
    BY StepInv
  <1> QED
    BY InitInv, <1>1, PTL DEF Spec

\* The variables of the two loops always have their types, whatever the grammar
\* is, if its declarations are not empty (public_api.rs:91-175).
THEOREM ParserTypes == Spec /\ []DeclarationAdvances => []TypeOK
  <1>1. LoopInv => TypeOK
    BY DEF LoopInv
  <1> QED
    BY LoopInvariant, <1>1, PTL

\* No token is lost between the declarations and the errors, and none is in both:
\* the spans of the unit and the skipped spans account for the text, for every
\* text and every grammar whose declarations are not empty
\* (public_api.rs:121-168).
THEOREM ParserAccounts == Spec /\ []DeclarationAdvances => []TextIsAccounted
  <1>1. LoopInv => TextIsAccounted
    BY DEF LoopInv
  <1> QED
    BY LoopInvariant, <1>1, PTL

\* Every round of either loop moves on (public_api.rs:121-168).
THEOREM ParserAdvances == Spec /\ []DeclarationAdvances => RoundsAdvance
  <1>1. LoopInv /\ DeclarationAdvances /\ [Next]_vars
            => [phase' = phase => pos' > pos]_vars
    BY StepInv
  <1> QED
    BY LoopInvariant, <1>1, PTL DEF Spec, RoundsAdvance
----------------------------------------------------------------------------
(* Recovery repeats the strict pass: as long as it has found less, it is   *)
(* where the strict pass was with as many declarations, in the same scopes.*)

Plainly(p, s) == ExternalDeclaration(text, flavor, p, s, NoCache)

\* The rounds that found these declarations, each from its place and scopes.
IsRun(t, found) ==
    /\ t[1] = [pos |-> 1, scopes |-> InitialScopes(flavor)]
    /\ \A k \in 1 .. Len(found) :
          LET r == Plainly(t[k].pos, t[k].scopes) IN
          /\ t[k].pos < End
          /\ r.ok
          /\ found[k] = [from |-> t[k].pos, to |-> r.at, notes |-> r.notes]
          /\ t[k + 1].scopes = r.scopes
          /\ t[k + 1].pos \in AfterBlanks(text, r.at)

Stands(t, k) == t[k].pos = pos /\ t[k].scopes = scopes

Kept == Len(prefix) <= Len(items) /\ \A i \in DOMAIN prefix : items[i] = prefix[i]

ReplayInv ==
    text # <<>> /\ text[1] # DIRECTIVE =>
        /\ prefix \in Seq(ItemSet)
        /\ phase = "enter" => scopes = InitialScopes(flavor)
        /\ phase = "strict" =>
              \E t : IsRun(t, items) /\ Stands(t, Len(items) + 1)
        /\ phase = "recover" =>
              /\ cache = NoCache
              /\ \/ Kept
                 \/ /\ Len(items) < Len(prefix)
                    /\ \A i \in DOMAIN items : items[i] = prefix[i]
                    /\ \E t : IsRun(t, prefix) /\ Stands(t, Len(items) + 1)
        /\ phase = "done" => Kept

\* There is one place where the text goes on.
LEMMA BlanksUnique ==
    ASSUME NEW t \in Seq(STRING), NEW i \in 1 .. Len(t) + 1,
           NEW j \in AfterBlanks(t, i), NEW k \in AfterBlanks(t, i)
    PROVE  j = k
  <1>1. CASE i = 1
    BY <1>1 DEF AfterBlanks
  <1>2. CASE i # 1
    <2>1. /\ Len(t) \in Nat /\ j \in i .. Len(t) + 1 /\ k \in i .. Len(t) + 1
          /\ j <= Len(t) => t[j] # DIRECTIVE
          /\ k <= Len(t) => t[k] # DIRECTIVE
          /\ \A n \in i .. j - 1 : t[n] = DIRECTIVE
          /\ \A n \in i .. k - 1 : t[n] = DIRECTIVE
      BY <1>2 DEF AfterBlanks
    <2>2. ~ j < k /\ ~ k < j
      BY <2>1
    <2> QED
      BY <2>1, <2>2
  <1> QED
    BY <1>1, <1>2

\* One more round makes a longer run.
LEMMA RunGrows ==
    ASSUME NEW found \in Seq(ItemSet), NEW t, IsRun(t, found),
           NEW r, r = Plainly(t[Len(found) + 1].pos, t[Len(found) + 1].scopes),
           r.ok, t[Len(found) + 1].pos < End,
           NEW e \in ItemSet,
           e = [from |-> t[Len(found) + 1].pos, to |-> r.at, notes |-> r.notes],
           NEW next, next \in AfterBlanks(text, r.at)
    PROVE  \E u : /\ IsRun(u, Append(found, e))
                  /\ u[Len(found) + 2] = [pos |-> next, scopes |-> r.scopes]
  <1> DEFINE n == Len(found) + 1
             u == [k \in 1 .. n + 1 |->
                      IF k = n + 1 THEN [pos |-> next, scopes |-> r.scopes] ELSE t[k]]
             w == Append(found, e)
  <1>1. /\ n \in Nat /\ n >= 1 /\ Len(w) = n /\ w[n] = e
        /\ \A k \in 1 .. n - 1 : w[k] = found[k]
    OBVIOUS
  <1>2. /\ u[n + 1] = [pos |-> next, scopes |-> r.scopes]
        /\ \A k \in 1 .. n : u[k] = t[k]
    BY <1>1
  <1> HIDE DEF u, w
  <1>3. ASSUME NEW k \in 1 .. n
        PROVE  LET q == Plainly(u[k].pos, u[k].scopes) IN
               /\ u[k].pos < End
               /\ q.ok
               /\ w[k] = [from |-> u[k].pos, to |-> q.at, notes |-> q.notes]
               /\ u[k + 1].scopes = q.scopes
               /\ u[k + 1].pos \in AfterBlanks(text, q.at)
    <2>1. CASE k = n
      BY <1>1, <1>2, <2>1
    <2>2. CASE k \in 1 .. n - 1
      <3>1. k \in 1 .. Len(found) /\ u[k] = t[k] /\ u[k + 1] = t[k + 1] /\ w[k] = found[k]
        BY <1>1, <1>2, <2>2
      <3> QED
        BY <3>1 DEF IsRun
    <2> QED
      BY <1>1, <2>1, <2>2
  <1>4. u[1] = [pos |-> 1, scopes |-> InitialScopes(flavor)]
    BY <1>1, <1>2 DEF IsRun
  <1>5. IsRun(u, w)
    BY <1>1, <1>3, <1>4 DEF IsRun
  <1> QED
    BY <1>1, <1>2, <1>5 DEF w

LEMMA ReplayInit == Init => ReplayInv
  BY DEF Init, ReplayInv

\* A round of the strict pass.
LEMMA StrictReplay ==
    ASSUME LoopInv, LoopInv', ReplayInv, DeclarationAdvances, CacheIsTransparent, StrictItem
    PROVE  ReplayInv'
  <1> SUFFICES ASSUME text # <<>> /\ text[1] # DIRECTIVE
               PROVE  ReplayInv'
    BY DEF ReplayInv, StrictItem, TakeItem
  <1>1. /\ phase = "strict" /\ pos < End /\ TakeItem(Outcome) /\ Outcome.ok
        /\ phase' = phase /\ text' = text /\ flavor' = flavor /\ prefix' = prefix
        /\ items' = Append(items, ItemOf(Outcome)) /\ scopes' = Outcome.scopes
        /\ pos' \in AfterBlanks(text, Outcome.at)
    BY DEF StrictItem, TakeItem
  <1>2. PICK t : IsRun(t, items) /\ Stands(t, Len(items) + 1)
    BY <1>1 DEF ReplayInv
  <1> DEFINE r == Plainly(pos, scopes)
             e == ItemOf(Outcome)
  <1>3. Advances(Outcome) /\ Outcome.at \in pos + 1 .. End
    BY <1>1 DEF DeclarationAdvances, Parses, Advances
  <1>4. /\ r.ok /\ r.at = Outcome.at /\ r.scopes = Outcome.scopes /\ r.notes = Outcome.notes
    BY <1>1 DEF CacheIsTransparent, IsAsFresh, Parses, IsAsWith, Plainly
  <1>5. /\ e = [from |-> pos, to |-> r.at, notes |-> r.notes]
        /\ e \in ItemSet /\ items \in Seq(ItemSet) /\ Len(items) \in Nat
    <2>1. pos \in 1 .. End /\ End \in Nat /\ items \in Seq(ItemSet)
      BY DEF LoopInv, TypeOK, End
    <2> QED
      BY <1>3, <1>4, <2>1 DEF ItemOf, ItemSet, Advances
  <1>6. PICK u : /\ IsRun(u, Append(items, e))
                 /\ u[Len(items) + 2] = [pos |-> pos', scopes |-> r.scopes]
    <2> HIDE DEF r, e
    <2>1. r = Plainly(t[Len(items) + 1].pos, t[Len(items) + 1].scopes)
      BY <1>2 DEF Stands, r
    <2> QED
      BY <1>1, <1>2, <1>4, <1>5, <2>1, RunGrows DEF Stands
  <1>7. IsRun(u, items)' /\ Stands(u, Len(items) + 1)'
    <2>1. Len(items') = Len(items) + 1
      BY <1>1, <1>5
    <2>2. IsRun(u, items')
      BY <1>1, <1>6
    <2>3. IsRun(u, items)'
      <3> HIDE DEF r, e
      <3> QED
        BY <1>1, <2>2 DEF IsRun, Plainly, End
    <2>4. Len(items') + 1 = Len(items) + 2
      BY <1>5, <2>1
    <2>5. u[Len(items) + 2].pos = pos' /\ u[Len(items) + 2].scopes = scopes'
      BY <1>1, <1>4, <1>6
    <2> HIDE DEF r, e
    <2>6. Stands(u, Len(items) + 1)'
      BY <2>4, <2>5 DEF Stands
    <2> QED
      BY <2>3, <2>6
  <1>8. prefix' \in Seq(ItemSet')
    BY <1>1 DEF ReplayInv, ItemSet, End
  <1> QED
    BY <1>1, <1>7, <1>8 DEF ReplayInv

\* A run is a matter of the text and the flavour.
LEMMA RunStays ==
    ASSUME text' = text, flavor' = flavor, NEW t
    PROVE  /\ items' = items => IsRun(t, items)' = IsRun(t, items)
           /\ prefix' = prefix => IsRun(t, prefix)' = IsRun(t, prefix)
           /\ prefix' = items => IsRun(t, prefix)' = IsRun(t, items)
  BY DEF IsRun, Plainly, End

\* The strict pass begins where the text begins, and so does recovery.
LEMMA StartReplay ==
    ASSUME LoopInv, LoopInv', ReplayInv, Start
    PROVE  ReplayInv'
  <1> SUFFICES ASSUME text # <<>> /\ text[1] # DIRECTIVE
               PROVE  ReplayInv'
    BY DEF ReplayInv, Start
  <1>1. /\ phase = "enter" /\ phase' = "strict" /\ text' = text /\ flavor' = flavor
        /\ items' = <<>> /\ prefix' = prefix /\ scopes' = InitialScopes(flavor)
        /\ pos = 1 /\ pos' \in AfterBlanks(text, Begins)
    BY DEF Start, LoopInv, ReplayInv
  <1>2. pos' = 1
    BY <1>1 DEF Begins, AfterBlanks
  <1>3. PICK t : t[1] = [pos |-> 1, scopes |-> InitialScopes(flavor)]
    <2> DEFINE first == [pos |-> 1, scopes |-> InitialScopes(flavor)]
    <2>1. [k \in {1} |-> first][1] = first
      OBVIOUS
    <2> QED
      BY <2>1
  <1>4. IsRun(t, items)'
    <2>1. Len(items') = 0
      BY <1>1
    <2> QED
      BY <1>1, <1>3, <2>1 DEF IsRun
  <1>5. Stands(t, Len(items) + 1)'
    BY <1>1, <1>2, <1>3 DEF Stands
  <1>6. prefix' \in Seq(ItemSet')
    BY <1>1 DEF ReplayInv, ItemSet, End
  <1> QED
    BY <1>1, <1>4, <1>5, <1>6 DEF ReplayInv

LEMMA AcceptedReplay ==
    ASSUME LoopInv, LoopInv', ReplayInv, StrictAccepted
    PROVE  ReplayInv'
  <1>1. /\ phase' = "done" /\ prefix' = items /\ items' = items /\ text' = text
        /\ flavor' = flavor
    BY DEF StrictAccepted
  <1>2. items \in Seq(ItemSet) /\ ItemSet' = ItemSet
    BY <1>1 DEF LoopInv, TypeOK, ItemSet, End
  <1>3. Kept'
    BY <1>1, <1>2 DEF Kept
  <1> QED
    BY <1>1, <1>2, <1>3 DEF ReplayInv

\* Recovery begins as the strict pass began.
LEMMA RejectedReplay ==
    ASSUME LoopInv, LoopInv', ReplayInv, StrictRejected
    PROVE  ReplayInv'
  <1> SUFFICES ASSUME text # <<>> /\ text[1] # DIRECTIVE
               PROVE  ReplayInv'
    BY DEF ReplayInv, StrictRejected
  <1>1. /\ phase = "strict" /\ phase' = "recover" /\ text' = text /\ flavor' = flavor
        /\ items' = <<>> /\ prefix' = items /\ scopes' = InitialScopes(flavor)
        /\ pos' = 1 /\ cache' = NoCache
    BY DEF StrictRejected, AfterBlanks
  <1>2. PICK t : IsRun(t, items)
    BY <1>1 DEF ReplayInv
  <1>3. IsRun(t, prefix)' /\ Stands(t, Len(items) + 1)'
    <2>1. IsRun(t, prefix)'
      BY <1>1, <1>2, RunStays
    <2>2. t[1] = [pos |-> 1, scopes |-> InitialScopes(flavor)] /\ Len(items') + 1 = 1
      BY <1>1, <1>2 DEF IsRun
    <2>3. Stands(t, Len(items) + 1)'
      BY <1>1, <2>2 DEF Stands
    <2> QED
      BY <2>1, <2>3
  <1>4. items \in Seq(ItemSet) /\ ItemSet' = ItemSet /\ Len(items) \in Nat
    BY <1>1 DEF LoopInv, TypeOK, ItemSet, End
  <1>5. Kept' \/ (Len(items') < Len(prefix') /\ \A i \in DOMAIN items' : items'[i] = prefix'[i])
    <2>1. Len(items') = 0 /\ DOMAIN items' = {}
      BY <1>1
    <2>2. CASE Len(items) = 0
      BY <1>1, <1>4, <2>1, <2>2 DEF Kept
    <2>3. CASE Len(items) # 0
      BY <1>1, <1>4, <2>1, <2>3
    <2> QED
      BY <2>2, <2>3
  <1> QED
    BY <1>1, <1>3, <1>4, <1>5 DEF ReplayInv

\* As long as recovery has found less than the strict pass, the declaration that
\* begins where it stands is the next one the strict pass found.
LEMMA NextIsKnown ==
    ASSUME LoopInv, ReplayInv, text # <<>> /\ text[1] # DIRECTIVE,
           phase = "recover", ~Kept
    PROVE  /\ Len(items) + 1 \in 1 .. Len(prefix)
           /\ \A i \in DOMAIN items : items[i] = prefix[i]
           /\ pos < End
           /\ Outcome.ok
           /\ prefix[Len(items) + 1] = ItemOf(Outcome)
           /\ \E t : /\ IsRun(t, prefix)
                     /\ t[Len(items) + 2].scopes = Outcome.scopes
                     /\ t[Len(items) + 2].pos \in AfterBlanks(text, Outcome.at)
  <1>1. /\ cache = NoCache /\ Len(items) < Len(prefix)
        /\ \A i \in DOMAIN items : items[i] = prefix[i]
        /\ prefix \in Seq(ItemSet) /\ items \in Seq(ItemSet)
    BY DEF ReplayInv, LoopInv, TypeOK
  <1>2. PICK t : IsRun(t, prefix) /\ Stands(t, Len(items) + 1)
    BY DEF ReplayInv
  <1> DEFINE k == Len(items) + 1
  <1>3. k \in 1 .. Len(prefix) /\ k + 1 = Len(items) + 2
    BY <1>1
  <1>4. Outcome = Plainly(t[k].pos, t[k].scopes) /\ t[k].pos = pos
    BY <1>1, <1>2 DEF Outcome, Plainly, Stands
  <1> HIDE DEF k
  <1>5. /\ t[k].pos < End
        /\ Outcome.ok
        /\ prefix[k] = [from |-> t[k].pos, to |-> Outcome.at, notes |-> Outcome.notes]
        /\ t[k + 1].scopes = Outcome.scopes
        /\ t[k + 1].pos \in AfterBlanks(text, Outcome.at)
    BY <1>2, <1>3, <1>4 DEF IsRun
  <1>6. prefix[k] = ItemOf(Outcome)
    BY <1>4, <1>5 DEF ItemOf
  <1> QED
    BY <1>1, <1>2, <1>3, <1>4, <1>5, <1>6 DEF k

\* A declaration that recovery finds is the next one of the strict pass, if there
\* is one more.
LEMMA ItemReplay ==
    ASSUME LoopInv, LoopInv', ReplayInv, DeclarationAdvances, RecoverItem
    PROVE  ReplayInv'
  <1> SUFFICES ASSUME text # <<>> /\ text[1] # DIRECTIVE
               PROVE  ReplayInv'
    BY DEF ReplayInv, RecoverItem, TakeItem
  <1>1. /\ phase = "recover" /\ phase' = phase /\ text' = text /\ flavor' = flavor
        /\ items' = Append(items, ItemOf(Outcome)) /\ scopes' = Outcome.scopes
        /\ prefix' = prefix /\ cache' = NoCache
        /\ pos' \in AfterBlanks(text, Outcome.at) /\ Outcome.ok /\ pos < End
    BY DEF RecoverItem, TakeItem
  <1>2. /\ items \in Seq(ItemSet) /\ prefix \in Seq(ItemSet)
        /\ ItemSet' = ItemSet /\ items' \in Seq(ItemSet)
        /\ text \in Seq(STRING) /\ Len(text) \in Nat /\ pos \in 1 .. End
    BY <1>1 DEF LoopInv, TypeOK, ReplayInv, ItemSet, End
  <1>3. /\ Len(items') = Len(items) + 1 /\ Len(items) \in Nat /\ Len(prefix) \in Nat
        /\ items'[Len(items) + 1] = ItemOf(Outcome)
        /\ \A i \in 1 .. Len(items) : items'[i] = items[i]
        /\ DOMAIN items = 1 .. Len(items) /\ DOMAIN prefix = 1 .. Len(prefix)
        /\ DOMAIN items' = 1 .. Len(items) + 1
    <2> DEFINE e == ItemOf(Outcome)
    <2>1. items' = Append(items, e)
      BY <1>1
    <2> HIDE DEF e
    <2>2. /\ Len(items') = Len(items) + 1 /\ items'[Len(items) + 1] = e
          /\ \A i \in 1 .. Len(items) : items'[i] = items[i]
          /\ DOMAIN items' = 1 .. Len(items')
      BY <1>2, <2>1
    <2> QED
      BY <1>2, <2>2 DEF e
  <1>4. CASE Kept
    <2>1. Kept'
      BY <1>1, <1>3, <1>4 DEF Kept
    <2> QED
      BY <1>1, <1>2, <2>1 DEF ReplayInv
  <1>5. CASE ~Kept
    <2>1. /\ Len(items) + 1 \in 1 .. Len(prefix)
          /\ \A i \in DOMAIN items : items[i] = prefix[i]
          /\ prefix[Len(items) + 1] = ItemOf(Outcome)
      BY <1>1, <1>5, NextIsKnown
    <2>2. PICK t : /\ IsRun(t, prefix)
                   /\ t[Len(items) + 2].scopes = Outcome.scopes
                   /\ t[Len(items) + 2].pos \in AfterBlanks(text, Outcome.at)
      BY <1>1, <1>5, NextIsKnown
    <2>3. Outcome.at \in 1 .. Len(text) + 1
      BY <1>1, <1>2 DEF DeclarationAdvances, Parses, Advances, End
    <2>4. t[Len(items) + 2].pos = pos'
      BY <1>1, <1>2, <2>2, <2>3, BlanksUnique
    <2>5. \A i \in DOMAIN items' : items'[i] = prefix[i]
      BY <1>3, <2>1
    <2>6. IsRun(t, prefix)' /\ Stands(t, Len(items) + 1)'
      <3>1. Len(items') + 1 = Len(items) + 2
        BY <1>3
      <3>2. IsRun(t, prefix)'
        BY <1>1, <2>2, RunStays
      <3> QED
        BY <1>1, <2>2, <2>4, <3>1, <3>2 DEF Stands
    <2>7. CASE Len(items) + 1 = Len(prefix)
      <3>1. Kept'
        BY <1>1, <1>3, <2>5, <2>7 DEF Kept
      <3> QED
        BY <1>1, <1>2, <3>1 DEF ReplayInv
    <2>8. CASE Len(items) + 1 < Len(prefix)
      BY <1>1, <1>2, <1>3, <2>5, <2>6, <2>8 DEF ReplayInv
    <2>9. Len(items) + 1 = Len(prefix) \/ Len(items) + 1 < Len(prefix)
      <3>1. Len(items) \in Nat /\ Len(prefix) \in Nat
        BY <1>3
      <3>2. Len(items) + 1 \in 1 .. Len(prefix)
        BY <2>1
      <3> QED
        BY <3>1, <3>2
    <2> QED
      BY <2>7, <2>8, <2>9
  <1> QED
    BY <1>4, <1>5

\* Nothing is left out, and recovery does not end, before all that the strict pass
\* had found is found again.
LEMMA LeaveOutReplay ==
    ASSUME LoopInv, LoopInv', ReplayInv, RecoverSkip \/ RecoverGiveUp \/ RecoverEnd
    PROVE  ReplayInv'
  <1> SUFFICES ASSUME text # <<>> /\ text[1] # DIRECTIVE
               PROVE  ReplayInv'
    BY DEF ReplayInv, RecoverSkip, RecoverGiveUp, RecoverEnd, Fails
  <1>1. /\ phase = "recover" /\ phase' \in {"recover", "done"}
        /\ text' = text /\ flavor' = flavor
        /\ items' = items /\ prefix' = prefix /\ cache' = cache
        /\ ~Outcome.ok \/ pos = End
    BY DEF RecoverSkip, RecoverGiveUp, RecoverEnd, Fails
  <1>2. pos \in 1 .. End /\ End \in Nat
    BY DEF LoopInv, TypeOK, End
  <1>3. Kept
    <2> SUFFICES ASSUME ~Kept PROVE FALSE
      OBVIOUS
    <2>1. Outcome.ok /\ pos < End
      BY <1>1, NextIsKnown
    <2> QED
      BY <1>1, <1>2, <2>1
  <1>4. Kept' /\ cache' = NoCache
    BY <1>1, <1>3 DEF Kept, ReplayInv
  <1>5. prefix' \in Seq(ItemSet')
    BY <1>1 DEF ReplayInv, ItemSet, End
  <1> QED
    BY <1>1, <1>4, <1>5 DEF ReplayInv

LEMMA StutterReplay ==
    ASSUME ReplayInv, UNCHANGED vars
    PROVE  ReplayInv'
  <1>1. /\ text' = text /\ flavor' = flavor /\ phase' = phase /\ scopes' = scopes
        /\ cache' = cache /\ items' = items /\ prefix' = prefix /\ pos' = pos
    BY DEF vars
  <1>2. ASSUME NEW t
        PROVE  /\ IsRun(t, items)' = IsRun(t, items)
               /\ IsRun(t, prefix)' = IsRun(t, prefix)
               /\ Stands(t, Len(items) + 1)' = Stands(t, Len(items) + 1)
    <2>1. IsRun(t, items)' = IsRun(t, items) /\ IsRun(t, prefix)' = IsRun(t, prefix)
      BY <1>1, RunStays
    <2>2. Stands(t, Len(items) + 1)' = Stands(t, Len(items) + 1)
      BY <1>1 DEF Stands
    <2> QED
      BY <2>1, <2>2
  <1>3. Kept' = Kept /\ ItemSet' = ItemSet
    BY <1>1 DEF Kept, ItemSet, End
  <1> QED
    BY <1>1, <1>2, <1>3 DEF ReplayInv

LEMMA ReplayNext ==
    LoopInv /\ LoopInv' /\ ReplayInv /\ DeclarationAdvances /\ CacheIsTransparent
        /\ [Next]_vars => ReplayInv'
  <1> SUFFICES ASSUME LoopInv, LoopInv', ReplayInv, DeclarationAdvances,
                      CacheIsTransparent, [Next]_vars
               PROVE  ReplayInv'
    OBVIOUS
  <1>1. CASE Start
    BY <1>1, StartReplay
  <1>2. CASE StrictItem
    BY <1>2, StrictReplay
  <1>3. CASE StrictAccepted
    BY <1>3, AcceptedReplay
  <1>4. CASE StrictRejected
    BY <1>4, RejectedReplay
  <1>5. CASE RecoverItem
    BY <1>5, ItemReplay
  <1>6. CASE RecoverSkip \/ RecoverGiveUp \/ RecoverEnd
    BY <1>6, LeaveOutReplay
  <1>7. CASE Returned \/ UNCHANGED vars
    BY <1>7, StutterReplay DEF Returned
  <1> QED
    BY <1>1, <1>2, <1>3, <1>4, <1>5, <1>6, <1>7 DEF Next

\* Recovery finds again all that the strict pass had found before it met the
\* error, for every text that does not begin with a directive and every grammar
\* whose declarations are not empty and whose cache makes no difference
\* (public_api.rs:91-175).
THEOREM ParserKeepsPrefix ==
    Spec /\ []DeclarationAdvances /\ []CacheIsTransparent => []PrefixKept
  <1>1. ReplayInv => PrefixKept
    BY DEF ReplayInv, PrefixKept, Kept
  <1> QED
    BY LoopInvariant, ReplayInit, ReplayNext, <1>1, PTL DEF Spec

----------------------------------------------------------------------------
(* Between two rounds no block is open.                                    *)

Semicolon == ";"
OpenBrace == "{"
CloseBrace == "}"

LEMMA MarksDiffer ==
    /\ Semicolon # OpenBrace /\ Semicolon # CloseBrace
    /\ DIRECTIVE # OpenBrace /\ DIRECTIVE # CloseBrace
  BY Zenon DEF Semicolon, OpenBrace, CloseBrace, DIRECTIVE

LEMMA DepthIs ==
    \A a, b : Depth(a, b) = Braces(OpenBrace, a, b) - Braces(CloseBrace, a, b)
  BY Zenon DEF Depth, OpenBrace, CloseBrace

\* Where synchronisation stops: the first semicolon, or the end of the first
\* block, with a semicolon behind it or without one.
LEMMA SyncIs ==
    ASSUME NEW i, NEW n \in SyncPoints(i)
    PROVE  \E j \in i .. Len(text) :
              /\ \A k \in i .. j - 1 : text[k] # OpenBrace
              /\ \/ text[j] = Semicolon /\ n = j + 1
                 \/ \E k \in j .. Len(text) :
                       /\ Depth(j, k) = 0
                       /\ n = k + 1 \/ (n = k + 2 /\ text[k + 1] = Semicolon)
  <1>1. PICK j \in i .. Len(text) :
           /\ Stops(i, j)
           /\ \/ text[j] = ";" /\ n = j + 1
              \/ /\ text[j] = "{"
                 /\ \E k \in j .. Len(text) : Closes(j, k) /\ n = AfterBlock(k)
    BY Zenon DEF SyncPoints
  <1>2. \A k \in i .. j - 1 : text[k] # OpenBrace
    BY <1>1, Zenon DEF Stops, OpenBrace
  <1>3. \A k : AfterBlock(k) = k + 1 \/ (AfterBlock(k) = k + 2 /\ text[k + 1] = Semicolon)
    BY Zenon DEF AfterBlock, Semicolon
  <1>4. CASE text[j] = ";" /\ n = j + 1
    BY <1>2, <1>4, Zenon DEF Semicolon
  <1>5. CASE \E k \in j .. Len(text) : Closes(j, k) /\ n = AfterBlock(k)
    <2>1. PICK k \in j .. Len(text) : Closes(j, k) /\ n = AfterBlock(k)
      BY <1>5
    <2>2. Depth(j, k) = 0
      BY <2>1, Zenon DEF Closes
    <2>3. n = k + 1 \/ (n = k + 2 /\ text[k + 1] = Semicolon)
      BY <1>3, <2>1, Zenon
    <2> QED
      BY <1>2, <2>1, <2>2, <2>3, Zenon
  <1> QED
    BY <1>1, <1>4, <1>5, Zenon

LEMMA BracesAdd ==
    ASSUME NEW brace, NEW a \in Nat, NEW b \in Nat, a <= b
    PROVE  /\ Braces(brace, 1, b) = Braces(brace, 1, a) + Braces(brace, a + 1, b)
           /\ Braces(brace, 1, a) \in Nat /\ Braces(brace, a + 1, b) \in Nat
  <1> DEFINE X == {k \in 1 .. a : text[k] = brace}
             Y == {k \in a + 1 .. b : text[k] = brace}
             Z == {k \in 1 .. b : text[k] = brace}
  <1>1. IsFiniteSet(1 .. a) /\ IsFiniteSet(a + 1 .. b)
    BY FS_Interval
  <1>2. IsFiniteSet(X) /\ IsFiniteSet(Y)
    BY <1>1, FS_Subset
  <1>3. Z = X \cup Y /\ X \cap Y = {}
    OBVIOUS
  <1> HIDE DEF X, Y, Z
  <1>4. Cardinality(X) \in Nat /\ Cardinality(Y) \in Nat /\ Cardinality(X \cap Y) = 0
    BY <1>2, <1>3, FS_CardinalityType, FS_EmptySet
  <1>5. Cardinality(X \cup Y) = Cardinality(X) + Cardinality(Y) - Cardinality(X \cap Y)
    BY <1>2, FS_Union
  <1>6. Cardinality(Z) = Cardinality(X) + Cardinality(Y)
    BY <1>3, <1>4, <1>5
  <1> QED
    BY <1>4, <1>6 DEF Braces, X, Y, Z

\* Depths add up along the text.
LEMMA DepthAdds ==
    ASSUME NEW a \in Nat, NEW b \in Nat, a <= b
    PROVE  /\ Depth(1, b) = Depth(1, a) + Depth(a + 1, b)
           /\ Depth(1, a) \in Int /\ Depth(a + 1, b) \in Int
  <1>1. \A brace : /\ Braces(brace, 1, b) = Braces(brace, 1, a) + Braces(brace, a + 1, b)
                   /\ Braces(brace, 1, a) \in Nat /\ Braces(brace, a + 1, b) \in Nat
    BY BracesAdd
  <1>2. /\ Depth(1, b) = Braces(OpenBrace, 1, b) - Braces(CloseBrace, 1, b)
        /\ Depth(1, a) = Braces(OpenBrace, 1, a) - Braces(CloseBrace, 1, a)
        /\ Depth(a + 1, b) = Braces(OpenBrace, a + 1, b) - Braces(CloseBrace, a + 1, b)
    BY DepthIs
  <1>3. /\ Braces(OpenBrace, 1, b) = Braces(OpenBrace, 1, a) + Braces(OpenBrace, a + 1, b)
        /\ Braces(CloseBrace, 1, b) = Braces(CloseBrace, 1, a) + Braces(CloseBrace, a + 1, b)
        /\ Braces(OpenBrace, 1, a) \in Nat /\ Braces(OpenBrace, a + 1, b) \in Nat
        /\ Braces(CloseBrace, 1, a) \in Nat /\ Braces(CloseBrace, a + 1, b) \in Nat
    BY <1>1
  <1> QED
    BY <1>2, <1>3

LEMMA NoBraces ==
    ASSUME NEW a \in Nat, NEW b \in Int, NEW brace,
           \A k \in a .. b : text[k] # brace
    PROVE  Braces(brace, a, b) = 0
  <1>1. {k \in a .. b : text[k] = brace} = {}
    OBVIOUS
  <1> QED
    BY <1>1, FS_EmptySet DEF Braces

\* What is no brace does not change the depth.
LEMMA FlatText ==
    ASSUME NEW a \in Nat, NEW b \in Nat, a <= b,
           \A k \in a + 1 .. b : text[k] \notin {OpenBrace, CloseBrace}
    PROVE  Depth(1, b) = Depth(1, a)
  <1>1. Braces(OpenBrace, a + 1, b) = 0 /\ Braces(CloseBrace, a + 1, b) = 0
    BY NoBraces
  <1>2. Depth(a + 1, b) = 0
    BY <1>1, DepthIs
  <1> QED
    BY <1>2, DepthAdds

LEMMA FlatBlanks ==
    ASSUME NEW i \in 1 .. Len(text) + 1, NEW j \in AfterBlanks(text, i), text \in Seq(STRING)
    PROVE  Depth(1, j - 1) = Depth(1, i - 1)
  <1>1. j \in i .. Len(text) + 1 /\ \A k \in i .. j - 1 : text[k] = DIRECTIVE
    BY BlanksAdvance
  <1>2. i - 1 \in Nat /\ j - 1 \in Nat /\ i - 1 <= j - 1 /\ (i - 1) + 1 = i
    BY <1>1
  <1>3. \A k \in (i - 1) + 1 .. j - 1 : text[k] \notin {OpenBrace, CloseBrace}
    BY <1>1, <1>2, MarksDiffer
  <1> QED
    BY <1>2, <1>3, FlatText

\* Synchronisation begins and ends outside of every block.
LEMMA FlatSync ==
    ASSUME text \in Seq(STRING), BracesMatch, NEW i \in 1 .. Len(text) + 1,
           Depth(1, i - 1) = 0, NEW n \in SyncPoints(i)
    PROVE  Depth(1, n - 1) = 0
  <1>1. PICK j \in i .. Len(text) :
           /\ \A k \in i .. j - 1 : text[k] # OpenBrace
           /\ \/ text[j] = Semicolon /\ n = j + 1
              \/ \E k \in j .. Len(text) :
                    /\ Depth(j, k) = 0
                    /\ n = k + 1 \/ (n = k + 2 /\ text[k + 1] = Semicolon)
    BY SyncIs
  <1>2. /\ Len(text) \in Nat /\ i - 1 \in Nat /\ j - 1 \in Nat /\ i - 1 <= j - 1
        /\ (i - 1) + 1 = i /\ (j - 1) + 1 = j /\ j \in 1 .. Len(text)
    OBVIOUS
  <1>3. Depth(1, j - 1) = 0
    <2>1. Braces(OpenBrace, i, j - 1) = 0
      BY <1>1, <1>2, NoBraces
    <2>2. Braces(CloseBrace, i, j - 1) \in Nat
      BY <1>2, BracesAdd
    <2>3. Depth(1, j - 1) = Depth(1, i - 1) + Depth(i, j - 1)
      BY <1>2, DepthAdds
    <2>4. j - 1 = i - 1 \/ Depth(1, j - 1) >= 0
      BY <1>2 DEF BracesMatch
    <2>5. Depth(1, j - 1) = 0 - Braces(CloseBrace, i, j - 1)
      BY <2>1, <2>2, <2>3, DepthIs
    <2>6. CASE j - 1 = i - 1
      BY <2>6
    <2>7. CASE Depth(1, j - 1) >= 0
      BY <2>2, <2>5, <2>7
    <2> QED
      BY <2>4, <2>6, <2>7
  <1>4. CASE text[j] = Semicolon /\ n = j + 1
    <2>1. \A k \in (j - 1) + 1 .. j : text[k] \notin {OpenBrace, CloseBrace}
      BY <1>2, <1>4, MarksDiffer
    <2>2. Depth(1, j) = Depth(1, j - 1)
      BY <1>2, <2>1, FlatText
    <2>3. n - 1 = j
      BY <1>2, <1>4
    <2> QED
      BY <1>3, <2>2, <2>3
  <1>5. CASE \E k \in j .. Len(text) :
                /\ Depth(j, k) = 0
                /\ n = k + 1 \/ (n = k + 2 /\ text[k + 1] = Semicolon)
    <2>1. PICK k \in j .. Len(text) :
             /\ Depth(j, k) = 0
             /\ n = k + 1 \/ (n = k + 2 /\ text[k + 1] = Semicolon)
      BY <1>5
    <2>2. k \in Nat /\ j - 1 <= k
      BY <1>2
    <2>3. Depth(1, k) = Depth(1, j - 1) + Depth(j, k)
      BY <1>2, <2>2, DepthAdds
    <2>4. Depth(1, k) = 0
      BY <1>3, <2>1, <2>3
    <2>5. CASE n = k + 1
      BY <2>2, <2>4, <2>5
    <2>6. CASE n = k + 2 /\ text[k + 1] = Semicolon
      <3>1. \A m \in k + 1 .. k + 1 : text[m] \notin {OpenBrace, CloseBrace}
        BY <2>2, <2>6, MarksDiffer
      <3>2. Depth(1, k + 1) = Depth(1, k)
        <4>1. k + 1 \in Nat /\ k <= k + 1 /\ k \in Nat
          BY <2>2
        <4> QED
          BY <3>1, <4>1, FlatText
      <3>3. n - 1 = k + 1
        BY <2>2, <2>6
      <3> QED
        BY <2>4, <3>2, <3>3
    <2> QED
      BY <2>1, <2>5, <2>6
  <1> QED
    BY <1>1, <1>4, <1>5

BlockInv ==
    BracesMatch =>
        /\ phase \in {"strict", "recover"} => Depth(1, pos - 1) = 0
        /\ \A i \in DOMAIN items : Depth(1, items[i].from - 1) = 0

\* The depth is a matter of the text.
LEMMA DepthStays ==
    ASSUME text' = text
    PROVE  (\A a, b : Depth(a, b)' = Depth(a, b)) /\ BracesMatch' = BracesMatch
  <1>1. ASSUME NEW brace, NEW a, NEW b
        PROVE  Braces(brace, a, b)' = Braces(brace, a, b)
    BY DEF Braces
  <1>2. ASSUME NEW a, NEW b
        PROVE  Depth(a, b)' = Depth(a, b)
    <2>1. /\ Braces("{", a, b)' = Braces("{", a, b)
          /\ Braces("}", a, b)' = Braces("}", a, b)
      BY <1>1, Zenon
    <2> QED
      BY <2>1, Zenon DEF Depth
  <1>3. BracesMatch' = BracesMatch
    BY <1>2 DEF BracesMatch
  <1> QED
    BY <1>2, <1>3

LEMMA BlockInit == Init => BlockInv
  <1> SUFFICES ASSUME Init PROVE BlockInv
    OBVIOUS
  <1>1. DOMAIN items = {} /\ phase = "enter"
    BY DEF Init
  <1> QED
    BY <1>1 DEF BlockInv

\* Outside of every block blanks are skipped from one place to another such.
LEMMA ItemBlocks ==
    ASSUME LoopInv, BlockInv, BracesMatch, phase \in {"strict", "recover"}, pos < End,
           DeclarationAdvances, DeclarationsBalance, TakeItem(Outcome)
    PROVE  BlockInv'
  <1>1. /\ Outcome.ok /\ text' = text /\ phase' = phase /\ text \in Seq(STRING)
        /\ items' = Append(items, ItemOf(Outcome)) /\ pos' \in AfterBlanks(text, Outcome.at)
        /\ Outcome.at \in pos + 1 .. End /\ Depth(pos, Outcome.at - 1) = 0
        /\ pos \in 1 .. End /\ End = Len(text) + 1 /\ Len(text) \in Nat
        /\ items \in Seq(ItemSet)
    BY DEF TakeItem, DeclarationAdvances, Parses, DeclarationsBalance, Balances, Advances, LoopInv, TypeOK, End
  <1> DEFINE at == Outcome.at
             e == ItemOf(Outcome)
  <1>2. Depth(1, pos - 1) = 0
    BY DEF BlockInv
  <1>3. Depth(1, at - 1) = 0
    <2>1. pos - 1 \in Nat /\ at - 1 \in Nat /\ pos - 1 <= at - 1 /\ (pos - 1) + 1 = pos
      BY <1>1
    <2>2. Depth(1, at - 1) = Depth(1, pos - 1) + Depth(pos, at - 1)
      BY <2>1, DepthAdds
    <2> QED
      BY <1>1, <1>2, <2>2
  <1>4. Depth(1, pos' - 1) = 0
    <2>1. at \in 1 .. Len(text) + 1
      BY <1>1
    <2> QED
      BY <1>1, <1>3, <2>1, FlatBlanks
  <1>5. e.from = pos
    BY DEF ItemOf
  <1> HIDE DEF at, e
  <1>6. \A i \in DOMAIN items' : items'[i] = e \/ (i \in DOMAIN items /\ items'[i] = items[i])
    BY <1>1 DEF e
  <1>7. \A i \in DOMAIN items' : Depth(1, items'[i].from - 1) = 0
    BY <1>2, <1>5, <1>6 DEF BlockInv
  <1> QED
    BY <1>1, <1>4, <1>7, DepthStays DEF BlockInv

LEMMA BlockNext ==
    LoopInv /\ BlockInv /\ DeclarationAdvances /\ DeclarationsBalance /\ [Next]_vars
        => BlockInv'
  <1> SUFFICES ASSUME LoopInv, BlockInv, DeclarationAdvances, DeclarationsBalance, [Next]_vars
               PROVE  BlockInv'
    OBVIOUS
  <1>1. text' = text
    BY DEF Next, vars, Start, StrictItem, StrictAccepted, StrictRejected, RecoverItem,
           RecoverSkip, RecoverGiveUp, RecoverEnd, Returned, TakeItem, Fails
  <1>2. SUFFICES ASSUME BracesMatch
                 PROVE  /\ phase' \in {"strict", "recover"} => Depth(1, pos' - 1) = 0
                        /\ \A i \in DOMAIN items' : Depth(1, items'[i].from - 1) = 0
    BY <1>1, <1>2, DepthStays DEF BlockInv
  <1>3. /\ text \in Seq(STRING) /\ Len(text) \in Nat /\ End = Len(text) + 1
        /\ pos \in 1 .. End
    BY DEF LoopInv, TypeOK, End
  <1>4. Depth(1, 0) = 0
    <2>1. \A brace : Braces(brace, 1, 0) = 0
      BY NoBraces
    <2> QED
      BY <2>1, DepthIs
  <1>5. CASE Start
    <2>1. pos = 1 /\ items = <<>> /\ items' = items /\ pos' \in AfterBlanks(text, Begins)
      BY <1>5 DEF Start, LoopInv
    <2>2. Begins \in 1 .. Len(text) + 1 /\ Depth(1, Begins - 1) = 0
      <3>1. CASE Begins = 1
        BY <1>3, <1>4, <3>1
      <3>2. CASE Begins = 2 /\ text[1] = DIRECTIVE /\ 1 < End
        <4>1. \A k \in 0 + 1 .. 1 : text[k] \notin {OpenBrace, CloseBrace}
          BY <3>2, MarksDiffer
        <4>2. Depth(1, 1) = Depth(1, 0)
          BY <4>1, FlatText
        <4>3. Begins - 1 = 1 /\ Begins \in 1 .. Len(text) + 1
          BY <1>3, <3>2
        <4> QED
          BY <1>4, <4>2, <4>3
      <3> QED
        BY <2>1, <3>1, <3>2 DEF Begins
    <2>3. PICK b \in 1 .. Len(text) + 1 : b = Begins
      BY <2>2
    <2>4. Depth(1, pos' - 1) = 0
      BY <1>3, <2>1, <2>2, <2>3, FlatBlanks
    <2>5. DOMAIN items' = {}
      BY <2>1
    <2> QED
      BY <2>4, <2>5
  <1>6. CASE StrictItem \/ RecoverItem
    <2>1. /\ phase \in {"strict", "recover"} /\ pos < End /\ TakeItem(Outcome)
      BY <1>6 DEF StrictItem, RecoverItem
    <2>2. BlockInv'
      BY <1>2, <2>1, ItemBlocks
    <2> QED
      BY <1>1, <1>2, <2>2, DepthStays DEF BlockInv
  <1>7. CASE StrictRejected
    <2>1. items' = <<>> /\ pos' = 1
      BY <1>7 DEF StrictRejected, AfterBlanks
    <2>2. pos' - 1 = 0 /\ DOMAIN items' = {}
      BY <2>1
    <2> QED
      BY <1>4, <2>2
  <1>8. CASE RecoverSkip
    <2>1. phase = "recover" /\ items' = items
      BY <1>8 DEF RecoverSkip, Fails
    <2>2. PICK sync \in SyncPoints(pos) : pos' \in AfterSync(sync)
      BY <1>8 DEF RecoverSkip
    <2>3. Depth(1, sync - 1) = 0
      BY <1>2, <1>3, <2>1, FlatSync DEF BlockInv
    <2>4. sync \in 2 .. Len(text) + 1 /\ sync \in 1 .. Len(text) + 1
      BY <1>3, SyncAdvances
    <2>5. Depth(1, pos' - 1) = 0
      <3>1. pos' \in AfterBlanks(text, sync) \/ pos' = sync
        BY <1>3, <2>2, <2>4, SyncSkips
      <3>2. CASE pos' \in AfterBlanks(text, sync)
        BY <1>3, <2>3, <2>4, <3>2, FlatBlanks
      <3> QED
        BY <2>3, <3>1, <3>2
    <2> QED
      BY <1>2, <2>1, <2>5 DEF BlockInv
  <1>9. CASE StrictAccepted \/ RecoverGiveUp \/ RecoverEnd
    <2>1. phase' = "done" /\ items' = items
      BY <1>9 DEF StrictAccepted, RecoverGiveUp, RecoverEnd, Fails
    <2> QED
      BY <1>2, <2>1 DEF BlockInv
  <1>10. CASE Returned \/ UNCHANGED vars
    <2>1. phase' = phase /\ items' = items /\ pos' = pos
      BY <1>10 DEF Returned, vars
    <2> QED
      BY <1>2, <2>1 DEF BlockInv
  <1> QED
    BY <1>5, <1>6, <1>7, <1>8, <1>9, <1>10 DEF Next

\* Recovery never takes for a declaration of the file what stands inside a block:
\* in a text whose braces match every declaration begins outside of every block,
\* for every grammar whose declarations match theirs (public_api.rs:121-168).
THEOREM ParserStaysOutside ==
    Spec /\ []DeclarationAdvances /\ []DeclarationsBalance => []ItemsAreAtFileScope
  <1>1. BlockInv => ItemsAreAtFileScope
    BY DEF BlockInv, ItemsAreAtFileScope
  <1> QED
    BY LoopInvariant, BlockInit, BlockNext, <1>1, PTL DEF Spec

----------------------------------------------------------------------------
(* Synchronisation stops in time: never behind the place where a           *)
(* well-formed declaration stands.                                         *)

\* By the order of the initial intervals: the library's induction on numbers
\* takes an operator.
LEMMA LeastExists ==
    ASSUME NEW T, T \subseteq Nat, T # {}
    PROVE  \E i \in T : \A j \in T : i <= j
  <1> DEFINE below == {0..i : i \in T}
  <1>1. below \subseteq FiniteSubsetsOf(Nat) /\ below # {}
    <2>1. ASSUME NEW i \in T
          PROVE  0..i \in SUBSET Nat /\ IsFiniteSet(0..i)
      BY FS_Interval
    <2> QED
      BY <2>1 DEF FiniteSubsetsOf
  <1>2. PICK m \in below : \A x \in below : <<x, m>> \notin StrictSubsetOrdering(Nat)
    <2> DEFINE order == StrictSubsetOrdering(Nat)
               all   == FiniteSubsetsOf(Nat)
    <2>1. IsWellFoundedOn(order, all)
      BY FS_StrictSubsetOrderingWellFounded
    <2> HIDE DEF order, all, below
    <2>2. \E m \in below : \A x \in below : ~(<<x, m>> \in order)
      BY <1>1, <2>1, WFMin DEF all
    <2> QED
      BY <2>2 DEF order
  <1>3. PICK i \in T : m = 0..i
    BY <1>2
  <1>4. ASSUME NEW j \in T, j < i
        PROVE  FALSE
    <2>1. 0..j \in below /\ 0..j \subseteq Nat /\ m \subseteq Nat
      BY <1>3
    <2>2. 0..j \subseteq m /\ 0..j # m
      <3>1. i \in m /\ i \notin 0..j
        BY <1>3, <1>4
      <3> QED
        BY <1>3, <1>4, <3>1
    <2> QED
      BY <1>2, <2>1, <2>2 DEF StrictSubsetOrdering
  <1> QED
    BY <1>4

\* The first of the places from a on that are in P.
LEMMA FirstPlace ==
    ASSUME NEW P, NEW a \in Nat, NEW x \in Nat, a <= x, x \in P
    PROVE  \E m \in a .. x : m \in P /\ \A k \in a .. m - 1 : k \notin P
  <1> DEFINE T == {k \in a .. x : k \in P}
  <1>1. T \subseteq Nat /\ x \in T
    OBVIOUS
  <1>2. PICK m \in T : \A k \in T : m <= k
    BY <1>1, LeastExists
  <1>3. m \in a .. x
    BY <1>1, <1>2
  <1>4. \A k \in a .. m - 1 : k \notin P
    BY <1>2, <1>3
  <1> QED
    BY <1>2, <1>3, <1>4

\* What begins with a well-formed declaration.
LEMMA StandsIs ==
    ASSUME text \in Seq(STRING), text[1] # DIRECTIVE,
           NEW i \in 1 .. Len(text), NEW d \in WellFormed, StandsAt(i, d)
    PROVE  /\ text[i] \notin {DIRECTIVE, Semicolon}
           /\ Depth(1, i - 1) = 0
           /\ i = 1 \/ \E j \in 1 .. i - 1 : /\ text[j] \in {Semicolon, CloseBrace}
                                          /\ \A k \in j + 1 .. i - 1 : text[k] = DIRECTIVE
  <1>1. d \in Seq(STRING) /\ d # <<>> /\ d[1] \notin {DIRECTIVE, ";"}
    BY WellFormedAssumption
  <1>2. i + Len(d) <= End /\ SubSeq(text, i, i + Len(d) - 1) = d
    BY Zenon DEF StandsAt
  <1>3. text[i] = d[1]
    <2>1. Len(d) \in Nat /\ Len(d) >= 1
      <3>1. d \in Seq(STRING) /\ d # <<>>
        BY <1>1, Zenon
      <3> QED
        BY <3>1
    <2>2. SubSeq(text, i, i + Len(d) - 1)[1] = text[i]
      BY <2>1
    <2> QED
      BY <1>2, <2>2, Zenon
  <1>4. text[i] \notin {DIRECTIVE, Semicolon}
    BY <1>1, <1>3, Zenon DEF Semicolon
  <1>5. PICK j \in 0 .. i - 1 : /\ j = 0 \/ text[j] \in {";", "}"}
                               /\ \A k \in j + 1 .. i - 1 : text[k] = DIRECTIVE
    BY Zenon DEF StandsAt
  <1>6. j = 0 \/ text[j] \in {Semicolon, CloseBrace}
    BY <1>5, Zenon DEF Semicolon, CloseBrace
  <1>7. i = 1 \/ j \in 1 .. i - 1
    <2>1. \A k \in j + 1 .. i - 1 : text[k] = DIRECTIVE
      BY <1>5, Zenon
    <2> QED
      BY <2>1
  <1>8. i = 1 \/ \E n \in 1 .. i - 1 : /\ text[n] \in {Semicolon, CloseBrace}
                                     /\ \A k \in n + 1 .. i - 1 : text[k] = DIRECTIVE
    <2>1. \A k \in j + 1 .. i - 1 : text[k] = DIRECTIVE
      BY <1>5, Zenon
    <2> QED
      BY <1>6, <1>7, <2>1
  <1>9. Depth(1, i - 1) = 0
    BY Zenon DEF StandsAt
  <1> QED
    BY <1>4, <1>8, <1>9, Zenon

\* Up to the end of what stands before it, the text is read to the same depth.
LEMMA FlatTo ==
    ASSUME text \in Seq(STRING), NEW i \in 1 .. Len(text), NEW j \in 1 .. i - 1,
           Depth(1, i - 1) = 0, \A k \in j + 1 .. i - 1 : text[k] = DIRECTIVE
    PROVE  Depth(1, j) = 0
  <1>1. \A k \in j + 1 .. i - 1 : text[k] \notin {OpenBrace, CloseBrace}
    BY MarksDiffer
  <1>2. j \in Nat /\ i - 1 \in Nat /\ j <= i - 1
    OBVIOUS
  <1> QED
    BY <1>1, <1>2, FlatText

LEMMA SemicolonIsNoDirective == Semicolon # DIRECTIVE
  BY Zenon DEF Semicolon, DIRECTIVE

LEMMA StopsIs ==
    \A i, m : Stops(i, m) <=> /\ text[m] \in {Semicolon, OpenBrace}
                             /\ \A k \in i .. m - 1 : text[k] \notin {Semicolon, OpenBrace}
  BY Zenon DEF Stops, Semicolon, OpenBrace

LEMMA SyncPointsAre ==
    \A i, n : n \in SyncPoints(i) <=>
        /\ n \in i + 1 .. End
        /\ \E m \in i .. Len(text) :
              /\ Stops(i, m)
              /\ \/ text[m] = Semicolon /\ n = m + 1
                 \/ /\ text[m] = OpenBrace
                    /\ \E k \in m .. Len(text) : Closes(m, k) /\ n = AfterBlock(k)
  BY Zenon DEF SyncPoints, Semicolon, OpenBrace

LEMMA AfterBlockIs ==
    \A k : AfterBlock(k) = IF k < Len(text) /\ text[k + 1] = Semicolon THEN k + 2 ELSE k + 1
  BY Zenon DEF AfterBlock, Semicolon

\* Before the first brace that opens there is no brace at all.
LEMMA FlatBefore ==
    ASSUME text \in Seq(STRING), BracesMatch, NEW p \in 1 .. Len(text), NEW m \in p .. Len(text),
           Depth(1, p - 1) = 0, \A k \in p .. m - 1 : text[k] # OpenBrace
    PROVE  Depth(1, m - 1) = 0
  <1>1. /\ p - 1 \in Nat /\ m - 1 \in Nat /\ p - 1 <= m - 1 /\ (p - 1) + 1 = p
        /\ m - 1 \in 0 .. Len(text) /\ Len(text) \in Nat
    OBVIOUS
  <1>2. Braces(OpenBrace, p, m - 1) = 0
    BY <1>1, NoBraces
  <1>3. Braces(CloseBrace, p, m - 1) \in Nat
    BY <1>1, BracesAdd
  <1>4. Depth(1, m - 1) = 0 - Braces(CloseBrace, p, m - 1)
    <2>1. Depth(1, m - 1) = Depth(1, p - 1) + Depth(p, m - 1)
      BY <1>1, DepthAdds
    <2> QED
      BY <1>2, <1>3, <2>1, DepthIs
  <1>5. CASE m - 1 = p - 1
    BY <1>5
  <1>6. CASE m - 1 # p - 1
    <2>1. m - 1 \in 1 .. Len(text)
      BY <1>1, <1>6
    <2>2. Depth(1, m - 1) >= 0
      BY <2>1 DEF BracesMatch
    <2> QED
      BY <1>3, <1>4, <2>2
  <1> QED
    BY <1>5, <1>6

\* In front of a well-formed declaration synchronisation finds a place to stop,
\* and every such place is at the declaration or before it, unless it is only
\* directives that are left out up to there.
LEMMA SyncInTime ==
    ASSUME text \in Seq(STRING), BracesMatch, text[1] # DIRECTIVE,
           NEW p \in 1 .. Len(text), Depth(1, p - 1) = 0,
           NEW i \in p + 1 .. Len(text), NEW d \in WellFormed, StandsAt(i, d),
           \E k \in p .. i - 1 : text[k] # DIRECTIVE
    PROVE  SyncPoints(p) # {} /\ \A n \in SyncPoints(p) : n <= i
  <1>0. Len(text) \in Nat /\ End = Len(text) + 1 /\ i \in 1 .. Len(text) /\ i # 1
    BY DEF End
  <1>1. text[i] # Semicolon /\ Depth(1, i - 1) = 0
    BY <1>0, StandsIs
  <1>2. PICK j \in 1 .. i - 1 : /\ text[j] \in {Semicolon, CloseBrace}
                               /\ \A k \in j + 1 .. i - 1 : text[k] = DIRECTIVE
    BY <1>0, StandsIs
  <1>3. j \in p .. i - 1 /\ Depth(1, j) = 0
    <2>1. ~ p > j
      <3>1. PICK k \in p .. i - 1 : text[k] # DIRECTIVE
        OBVIOUS
      <3> QED
        BY <1>0, <1>2, <3>1
    <2> QED
      BY <1>0, <1>1, <1>2, <2>1, FlatTo
  <1> DEFINE Marks == {k \in 1 .. Len(text) : text[k] \in {Semicolon, OpenBrace}}
  <1>4. \E x \in p .. j : x \in Marks
    <2>1. CASE text[j] = Semicolon
      BY <1>0, <1>3, <2>1
    <2>2. CASE text[j] = CloseBrace /\ \A x \in p .. j : text[x] # OpenBrace
      <3>1. \A k \in p .. j - 1 : text[k] # OpenBrace
        BY <1>3, <2>2
      <3>2. Depth(1, j - 1) = 0
        <4>1. j \in p .. Len(text)
          BY <1>0, <1>3
        <4> QED
          BY <3>1, <4>1, FlatBefore
      <3>3. Depth(1, j) = Depth(1, j - 1) + Depth(j, j)
        <4>1. j - 1 \in Nat /\ j \in Nat /\ j - 1 <= j /\ (j - 1) + 1 = j
          BY <1>0, <1>3
        <4> QED
          BY <4>1, DepthAdds
      <3>4. Braces(OpenBrace, j, j) = 0
        <4>1. j \in Nat /\ j \in Int /\ \A k \in j .. j : text[k] # OpenBrace
          BY <1>3, <2>2
        <4> QED
          BY <4>1, NoBraces
      <3>5. Braces(CloseBrace, j, j) = 1
        <4>1. {k \in j .. j : text[k] = CloseBrace} = {j}
          BY <1>3, <2>2
        <4> QED
          BY <4>1, FS_Singleton DEF Braces
      <3>6. Depth(j, j) = 0 - 1
        BY <3>4, <3>5, DepthIs
      <3> QED
        BY <1>3, <3>2, <3>3, <3>6
    <2>3. CASE text[j] = CloseBrace /\ \E x \in p .. j : text[x] = OpenBrace
      BY <1>0, <1>3, <2>3
    <2> QED
      BY <1>2, <2>1, <2>2, <2>3
  <1>5. PICK m \in p .. j : m \in Marks /\ \A k \in p .. m - 1 : k \notin Marks
    <2>1. PICK T : T = {k \in p .. j : k \in Marks}
      OBVIOUS
    <2>2. T \subseteq Nat /\ T # {}
      BY <1>0, <1>3, <1>4, <2>1
    <2>3. PICK n \in T : \A k \in T : n <= k
      BY <2>2, LeastExists
    <2>4. n \in p .. j /\ n \in Marks
      BY <2>1, <2>3
    <2>5. \A k \in p .. n - 1 : k \notin Marks
      BY <1>0, <1>3, <2>1, <2>3, <2>4
    <2> QED
      BY <2>4, <2>5
  <1>6. Stops(p, m)
    <2>1. /\ text[m] \in {Semicolon, OpenBrace}
          /\ \A k \in p .. m - 1 : text[k] \notin {Semicolon, OpenBrace}
      BY <1>0, <1>3, <1>5
    <2> QED
      BY <2>1, StopsIs
  <1>7. Depth(1, m - 1) = 0
    <2>1. m \in p .. Len(text) /\ \A k \in p .. m - 1 : text[k] # OpenBrace
      BY <1>0, <1>3, <1>5
    <2> QED
      BY <2>1, FlatBefore
  <1>8. \A x \in m .. Len(text) : Depth(1, x) = Depth(m, x)
    <2>1. ASSUME NEW x \in m .. Len(text)
          PROVE  Depth(1, x) = Depth(m, x)
      <3>1. m - 1 \in Nat /\ x \in Nat /\ m - 1 <= x /\ (m - 1) + 1 = m
        BY <1>0, <1>3, <1>5
      <3>2. Depth(1, x) = Depth(1, m - 1) + Depth(m, x) /\ Depth(m, x) \in Int
        BY <3>1, DepthAdds
      <3> QED
        BY <1>7, <3>2
    <2> QED
      BY <2>1
  <1> HIDE DEF Marks
  <1>9. m \in 1 .. Len(text) /\ m <= j /\ j \in m .. Len(text) /\ p <= m /\ j < i /\ i <= Len(text)
    BY <1>0, <1>3, <1>5
  <1>10. SyncPoints(p) # {}
    <2>1. CASE text[m] = Semicolon
      <3>1. m + 1 \in p + 1 .. End /\ m \in p .. Len(text)
        BY <1>0, <1>9
      <3>2. m + 1 \in SyncPoints(p)
        BY <1>6, <2>1, <3>1, SyncPointsAre
      <3> QED
        BY <3>2
    <2>2. CASE text[m] = OpenBrace
      <3> DEFINE Level == {x \in m .. j : Depth(m, x) = 0}
      <3>1. j \in Level
        BY <1>3, <1>8, <1>9
      <3>2. PICK k \in m .. j : k \in Level /\ \A x \in m .. k - 1 : x \notin Level
        <4>1. m \in Nat /\ j \in Nat /\ m <= j
          BY <1>9
        <4>2. PICK S : S = Level
          OBVIOUS
        <4>3. j \in m .. j /\ j \in S
          BY <3>1, <4>1, <4>2
        <4> HIDE DEF Level
        <4>4. \E k \in m .. j : k \in S /\ \A x \in m .. k - 1 : x \notin S
          BY <4>1, <4>3, FirstPlace
        <4> QED
          BY <4>2, <4>4
      <3>3. Closes(m, k)
        <4>1. ASSUME NEW x \in m .. k - 1
              PROVE  Depth(m, x) > 0
          <5>1. x \in m .. Len(text) /\ x \in 1 .. Len(text) /\ x \in m .. j
            BY <1>0, <1>9, <3>2
          <5>2. Depth(m, x) >= 0 /\ Depth(m, x) \in Int
            <6>1. Depth(1, x) >= 0
              BY <5>1 DEF BracesMatch
            <6>2. Depth(1, x) \in Int
              <7>1. x \in Nat /\ x <= x
                BY <5>1
              <7> QED
                BY <7>1, DepthAdds
            <6> QED
              BY <1>8, <5>1, <6>1, <6>2
          <5>3. Depth(m, x) # 0
            BY <3>2, <5>1
          <5> QED
            BY <5>2, <5>3
        <4>2. Depth(m, k) = 0
          BY <3>2
        <4> QED
          BY <4>1, <4>2 DEF Closes
      <3>4. k \in m .. Len(text)
        BY <1>0, <1>9, <3>2
      <3>5. AfterBlock(k) \in p + 1 .. End /\ m \in p .. Len(text)
        <4>1. \/ AfterBlock(k) = k + 1
              \/ k < Len(text) /\ AfterBlock(k) = k + 2
          BY AfterBlockIs
        <4> QED
          BY <1>0, <1>9, <3>4, <4>1
      <3>6. AfterBlock(k) \in SyncPoints(p)
        BY <1>6, <2>2, <3>3, <3>4, <3>5, SyncPointsAre
      <3> QED
        BY <3>6
    <2> QED
      BY <1>6, <2>1, <2>2, StopsIs
  <1>11. ASSUME NEW n \in SyncPoints(p)
         PROVE  n <= i
    <2>1. PICK q \in p .. Len(text) :
             /\ Stops(p, q)
             /\ \/ text[q] = Semicolon /\ n = q + 1
                \/ /\ text[q] = OpenBrace
                   /\ \E k \in q .. Len(text) : Closes(q, k) /\ n = AfterBlock(k)
      BY SyncPointsAre
    <2>2. q = m
      <3>1. /\ text[q] \in {Semicolon, OpenBrace} /\ text[m] \in {Semicolon, OpenBrace}
            /\ \A k \in p .. q - 1 : text[k] \notin {Semicolon, OpenBrace}
            /\ \A k \in p .. m - 1 : text[k] \notin {Semicolon, OpenBrace}
        BY <1>6, <2>1, StopsIs
      <3>2. ~ q < m /\ ~ m < q
        BY <1>9, <2>1, <3>1
      <3> QED
        BY <1>9, <2>1, <3>2
    <2>3. CASE n = q + 1
      BY <1>9, <2>2, <2>3
    <2>4. CASE \E k \in q .. Len(text) : Closes(q, k) /\ n = AfterBlock(k)
      <3>1. PICK k \in m .. Len(text) : Closes(m, k) /\ n = AfterBlock(k)
        BY <2>2, <2>4
      <3>2. k <= j
        <4>1. SUFFICES ASSUME k > j PROVE FALSE
          BY <1>9, <3>1
        <4>2. j \in m .. k - 1
          BY <1>9, <3>1, <4>1
        <4>3. Depth(m, j) > 0
          BY <3>1, <4>2 DEF Closes
        <4>4. Depth(m, j) = 0
          BY <1>3, <1>8, <1>9
        <4> QED
          BY <4>3, <4>4
      <3>3. CASE n = k + 1
        BY <1>9, <3>1, <3>2, <3>3
      <3>4. CASE n = k + 2 /\ text[k + 1] = Semicolon
        <4>1. k < j
          <5>1. SUFFICES ASSUME k = j PROVE FALSE
            BY <1>9, <3>1, <3>2
          <5>2. CASE j + 1 = i
            BY <1>1, <3>4, <5>1, <5>2
          <5>3. CASE j + 1 # i
            <6>1. text[j + 1] = DIRECTIVE
              BY <1>2, <1>9, <5>3
            <6> QED
              BY <3>4, <5>1, <6>1, SemicolonIsNoDirective
          <5> QED
            BY <5>2, <5>3
        <4> QED
          BY <1>9, <3>1, <3>4, <4>1
      <3> QED
        BY <3>1, <3>3, <3>4, AfterBlockIs
    <2> QED
      BY <2>1, <2>3, <2>4
  <1> QED
    BY <1>10, <1>11

----------------------------------------------------------------------------
(* What stands well formed in the text is in the unit, or still to be read,*)
(* or a block that was left out and directives stand before it.            *)

KeepsNeighbours == BracesMatch /\ text # <<>> /\ text[1] # DIRECTIVE

\* A round that begins at a directive comes directly behind a block left out.
KeepInv ==
    KeepsNeighbours =>
        /\ phase \in {"strict", "recover"} /\ pos <= Len(text) /\ text[pos] = DIRECTIVE =>
              \E k \in DOMAIN errors : errors[k].to = pos /\ text[pos - 1] # Stopper
        /\ \A i \in 1 .. Len(text), d \in WellFormed :
              StandsAt(i, d) => \/ phase # "done" /\ pos <= i
                                \/ Swallowed(i)
                                \/ \E k \in DOMAIN items : Within(i, items[k])

LEMMA SwallowedIs ==
    \A i : Swallowed(i) <=> \E k \in DOMAIN errors :
                               /\ errors[k].to < i /\ text[errors[k].to - 1] # Stopper
                               /\ \A n \in errors[k].to .. i - 1 : text[n] = DIRECTIVE
  BY Zenon DEF Swallowed, Stopper

\* What was swallowed stays so while errors are only added.
LEMMA SwallowedStays ==
    ASSUME text' = text, errors \in Seq(SpanSet),
           errors' = errors \/ \E e : errors' = Append(errors, e)
    PROVE  \A i : Swallowed(i) => Swallowed(i)'
  <1>1. \A k \in DOMAIN errors : k \in DOMAIN errors' /\ errors'[k] = errors[k]
    OBVIOUS
  <1> QED
    BY <1>1 DEF Swallowed

\* Where a declaration stands is a matter of the text.
LEMMA StandsStays ==
    ASSUME text' = text
    PROVE  (\A i, d : StandsAt(i, d)' = StandsAt(i, d)) /\ KeepsNeighbours' = KeepsNeighbours
  <1>1. (\A a, b : Depth(a, b)' = Depth(a, b)) /\ BracesMatch' = BracesMatch
    BY DepthStays
  <1>2. ASSUME NEW i, NEW d
        PROVE  StandsAt(i, d)' = StandsAt(i, d)
    <2>1. End' = End
      BY DEF End
    <2> QED
      BY <1>1, <2>1, Zenon DEF StandsAt
  <1>3. KeepsNeighbours' = KeepsNeighbours
    BY <1>1 DEF KeepsNeighbours
  <1> QED
    BY <1>2, <1>3

\* No blank is skipped behind what is none, and none is left.
LEMMA BlanksStop ==
    ASSUME NEW t \in Seq(STRING), t[1] # DIRECTIVE,
           NEW i \in 1 .. Len(t) + 1, NEW j \in AfterBlanks(t, i)
    PROVE  /\ j <= Len(t) => t[j] # DIRECTIVE
           /\ \A k \in i .. Len(t) : t[k] # DIRECTIVE => j <= k
  <1>1. j \in i .. Len(t) + 1 /\ \A k \in i .. j - 1 : t[k] = DIRECTIVE
    BY BlanksAdvance
  <1>2. j <= Len(t) => t[j] # DIRECTIVE
    BY DEF AfterBlanks
  <1>3. ASSUME NEW k \in i .. Len(t), t[k] # DIRECTIVE
        PROVE  j <= k
    BY <1>1, <1>3
  <1> QED
    BY <1>2, <1>3

LEMMA KeepInit == Init => KeepInv
  <1> SUFFICES ASSUME Init PROVE KeepInv
    OBVIOUS
  <1>1. phase = "enter" /\ pos = 1
    BY DEF Init
  <1>2. \A i \in 1 .. Len(text) : pos <= i
    BY <1>1
  <1> QED
    BY <1>1, <1>2 DEF KeepInv

\* A declaration joins the unit: one that began before its end is within it.
LEMMA ItemKeeps ==
    ASSUME LoopInv, KeepInv, KeepsNeighbours, phase \in {"strict", "recover"}, pos < End,
           DeclarationAdvances, TakeItem(Outcome)
    PROVE  KeepInv'
  <1>1. /\ Outcome.ok /\ text' = text /\ phase' = phase /\ text \in Seq(STRING)
        /\ items' = Append(items, ItemOf(Outcome)) /\ pos' \in AfterBlanks(text, Outcome.at)
        /\ Outcome.at \in pos + 1 .. End
        /\ pos \in 1 .. End /\ End = Len(text) + 1 /\ Len(text) \in Nat
        /\ items \in Seq(ItemSet) /\ errors \in Seq(SpanSet) /\ errors' = errors
    BY DEF TakeItem, DeclarationAdvances, Parses, Advances, LoopInv, TypeOK, End
  <1> DEFINE at == Outcome.at
             e == ItemOf(Outcome)
  <1>2. e.from = pos /\ e.to = at
    BY DEF ItemOf
  <1>3. at \in 1 .. Len(text) + 1 /\ pos' \in AfterBlanks(text, at) /\ at \in pos + 1 .. End
    BY <1>1
  <1> HIDE DEF e, at
  <1>4. /\ pos' <= Len(text) => text[pos'] # DIRECTIVE
        /\ \A k \in at .. Len(text) : text[k] # DIRECTIVE => pos' <= k
    BY <1>1, <1>3, BlanksStop DEF KeepsNeighbours
  <1>5. /\ DOMAIN items' = 1 .. Len(items) + 1 /\ Len(items) \in Nat
        /\ items'[Len(items) + 1] = e
        /\ \A k \in DOMAIN items : k \in DOMAIN items' /\ items'[k] = items[k]
    BY <1>1 DEF e
  <1>6. ASSUME NEW i \in 1 .. Len(text), NEW d \in WellFormed, StandsAt(i, d)
        PROVE  \/ phase # "done" /\ pos' <= i
               \/ Swallowed(i)'
               \/ \E k \in DOMAIN items' : Within(i, items'[k])
    <2>1. CASE \E k \in DOMAIN items : Within(i, items[k])
      BY <1>5, <2>1
    <2>2. CASE pos <= i /\ i < at
      <3>1. Within(i, e)
        BY <1>2, <2>2 DEF Within
      <3> QED
        BY <1>5, <3>1
    <2>3. CASE at <= i
      <3>1. text[i] # DIRECTIVE
        BY <1>1, <1>6, StandsIs DEF KeepsNeighbours
      <3>2. i \in at .. Len(text)
        BY <1>1, <1>3, <2>3
      <3> QED
        BY <1>4, <3>1, <3>2
    <2>4. pos <= i \/ Swallowed(i) \/ \E k \in DOMAIN items : Within(i, items[k])
      BY <1>6 DEF KeepInv
    <2>5. i < at \/ at <= i
      BY <1>1, <1>3
    <2>6. Swallowed(i) => Swallowed(i)'
      BY <1>1, SwallowedStays
    <2> QED
      BY <2>1, <2>2, <2>3, <2>4, <2>5, <2>6
  <1> QED
    BY <1>1, <1>4, <1>6, StandsStays DEF KeepInv

\* What is left out ends where a well-formed declaration stands, or before it, or
\* begins at a directive behind a block that was left out.
LEMMA SkipKeeps ==
    ASSUME LoopInv, BlockInv, KeepInv, KeepsNeighbours, WellFormedIsFound,
           RecoverSkip \/ RecoverGiveUp
    PROVE  KeepInv'
  <1>1. /\ phase = "recover" /\ pos < End /\ ~Outcome.ok
        /\ text' = text /\ items' = items /\ text \in Seq(STRING)
        /\ pos \in 1 .. Len(text) /\ End = Len(text) + 1 /\ Len(text) \in Nat
        /\ errors \in Seq(SpanSet)
    BY DEF RecoverSkip, RecoverGiveUp, Fails, LoopInv, TypeOK, End
  <1>2. BracesMatch /\ text[1] # DIRECTIVE /\ Depth(1, pos - 1) = 0
    BY <1>1 DEF KeepsNeighbours, KeepInv, BlockInv
  <1>3. \A i : Swallowed(i) => Swallowed(i)'
    BY <1>1, SwallowedStays DEF RecoverSkip, RecoverGiveUp
  <1>4. ASSUME NEW i \in 1 .. Len(text), NEW d \in WellFormed, StandsAt(i, d)
        PROVE  \/ i \in pos + 1 .. Len(text) /\ \E k \in pos .. i - 1 : text[k] # DIRECTIVE
               \/ Swallowed(i)
               \/ \E k \in DOMAIN items : Within(i, items[k])
    <2>1. pos <= i \/ Swallowed(i) \/ \E k \in DOMAIN items : Within(i, items[k])
      BY <1>1, <1>4 DEF KeepInv
    <2>2. pos # i
      BY <1>1, <1>4 DEF WellFormedIsFound, Parses, FindsWellFormed
    <2>3. CASE pos < i /\ \A k \in pos .. i - 1 : text[k] = DIRECTIVE
      <3>1. text[pos] = DIRECTIVE
        BY <1>1, <2>3
      <3>2. PICK k \in DOMAIN errors : errors[k].to = pos /\ text[pos - 1] # Stopper
        BY <1>1, <3>1 DEF KeepInv
      <3> QED
        BY <2>3, <3>2, SwallowedIs
    <2> QED
      BY <1>1, <2>1, <2>2, <2>3
  <1>5. ASSUME NEW i \in pos + 1 .. Len(text), NEW d \in WellFormed, StandsAt(i, d),
               \E k \in pos .. i - 1 : text[k] # DIRECTIVE
        PROVE  SyncPoints(pos) # {} /\ \A n \in SyncPoints(pos) : n <= i
    BY <1>1, <1>2, <1>5, SyncInTime
  <1>6. CASE RecoverSkip
    <2>1. phase' = "recover"
      BY <1>1, <1>6 DEF RecoverSkip
    <2>2. PICK sync \in SyncPoints(pos) :
             pos' \in AfterSync(sync) /\ errors' = Append(errors, SpanOf(pos, sync))
      BY <1>6 DEF RecoverSkip
    <2>3. sync \in 1 .. Len(text) + 1 /\ sync \in 2 .. Len(text) + 1
      BY <1>1, SyncAdvances
    <2>4. /\ pos' \in sync .. Len(text) + 1 /\ \A k \in sync .. pos' - 1 : text[k] = DIRECTIVE
          /\ pos' \in AfterBlanks(text, sync) \/ (pos' = sync /\ text[sync - 1] # Stopper)
      BY <1>1, <2>2, <2>3, SyncSkips
    <2>5. pos' <= Len(text) /\ text[pos'] = DIRECTIVE =>
             \E k \in DOMAIN errors' : errors'[k].to = pos' /\ text[pos' - 1] # Stopper
      <3>1. CASE pos' \in AfterBlanks(text, sync)
        BY <1>1, <1>2, <2>3, <3>1, BlanksStop
      <3>2. CASE pos' = sync /\ text[sync - 1] # Stopper
        <4>1. Len(errors) + 1 \in DOMAIN errors' /\ errors'[Len(errors) + 1] = SpanOf(pos, sync)
          BY <1>1, <2>2
        <4>2. SpanOf(pos, sync).to = sync
          BY DEF SpanOf
        <4> QED
          BY <3>2, <4>1, <4>2
      <3> QED
        BY <2>4, <3>1, <3>2
    <2>6. ASSUME NEW i \in 1 .. Len(text), NEW d \in WellFormed, StandsAt(i, d)
          PROVE  pos' <= i \/ Swallowed(i)' \/ \E k \in DOMAIN items : Within(i, items[k])
      <3>1. CASE i \in pos + 1 .. Len(text) /\ \E k \in pos .. i - 1 : text[k] # DIRECTIVE
        <4>1. sync <= i
          BY <1>5, <2>6, <3>1
        <4>2. text[i] # DIRECTIVE
          BY <1>1, <1>2, <2>6, StandsIs
        <4>3. PICK q \in sync .. Len(text) + 1 : q = pos'
          BY <2>4
        <4>4. \A k \in sync .. q - 1 : text[k] = DIRECTIVE
          BY <2>4, <4>3
        <4>5. i \notin sync .. q - 1
          BY <4>2, <4>4
        <4>6. q <= i
          <5>1. sync \in Int /\ i \in Int /\ q \in Int /\ sync <= i
            BY <1>1, <2>3, <4>1
          <5> QED
            BY <4>5, <5>1
        <4> QED
          BY <4>3, <4>6
      <3>2. \/ i \in pos + 1 .. Len(text) /\ \E k \in pos .. i - 1 : text[k] # DIRECTIVE
            \/ Swallowed(i)
            \/ \E k \in DOMAIN items : Within(i, items[k])
        BY <1>4, <2>6
      <3>3. Swallowed(i) => Swallowed(i)'
        BY <1>3
      <3> QED
        BY <3>1, <3>2, <3>3
    <2> QED
      BY <1>1, <2>1, <2>5, <2>6, StandsStays DEF KeepInv
  <1>7. CASE RecoverGiveUp
    <2>1. phase' = "done" /\ SyncPoints(pos) = {}
      BY <1>7 DEF RecoverGiveUp
    <2>2. ASSUME NEW i \in 1 .. Len(text), NEW d \in WellFormed, StandsAt(i, d)
          PROVE  Swallowed(i)' \/ \E k \in DOMAIN items : Within(i, items[k])
      BY <1>3, <1>4, <1>5, <2>1, <2>2
    <2> QED
      BY <1>1, <2>1, <2>2, StandsStays DEF KeepInv
  <1> QED
    BY <1>6, <1>7

LEMMA KeepNext ==
    LoopInv /\ BlockInv /\ KeepInv /\ DeclarationAdvances /\ WellFormedIsFound /\ [Next]_vars
        => KeepInv'
  <1> SUFFICES ASSUME LoopInv, BlockInv, KeepInv, DeclarationAdvances, WellFormedIsFound,
                      [Next]_vars
               PROVE  KeepInv'
    OBVIOUS
  <1>1. text' = text
    BY DEF Next, vars, Start, StrictItem, StrictAccepted, StrictRejected, RecoverItem,
           RecoverSkip, RecoverGiveUp, RecoverEnd, Returned, TakeItem, Fails
  <1> SUFFICES ASSUME KeepsNeighbours PROVE KeepInv'
    BY <1>1, StandsStays DEF KeepInv
  <1>3. /\ text \in Seq(STRING) /\ Len(text) \in Nat /\ End = Len(text) + 1
        /\ errors \in Seq(SpanSet)
        /\ pos \in 1 .. End /\ text # <<>> /\ text[1] # DIRECTIVE
    BY DEF LoopInv, TypeOK, End, KeepsNeighbours
  <1>4. CASE Start \/ StrictRejected
    <2>1. pos' = 1 /\ phase' # "done"
      BY <1>3, <1>4 DEF Start, StrictRejected, AfterBlanks, Begins, LoopInv
    <2>2. \A i \in 1 .. Len(text) : pos' <= i
      BY <2>1
    <2> QED
      BY <1>1, <1>3, <2>1, <2>2, StandsStays DEF KeepInv
  <1>5. CASE StrictItem \/ RecoverItem
    <2>1. phase \in {"strict", "recover"} /\ pos < End /\ TakeItem(Outcome)
      BY <1>5 DEF StrictItem, RecoverItem
    <2> QED
      BY <2>1, ItemKeeps
  <1>6. CASE RecoverSkip \/ RecoverGiveUp
    BY <1>6, SkipKeeps
  <1>7. CASE StrictAccepted \/ RecoverEnd
    <2>1. phase' = "done" /\ items' = items /\ errors' = errors /\ pos = End
      BY <1>7 DEF StrictAccepted, RecoverEnd
    <2>2. \A i \in 1 .. Len(text) : ~ pos <= i
      BY <1>3, <2>1
    <2>3. \A i : Swallowed(i) => Swallowed(i)'
      BY <1>1, <1>3, <2>1, SwallowedStays
    <2> QED
      BY <1>1, <2>1, <2>2, <2>3, StandsStays DEF KeepInv
  <1>8. CASE Returned \/ UNCHANGED vars
    <2>1. phase' = phase /\ items' = items /\ errors' = errors /\ pos' = pos
      BY <1>8 DEF Returned, vars
    <2>2. \A i : Swallowed(i) => Swallowed(i)'
      BY <1>1, <1>3, <2>1, SwallowedStays
    <2> QED
      BY <1>1, <2>1, <2>2, StandsStays DEF KeepInv
  <1> QED
    BY <1>4, <1>5, <1>6, <1>7, <1>8 DEF Next

----------------------------------------------------------------------------
(* What a directive behind a left-out block takes along is not in the unit.*)

\* The round behind such a block is left out as well.
LostInv ==
    /\ phase = "done" => pos = End
    /\ \A k \in DOMAIN errors :
          errors[k].to = End \/ errors[k].to \in SyncPoints(errors[k].from)
    /\ \A k \in DOMAIN errors :
          errors[k].to < pos /\ text[errors[k].to] = DIRECTIVE
                /\ text[errors[k].to - 1] # Stopper
             => \E m \in DOMAIN errors : errors[m].from = errors[k].to

LEMMA LostInit == Init => LostInv
  BY DEF Init, LostInv

\* The search does not stop before the directives it begins with have ended.
LEMMA SyncBehind ==
    ASSUME text \in Seq(STRING), NEW p \in Nat, NEW i \in 1 .. Len(text), p <= i,
           \A k \in p .. i - 1 : text[k] = DIRECTIVE, NEW n \in SyncPoints(p)
    PROVE  n > i
  <1>1. PICK m \in p .. Len(text) :
           /\ Stops(p, m)
           /\ \/ text[m] = Semicolon /\ n = m + 1
              \/ /\ text[m] = OpenBrace
                 /\ \E k \in m .. Len(text) : Closes(m, k) /\ n = AfterBlock(k)
    BY SyncPointsAre
  <1>2. n > m
    BY <1>1, AfterBlockIs
  <1>3. text[m] # DIRECTIVE
    BY <1>1, SemicolonIsNoDirective, MarksDiffer
  <1>4. m \notin p .. i - 1
    BY <1>3
  <1>5. m \in p .. Len(text)
    OBVIOUS
  <1>6. m >= i
    BY <1>4, <1>5
  <1>7. n \in p + 1 .. End /\ End = Len(text) + 1
    BY SyncAdvances DEF End
  <1> QED
    BY <1>2, <1>5, <1>6, <1>7

\* What was swallowed is within a span that was left out.
LEMMA LostIsLost ==
    ASSUME LoopInv, LostInv, phase = "done", NEW i \in 1 .. Len(text), Swallowed(i),
           text[i] # DIRECTIVE
    PROVE  ~ \E k \in DOMAIN items : Within(i, items[k])
  <1>1. /\ text \in Seq(STRING) /\ Len(text) \in Nat /\ End = Len(text) + 1 /\ pos = End
        /\ items \in Seq(ItemSet) /\ errors \in Seq(SpanSet)
    BY DEF LoopInv, LostInv, TypeOK, End
  <1>2. PICK k \in DOMAIN errors : /\ errors[k].to < i /\ text[errors[k].to - 1] # Stopper
                                  /\ \A n \in errors[k].to .. i - 1 : text[n] = DIRECTIVE
    BY SwallowedIs
  <1>3. PICK p : p = errors[k].to
    OBVIOUS
  <1>4. p \in 1 .. End /\ p < i
    <2>1. errors[k] \in SpanSet
      BY <1>1
    <2>2. errors[k].to \in 1 .. End
      BY <2>1 DEF SpanSet
    <2> QED
      BY <1>2, <1>3, <2>2
  <1>5. text[p] = DIRECTIVE
    BY <1>1, <1>2, <1>3, <1>4
  <1>6. p < pos
    BY <1>1, <1>4
  <1>7. PICK m \in DOMAIN errors : errors[m].from = p
    BY <1>2, <1>3, <1>5, <1>6 DEF LostInv
  <1>8. PICK to : to = errors[m].to
    OBVIOUS
  <1>9. to = End \/ to \in SyncPoints(p)
    BY <1>7, <1>8 DEF LostInv
  <1>10. to > i /\ to \in Nat
    <2>1. CASE to = End
      BY <1>1, <2>1
    <2>2. CASE to \in SyncPoints(p)
      <3>1. p \in Nat /\ p <= i /\ \A n \in p .. i - 1 : text[n] = DIRECTIVE
        BY <1>1, <1>2, <1>3, <1>4
      <3>2. to > i
        BY <1>1, <2>2, <3>1, SyncBehind
      <3>3. to \in p + 1 .. End
        BY <1>4, <2>2, <3>1, SyncAdvances
      <3> QED
        BY <1>1, <1>4, <3>2, <3>3
    <2> QED
      BY <1>9, <2>1, <2>2
  <1>11. ASSUME NEW j \in DOMAIN items, Within(i, items[j])
         PROVE  FALSE
    <2>1. items[j].from <= i /\ i < items[j].to
      BY <1>11 DEF Within
    <2>2. items[j].from \in Nat /\ items[j].to \in Nat
      <3>1. items[j] \in ItemSet
        BY <1>1
      <3>2. items[j].from \in 1 .. End /\ items[j].to \in 1 .. End
        BY <3>1, Zenon DEF ItemSet
      <3> QED
        BY <1>1, <3>2
    <2>3. items[j].to <= p \/ to <= items[j].from
      BY <1>7, <1>8 DEF LoopInv, TextIsAccounted, Before
    <2> QED
      BY <1>1, <1>4, <1>10, <2>1, <2>2, <2>3
  <1> QED
    BY <1>11

LEMMA SyncStays ==
    ASSUME text' = text
    PROVE  \A i : SyncPoints(i)' = SyncPoints(i)
  BY DEF SyncPoints, Stops, Closes, Depth, Braces, AfterBlock, End

LEMMA LostNext ==
    LoopInv /\ LostInv /\ DeclarationAdvances /\ NoneBeginsWithHash /\ [Next]_vars
        => LostInv'
  <1> SUFFICES ASSUME LoopInv, LostInv, DeclarationAdvances, NoneBeginsWithHash, [Next]_vars
               PROVE  LostInv'
    OBVIOUS
  <1>1. text' = text /\ End' = End
    BY DEF Next, vars, Start, StrictItem, StrictAccepted, StrictRejected, RecoverItem,
           RecoverSkip, RecoverGiveUp, RecoverEnd, Returned, TakeItem, Fails, End
  <1>2. /\ text \in Seq(STRING) /\ Len(text) \in Nat /\ End = Len(text) + 1
        /\ pos \in 1 .. End /\ errors \in Seq(SpanSet)
        /\ \A k \in DOMAIN errors : errors[k].to <= pos /\ errors[k].to \in Nat
    <2>1. /\ text \in Seq(STRING) /\ Len(text) \in Nat /\ End = Len(text) + 1
          /\ pos \in 1 .. End /\ errors \in Seq(SpanSet)
          /\ \A k \in DOMAIN errors : errors[k].to <= pos
      BY DEF LoopInv, TypeOK, End
    <2>2. ASSUME NEW k \in DOMAIN errors
          PROVE  errors[k].to \in Nat
      <3>1. errors[k] \in SpanSet
        BY <2>1
      <3>2. errors[k].to \in 1 .. End
        BY <3>1, Zenon DEF SpanSet
      <3> QED
        BY <2>1, <3>2
    <2> QED
      BY <2>1, <2>2
  <1>3. \A i : SyncPoints(i)' = SyncPoints(i)
    BY <1>1, SyncStays
  <1>4. CASE Start \/ StrictRejected
    <2>1. errors' = errors /\ errors = <<>> /\ phase' # "done"
      BY <1>4 DEF Start, StrictRejected, LoopInv
    <2> QED
      BY <2>1 DEF LostInv
  <1>5. CASE StrictItem \/ RecoverItem
    <2>1. /\ Parses /\ Outcome.ok /\ errors' = errors /\ phase' # "done"
      BY <1>5 DEF StrictItem, RecoverItem, TakeItem, Parses
    <2>2. text[pos] # DIRECTIVE
      BY <2>1 DEF NoneBeginsWithHash, BeginsWithToken
    <2>3. ASSUME NEW k \in DOMAIN errors, text[errors[k].to] = DIRECTIVE,
                 text[errors[k].to - 1] # Stopper
          PROVE  \E m \in DOMAIN errors : errors[m].from = errors[k].to
      <3>1. errors[k].to < pos
        BY <1>2, <2>2, <2>3
      <3> QED
        BY <2>3, <3>1 DEF LostInv
    <2> QED
      BY <1>1, <1>3, <2>1, <2>3 DEF LostInv
  <1>6. CASE StrictAccepted \/ RecoverEnd
    <2>1. errors' = errors /\ pos' = pos /\ pos = End
      BY <1>6 DEF StrictAccepted, RecoverEnd
    <2> QED
      BY <1>1, <1>3, <2>1 DEF LostInv
  <1>7. CASE Returned \/ UNCHANGED vars
    <2>1. errors' = errors /\ pos' = pos /\ phase' = phase
      BY <1>7 DEF Returned, vars
    <2> QED
      BY <1>1, <1>3, <2>1 DEF LostInv
  <1>8. CASE RecoverSkip \/ RecoverGiveUp
    <2>1. PICK to : /\ errors' = Append(errors, SpanOf(pos, to))
                    /\ to = End \/ to \in SyncPoints(pos)
                    /\ phase' = "done" => pos' = End
                    /\ ~ (/\ to < pos' /\ text[to] = DIRECTIVE
                          /\ text[to - 1] # Stopper)
      <3>1. CASE RecoverGiveUp
        <4>1. /\ errors' = Append(errors, SpanOf(pos, End)) /\ pos' = End
          BY <3>1 DEF RecoverGiveUp
        <4>2. ~ End < pos'
          BY <1>2, <4>1
        <4> QED
          BY <4>1, <4>2
      <3>2. CASE RecoverSkip
        <4>1. PICK to \in SyncPoints(pos) :
                 pos' \in AfterSync(to) /\ errors' = Append(errors, SpanOf(pos, to))
          BY <3>2 DEF RecoverSkip
        <4>2. to \in 2 .. Len(text) + 1
          BY <1>2, SyncAdvances
        <4>3. text[to - 1] # Stopper => pos' = to
          BY Zenon, <4>1 DEF AfterSync, Stopper
        <4>4. pos' \in to .. Len(text) + 1
          BY <1>2, <4>1, <4>2, SyncSkips
        <4>5. phase' # "done"
          BY <3>2 DEF RecoverSkip
        <4>6. pos' = to => ~ to < pos'
          BY <4>2
        <4> QED
          BY <4>1, <4>3, <4>5, <4>6
      <3> QED
        BY <1>8, <3>1, <3>2
    <2>2. PICK e : e = SpanOf(pos, to)
      OBVIOUS
    <2>3. e.from = pos /\ e.to = to
      BY <2>2 DEF SpanOf
    <2>4. PICK l \in Nat : l = Len(errors)
      BY <1>2
    <2>5. /\ DOMAIN errors = 1 .. l /\ DOMAIN errors' = 1 .. l + 1
          /\ errors'[l + 1] = e /\ \A k \in 1 .. l : errors'[k] = errors[k]
      BY <1>2, <2>1, <2>2, <2>4
    <2>6. \A k \in 1 .. l + 1 : k \in 1 .. l \/ k = l + 1
      OBVIOUS
    <2>7. ASSUME NEW k \in DOMAIN errors'
          PROVE  errors'[k].to = End \/ errors'[k].to \in SyncPoints(errors'[k].from)
      BY <2>1, <2>3, <2>5, <2>6 DEF LostInv
    <2>8. ASSUME NEW k \in DOMAIN errors', errors'[k].to < pos',
                 text[errors'[k].to] = DIRECTIVE, text[errors'[k].to - 1] # Stopper
          PROVE  \E m \in DOMAIN errors' : errors'[m].from = errors'[k].to
      <3>1. CASE k \in 1 .. l /\ errors[k].to = pos
        <4>1. l + 1 \in DOMAIN errors' /\ errors'[l + 1].from = errors'[k].to
          BY <2>3, <2>5, <3>1
        <4> QED
          BY <4>1
      <3>2. CASE k \in 1 .. l /\ errors[k].to < pos
        <4>1. PICK m \in DOMAIN errors : errors[m].from = errors[k].to
          BY <2>5, <2>8, <3>2 DEF LostInv
        <4> QED
          BY <2>5, <3>2, <4>1
      <3>3. k \in 1 .. l => errors[k].to = pos \/ errors[k].to < pos
        BY <1>2, <2>5
      <3>4. CASE k = l + 1
        <4>1. errors'[k].to = to
          BY <2>3, <2>5, <3>4
        <4>2. to < pos' /\ text[to] = DIRECTIVE /\ text[to - 1] # Stopper
          BY <2>8, <4>1
        <4> QED
          BY <2>1, <4>2
      <3> QED
        BY <2>5, <2>6, <3>1, <3>2, <3>3, <3>4
    <2> QED
      BY <1>1, <1>3, <2>1, <2>7, <2>8 DEF LostInv
  <1> QED
    BY <1>4, <1>5, <1>6, <1>7, <1>8 DEF Next

\* Recovery leaves out no well-formed declaration for its neighbours' sake, but one:
\* in a text whose braces match, which does not begin with a directive, every one
\* that stands outside of all blocks behind a semicolon or a closing brace begins
\* within a declaration of the unit, exactly unless a block that was left out and
\* directives stand directly before it, for every grammar without a declaration
\* that begins with a hash and every set of declarations that it finds wherever
\* they stand (public_api.rs:121-168, 178-246).
THEOREM ParserKeepsNeighbours ==
    Spec /\ []DeclarationAdvances /\ []DeclarationsBalance /\ []WellFormedIsFound
         /\ []NoneBeginsWithHash
        => []WellFormedIsKept
  <1>1. LoopInv /\ KeepInv /\ LostInv => WellFormedIsKept
    <2> SUFFICES ASSUME LoopInv, KeepInv, LostInv, phase = "done", KeepsNeighbours,
                        NEW i \in 1 .. Len(text), NEW d \in WellFormed, StandsAt(i, d)
                 PROVE  Swallowed(i) <=> ~ \E k \in DOMAIN items : Within(i, items[k])
      BY DEF KeepsNeighbours, WellFormedIsKept
    <2>1. Swallowed(i) \/ \E k \in DOMAIN items : Within(i, items[k])
      BY DEF KeepInv
    <2>2. text \in Seq(STRING) /\ text[1] # DIRECTIVE
      BY DEF LoopInv, KeepsNeighbours
    <2>3. text[i] # DIRECTIVE
      BY <2>2, StandsIs
    <2> QED
      BY <2>1, <2>3, LostIsLost
  <1> QED
    BY LoopInvariant, BlockInit, BlockNext, KeepInit, KeepNext, LostInit, LostNext, <1>1,
       PTL DEF Spec

----------------------------------------------------------------------------
(* The scopes between two declarations.                                    *)

LEMMA CloseInit == Init => ScopesAreClosed
  BY DEF Init, InitialScopes, ScopesAreClosed

LEMMA CloseNext ==
    LoopInv /\ ScopesAreClosed /\ ScopesAreLeft /\ [Next]_vars => ScopesAreClosed'
  <1> SUFFICES ASSUME LoopInv, ScopesAreClosed, ScopesAreLeft, [Next]_vars
               PROVE  ScopesAreClosed'
    OBVIOUS
  <1>1. CASE StrictItem \/ RecoverItem \/ RecoverSkip \/ RecoverGiveUp
    <2>1. Parses /\ scopes' = Outcome.scopes
      BY <1>1 DEF StrictItem, RecoverItem, RecoverSkip, RecoverGiveUp, TakeItem, Fails, Parses
    <2> QED
      BY <2>1 DEF ScopesAreLeft, LeavesScopes, ScopesAreClosed
  <1>2. CASE StrictRejected
    BY <1>2 DEF StrictRejected, InitialScopes, ScopesAreClosed
  <1>3. CASE Start \/ StrictAccepted \/ RecoverEnd \/ Returned \/ UNCHANGED vars
    BY <1>3 DEF Start, StrictAccepted, RecoverEnd, Returned, vars, ScopesAreClosed
  <1> QED
    BY <1>1, <1>2, <1>3 DEF Next

\* Between two declarations only the scope of the file is open, in both passes and
\* whatever was given up and left out before, for every grammar whose rule for a
\* declaration leaves the scopes it enters, matched or not (env.rs:63-69).
THEOREM ParserClosesScopes ==
    Spec /\ []DeclarationAdvances /\ []ScopesAreLeft => []ScopesAreClosed
  BY LoopInvariant, CloseInit, CloseNext, PTL DEF Spec

----------------------------------------------------------------------------
(* What a declaration does not say about a name is known from the file     *)
(* scope, and the file scope knows what was declared before.               *)

Named(notes) == Declarators(notes) \union TypeUses(notes)

\* The notes of old are about the text before p, those of new about the text from
\* p on.
Split(old, new, p) ==
    /\ p \in Nat /\ old \subseteq NoteSet /\ new \subseteq NoteSet
    /\ \A n \in old : n.to <= p
    /\ \A n \in new : p <= n.from
    /\ \A n \in Named(old) \union Named(new) : n.from < n.to

LEMMA NamedSplit ==
    ASSUME NEW old, NEW new
    PROVE  /\ Declarators(old \union new) = Declarators(old) \union Declarators(new)
           /\ TypeUses(old \union new) = TypeUses(old) \union TypeUses(new)
  BY DEF Declarators, TypeUses

\* A name has the scopes of its own declaration around it and no other's.
LEMMA AroundSplit ==
    ASSUME NEW old, NEW new, NEW p, Split(old, new, p)
    PROVE  /\ \A n \in Named(old) : Around(n, old \union new) = Around(n, old)
           /\ \A n \in Named(new) : Around(n, old \union new) = Around(n, new)
           /\ \A d \in Named(old), u \in Named(new) :
                 Around(d, old) \subseteq Around(u, new) <=> Around(d, old) = {}
  <1>1. /\ p \in Nat
        /\ \A n \in old : n.from \in Nat /\ n.to \in Nat /\ n.to <= p
        /\ \A n \in new : n.from \in Nat /\ n.to \in Nat /\ p <= n.from
        /\ \A n \in Named(old) : n \in old /\ n.from < n.to
        /\ \A n \in Named(new) : n \in new /\ n.from < n.to
    BY DEF Split, NoteSet, Named, Declarators, TypeUses
  <1>2. ASSUME NEW n \in Named(old), NEW s \in new
        PROVE  ~Inside(n, s)
    <2>1. n \in old /\ n.from < n.to
      BY <1>1
    <2> QED
      BY <1>1, <2>1 DEF Inside
  <1>3. ASSUME NEW n \in Named(new), NEW s \in old
        PROVE  ~Inside(n, s)
    <2>1. n \in new /\ n.from < n.to
      BY <1>1
    <2> QED
      BY <1>1, <2>1 DEF Inside
  <1>4. ASSUME NEW n \in Named(old)
        PROVE  Around(n, old \union new) = Around(n, old)
    BY <1>2 DEF Around
  <1>5. ASSUME NEW n \in Named(new)
        PROVE  Around(n, old \union new) = Around(n, new)
    BY <1>3 DEF Around
  <1>6. ASSUME NEW d \in Named(old), NEW u \in Named(new)
        PROVE  Around(d, old) \subseteq Around(u, new) <=> Around(d, old) = {}
    <2>1. ASSUME NEW s \in Around(d, old)
          PROVE  s \notin Around(u, new)
      <3>1. s \in old /\ Inside(d, s)
        BY DEF Around
      <3>2. s \notin new
        BY <1>2, <3>1
      <3> QED
        BY <3>2 DEF Around
    <2> QED
      BY <2>1
  <1> QED
    BY <1>4, <1>5, <1>6

\* What is declared later does not reach what was read before.
LEMMA EarlierUse ==
    ASSUME NEW old, NEW new, NEW p, Split(old, new, p),
           NEW use \in TypeUses(old), NEW around, IsTypeBy(use, old, around)
    PROVE  IsTypeBy(use, old \union new, around)
  <1> DEFINE all == old \union new
  <1>1. use \in Named(old) /\ \A d \in Declarators(old) : d \in Named(old)
    BY DEF Named
  <1>2. /\ Around(use, all) = Around(use, old)
        /\ \A d \in Declarators(old) : Around(d, all) = Around(d, old)
    BY <1>1, AroundSplit
  <1>3. ASSUME NEW d \in Declarators(new)
        PROVE  ~ d.to <= use.from
    <2>1. d \in new /\ d \in Named(new) /\ use \in old
      BY DEF Declarators, Named, TypeUses
    <2>2. /\ d.from \in Nat /\ d.to \in Nat /\ p \in Nat /\ use.from \in Nat /\ use.to \in Nat
          /\ p <= d.from /\ d.from < d.to /\ use.to <= p /\ use.from < use.to
      BY <1>1, <2>1 DEF Split, NoteSet
    <2> QED
      BY <2>2
  <1>4. Reaching(use, all) = Reaching(use, old)
    <2>1. Declarators(all) = Declarators(old) \union Declarators(new)
      BY NamedSplit
    <2> HIDE DEF all
    <2> QED
      BY <1>2, <1>3, <2>1 DEF Reaching
  <1> HIDE DEF all
  <1>5. \A d, e \in Reaching(use, old) : Hides(e, d, all) <=> Hides(e, d, old)
    <2>1. \A d \in Reaching(use, old) : Around(d, all) = Around(d, old)
      BY <1>2 DEF Reaching
    <2> QED
      BY <2>1 DEF Hides
  <1>6. IsTypeBy(use, all, around)
    BY <1>4, <1>5 DEF IsTypeBy
  <1> QED
    BY <1>6 DEF all

\* Of the declarators that end where the text ends or before there is a last one.
LEMMA LatestExists ==
    ASSUME NEW ds, ds \subseteq NoteSet, ds # {}, NEW p \in Nat, \A d \in ds : d.to <= p
    PROVE  \E d \in ds : \A e \in ds : e.to <= d.to
  <1> DEFINE T == {p - d.to : d \in ds}
  <1>1. \A d \in ds : d.to \in Nat
    BY DEF NoteSet
  <1>2. T \subseteq Nat /\ T # {}
    BY <1>1
  <1>3. PICK m \in T : \A k \in T : m <= k
    BY <1>2, LeastExists
  <1>4. PICK d \in ds : m = p - d.to
    BY <1>3
  <1>5. ASSUME NEW e \in ds
        PROVE  e.to <= d.to
    <2>1. p - e.to \in T
      OBVIOUS
    <2>2. m <= p - e.to
      BY <1>3, <2>1
    <2> QED
      BY <1>1, <1>4, <2>2
  <1> QED
    BY <1>5

\* What was declared for the file before is known in it.
LEMMA LaterUse ==
    ASSUME NEW old, NEW new, NEW p, Split(old, new, p),
           NEW use \in TypeUses(new), use.name \in Names,
           NEW now, NEW around, Len(now) = 1, Len(around) = 1,
           IsTypeBy(use, new, now), Recorded(now, around, old)
    PROVE  IsTypeBy(use, old \union new, around)
  <1> DEFINE all   == old \union new
             known == AtFileScope(use.name, old)
  <1>1. /\ use \in Named(new) /\ \A d \in Declarators(old) : d \in Named(old)
        /\ \A d \in Declarators(new) : d \in Named(new)
    BY DEF Named
  <1>2. /\ Around(use, all) = Around(use, new)
        /\ \A d \in Declarators(old) : Around(d, all) = Around(d, old)
        /\ \A d \in Declarators(new) : Around(d, all) = Around(d, new)
        /\ \A d \in Declarators(old) :
              Around(d, old) \subseteq Around(use, new) <=> Around(d, old) = {}
    <2>1. /\ \A n \in Named(old) : Around(n, all) = Around(n, old)
          /\ \A n \in Named(new) : Around(n, all) = Around(n, new)
          /\ \A d \in Named(old), u \in Named(new) :
                Around(d, old) \subseteq Around(u, new) <=> Around(d, old) = {}
      BY AroundSplit
    <2> HIDE DEF all
    <2> QED
      BY <1>1, <2>1
  <1>3. /\ p \in Nat /\ use.from \in Nat /\ p <= use.from
        /\ \A d \in Declarators(old) : d \in NoteSet /\ d.to \in Nat /\ d.to <= p
        /\ \A d \in Declarators(new) : d.to \in Nat /\ p < d.to
    <2>1. ASSUME NEW d \in Declarators(new)
          PROVE  d.to \in Nat /\ p < d.to
      <3>1. d \in new /\ d.from < d.to
        BY <1>1 DEF Split, Declarators
      <3>2. d.from \in Nat /\ d.to \in Nat /\ p \in Nat /\ p <= d.from
        BY <3>1 DEF Split, NoteSet
      <3> QED
        BY <3>1, <3>2
    <2>2. use \in new
      BY DEF TypeUses
    <2>3. \A d \in Declarators(old) : d \in old
      BY DEF Declarators
    <2> QED
      BY <2>1, <2>2, <2>3 DEF Split, NoteSet
  <1>4. Reaching(use, all) = Reaching(use, new) \union known
    <2>1. Declarators(all) = Declarators(old) \union Declarators(new)
      BY NamedSplit
    <2>2. \A d \in Declarators(old) : d.to <= use.from
      BY <1>3
    <2> HIDE DEF all
    <2> QED
      BY <1>2, <2>1, <2>2 DEF Reaching, AtFileScope
  <1>5. /\ \A d \in Reaching(use, new) : /\ d \in Declarators(new) /\ Around(d, all) = Around(d, new)
                                         /\ d.to \in Nat /\ p < d.to
        /\ \A d \in known : /\ d \in Declarators(old) /\ d.name = use.name
                            /\ Around(d, all) = {} /\ d.to \in Nat /\ d.to <= p
    BY <1>2, <1>3 DEF Reaching, AtFileScope
  <1> HIDE DEF all, known
  <1>6. CASE \E d \in Reaching(use, new) :
                d.kind = "Typename" /\ \A e \in Reaching(use, new) : ~Hides(e, d, new)
    <2>1. PICK d \in Reaching(use, new) :
             d.kind = "Typename" /\ \A e \in Reaching(use, new) : ~Hides(e, d, new)
      BY <1>6
    <2>2. ASSUME NEW e \in Reaching(use, new)
          PROVE  ~Hides(e, d, all)
      BY <1>5, <2>1 DEF Hides
    <2>3. ASSUME NEW e \in known
          PROVE  ~Hides(e, d, all)
      <3>1. Around(e, all) = {} /\ ~ d.to < e.to
        BY <1>3, <1>5
      <3> QED
        BY <3>1 DEF Hides
    <2> QED
      BY <1>4, <2>1, <2>2, <2>3 DEF IsTypeBy, all
  <1>7. CASE Reaching(use, new) = {} /\ IsTypename(now, use.name)
    <2>1. now[1][use.name] = "Typename"
      BY <1>7 DEF IsTypename
    <2>2. CASE known = {}
      <3>1. around[1][use.name] = "Typename"
        BY <2>1, <2>2 DEF Recorded, known
      <3>2. IsTypename(around, use.name)
        BY <3>1 DEF IsTypename
      <3> QED
        BY <1>4, <1>7, <2>2, <3>2 DEF IsTypeBy, all
    <2>3. CASE known # {}
      <3>1. known \subseteq NoteSet /\ \A d \in known : d.to <= p
        BY <1>3, <1>5
      <3>2. PICK d \in known : \A e \in known : e.to <= d.to
        BY <1>3, <2>3, <3>1, LatestExists
      <3>3. now[1][use.name] = IF d.kind = "Typename" THEN "Typename" ELSE "Identifier"
        BY <3>2 DEF Recorded, known
      <3>4. d.kind = "Typename"
        BY <2>1, <3>3
      <3>5. ASSUME NEW e \in known
            PROVE  ~Hides(e, d, all)
        <4>1. ~ d.to < e.to
          BY <1>5, <3>2
        <4> QED
          BY <1>5, <4>1 DEF Hides
      <3> QED
        BY <1>4, <1>7, <3>4, <3>5 DEF IsTypeBy, all
    <2> QED
      BY <2>2, <2>3
  <1> QED
    BY <1>6, <1>7 DEF IsTypeBy

\* What two declarations say of a name together is what the later one says of it,
\* or else the earlier one.
LEMMA RecordedSplit ==
    ASSUME NEW old, NEW new, NEW p, Split(old, new, p),
           NEW before, NEW now, NEW after,
           Recorded(now, before, old), Recorded(after, now, new)
    PROVE  Recorded(after, before, old \union new)
  <1> SUFFICES ASSUME NEW name \in Names
               PROVE  /\ AtFileScope(name, old \union new) = {} =>
                             after[1][name] = before[1][name]
                      /\ \A d \in AtFileScope(name, old \union new) :
                            (\A e \in AtFileScope(name, old \union new) : e.to <= d.to) =>
                                after[1][name] = IF d.kind = "Typename" THEN "Typename" ELSE "Identifier"
    BY DEF Recorded
  <1> DEFINE first  == AtFileScope(name, old)
             second == AtFileScope(name, new)
             both   == AtFileScope(name, old \union new)
  <1>1. both = first \union second
    <2>1. Declarators(old \union new) = Declarators(old) \union Declarators(new)
      BY NamedSplit
    <2>2. /\ \A d \in Declarators(old) : Around(d, old \union new) = Around(d, old)
          /\ \A d \in Declarators(new) : Around(d, old \union new) = Around(d, new)
      <3>1. /\ \A n \in Named(old) : Around(n, old \union new) = Around(n, old)
            /\ \A n \in Named(new) : Around(n, old \union new) = Around(n, new)
        BY AroundSplit
      <3> QED
        BY <3>1 DEF Named
    <2> QED
      BY <2>1, <2>2 DEF AtFileScope
  <1>2. ASSUME NEW d \in first, NEW e \in second
        PROVE  ~ e.to <= d.to
    <2>1. d \in old /\ e \in new /\ e \in Named(new)
      BY DEF AtFileScope, Declarators, Named
    <2>2. /\ d.to \in Nat /\ e.from \in Nat /\ e.to \in Nat /\ p \in Nat
          /\ d.to <= p /\ p <= e.from /\ e.from < e.to
      BY <2>1 DEF Split, NoteSet
    <2> QED
      BY <2>2
  <1>3. /\ first = {} => now[1][name] = before[1][name]
        /\ \A d \in first : (\A e \in first : e.to <= d.to) =>
              now[1][name] = IF d.kind = "Typename" THEN "Typename" ELSE "Identifier"
        /\ second = {} => after[1][name] = now[1][name]
        /\ \A d \in second : (\A e \in second : e.to <= d.to) =>
              after[1][name] = IF d.kind = "Typename" THEN "Typename" ELSE "Identifier"
    BY DEF Recorded
  <1> HIDE DEF first, second, both
  <1>4. both = {} => after[1][name] = before[1][name]
    BY <1>1, <1>3
  <1>5. ASSUME NEW d \in both, \A e \in both : e.to <= d.to
        PROVE  after[1][name] = IF d.kind = "Typename" THEN "Typename" ELSE "Identifier"
    <2>1. CASE d \in second
      BY <1>1, <1>3, <1>5, <2>1
    <2>2. CASE d \in first
      <3>1. second = {}
        BY <1>1, <1>2, <1>5, <2>2
      <3> QED
        BY <1>1, <1>3, <1>5, <2>2, <3>1
    <2> QED
      BY <1>1, <2>1, <2>2
  <1> QED
    BY <1>4, <1>5 DEF both

\* As long as nothing was left out, the scope of the file is what the notes of the
\* unit say it is, and so is what was read as a type.
TypeInv ==
    errors = <<>> =>
        /\ \A k \in DOMAIN items : \A n \in items[k].notes :
              items[k].from <= n.from /\ n.to <= items[k].to
        /\ \A n \in Named(Notes) : n.from < n.to
        /\ Recorded(scopes, InitialScopes(flavor), Notes)
        /\ \A use \in TypeUses(Notes) : IsTypeBy(use, Notes, InitialScopes(flavor))

LEMMA NothingRead ==
    ASSUME items = <<>>, scopes = InitialScopes(flavor)
    PROVE  TypeInv
  <1>1. DOMAIN items = {} /\ Notes = {}
    BY DEF Notes
  <1>2. Declarators(Notes) = {} /\ TypeUses(Notes) = {} /\ Named(Notes) = {}
    BY <1>1 DEF Declarators, TypeUses, Named
  <1>3. \A name : AtFileScope(name, Notes) = {}
    BY <1>2 DEF AtFileScope
  <1> QED
    BY <1>1, <1>2, <1>3 DEF TypeInv, Recorded

\* A declaration joins the unit.
LEMMA ItemReads ==
    ASSUME LoopInv, TypeInv, ScopesAreClosed, phase \in {"strict", "recover"}, pos < End,
           DeclarationAdvances, DeclarationsReadTypes, TakeItem(Outcome)
    PROVE  TypeInv'
  <1> SUFFICES ASSUME errors' = <<>> PROVE TypeInv'
    BY DEF TypeInv
  <1> DEFINE r       == Outcome
             e       == ItemOf(r)
             initial == InitialScopes(flavor)
  <1>1. /\ errors = <<>> /\ items' = Append(items, e) /\ scopes' = r.scopes
        /\ initial' = initial /\ r.ok /\ Advances(r) /\ ReadsTypes(r)
    BY DEF TakeItem, DeclarationAdvances, DeclarationsReadTypes, Parses
  <1>2. /\ pos \in Nat /\ items \in Seq(ItemSet) /\ Len(text) \in Nat
        /\ e.from = pos /\ e.to = r.at /\ e.notes = r.notes
        /\ r.notes \subseteq NoteSet
    BY <1>1 DEF LoopInv, TypeOK, ItemOf, Advances, End
  <1> HIDE DEF r, e, initial
  <1>3. /\ DOMAIN items = 1 .. Len(items) /\ DOMAIN items' = 1 .. Len(items) + 1
        /\ Len(items) \in Nat /\ items'[Len(items) + 1] = e
        /\ \A k \in 1 .. Len(items) : items'[k] = items[k] /\ items[k] \in ItemSet
    BY <1>1, <1>2
  <1>4. Notes' = Notes \union r.notes
    <2>1. \A n : n \in Notes' <=> \E k \in DOMAIN items' : n \in items'[k].notes
      BY DEF Notes
    <2>2. \A n : n \in Notes <=> \E k \in DOMAIN items : n \in items[k].notes
      BY DEF Notes
    <2>3. \A n : n \in Notes' <=> n \in Notes \/ n \in r.notes
      BY <1>2, <1>3, <2>1, <2>2
    <2> QED
      BY <2>3
  <1>5. /\ \A n \in r.notes : pos <= n.from /\ n.to <= r.at
        /\ \A n \in Named(r.notes) : n.from < n.to /\ n.name \in Names
        /\ \A use \in TypeUses(r.notes) : IsTypeBy(use, r.notes, scopes)
        /\ Recorded(r.scopes, scopes, r.notes)
    BY <1>1 DEF ReadsTypes, Named
  <1>6. /\ \A k \in DOMAIN items : \A n \in items[k].notes :
              items[k].from <= n.from /\ n.to <= items[k].to
        /\ \A n \in Named(Notes) : n.from < n.to
        /\ Recorded(scopes, initial, Notes)
        /\ \A use \in TypeUses(Notes) : IsTypeBy(use, Notes, initial)
    BY <1>1 DEF TypeInv, initial
  <1>7. Split(Notes, r.notes, pos)
    <2>1. ASSUME NEW n \in Notes
          PROVE  n \in NoteSet /\ n.to <= pos
      <3>1. PICK k \in DOMAIN items : n \in items[k].notes
        BY DEF Notes
      <3>2. items[k] \in ItemSet /\ items[k].to <= pos /\ n.to <= items[k].to
        BY <1>3, <1>6, <3>1 DEF LoopInv
      <3>3. n \in NoteSet /\ items[k].to \in Nat
        BY <1>2, <3>1, <3>2 DEF ItemSet, End
      <3>4. n.to \in Nat
        BY <3>3 DEF NoteSet
      <3> QED
        BY <1>2, <3>2, <3>3, <3>4
    <2> QED
      BY <1>2, <1>5, <1>6, <2>1 DEF Split
  <1>8. \A k \in DOMAIN items' : \A n \in items'[k].notes :
           items'[k].from <= n.from /\ n.to <= items'[k].to
    BY <1>2, <1>3, <1>5, <1>6
  <1>9. \A n \in Named(Notes') : n.from < n.to
    <2>1. Named(Notes') = Named(Notes) \union Named(r.notes)
      <3>1. /\ Declarators(Notes \union r.notes) = Declarators(Notes) \union Declarators(r.notes)
            /\ TypeUses(Notes \union r.notes) = TypeUses(Notes) \union TypeUses(r.notes)
        BY NamedSplit
      <3>2. /\ Declarators(Notes') = Declarators(Notes) \union Declarators(r.notes)
            /\ TypeUses(Notes') = TypeUses(Notes) \union TypeUses(r.notes)
        BY <1>4, <3>1
      <3> QED
        BY <3>2 DEF Named
    <2> QED
      BY <1>5, <1>6, <2>1
  <1>10. Recorded(scopes', initial, Notes')
    BY <1>1, <1>4, <1>5, <1>6, <1>7, RecordedSplit
  <1>11. ASSUME NEW use \in TypeUses(Notes')
         PROVE  IsTypeBy(use, Notes', initial)
    <2>1. CASE use \in TypeUses(Notes)
      BY <1>4, <1>6, <1>7, <2>1, EarlierUse
    <2>2. CASE use \in TypeUses(r.notes)
      <3>1. use.name \in Names /\ IsTypeBy(use, r.notes, scopes)
        BY <1>5, <2>2 DEF Named
      <3>2. Len(scopes) = 1 /\ Len(initial) = 1
        BY DEF ScopesAreClosed, initial, InitialScopes
      <3>3. PICK old, new, now, around :
               old = Notes /\ new = r.notes /\ now = scopes /\ around = initial
        OBVIOUS
      <3>4. /\ Split(old, new, pos) /\ use \in TypeUses(new) /\ use.name \in Names
            /\ Len(now) = 1 /\ Len(around) = 1
            /\ IsTypeBy(use, new, now) /\ Recorded(now, around, old)
        BY <1>6, <1>7, <2>2, <3>1, <3>2, <3>3
      <3>5. IsTypeBy(use, old \union new, around)
        BY <3>4, LaterUse
      <3> QED
        BY <1>4, <3>3, <3>5
    <2>3. TypeUses(Notes') = TypeUses(Notes) \union TypeUses(r.notes)
      BY <1>4 DEF TypeUses
    <2> QED
      BY <2>1, <2>2, <2>3
  <1> QED
    BY <1>1, <1>8, <1>9, <1>10, <1>11 DEF TypeInv, initial

LEMMA TypeNext ==
    LoopInv /\ ScopesAreClosed /\ TypeInv /\ DeclarationAdvances /\ DeclarationsReadTypes
        /\ [Next]_vars => TypeInv'
  <1> SUFFICES ASSUME LoopInv, ScopesAreClosed, TypeInv, DeclarationAdvances,
                      DeclarationsReadTypes, [Next]_vars
               PROVE  TypeInv'
    OBVIOUS
  <1>1. CASE StrictItem \/ RecoverItem
    <2>1. phase \in {"strict", "recover"} /\ pos < End /\ TakeItem(Outcome)
      BY <1>1 DEF StrictItem, RecoverItem
    <2> QED
      BY <2>1, ItemReads
  <1>2. CASE StrictRejected
    <2>1. items' = <<>> /\ scopes' = InitialScopes(flavor')
      BY <1>2 DEF StrictRejected
    <2>2. DOMAIN items' = {} /\ Notes' = {}
      BY <2>1 DEF Notes
    <2>3. Declarators(Notes') = {} /\ TypeUses(Notes') = {} /\ Named(Notes') = {}
      BY <2>2 DEF Declarators, TypeUses, Named
    <2>4. \A name : AtFileScope(name, Notes') = {}
      BY <2>3 DEF AtFileScope
    <2> QED
      BY <2>1, <2>2, <2>3, <2>4 DEF TypeInv, Recorded
  <1>3. CASE RecoverSkip \/ RecoverGiveUp
    <2>1. errors \in Seq(SpanSet)
      BY DEF LoopInv, TypeOK
    <2>2. PICK span : errors' = Append(errors, span)
      BY <1>3 DEF RecoverSkip, RecoverGiveUp
    <2>3. errors' # <<>>
      BY <2>1, <2>2
    <2> QED
      BY <2>3 DEF TypeInv
  <1>4. CASE Start \/ StrictAccepted \/ RecoverEnd \/ Returned \/ UNCHANGED vars
    <2>1. UNCHANGED <<items, errors, scopes, flavor>>
      BY <1>4 DEF Start, StrictAccepted, RecoverEnd, Returned, vars
    <2>2. Notes' = Notes
      BY <2>1 DEF Notes
    <2> QED
      BY <2>1, <2>2 DEF TypeInv
  <1> QED
    BY <1>1, <1>2, <1>3, <1>4 DEF Next

\* Every name that was read as a type is one by the declarations of the unit: where
\* nothing was left out, the innermost and latest declaration that reaches the
\* place is a typedef, whatever was tried and given up in between and however many
\* scopes were entered and left, for every grammar that reads the types of one
\* declaration by what the scopes held before it and leaves in the scope of the
\* file what it declares for it (env.rs:70-91, public_api.rs:121-168).
THEOREM ParserReadsTypes ==
    Spec /\ []DeclarationAdvances /\ []ScopesAreLeft /\ []DeclarationsReadTypes
        => []TypesWereDeclared
  <1>1. Init => TypeInv
    BY NothingRead DEF Init
  <1>2. TypeInv => TypesWereDeclared
    BY DEF TypeInv, TypesWereDeclared
  <1> QED
    BY LoopInvariant, ParserClosesScopes, TypeNext, <1>1, <1>2, PTL DEF Spec
=============================================================================
