---------------------- MODULE TracedPreprocessorProofs ----------------------
(***************************************************************************)
(* Proofs about TracedPreprocessor, for all programs, layouts of files,    *)
(* sizes and limits.                                                       *)
(***************************************************************************)
EXTENDS TracedPreprocessor, FiniteSetTheorems, SequenceTheorems, TLAPS

-----------------------------------------------------------------------------
(* The parts of the invariant *)

\* What is scanned keeps the shape it had in its setup.
ConfigInv ==
  /\ program \in [Files \cup {CommandLine} -> Seq(Line)]
  /\ Forced \in Seq(Files) /\ Entries \in Seq(Files)
  /\ Sizes \subseteq Nat
  /\ config.limits \in ScanLimits
  /\ LayoutAssumption(Layout)

\* A directive is run at a line of a file that is being read.
Reading == [file : Files, at : Nat \ {0}, conds : Seq(Conditional)]

WalkInv ==
  /\ phase \in {"define", "load", "process", "text", "done", "failed"}
  /\ todo \in Nat \ {0}
  /\ frames \in Seq(Reading)
  /\ pc \in {"line", "directive"}
  /\ pending \in Seq([name : Names \cup {"#"}, at : Sites])
  /\ once \subseteq Files
  /\ pc = "directive" => phase = "process" /\ frames # <<>> /\ ~AtEnd

\* One limit was reported if the scan stopped, none before.
SaidInv ==
  /\ issues \in Seq(Codes)
  /\ stopped \in BOOLEAN
  /\ ~stopped => \A i \in 1..Len(issues) : issues[i] \notin LimitCodes
  /\ stopped => \E k \in 1..Len(issues) :
       issues[k] \in LimitCodes /\ \A i \in 1..Len(issues) : issues[i] \in LimitCodes => i = k

\* The macro in force was recorded, and what it may not do was noted and said.
TableInv ==
  /\ TableTypeOK
  /\ Len(defs) <= MaxDefinitions
  /\ \A n \in Names : active[n] # None =>
       /\ \E i \in 1..Len(defs) : defs[i] = [name |-> n, at |-> active[n]]
       /\ BodyOf(active[n]) \in Pastes => n \in pasting
  /\ pasting # {} => IsIssue("E2111")
  /\ inconsistent # {} => IsIssue("P2110")

CountInv ==
  /\ total \in Nat /\ includes \in Nat /\ expansions \in Nat /\ tokens \in Nat
  /\ error \in LoadCodes \cup {"none", "unmapped"}
  /\ total <= MaxTotalBytes
  /\ Len(frames) <= MaxDepth + 1
  /\ ~stopped => includes <= MaxIncludes /\ expansions <= MaxExpansions /\ tokens <= MaxTokens

TextInv == TextTypeOK /\ Len(text) <= MaxGenerated

IInv ==
  /\ ConfigInv
  /\ WalkInv
  /\ SaidInv
  /\ TableInv
  /\ CountInv
  /\ LoadTypeOK
  /\ PackTypeOK
  /\ TextInv

-----------------------------------------------------------------------------
(* The configuration *)

LEMMA LimitTypes ==
  ASSUME ConfigInv
  PROVE  /\ MaxFileBytes \in Nat /\ MaxTotalBytes \in Nat /\ MaxDepth \in Nat
         /\ MaxIncludes \in Nat /\ MaxDefinitions \in Nat /\ MaxExpansions \in Nat
         /\ MaxTokens \in Nat /\ MaxGenerated \in Nat
BY DEF ConfigInv, ScanLimits, MaxFileBytes, MaxTotalBytes, MaxDepth, MaxIncludes,
       MaxDefinitions, MaxExpansions, MaxTokens, MaxGenerated

LEMMA ConfigStarts == Init => ConfigInv
<1> SUFFICES ASSUME Init PROVE ConfigInv
  OBVIOUS
<1>1. PICK k \in DOMAIN Setups : \E p \in Setups[k].programs :
        config = [program |-> p, forced_includes |-> Setups[k].forced_includes,
                  entry_headers |-> Setups[k].entry_headers, sizes |-> Setups[k].sizes,
                  limits |-> Setups[k].limits, layout |-> Setups[k].layout]
  BY DEF Init
<1>2. PICK p \in Setups[k].programs :
        config = [program |-> p, forced_includes |-> Setups[k].forced_includes,
                  entry_headers |-> Setups[k].entry_headers, sizes |-> Setups[k].sizes,
                  limits |-> Setups[k].limits, layout |-> Setups[k].layout]
  BY <1>1
<1>3. /\ Setups[k].programs \subseteq [Files \cup {CommandLine} -> Seq(Line)]
      /\ Setups[k].forced_includes \in Seq(Files)
      /\ Setups[k].entry_headers \in Seq(Files)
      /\ Setups[k].sizes \subseteq Nat
      /\ Setups[k].limits \in ScanLimits
      /\ LayoutAssumption(Setups[k].layout)
  BY SetupsAssumption
<1> QED
  BY <1>2, <1>3 DEF ConfigInv, program, Forced, Entries, Sizes, Layout

\* Which steps change which part of the state.
LEMMA Footprints ==
  ASSUME [Step]_vars
  PROVE  /\ UNCHANGED config
         /\ UNCHANGED macroVars \/ Predefine \/ Define \/ Undef
         /\ UNCHANGED packVars \/ Pack
         /\ UNCHANGED loadVars \/ (\E seen, read \in Sizes : LoadRoot(seen, read))
              \/ (\E seen, read \in Sizes : Include(seen, read))
         /\ UNCHANGED output \/ BeginDirective \/ EndFile \/ Pack
         /\ UNCHANGED textVars \/ WriteMark \/ WriteToken \/ Return
<1>1. CASE UNCHANGED vars
  BY <1>1 DEF vars, macroVars, packVars, loadVars, textVars
<1>2. CASE Predefine \/ Predefined \/ (\E seen, read \in Sizes : LoadRoot(seen, read))
           \/ Loaded \/ ProcessRoot \/ Processed
  BY <1>2 DEF Predefine, Predefined, LoadRoot, Loaded, ProcessRoot, Processed
<1>3. CASE ReadText \/ BeginDirective \/ EndFile \/ WriteMark \/ WriteToken \/ Return
  BY <1>3 DEF ReadText, BeginDirective, EndFile, WriteMark, WriteToken, Return
<1>4. CASE OpenIf \/ Elif \/ Else \/ Endif \/ Skip \/ Define \/ Undef \/ Once \/ Pack \/ Reported
  BY <1>4 DEF OpenIf, Elif, Else, Endif, Skip, Define, Undef, Once, Pack, Reported, Directive
<1>5. CASE IncludeNothing \/ IncludeTooMany \/ IncludeUnresolved
           \/ \E seen, read \in Sizes : Include(seen, read)
  BY <1>5 DEF IncludeNothing, IncludeTooMany, IncludeUnresolved, Include, Counted, Including,
              Directive
<1> QED
  BY <1>1, <1>2, <1>3, <1>4, <1>5 DEF Step

LEMMA ConfigStep == ConfigInv /\ UNCHANGED config => ConfigInv'
BY DEF ConfigInv, program, Forced, Entries, Sizes, Layout, LayoutAssumption, Physical

-----------------------------------------------------------------------------
(* Lines and frames *)

LEMMA LineTypes ==
  ASSUME NEW line \in Line
  PROVE  /\ line.op = "text" => line.arg \in Names \cup {"#"}
         /\ line.op \in {"if", "elif", "include"} => line.calls \in Nat
         /\ line.op \in {"ifdef", "ifndef", "undef", "define"} => line.arg \in Names
         /\ line.op = "pack" => line.arg \in PackForms /\ line.width \in Widths
         /\ line.op = "report" => line.arg \in Reports
BY DEF Line

LEMMA FrameTypes ==
  ASSUME ConfigInv, WalkInv, frames # <<>>
  PROVE  /\ Top \in Reading /\ Below \in Seq(Reading) /\ Len(Below) = Len(frames) - 1
         /\ Body \in Seq(Line)
         /\ ~AtEnd => Current \in Line
         /\ Here \in Sites
         /\ Passed \in Reading
<1>1. Top \in Reading /\ Below \in Seq(Reading) /\ Len(Below) = Len(frames) - 1
  BY HeadTailProperties DEF WalkInv, Top, Below
<1>2. Body \in Seq(Line)
  BY <1>1 DEF ConfigInv, Body, Reading
<1>3. ~AtEnd => Current \in Line
  BY <1>1, <1>2, ElementOfSeq DEF AtEnd, Current, Reading
<1>4. Here \in Sites /\ Passed \in Reading
  BY <1>1 DEF Here, Definition, Sites, Passed, Reading
<1> QED
  BY <1>1, <1>2, <1>3, <1>4

LEMMA MovedTypes ==
  ASSUME ConfigInv, WalkInv, frames # <<>>
  PROVE  /\ Moved \in Seq(Reading) /\ Len(Moved) = Len(frames)
         /\ Moved # <<>> /\ Head(Moved) = Passed
<1>1. Passed \in Reading /\ Below \in Seq(Reading) /\ Len(Below) = Len(frames) - 1
  BY FrameTypes
<1>2. Len(frames) \in Nat
  BY LenProperties DEF WalkInv
<1> QED
  BY <1>1, <1>2, ConcatProperties DEF Moved

LEMMA CondsTypes ==
  ASSUME ConfigInv, WalkInv, frames # <<>>, NEW conds \in Seq(Conditional)
  PROVE  /\ WithConds(conds) \in Seq(Reading) /\ Len(WithConds(conds)) = Len(frames)
         /\ WithConds(conds) # <<>> /\ Head(WithConds(conds)) = [Passed EXCEPT !.conds = conds]
<1>1. Passed \in Reading /\ Below \in Seq(Reading) /\ Len(Below) = Len(frames) - 1
  BY FrameTypes
<1>2. [Passed EXCEPT !.conds = conds] \in Reading
  BY <1>1 DEF Reading
<1>3. Len(frames) \in Nat
  BY LenProperties DEF WalkInv
<1> QED
  BY <1>1, <1>2, <1>3, ConcatProperties DEF WithConds

\* What becomes of the innermost conditional.
LEMMA ReplacedTypes ==
  ASSUME ConfigInv, WalkInv, frames # <<>>, Top.conds # <<>>, NEW state \in Conditional
  PROVE  /\ Head(Top.conds) \in Conditional /\ Tail(Top.conds) \in Seq(Conditional)
         /\ ReplaceCond(state) \in Seq(Reading) /\ Len(ReplaceCond(state)) = Len(frames)
         /\ Head(Head(ReplaceCond(state)).conds) = state
<1>1. Top.conds \in Seq(Conditional) /\ Passed \in Reading
  BY FrameTypes DEF Reading
<1>2. Head(Top.conds) \in Conditional /\ Tail(Top.conds) \in Seq(Conditional)
  BY <1>1, HeadTailProperties
<1>3. /\ <<state>> \o Tail(Top.conds) \in Seq(Conditional)
      /\ Head(<<state>> \o Tail(Top.conds)) = state
  BY <1>2, ConcatProperties
<1>4. [Passed EXCEPT !.conds = <<state>> \o Tail(Top.conds)].conds = <<state>> \o Tail(Top.conds)
  BY <1>1 DEF Reading
<1> QED
  BY <1>2, <1>3, <1>4, CondsTypes DEF ReplaceCond

-----------------------------------------------------------------------------
(* The include search *)

\* By the order of the initial intervals: the library's induction on numbers
\* takes an operator.
LEMMA LeastExists ==
  ASSUME NEW T, T \subseteq Nat, T # {}
  PROVE  \E i \in T : \A j \in T : i <= j
<1> DEFINE below == {0..i : i \in T}
<1>1. below \subseteq FiniteSubsetsOf(Nat) /\ below # {}
  <2>1. ASSUME NEW i \in T
        PROVE  0..i \in SUBSET Nat /\ IsFiniteSet(0..i)
    BY FS_Interval
  <2> QED
    BY <2>1 DEF FiniteSubsetsOf
<1>2. PICK m \in below : \A x \in below : <<x, m>> \notin StrictSubsetOrdering(Nat)
  <2> DEFINE order == StrictSubsetOrdering(Nat)
             all   == FiniteSubsetsOf(Nat)
  <2>1. IsWellFoundedOn(order, all)
    BY FS_StrictSubsetOrderingWellFounded
  <2> HIDE DEF order, all, below
  <2>2. \E m \in below : \A x \in below : ~(<<x, m>> \in order)
    BY <1>1, <2>1, WFMin DEF all
  <2> QED
    BY <2>2 DEF order
<1>3. PICK i \in T : m = 0..i
  BY <1>2
<1>4. ASSUME NEW j \in T, j < i
      PROVE  FALSE
  <2>1. 0..j \in below /\ 0..j \subseteq Nat /\ m \subseteq Nat
    BY <1>3
  <2>2. 0..j \subseteq m /\ 0..j # m
    <3>1. i \in m /\ i \notin 0..j
      BY <1>3, <1>4
    <3> QED
      BY <1>3, <1>4, <3>1
  <2> QED
    BY <1>2, <2>1, <2>2 DEF StrictSubsetOrdering
<1> QED
  BY <1>4

LEMMA SearchRootTypes ==
  ASSUME ConfigInv, NEW f
  PROVE  SearchRootIndex(Layout, f) \in {0} \cup DOMAIN Layout.roots
<1>1. DOMAIN Layout.roots \subseteq Nat
  BY LenProperties DEF ConfigInv, LayoutAssumption
<1>2. RootsOver(Layout, f) \subseteq DOMAIN Layout.roots
  BY DEF RootsOver
<1>3. CASE RootsOver(Layout, f) = {}
  BY <1>3 DEF SearchRootIndex
<1>4. CASE RootsOver(Layout, f) # {}
  <2>1. \E i \in RootsOver(Layout, f) : \A j \in RootsOver(Layout, f) : i <= j
    BY <1>1, <1>1, <1>2, <1>4, LeastExists
  <2> QED
    BY <1>2, <1>4, <2>1 DEF SearchRootIndex
<1> QED
  BY <1>3, <1>4

\* What is found is a file, under one of the roots if it is credited to one.
LEMMA HitTypes ==
  ASSUME ConfigInv, NEW f, NEW name, NEW system \in BOOLEAN, NEW next \in BOOLEAN,
         NEW hit \in Resolved(Layout, f, name, system, next)
  PROVE  /\ hit.file \in Files
         /\ hit.role \in Roles
         /\ hit.root \in {0} \cup DOMAIN Layout.roots
<1> DEFINE resumed == IF next THEN SearchRootIndex(Layout, f) ELSE 0
           beside  == IF system \/ next THEN <<>> ELSE Beside(Layout, f, name)
           under   == UnderRoots(Layout, name, resumed)
           candidates == beside \o under
           Exists(i) == candidates[i].path \in DOMAIN Layout.tree
           first == {i \in DOMAIN candidates : Exists(i) /\ \A j \in 1..(i - 1) : ~Exists(j)}
           paths == {beside[i].path : i \in DOMAIN beside}
                      \cup {under[i].path : i \in DOMAIN under}
           C == [path : paths, role : Roles, root : {0} \cup DOMAIN Layout.roots]
<1>1. /\ Layout.roots \in Seq([dir : Seq(STRING), kind : Kinds])
      /\ \A p \in DOMAIN Layout.tree : Layout.tree[p] \in Files
      /\ \A n \in DOMAIN Layout.builtins : Layout.builtins[n] \in Files
  BY FilesAssumption DEF ConfigInv, LayoutAssumption
<1>2. resumed \in 0..Len(Layout.roots) /\ Len(Layout.roots) \in Nat
      /\ DOMAIN Layout.roots = 1..Len(Layout.roots)
  BY <1>1, SearchRootTypes, LenProperties
<1>3. beside \in Seq(C)
  <2>1. CASE beside = <<>>
    BY <2>1, EmptySeq
  <2>2. CASE beside # <<>>
    <3>1. PICK p : beside = <<[path |-> p, role |-> "user", root |-> 0]>>
      BY <2>2 DEF Beside
    <3>2. p \in paths
      <4>1. DOMAIN beside = {1} /\ beside[1].path = p
        BY <3>1
      <4> QED
        BY <4>1
    <3>3. [path |-> p, role |-> "user", root |-> 0] \in C
      BY <3>2 DEF Roles, Kinds
    <3> HIDE DEF beside, C
    <3> QED
      BY <3>1, <3>3
  <2> QED
    BY <2>1, <2>2
<1>4. under \in Seq(C)
  <2>1. ASSUME NEW i \in 1..(Len(Layout.roots) - resumed)
        PROVE  under[i] \in C
    <3>1. resumed + i \in 1..Len(Layout.roots)
      BY <1>2
    <3>2. Layout.roots[resumed + i].kind \in Roles
      <4>1. Layout.roots[resumed + i] \in [dir : Seq(STRING), kind : Kinds]
        BY <1>1, <3>1, ElementOfSeq
      <4> QED
        BY <4>1 DEF Roles
    <3>3. /\ DOMAIN under = 1..(Len(Layout.roots) - resumed)
          /\ under[i] = [path |-> Layout.roots[resumed + i].dir \o name,
                         role |-> Layout.roots[resumed + i].kind, root |-> resumed + i]
      BY DEF UnderRoots
    <3>4. under[i].path \in paths
      BY <3>3
    <3> HIDE DEF paths
    <3> QED
      BY <1>2, <3>1, <3>2, <3>3, <3>4
  <2>2. Len(Layout.roots) - resumed \in Nat
    BY <1>2
  <2>3. under \in [1..(Len(Layout.roots) - resumed) -> C]
    <3>1. /\ DOMAIN under = 1..(Len(Layout.roots) - resumed)
          /\ under = [i \in DOMAIN under |-> under[i]]
      BY DEF UnderRoots
    <3> HIDE DEF under
    <3> QED
      BY <2>1, <3>1
  <2> HIDE DEF under, C
  <2> QED
    BY <2>2, <2>3, SeqDef
<1> HIDE DEF C, beside, under
<1>5. candidates \in Seq(C)
  BY <1>3, <1>4, ConcatProperties
<1> HIDE DEF candidates
<1>6. \A i \in DOMAIN candidates : candidates[i] \in C
  BY <1>5, ElementOfSeq, LenProperties
<1>7. Resolved(Layout, f, name, system, next) =
        IF first # {}
        THEN {[file |-> Layout.tree[candidates[i].path], role |-> candidates[i].role,
               root |-> candidates[i].root] : i \in first}
        ELSE IF resumed = 0 /\ name \in DOMAIN Layout.builtins
        THEN {[file |-> Layout.builtins[name], role |-> "builtin", root |-> 0]}
        ELSE {}
  BY DEF Resolved, candidates, beside, under
<1>8. CASE first # {}
  <2>1. PICK i \in first : hit = [file |-> Layout.tree[candidates[i].path],
                                  role |-> candidates[i].role, root |-> candidates[i].root]
    BY <1>7, <1>8
  <2>2. candidates[i] \in C /\ candidates[i].path \in DOMAIN Layout.tree
    BY <1>6, <2>1
  <2>3. candidates[i].role \in Roles /\ candidates[i].root \in {0} \cup DOMAIN Layout.roots
    BY <2>2 DEF C
  <2> QED
    BY <1>1, <2>1, <2>2, <2>3
<1>9. CASE first = {}
  <2>1. hit = [file |-> Layout.builtins[name], role |-> "builtin", root |-> 0]
        /\ name \in DOMAIN Layout.builtins
    BY <1>7, <1>9
  <2> QED
    BY <1>1, <2>1 DEF Roles
<1> QED
  BY <1>8, <1>9

-----------------------------------------------------------------------------
(* The walk *)

\* A file is entered at its first line, or the walk goes on below it.
LEMMA EntersTypes ==
  ASSUME ConfigInv, NEW f \in Files, NEW below \in Seq(Reading), Enters(f, below)
  PROVE  /\ frames' \in Seq(Reading)
         /\ \/ frames' = below
            \/ Len(below) <= MaxDepth /\ Len(frames') = Len(below) + 1
<1> DEFINE entered == [file |-> f, at |-> 1, conds |-> <<>>]
<1>1. entered \in Reading
  BY DEF Reading
<1>2. Len(<<entered>> \o below) = Len(below) + 1 /\ <<entered>> \o below \in Seq(Reading)
  BY <1>1, ConcatProperties
<1>3. Len(below) \in Nat /\ MaxDepth \in Nat
  BY LenProperties, LimitTypes
<1>4. frames' = below \/ (Len(below) <= MaxDepth /\ frames' = <<entered>> \o below)
  BY <1>3 DEF Enters
<1> QED
  BY <1>2, <1>4

\* The file an include finds.
LEMMA IncludedTypes ==
  ASSUME ConfigInv, WalkInv, Including, NEW hit \in Hits
  PROVE  /\ hit.file \in Files
         /\ hit.role \in Roles
         /\ hit.root \in {0} \cup DOMAIN Layout.roots
<1>1. Current \in Line /\ Current.op = "include"
  BY FrameTypes DEF Including, Directive, WalkInv
<1>2. Current.system \in BOOLEAN /\ Current.next \in BOOLEAN
  BY <1>1 DEF Line
<1>3. hit \in Resolved(Layout, Top.file, Current.arg, Current.system, Current.next)
  BY DEF Hits
<1> QED
  BY <1>2, <1>3, HitTypes

LEMMA ConditionalsTyped ==
  ASSUME ConfigInv, WalkInv, frames # <<>>
  PROVE  /\ Top.conds \in Seq(Conditional)
         /\ Active \in BOOLEAN /\ Branch \in BOOLEAN
<1>1. Top.conds \in Seq(Conditional)
  BY FrameTypes DEF Reading
<1>2. Active \in BOOLEAN
  <2>1. Top.conds # <<>> => Head(Top.conds) \in Conditional
    BY <1>1, HeadTailProperties
  <2> QED
    BY <2>1 DEF Active, Conditional
<1>3. Holds(Current) \in BOOLEAN
  BY DEF Holds
<1> QED
  BY <1>1, <1>2, <1>3 DEF Branch

\* A directive that opens, turns or closes a conditional.
LEMMA ConditionalSteps ==
  ASSUME ConfigInv, WalkInv, OpenIf \/ Elif \/ Else \/ Endif
  PROVE  frames' \in Seq(Reading) /\ Len(frames') = Len(frames)
<1>1. frames # <<>>
  BY DEF OpenIf, Elif, Else, Endif, Directive
<1>2. /\ Moved \in Seq(Reading) /\ Len(Moved) = Len(frames)
      /\ Top.conds \in Seq(Conditional) /\ Active \in BOOLEAN /\ Branch \in BOOLEAN
  BY <1>1, MovedTypes, ConditionalsTyped
<1>3. CASE OpenIf
  <2> DEFINE opened == [taken |-> Branch, active |-> Branch, parent |-> Active,
                        else_seen |-> FALSE]
  <2>1. opened \in Conditional
    BY <1>2 DEF Conditional
  <2>2. <<opened>> \o Top.conds \in Seq(Conditional)
    BY <1>2, <2>1, ConcatProperties
  <2> QED
    BY <1>1, <1>3, <2>2, CondsTypes DEF OpenIf
<1>4. CASE Unmatched
  BY <1>2, <1>4 DEF Unmatched
<1>5. CASE Top.conds # <<>> /\ ~Unmatched /\ ~OpenIf
  <2> DEFINE state == Head(Top.conds)
  <2>1. state \in Conditional /\ Tail(Top.conds) \in Seq(Conditional)
    BY <1>2, <1>5, HeadTailProperties
  <2>2. ASSUME NEW new \in Conditional, frames' = ReplaceCond(new)
        PROVE  frames' \in Seq(Reading) /\ Len(frames') = Len(frames)
    BY <1>1, <1>5, <2>2, ReplacedTypes
  <2>3. [state EXCEPT !.active = FALSE] \in Conditional
    BY <2>1 DEF Conditional
  <2>4. Elsed(state) \in Conditional
    BY <2>1 DEF Conditional, Elsed
  <2>5. ASSUME NEW b \in BOOLEAN
        PROVE  [state EXCEPT !.active = b, !.taken = @ \/ b] \in Conditional
    BY <2>1 DEF Conditional
  <2>6. (Asked(state) /\ Holds(Current)) \in BOOLEAN
    BY DEF Holds
  <2>7. CASE Endif
    <3>1. frames' = WithConds(Tail(Top.conds))
      BY <1>5, <2>7 DEF Endif
    <3> QED
      BY <1>1, <2>1, <3>1, CondsTypes
  <2>8. CASE Else
    BY <1>5, <2>2, <2>3, <2>4, <2>8 DEF Else, Malformed
  <2>9. CASE Elif
    BY <1>5, <2>2, <2>3, <2>5, <2>6, <2>9 DEF Elif, Malformed
  <2> QED
    BY <1>5, <2>7, <2>8, <2>9
<1> QED
  BY <1>3, <1>4, <1>5 DEF Elif, Else, Endif, Malformed

\* Every step of the walk leaves a directive to a line of the file it is in.
LEMMA WalkStep ==
  ASSUME IInv, [Step]_vars
  PROVE  WalkInv'
<1> USE DEF IInv
<1>1. CASE UNCHANGED vars
  BY <1>1 DEF vars, WalkInv, AtEnd, Top, Body, program
<1>2. CASE Predefine \/ Predefined \/ (\E seen, read \in Sizes : LoadRoot(seen, read)) \/ Loaded
           \/ Processed
  BY <1>2 DEF Predefine, Predefined, LoadRoot, Loaded, Processed, Fails, WalkInv
<1>3. CASE WriteMark \/ WriteToken \/ Return
  BY <1>3 DEF WriteMark, WriteToken, Return, Texting, WalkInv
<1>4. CASE ProcessRoot
  <2>1. (Forced \o Entries)[todo] \in Files
    BY <1>4, ConcatProperties, ElementOfSeq DEF ProcessRoot, ConfigInv, WalkInv
  <2>2. frames' \in Seq(Reading)
    BY <1>4, <2>1, EntersTypes, EmptySeq DEF ProcessRoot
  <2> QED
    BY <1>4, <2>2 DEF ProcessRoot, WalkInv
<1>5. CASE ReadText
  <2>1. /\ frames' \in Seq(Reading) /\ Current \in Line /\ Current.op = "text" /\ Here \in Sites
    BY <1>5, MovedTypes, FrameTypes DEF ReadText, Over
  <2>2. pending' \in Seq([name : Names \cup {"#"}, at : Sites])
    <3> DEFINE word == [name |-> Current.arg, at |-> Here]
               Word == [name : Names \cup {"#"}, at : Sites]
    <3>1. word \in Word /\ pending \in Seq(Word)
      BY <2>1, LineTypes DEF WalkInv
    <3>2. pending' = Append(pending, word) \/ pending' = pending
      BY <1>5 DEF ReadText
    <3> HIDE DEF word, Word
    <3>3. pending' \in Seq(Word)
      BY <3>1, <3>2, AppendProperties
    <3> QED
      BY <3>3 DEF Word
  <2> QED
    BY <1>5, <2>1, <2>2 DEF ReadText, WalkInv
<1>6. CASE BeginDirective
  <2>1. ~AtEnd' /\ frames' # <<>>
    BY <1>6 DEF BeginDirective, Over, AtEnd, Body, Top, program
  <2> QED
    BY <1>6, <2>1 DEF BeginDirective, Flushes, WalkInv
<1>7. CASE EndFile
  <2>1. frames' \in Seq(Reading)
    BY <1>7, FrameTypes DEF EndFile
  <2> QED
    BY <1>7, <2>1 DEF EndFile, Flushes, WalkInv
<1>8. CASE OpenIf \/ Elif \/ Else \/ Endif
  <2>1. frames' \in Seq(Reading)
    BY <1>8, ConditionalSteps
  <2> QED
    BY <1>8, <2>1 DEF OpenIf, Elif, Else, Endif, Directive, WalkInv
<1>9. CASE Skip \/ Define \/ Undef \/ Pack \/ Reported
  <2>1. frames' \in Seq(Reading)
    BY <1>9, MovedTypes DEF Skip, Define, Undef, Pack, Reported, Directive
  <2> QED
    BY <1>9, <2>1 DEF Skip, Define, Undef, Pack, Reported, Directive, WalkInv
<1>10. CASE Once
  <2>1. frames' \in Seq(Reading) /\ Top \in Reading
    BY <1>10, MovedTypes, FrameTypes DEF Once, Directive
  <2> QED
    BY <1>10, <2>1 DEF Once, Directive, WalkInv, Reading
<1>11. CASE IncludeNothing \/ IncludeTooMany \/ IncludeUnresolved
  <2>1. frames' \in Seq(Reading)
    BY <1>11, MovedTypes
       DEF IncludeNothing, IncludeTooMany, IncludeUnresolved, Counted, Including, Directive
  <2> QED
    BY <1>11, <2>1
       DEF IncludeNothing, IncludeTooMany, IncludeUnresolved, Counted, Including, Directive, WalkInv
<1>12. CASE \E seen, read \in Sizes : Include(seen, read)
  <2>1. PICK seen \in Sizes, read \in Sizes : Include(seen, read)
    BY <1>12
  <2>2. Including /\ Moved \in Seq(Reading) /\ frames # <<>>
    BY <2>1, MovedTypes DEF Include, Counted, Including, Directive
  <2>3. frames' \in Seq(Reading) /\ phase' \in {phase, "failed"}
    <3>1. PICK hit \in Hits : \/ Enters(hit.file, Moved) /\ phase' = phase
                              \/ phase' = "failed" /\ frames' = frames
      BY <2>1 DEF Include, Fails
    <3>2. hit.file \in Files
      BY <2>2, IncludedTypes
    <3> QED
      BY <2>2, <3>1, <3>2, EntersTypes DEF WalkInv
  <2>4. UNCHANGED <<todo, pending, once>> /\ pc' = "line"
    BY <2>1 DEF Include, Counted, Including, Directive
  <2> QED
    BY <2>3, <2>4 DEF WalkInv
<1> QED
  BY <1>1, <1>2, <1>3, <1>4, <1>5, <1>6, <1>7, <1>8, <1>9, <1>10, <1>11, <1>12 DEF Step

\* No step lets the walk enter a second branch of an if-section.
LEMMA BranchesStep ==
  ASSUME ConfigInv, WalkInv, [Step]_vars,
         frames' # frames, frames # <<>>, Len(frames') = Len(frames), ~AtEnd, Top.conds # <<>>,
         Head(Top.conds).taken, Current.op \in {"elif", "else"}
  PROVE  LET state == Head(Head(frames').conds) IN state.taken /\ ~state.active
<1> DEFINE state == Head(Top.conds)
<1>1. state \in Conditional
  BY ConditionalsTyped, HeadTailProperties
<1>2. Elif \/ Else
  <2>1. ~UNCHANGED vars
    BY DEF vars
  <2>2. ~(Predefine \/ Predefined \/ (\E seen, read \in Sizes : LoadRoot(seen, read)) \/ Loaded
           \/ Processed)
    BY DEF Predefine, Predefined, LoadRoot, Loaded, Processed
  <2>3. ~(WriteMark \/ WriteToken \/ Return \/ ReadText \/ BeginDirective \/ ProcessRoot)
    BY DEF WriteMark, WriteToken, Return, ReadText, BeginDirective, ProcessRoot
  <2>4. ~EndFile
    <3>1. Len(Below) # Len(frames)
      BY FrameTypes, LenProperties DEF WalkInv
    <3> QED
      BY <3>1 DEF EndFile
  <2>5. ~(OpenIf \/ Endif \/ Skip \/ Define \/ Undef \/ Once \/ Pack \/ Reported)
    BY DEF OpenIf, Endif, Skip, Define, Undef, Once, Pack, Reported, Directive
  <2>6. ~(IncludeNothing \/ IncludeTooMany \/ IncludeUnresolved
           \/ \E seen, read \in Sizes : Include(seen, read))
    BY DEF IncludeNothing, IncludeTooMany, IncludeUnresolved, Include, Counted, Including, Directive
  <2> QED
    BY <2>1, <2>2, <2>3, <2>4, <2>5, <2>6 DEF Step
<1>3. PICK new \in Conditional : frames' = ReplaceCond(new) /\ new.taken /\ ~new.active
  <2>1. CASE Malformed
    <3>1. [state EXCEPT !.active = FALSE] \in Conditional
      BY <1>1 DEF Conditional
    <3> QED
      BY <1>1, <2>1, <3>1 DEF Malformed, Conditional
  <2>2. CASE Else /\ ~Malformed
    <3>1. Elsed(state) \in Conditional /\ Elsed(state).taken /\ ~Elsed(state).active
      BY <1>1 DEF Elsed, Conditional
    <3> QED
      BY <2>2, <3>1 DEF Else, Unmatched
  <2>3. CASE Elif /\ ~Malformed
    <3> DEFINE branch == Asked(state) /\ Holds(Current)
    <3>1. branch = FALSE
      BY DEF Asked
    <3>2. frames' = ReplaceCond([state EXCEPT !.active = FALSE, !.taken = @ \/ FALSE])
      BY <2>3, <3>1 DEF Elif, Unmatched
    <3>3. [state EXCEPT !.active = FALSE, !.taken = @ \/ FALSE] \in Conditional
      BY <1>1 DEF Conditional
    <3> QED
      BY <1>1, <3>2, <3>3 DEF Conditional
  <2> QED
    BY <1>2, <2>1, <2>2, <2>3
<1> QED
  BY <1>3, ReplacedTypes

-----------------------------------------------------------------------------
(* What is said *)

Quiet == Codes \ LimitCodes

\* Nothing that was said is taken back.
Says == \A code \in Codes : IsIssue(code) => IsIssue(code)'

LEMMA SayingQuietly ==
  ASSUME SaidInv, NEW s \in Seq(Quiet), issues' = issues \o s, stopped' = stopped
  PROVE  SaidInv' /\ Says
<1>1. /\ issues \in Seq(Codes) /\ s \in Seq(Codes) /\ Len(issues) \in Nat /\ Len(s) \in Nat
      /\ \A i \in 1..Len(s) : s[i] \notin LimitCodes
  BY SeqMonotonic, ElementOfSeq, LenProperties DEF SaidInv, Quiet
<1>2. /\ issues' \in Seq(Codes) /\ Len(issues') = Len(issues) + Len(s)
      /\ \A i \in 1..Len(issues) : issues'[i] = issues[i]
      /\ \A i \in 1..Len(issues') : i > Len(issues) => issues'[i] = s[i - Len(issues)]
  BY <1>1, ConcatProperties
<1>3. \A i \in 1..Len(issues') : issues'[i] \in LimitCodes =>
        i \in 1..Len(issues) /\ issues[i] \in LimitCodes
  BY <1>1, <1>2
<1>4. \A i \in 1..Len(issues) : i \in 1..Len(issues')
  BY <1>1, <1>2
<1> QED
  BY <1>2, <1>3, <1>4 DEF SaidInv, Says, IsIssue

LEMMA SayingALimit ==
  ASSUME SaidInv, ~stopped, NEW code \in LimitCodes, NEW s \in Seq(Quiet),
         issues' = (issues \o <<code>>) \o s, stopped' = TRUE
  PROVE  SaidInv' /\ Says
<1> DEFINE k == Len(issues) + 1
<1>1. /\ issues \in Seq(Codes) /\ s \in Seq(Codes) /\ Len(issues) \in Nat /\ Len(s) \in Nat
      /\ <<code>> \in Seq(Codes) /\ Len(<<code>>) = 1
      /\ \A i \in 1..Len(s) : s[i] \notin LimitCodes
  BY SeqMonotonic, ElementOfSeq, LenProperties DEF SaidInv, Quiet, Codes
<1>2. /\ issues \o <<code>> \in Seq(Codes) /\ Len(issues \o <<code>>) = k
      /\ \A i \in 1..Len(issues) : (issues \o <<code>>)[i] = issues[i]
      /\ (issues \o <<code>>)[k] = code
  BY <1>1, ConcatProperties
<1>3. /\ issues' \in Seq(Codes) /\ Len(issues') = k + Len(s)
      /\ \A i \in 1..k : issues'[i] = (issues \o <<code>>)[i]
      /\ \A i \in 1..Len(issues') : i > k => issues'[i] = s[i - k]
  BY <1>1, <1>2, ConcatProperties
<1>4. \A i \in 1..Len(issues) : i \in 1..Len(issues') /\ issues'[i] = issues[i]
  BY <1>1, <1>2, <1>3
<1>5. /\ k \in 1..Len(issues') /\ issues'[k] = code
      /\ \A i \in 1..Len(issues') : issues'[i] \in LimitCodes => i = k
  <2>1. \A i \in 1..Len(issues) : issues[i] \notin LimitCodes
    BY DEF SaidInv
  <2> QED
    BY <1>1, <1>2, <1>3, <2>1
<1> QED
  BY <1>3, <1>4, <1>5 DEF SaidInv, Says, IsIssue

LEMMA SayingNothing ==
  ASSUME SaidInv, UNCHANGED <<issues, stopped>>
  PROVE  SaidInv' /\ Says
BY DEF SaidInv, Says, IsIssue

LEMMA LimitHitSaid ==
  ASSUME SaidInv, NEW code \in LimitCodes, LimitHit(code)
  PROVE  SaidInv' /\ Says
<1>1. CASE stopped
  BY <1>1, SayingNothing DEF LimitHit
<1>2. CASE ~stopped
  <2>1. issues' = (issues \o <<code>>) \o <<>> /\ <<>> \in Seq(Quiet)
    BY <1>2 DEF LimitHit, SaidInv, Codes
  <2> QED
    BY <1>2, <2>1, SayingALimit DEF LimitHit
<1> QED
  BY <1>1, <1>2

LEMMA ReportSaid ==
  ASSUME SaidInv, NEW code \in Quiet, Report(code), UNCHANGED stopped
  PROVE  SaidInv' /\ Says
<1>1. issues' = issues \o <<code>> /\ <<code>> \in Seq(Quiet)
  BY DEF Report, SaidInv, Quiet
<1> QED
  BY <1>1, SayingQuietly

LEMMA FlushSaid ==
  ASSUME SaidInv, NEW after \in Seq(Quiet), Flushes(after)
  PROVE  SaidInv' /\ Says
<1>1. CASE pending = <<>> \/ stopped
  BY <1>1, SayingQuietly DEF Flushes
<1>2. CASE pending # <<>> /\ ~stopped
  <2>1. PICK hit \in {<<>>, <<"E2206">>, <<"E2205">>} :
          issues' = issues \o hit \o after /\ stopped' = (hit # <<>>)
    BY <1>2 DEF Flushes
  <2>2. CASE hit = <<>>
    BY <1>2, <2>1, <2>2, SayingQuietly, ConcatEmptySeq DEF SaidInv
  <2>3. CASE hit # <<>>
    <3>1. PICK code \in LimitCodes : hit = <<code>>
      BY <2>3 DEF LimitCodes
    <3> QED
      BY <1>2, <2>1, <2>3, <3>1, SayingALimit
  <2> QED
    BY <2>1, <2>2, <2>3
<1> QED
  BY <1>1, <1>2

LEMMA EvaluationSaid ==
  ASSUME SaidInv, NEW after \in Seq(Quiet), Evaluates(after)
  PROVE  SaidInv' /\ Says
<1>1. CASE ~Overruns
  <2>1. issues' = issues \o after /\ stopped' = stopped
    BY <1>1, ConcatEmptySeq DEF Evaluates, Cut, SaidInv
  <2> QED
    BY <2>1, SayingQuietly
<1>2. CASE Overruns
  <2>1. issues' = issues \o <<"E2206">> \o after /\ ~stopped /\ stopped' = TRUE
    BY <1>2 DEF Evaluates, Cut, Overruns
  <2> QED
    BY <2>1, SayingALimit DEF LimitCodes
<1> QED
  BY <1>1, <1>2

LEMMA EnteringSaid ==
  ASSUME SaidInv, NEW f, NEW below, Enters(f, below)
  PROVE  SaidInv' /\ Says
<1>1. CASE UNCHANGED <<issues, stopped>>
  BY <1>1, SayingNothing
<1>2. CASE LimitHit("E2203") \/ LimitHit("E2205")
  BY <1>2, LimitHitSaid DEF LimitCodes
<1> QED
  BY <1>1, <1>2 DEF Enters

LEMMA QuietCodes ==
  /\ {"E2102", "E2104", "E2105", "E2106", "E2107", "E2108", "E2111", "E2113",
      "P2100", "P2106", "P2110"} \cup Reports \subseteq Quiet
  /\ <<>> \in Seq(Quiet)
  /\ \A code \in Quiet : <<code>> \in Seq(Quiet)
<1>1. {"E2102", "E2104", "E2105", "E2106", "E2107", "E2108", "E2111", "E2113",
       "P2100", "P2106", "P2110"} \cup Reports \subseteq Quiet
  BY DEF Quiet, Codes, LimitCodes, Reports
<1>2. \A code \in Quiet : <<code>> \in Seq(Quiet)
  OBVIOUS
<1> QED
  BY <1>1, <1>2

LEMMA DefiningSaid ==
  ASSUME SaidInv, NEW n, NEW d, Defines(n, d)
  PROVE  SaidInv' /\ Says
<1>1. CASE Len(defs) >= MaxDefinitions
  BY <1>1, LimitHitSaid DEF Defines, LimitCodes
<1>2. CASE ~(Len(defs) >= MaxDefinitions)
  <2> DEFINE differs == active[n] # None /\ BodyOf(active[n]) # BodyOf(d)
             pastes  == BodyOf(d) \in Pastes
  <2>1. DefinitionIssues(differs, pastes) \in Seq(Quiet)
    <3>1. (IF differs THEN <<"P2110">> ELSE <<>>) \in Seq(Quiet)
      BY QuietCodes
    <3>2. (IF pastes THEN <<"E2111">> ELSE <<>>) \in Seq(Quiet)
      BY QuietCodes
    <3> QED
      BY <3>1, <3>2, ConcatProperties DEF DefinitionIssues
  <2>2. issues' = issues \o DefinitionIssues(differs, pastes) /\ stopped' = stopped
    BY <1>2 DEF Defines
  <2> QED
    BY <2>1, <2>2, SayingQuietly
<1> QED
  BY <1>1, <1>2

\* A limit is reported once, and everything else besides.
LEMMA SaidStep ==
  ASSUME IInv, [Step]_vars
  PROVE  SaidInv' /\ Says
<1> USE DEF IInv
<1> DEFINE Silent == UNCHANGED <<issues, stopped>>
<1>1. CASE UNCHANGED vars
  BY <1>1, SayingNothing DEF vars
<1>2. CASE Predefine \/ Define
  BY <1>2, DefiningSaid, SayingNothing DEF Predefine, Define
<1>3. CASE Predefined \/ (\E seen, read \in Sizes : LoadRoot(seen, read)) \/ Loaded
           \/ Processed \/ WriteMark \/ Return
  BY <1>3, SayingNothing DEF Predefined, LoadRoot, Loaded, Processed, WriteMark, Return
<1>4. CASE ProcessRoot
  BY <1>4, EnteringSaid DEF ProcessRoot
<1>5. CASE ReadText
  <2>1. Silent \/ (Report("E2108") /\ UNCHANGED stopped)
    BY <1>5 DEF ReadText, Report
  <2> QED
    BY <2>1, SayingNothing, ReportSaid, QuietCodes
<1>6. CASE BeginDirective \/ EndFile
  <2>1. PICK after \in {<<>>, <<"E2105">>} : Flushes(after)
    BY <1>6 DEF BeginDirective, EndFile
  <2>2. after \in Seq(Quiet)
    BY <2>1, QuietCodes
  <2> QED
    BY <2>1, <2>2, FlushSaid
<1>7. CASE OpenIf \/ Elif \/ Else \/ Endif
  <2>1. \/ Silent
        \/ \E after \in {<<>>, <<"E2113">>} : Evaluates(after)
        \/ \E code \in {"E2106", "E2107"} : Report(code) /\ UNCHANGED stopped
    BY <1>7 DEF OpenIf, Elif, Else, Endif, Unmatched, Malformed
  <2>2. \A after \in {<<>>, <<"E2113">>} : after \in Seq(Quiet)
    BY QuietCodes
  <2>3. {"E2106", "E2107"} \subseteq Quiet
    BY QuietCodes
  <2> QED
    BY <2>1, <2>2, <2>3, SayingNothing, EvaluationSaid, ReportSaid
<1>8. CASE Skip \/ Undef \/ Once
  BY <1>8, SayingNothing DEF Skip, Undef, Once
<1>9. CASE IncludeNothing
  <2>1. <<"P2106">> \in Seq(Quiet)
    BY QuietCodes
  <2> QED
    BY <1>9, <2>1, EvaluationSaid DEF IncludeNothing
<1>10. CASE IncludeTooMany
  BY <1>10, LimitHitSaid DEF IncludeTooMany, LimitCodes
<1>11. CASE IncludeUnresolved
  <2>1. {"E2102", "P2100"} \subseteq Quiet
    BY QuietCodes
  <2> QED
    BY <1>11, <2>1, ReportSaid DEF IncludeUnresolved
<1>12. CASE \E seen, read \in Sizes : Include(seen, read)
  <2>1. Silent \/ \E hit \in Hits : Enters(hit.file, Moved)
    BY <1>12 DEF Include
  <2> QED
    BY <2>1, SayingNothing, EnteringSaid
<1>13. CASE Pack
  BY <1>13, ReportSaid, QuietCodes DEF Pack
<1>14. CASE Reported
  <2>1. Current \in Line /\ Current.op = "report"
    BY <1>14, FrameTypes DEF Reported, Directive, WalkInv
  <2>2. Current.arg \in Quiet
    BY <2>1, LineTypes, QuietCodes
  <2> QED
    BY <1>14, <2>2, ReportSaid DEF Reported
<1>15. CASE WriteToken
  BY <1>15, LimitHitSaid, SayingNothing DEF WriteToken, LimitCodes
<1> QED
  BY <1>1, <1>2, <1>3, <1>4, <1>5, <1>6, <1>7, <1>8, <1>9, <1>10, <1>11, <1>12, <1>13, <1>14,
     <1>15 DEF Step

-----------------------------------------------------------------------------
(* The macro table *)

LEMMA TableKept ==
  ASSUME TableInv, Says, UNCHANGED config, UNCHANGED macroVars
  PROVE  TableInv'
<1>1. TableTypeOK' /\ Len(defs') <= MaxDefinitions'
  BY DEF TableInv, TableTypeOK, macroVars, MaxDefinitions
<1>2. \A n \in Names : BodyOf(active[n])' = BodyOf(active[n])
  BY DEF BodyOf, program, macroVars
<1>3. {"E2111", "P2110"} \subseteq Codes
  BY DEF Codes
<1> QED
  BY <1>1, <1>2, <1>3 DEF TableInv, Says, macroVars

\* A definition says what it may not do.
LEMMA DefinitionSaid ==
  ASSUME SaidInv, NEW differs \in BOOLEAN, NEW pastes \in BOOLEAN,
         issues' = issues \o DefinitionIssues(differs, pastes)
  PROVE  /\ differs => IsIssue("P2110")'
         /\ pastes => IsIssue("E2111")'
<1> DEFINE s == IF differs THEN <<"P2110">> ELSE <<>>
           t == IF pastes THEN <<"E2111">> ELSE <<>>
<1>1. s \in Seq(Codes) /\ t \in Seq(Codes)
  <2>1. <<"P2110">> \in Seq(Codes) /\ <<"E2111">> \in Seq(Codes)
    BY DEF Codes
  <2> QED
    BY <2>1
<1>2. /\ s \o t \in Seq(Codes) /\ Len(s \o t) = Len(s) + Len(t)
      /\ \A i \in 1..(Len(s) + Len(t)) :
           (s \o t)[i] = IF i <= Len(s) THEN s[i] ELSE t[i - Len(s)]
  BY <1>1, ConcatProperties
<1>3. /\ Len(issues) \in Nat /\ Len(issues') = Len(issues) + Len(s \o t)
      /\ \A i \in 1..Len(s \o t) : issues'[Len(issues) + i] = (s \o t)[i]
  <2>1. issues' = issues \o (s \o t) /\ issues \in Seq(Codes)
    BY DEF DefinitionIssues, SaidInv
  <2> HIDE DEF s, t
  <2>2. Len(issues) \in Nat /\ Len(s \o t) \in Nat
    BY <1>2, <2>1, LenProperties
  <2> QED
    BY <1>2, <2>1, <2>2, ConcatProperties
<1>4. ASSUME differs
      PROVE  IsIssue("P2110")'
  <2>1. Len(s) = 1 /\ s[1] = "P2110" /\ Len(t) \in Nat
    BY <1>1, <1>4, LenProperties
  <2>2. 1 \in 1..Len(s \o t) /\ (s \o t)[1] = "P2110" /\ Len(s \o t) \in Nat
    BY <1>2, <2>1
  <2>3. Len(issues) + 1 \in 1..Len(issues') /\ issues'[Len(issues) + 1] = "P2110"
    BY <1>3, <2>2
  <2> QED
    BY <2>3 DEF IsIssue
<1>5. ASSUME pastes
      PROVE  IsIssue("E2111")'
  <2>1. Len(t) = 1 /\ t[1] = "E2111" /\ Len(s) \in Nat
    BY <1>1, <1>5, LenProperties
  <2> DEFINE k == Len(s) + 1
  <2>2. k \in 1..Len(s \o t) /\ (s \o t)[k] = "E2111" /\ Len(s \o t) \in Nat
    BY <1>2, <2>1
  <2>3. Len(issues) + k \in 1..Len(issues') /\ issues'[Len(issues) + k] = "E2111"
    BY <1>3, <2>2
  <2> QED
    BY <2>3 DEF IsIssue
<1> QED
  BY <1>4, <1>5
LEMMA DefiningTable ==
  ASSUME ConfigInv, SaidInv, TableInv, Says, UNCHANGED config,
         NEW n \in Names, NEW d \in Sites, Defines(n, d)
  PROVE  TableInv'
<1> DEFINE differs == active[n] # None /\ BodyOf(active[n]) # BodyOf(d)
           pastes  == BodyOf(d) \in Pastes
           entry   == [name |-> n, at |-> d]
<1>1. CASE Len(defs) >= MaxDefinitions
  BY <1>1, TableKept DEF Defines
<1>2. CASE ~(Len(defs) >= MaxDefinitions)
  <2>1. /\ inconsistent' = IF differs THEN inconsistent \cup {n} ELSE inconsistent
        /\ pasting' = IF pastes THEN pasting \cup {n} ELSE pasting
        /\ issues' = issues \o DefinitionIssues(differs, pastes)
        /\ defs' = Append(defs, entry)
        /\ active' = [active EXCEPT ![n] = d]
    BY <1>2 DEF Defines
  <2>2. /\ Len(defs) \in Nat /\ MaxDefinitions \in Nat
        /\ Len(defs') = Len(defs) + 1 /\ defs'[Len(defs) + 1] = entry
        /\ \A i \in 1..Len(defs) : defs'[i] = defs[i]
        /\ defs' \in Seq([name : Names, at : Sites])
    <3>1. defs \in Seq([name : Names, at : Sites]) /\ entry \in [name : Names, at : Sites]
      BY DEF TableInv, TableTypeOK
    <3> HIDE DEF entry
    <3> QED
      BY <2>1, <3>1, LenProperties, AppendProperties, LimitTypes
  <2>3. TableTypeOK'
    BY <2>1, <2>2 DEF TableInv, TableTypeOK
  <2>4. Len(defs') <= MaxDefinitions'
    BY <1>2, <2>2 DEF MaxDefinitions
  <2>5. \A x : BodyOf(x)' = BodyOf(x)
    BY DEF BodyOf, program
  <2>6. ASSUME NEW m \in Names, active'[m] # None
        PROVE  /\ \E i \in 1..Len(defs') : defs'[i] = [name |-> m, at |-> active'[m]]
               /\ BodyOf(active'[m]) \in Pastes => m \in pasting'
    <3>1. CASE m = n
      <4>1. active'[m] = d
        BY <2>1, <3>1 DEF TableInv, TableTypeOK
      <4>2. Len(defs) + 1 \in 1..Len(defs')
        BY <2>2
      <4> QED
        BY <2>1, <2>2, <3>1, <4>1, <4>2
    <3>2. CASE m # n
      <4>1. active'[m] = active[m]
        BY <2>1, <3>2 DEF TableInv, TableTypeOK
      <4>2. PICK i \in 1..Len(defs) : defs[i] = [name |-> m, at |-> active[m]]
        BY <2>6, <4>1 DEF TableInv
      <4>3. i \in 1..Len(defs') /\ defs'[i] = [name |-> m, at |-> active'[m]]
        BY <2>2, <4>1, <4>2
      <4>4. BodyOf(active'[m]) \in Pastes => m \in pasting'
        BY <2>1, <2>6, <4>1 DEF TableInv
      <4> QED
        BY <4>3, <4>4
    <3> QED
      BY <3>1, <3>2
  <2>7. (differs => IsIssue("P2110")') /\ (pastes => IsIssue("E2111")')
    <3>1. differs \in BOOLEAN /\ pastes \in BOOLEAN
      OBVIOUS
    <3> HIDE DEF differs, pastes
    <3> QED
      BY <2>1, <3>1, DefinitionSaid
  <2>8. pasting' # {} => IsIssue("E2111")'
    <3>1. CASE pastes
      BY <2>7, <3>1
    <3>2. CASE ~pastes
      BY <2>1, <3>2 DEF TableInv, Says, Codes
    <3> QED
      BY <3>1, <3>2
  <2>9. inconsistent' # {} => IsIssue("P2110")'
    <3>1. CASE differs
      BY <2>7, <3>1
    <3>2. CASE ~differs
      BY <2>1, <3>2 DEF TableInv, Says, Codes
    <3> QED
      BY <3>1, <3>2
  <2> QED
    BY <2>3, <2>4, <2>5, <2>6, <2>8, <2>9 DEF TableInv
<1> QED
  BY <1>1, <1>2

LEMMA UndefiningTable ==
  ASSUME TableInv, Says, UNCHANGED config, NEW n \in Names, Undefines(n)
  PROVE  TableInv'
<1>1. /\ active' = [active EXCEPT ![n] = None]
      /\ UNCHANGED <<defs, inconsistent, pasting>>
  BY DEF Undefines
<1>2. TableTypeOK' /\ Len(defs') <= MaxDefinitions'
  BY <1>1 DEF TableInv, TableTypeOK, MaxDefinitions
<1>3. \A x : BodyOf(x)' = BodyOf(x)
  BY DEF BodyOf, program
<1>4. ASSUME NEW m \in Names, active'[m] # None
      PROVE  active'[m] = active[m]
  BY <1>1, <1>4 DEF TableInv, TableTypeOK
<1>5. {"E2111", "P2110"} \subseteq Codes
  BY DEF Codes
<1> QED
  BY <1>1, <1>2, <1>3, <1>4, <1>5 DEF TableInv, Says

\* The macro in force stays recorded, whatever redefines or removes it.
LEMMA TableStep ==
  ASSUME IInv, [Step]_vars
  PROVE  TableInv'
<1> USE DEF IInv
<1>1. UNCHANGED config /\ Says
  BY Footprints, SaidStep
<1>2. CASE UNCHANGED macroVars
  BY <1>1, <1>2, TableKept
<1>3. CASE Predefine
  <2> DEFINE line == program[CommandLine][todo]
  <2>1. program[CommandLine] \in Seq(Line)
    BY DEF ConfigInv
  <2>2. todo \in 1..Len(program[CommandLine])
    BY <1>3, <2>1, LenProperties DEF Predefine, WalkInv
  <2>3. line \in Line
    BY <2>1, <2>2, ElementOfSeq
  <2>4. Definition(CommandLine, todo) \in Sites
    BY DEF Definition, Sites, WalkInv
  <2>5. \/ line.op = "define" /\ Defines(line.arg, Definition(CommandLine, todo))
        \/ line.op = "undef" /\ Undefines(line.arg)
    BY <1>3 DEF Predefine
  <2>6. line.arg \in Names
    BY <2>3, <2>5, LineTypes
  <2> QED
    BY <1>1, <2>4, <2>5, <2>6, DefiningTable, UndefiningTable
<1>4. CASE Define \/ Undef
  <2>1. frames # <<>> /\ pc = "directive" /\ Current.op \in {"define", "undef"}
    BY <1>4 DEF Define, Undef, Directive
  <2>2. Current.arg \in Names /\ Here \in Sites
    BY <2>1, FrameTypes, LineTypes DEF WalkInv
  <2> QED
    BY <1>1, <1>4, <2>2, DefiningTable, UndefiningTable DEF Define, Undef
<1> QED
  BY <1>2, <1>3, <1>4, Footprints

-----------------------------------------------------------------------------
(* The counters and their limits *)

LEMMA LimitsStay ==
  ASSUME UNCHANGED config
  PROVE  /\ MaxFileBytes' = MaxFileBytes /\ MaxTotalBytes' = MaxTotalBytes
         /\ MaxDepth' = MaxDepth /\ MaxIncludes' = MaxIncludes
         /\ MaxDefinitions' = MaxDefinitions /\ MaxExpansions' = MaxExpansions
         /\ MaxTokens' = MaxTokens /\ MaxGenerated' = MaxGenerated
BY DEF MaxFileBytes, MaxTotalBytes, MaxDepth, MaxIncludes, MaxDefinitions, MaxExpansions,
       MaxTokens, MaxGenerated

LEMMA FlushCounts ==
  ASSUME ConfigInv, WalkInv, CountInv, NEW after, Flushes(after)
  PROVE  /\ expansions' \in Nat /\ tokens' \in Nat
         /\ ~stopped' => ~stopped /\ expansions' <= MaxExpansions /\ tokens' <= MaxTokens
<1>1. CASE pending = <<>> \/ stopped
  BY <1>1 DEF Flushes, CountInv
<1>2. CASE pending # <<>> /\ ~stopped
  <2>1. Len(pending) \in Nat
    BY LenProperties DEF WalkInv
  <2>2. Invocations \in Nat
    <3>1. {i \in 1..Len(pending) : Expanded[i].def # None} \subseteq 1..Len(pending)
      OBVIOUS
    <3>2. IsFiniteSet(1..Len(pending))
      BY <2>1, FS_Interval
    <3> QED
      BY <3>1, <3>2, FS_Subset, FS_CardinalityType DEF Invocations
  <2>3. PICK hit : /\ hit = IF expansions + Invocations > MaxExpansions THEN <<"E2206">>
                            ELSE IF tokens + Len(pending) > MaxTokens THEN <<"E2205">>
                            ELSE <<>>
                   /\ expansions' = Smaller(expansions + Invocations, MaxExpansions + 1)
                   /\ tokens' = tokens + Len(pending)
                   /\ stopped' = (hit # <<>>)
    BY <1>2 DEF Flushes
  <2>4. MaxExpansions \in Nat /\ MaxTokens \in Nat /\ expansions \in Nat /\ tokens \in Nat
    BY LimitTypes DEF CountInv
  <2>5. expansions' \in Nat /\ tokens' \in Nat
    BY <2>1, <2>2, <2>3, <2>4 DEF Smaller
  <2>6. ~stopped' => expansions + Invocations <= MaxExpansions
                     /\ tokens + Len(pending) <= MaxTokens
    <3>1. <<"E2206">> # <<>> /\ <<"E2205">> # <<>>
      OBVIOUS
    <3>2. ~stopped' => ~(expansions + Invocations > MaxExpansions)
                       /\ ~(tokens + Len(pending) > MaxTokens)
      BY <2>3, <3>1, Zenon
    <3> QED
      BY <2>1, <2>2, <2>4, <3>2
  <2> QED
    BY <1>2, <2>2, <2>3, <2>4, <2>5, <2>6 DEF Smaller
<1> QED
  BY <1>1, <1>2

LEMMA EvaluationCounts ==
  ASSUME ConfigInv, CountInv, SaidInv, Current.calls \in Nat, NEW after, Evaluates(after)
  PROVE  /\ expansions' \in Nat
         /\ ~stopped' => ~stopped /\ expansions' <= MaxExpansions
<1>1. MaxExpansions \in Nat /\ expansions \in Nat /\ stopped \in BOOLEAN
  BY LimitTypes DEF CountInv, SaidInv
<1>2. ~stopped' => ~stopped /\ ~(expansions + Current.calls > MaxExpansions)
  BY DEF Evaluates, Cut, Overruns
<1>3. expansions' = IF stopped THEN expansions
                    ELSE Smaller(expansions + Current.calls, MaxExpansions + 1)
  BY DEF Evaluates
<1> QED
  BY <1>1, <1>2, <1>3 DEF Smaller

LEMMA EnteringCounts ==
  ASSUME ConfigInv, CountInv, SaidInv, NEW f \in Files, NEW below \in Seq(Reading),
         Len(below) <= MaxDepth + 1, Enters(f, below)
  PROVE  /\ Len(frames') <= MaxDepth + 1
         /\ tokens' \in Nat
         /\ ~stopped' => ~stopped /\ tokens' <= MaxTokens
<1>1. /\ MaxDepth \in Nat /\ MaxTokens \in Nat /\ tokens \in Nat /\ Len(below) \in Nat
      /\ ~stopped => tokens <= MaxTokens
  BY LimitTypes, LenProperties DEF CountInv
<1>2. Len(frames') <= MaxDepth + 1
  BY <1>1, EntersTypes
<1>3. Len(program[f]) \in Nat
  <2>1. program[f] \in Seq(Line)
    BY DEF ConfigInv
  <2> QED
    BY <2>1, LenProperties
<1>4. \/ UNCHANGED <<tokens, stopped>>
      \/ stopped' = TRUE /\ UNCHANGED tokens
      \/ tokens' = tokens + Len(program[f]) + 1 /\ stopped' = TRUE
      \/ /\ tokens' = tokens + Len(program[f]) + 1 /\ UNCHANGED stopped
         /\ ~(tokens' > MaxTokens)
  BY DEF Enters, LimitHit
<1> QED
  BY <1>1, <1>2, <1>3, <1>4

\* What is loaded fits, however the file grew while it was read.
LEMMA LoadingCounts ==
  ASSUME ConfigInv, CountInv, NEW f, NEW seen \in Nat, NEW read \in Nat, NEW role,
         LoadError(f, seen, read) = "none", Loads(f, read, role)
  PROVE  total' \in Nat /\ total' <= MaxTotalBytes
<1>1. MaxFileBytes \in Nat /\ MaxTotalBytes \in Nat /\ total \in Nat /\ total <= MaxTotalBytes
  BY LimitTypes DEF CountInv
<1>2. CASE Cached(f)
  BY <1>1, <1>2 DEF Loads
<1>3. CASE ~Cached(f)
  <2>1. ~(read > Smaller(MaxFileBytes, MaxTotalBytes - total))
    BY <1>3 DEF LoadError
  <2>2. total' = total + read
    BY <1>3 DEF Loads
  <2> QED
    BY <1>1, <2>1, <2>2 DEF Smaller
<1> QED
  BY <1>2, <1>3

\* No step takes a counter past its limit unless the scan has stopped.
LEMMA CountStep ==
  ASSUME IInv, [Step]_vars
  PROVE  CountInv'
<1> USE DEF IInv
<1>1. UNCHANGED config
  BY Footprints
<1> SUFFICES
      /\ total' \in Nat /\ includes' \in Nat /\ expansions' \in Nat /\ tokens' \in Nat
      /\ error' \in LoadCodes \cup {"none", "unmapped"}
      /\ total' <= MaxTotalBytes
      /\ Len(frames') <= MaxDepth + 1
      /\ ~stopped' => /\ includes' <= MaxIncludes
                      /\ expansions' <= MaxExpansions /\ tokens' <= MaxTokens
  BY <1>1, LimitsStay DEF CountInv
<1>2. CASE UNCHANGED vars
  BY <1>2 DEF vars, loadVars, CountInv
<1>3. CASE Predefine
  <2>1. ~stopped' => ~stopped
    BY <1>3 DEF Predefine, Defines, LimitHit
  <2> QED
    BY <1>3, <2>1 DEF Predefine, loadVars, CountInv
<1>4. CASE Predefined \/ Loaded \/ Processed \/ WriteMark \/ Return \/ ReadText
  <2>1. CASE ReadText
    <3>1. Len(frames') = Len(frames)
      BY <2>1, MovedTypes DEF ReadText
    <3> QED
      BY <2>1, <3>1 DEF ReadText, loadVars, CountInv
  <2>2. CASE ~ReadText
    BY <1>4, <2>2 DEF Predefined, Loaded, Processed, WriteMark, Return, loadVars, CountInv
  <2> QED
    BY <2>1, <2>2
<1>5. CASE \E seen, read \in Sizes : LoadRoot(seen, read)
  <2>1. PICK seen \in Sizes, read \in Sizes : LoadRoot(seen, read)
    BY <1>5
  <2>2. seen \in Nat /\ read \in Nat
    BY DEF ConfigInv
  <2> DEFINE f == (Entries \o Forced)[todo]
             code == LoadError(f, seen, read)
  <2>3. code \in LoadCodes \cup {"none", "unmapped"}
    BY DEF LoadError, LoadCodes
  <2>4. total' \in Nat /\ total' <= MaxTotalBytes /\ error' \in LoadCodes \cup {"none", "unmapped"}
    <3>1. CASE code = "none"
      BY <2>1, <2>2, <3>1, LoadingCounts DEF LoadRoot, CountInv
    <3>2. CASE code # "none"
      BY <2>1, <2>3, <3>2 DEF LoadRoot, Fails, loadVars, CountInv
    <3> QED
      BY <3>1, <3>2
  <2>5. UNCHANGED <<frames, includes, expansions, tokens, stopped>>
    BY <2>1 DEF LoadRoot
  <2> QED
    BY <2>4, <2>5 DEF CountInv
<1>6. CASE ProcessRoot
  <2>1. (Forced \o Entries)[todo] \in Files
    BY <1>6, ConcatProperties, ElementOfSeq DEF ProcessRoot, ConfigInv, WalkInv
  <2>2. Len(<<>>) <= MaxDepth + 1 /\ <<>> \in Seq(Reading)
    BY LimitTypes
  <2>3. Enters((Forced \o Entries)[todo], <<>>)
    BY <1>6 DEF ProcessRoot
  <2>4. /\ Len(frames') <= MaxDepth + 1 /\ tokens' \in Nat
        /\ ~stopped' => ~stopped /\ tokens' <= MaxTokens
    BY <2>1, <2>2, <2>3, EnteringCounts
  <2> QED
    BY <1>6, <2>4 DEF ProcessRoot, loadVars, CountInv
<1>7. CASE BeginDirective \/ EndFile
  <2>1. /\ expansions' \in Nat /\ tokens' \in Nat
        /\ ~stopped' => ~stopped /\ expansions' <= MaxExpansions /\ tokens' <= MaxTokens
    BY <1>7, FlushCounts DEF BeginDirective, EndFile
  <2>2. Len(frames') <= MaxDepth + 1
    <3>1. Len(frames) \in Nat /\ MaxDepth \in Nat
      BY LimitTypes, LenProperties DEF WalkInv
    <3>2. frames' = frames \/ Len(frames') = Len(frames) - 1
      BY <1>7, FrameTypes DEF BeginDirective, EndFile
    <3> QED
      BY <3>1, <3>2 DEF CountInv
  <2> QED
    BY <1>7, <2>1, <2>2 DEF BeginDirective, EndFile, loadVars, CountInv
<1>8. CASE OpenIf \/ Elif \/ Else \/ Endif
  <2>1. Len(frames') = Len(frames)
    BY <1>8, ConditionalSteps
  <2>2. expansions' \in Nat /\ (~stopped' => ~stopped /\ expansions' <= MaxExpansions)
    <3>1. \/ UNCHANGED <<expansions, stopped>>
          \/ Current.op \in {"if", "elif"} /\ \E after : Evaluates(after)
      BY <1>8 DEF OpenIf, Elif, Else, Endif, Directive, Unmatched, Malformed
    <3>2. Current \in Line
      BY <1>8, FrameTypes DEF OpenIf, Elif, Else, Endif, Directive, WalkInv
    <3> QED
      BY <3>1, <3>2, LineTypes, EvaluationCounts DEF CountInv
  <2> QED
    BY <1>8, <2>1, <2>2 DEF OpenIf, Elif, Else, Endif, loadVars, CountInv
<1>9. CASE Skip \/ Define \/ Undef \/ Once \/ Pack \/ Reported
  <2>1. Len(frames') = Len(frames)
    BY <1>9, MovedTypes DEF Skip, Define, Undef, Once, Pack, Reported, Directive
  <2>2. ~stopped' => ~stopped
    BY <1>9 DEF Skip, Define, Undef, Once, Pack, Reported, Defines, LimitHit
  <2> QED
    BY <1>9, <2>1, <2>2
       DEF Skip, Define, Undef, Once, Pack, Reported, loadVars, CountInv
<1>10. CASE IncludeNothing
  <2>1. /\ frames # <<>> /\ pc = "directive" /\ Current.op = "include"
        /\ Len(frames') = Len(frames) /\ Evaluates(<<"P2106">>)
    BY <1>10, MovedTypes DEF IncludeNothing, Including, Directive
  <2>2. Current.calls \in Nat
    BY <2>1, FrameTypes, LineTypes DEF WalkInv
  <2>3. expansions' \in Nat /\ (~stopped' => ~stopped /\ expansions' <= MaxExpansions)
    BY <2>1, <2>2, EvaluationCounts
  <2> QED
    BY <1>10, <2>1, <2>3 DEF IncludeNothing, loadVars, CountInv
<1>11. ASSUME Counted
       PROVE  /\ includes' \in Nat /\ expansions' \in Nat
              /\ ~stopped => expansions' <= MaxExpansions
              /\ frames # <<>> /\ Including
  <2>1. frames # <<>> /\ pc = "directive" /\ Current.op = "include" /\ Including
    BY <1>11 DEF Counted, Including, Directive
  <2>2. Current.calls \in Nat /\ MaxExpansions \in Nat
    BY <2>1, FrameTypes, LineTypes, LimitTypes DEF WalkInv
  <2>3. includes' = includes + 1 /\ expansions' = expansions + Current.calls
    BY <1>11 DEF Counted
  <2>4. ~stopped => expansions' <= MaxExpansions
    <3>1. CASE Current.calls > 0
      BY <1>11, <2>2, <2>3, <3>1 DEF Counted, Spelled, Computed, Cut, Overruns, CountInv
    <3>2. CASE Current.calls = 0
      BY <2>3, <3>2 DEF CountInv
    <3> QED
      BY <2>2, <3>1, <3>2
  <2> QED
    BY <2>1, <2>2, <2>3, <2>4 DEF CountInv
<1>12. CASE IncludeTooMany
  BY <1>11, <1>12, MovedTypes DEF IncludeTooMany, LimitHit, loadVars, CountInv
<1>13. CASE IncludeUnresolved
  BY <1>11, <1>13, MovedTypes DEF IncludeUnresolved, loadVars, CountInv
<1>14. CASE \E seen, read \in Sizes : Include(seen, read)
  <2>1. PICK seen \in Sizes, read \in Sizes : Include(seen, read)
    BY <1>14
  <2>2. seen \in Nat /\ read \in Nat
    BY DEF ConfigInv
  <2>3. Counted /\ includes' <= MaxIncludes
    BY <2>1 DEF Include
  <2>4. PICK hit \in Hits :
          IF IncludeError(hit.file, seen, read) = "none"
          THEN /\ Loads(hit.file, read, hit.role)
               /\ Enters(hit.file, Moved)
               /\ UNCHANGED error
          ELSE /\ Fails(IncludeError(hit.file, seen, read))
               /\ UNCHANGED <<loadVars, frames, tokens, stopped>>
    BY <2>1 DEF Include
  <2> DEFINE code == IncludeError(hit.file, seen, read)
  <2>5. code \in LoadCodes \cup {"none", "unmapped"}
    BY DEF IncludeError, LoadError, LoadCodes
  <2>6. hit.file \in Files /\ Moved \in Seq(Reading) /\ Len(Moved) = Len(frames)
    BY <1>11, <2>3, IncludedTypes, MovedTypes
  <2>7. CASE code = "none"
    <3>1. LoadError(hit.file, seen, read) = "none"
      BY <2>7 DEF IncludeError
    <3>2. total' \in Nat /\ total' <= MaxTotalBytes
      BY <2>2, <2>4, <2>7, <3>1, LoadingCounts
    <3>3. /\ Len(frames') <= MaxDepth + 1 /\ tokens' \in Nat
          /\ ~stopped' => ~stopped /\ tokens' <= MaxTokens
      BY <2>4, <2>6, <2>7, EnteringCounts DEF CountInv
    <3> QED
      BY <1>11, <2>3, <2>4, <2>7, <3>2, <3>3 DEF CountInv
  <2>8. CASE code # "none"
    BY <1>11, <2>3, <2>4, <2>5, <2>8 DEF Fails, loadVars, CountInv
  <2> QED
    BY <2>7, <2>8
<1>15. CASE WriteToken
  <2>1. ~stopped' => ~stopped
    BY <1>15 DEF WriteToken, LimitHit
  <2> QED
    BY <1>15, <2>1 DEF WriteToken, loadVars, CountInv
<1> QED
  BY <1>2, <1>3, <1>4, <1>5, <1>6, <1>7, <1>8, <1>9, <1>10, <1>12, <1>13, <1>14, <1>15 DEF Step

-----------------------------------------------------------------------------
(* What is loaded, how records are packed, and the text *)

LEMMA LoadingTypes ==
  ASSUME LoadTypeOK, NEW f \in Files, NEW role \in Roles, NEW read, Loads(f, read, role)
  PROVE  /\ DOMAIN loaded' \subseteq Files \ Builtins
         /\ \A g \in DOMAIN loaded' : loaded'[g] \in Roles
<1>1. CASE Cached(f)
  BY <1>1 DEF Loads, LoadTypeOK
<1>2. CASE ~Cached(f)
  BY <1>2 DEF Loads, LoadTypeOK, Cached
<1> QED
  BY <1>1, <1>2

LEMMA LoadStep ==
  ASSUME IInv, [Step]_vars
  PROVE  LoadTypeOK'
<1> USE DEF IInv
<1> DEFINE Credits == {<<Layout.roots[i].dir, f>> : i \in DOMAIN Layout.roots, f \in Files}
<1>1. Credits' = Credits
  BY Footprints DEF Layout
<1> SUFFICES /\ DOMAIN loaded' \subseteq Files \ Builtins
             /\ \A g \in DOMAIN loaded' : loaded'[g] \in Roles
             /\ used' \in SUBSET Credits
  BY <1>1 DEF LoadTypeOK
<1>2. CASE UNCHANGED loadVars
  BY <1>2 DEF loadVars, LoadTypeOK
<1>3. CASE \E seen, read \in Sizes : LoadRoot(seen, read)
  <2>1. PICK seen \in Sizes, read \in Sizes : LoadRoot(seen, read)
    BY <1>3
  <2> DEFINE f == (Entries \o Forced)[todo]
             role == IF todo <= Len(Entries) THEN "entry" ELSE "user"
  <2>2. f \in Files /\ role \in Roles
    BY <2>1, ConcatProperties, ElementOfSeq DEF LoadRoot, ConfigInv, WalkInv, Roles, Kinds
  <2>3. UNCHANGED loadVars \/ (Loads(f, read, role) /\ UNCHANGED used)
    BY <2>1 DEF LoadRoot
  <2> HIDE DEF f, role
  <2> QED
    BY <1>2, <2>2, <2>3, LoadingTypes DEF LoadTypeOK
<1>4. CASE \E seen, read \in Sizes : Include(seen, read)
  <2>1. PICK seen \in Sizes, read \in Sizes : Include(seen, read)
    BY <1>4
  <2>2. Including
    BY <2>1 DEF Include, Counted
  <2>3. PICK hit \in Hits :
          \/ UNCHANGED loadVars
          \/ /\ Loads(hit.file, read, hit.role)
             /\ used' = IF hit.root = 0 THEN used
                        ELSE used \cup {<<Layout.roots[hit.root].dir, hit.file>>}
    BY <2>1 DEF Include
  <2>4. /\ hit.file \in Files /\ hit.role \in Roles
        /\ hit.root \in {0} \cup DOMAIN Layout.roots
    BY <2>2, IncludedTypes
  <2>5. CASE ~UNCHANGED loadVars
    <3>1. used' \in SUBSET Credits
      BY <2>3, <2>4, <2>5 DEF LoadTypeOK
    <3> QED
      BY <2>3, <2>4, <2>5, <3>1, LoadingTypes
  <2> QED
    BY <1>2, <2>5
<1> QED
  BY <1>2, <1>3, <1>4, Footprints

LEMMA PackStep ==
  ASSUME IInv, [Step]_vars
  PROVE  PackTypeOK'
<1> USE DEF IInv
<1>1. CASE UNCHANGED packVars
  BY <1>1 DEF packVars, PackTypeOK
<1>2. CASE Pack
  <2>1. Current \in Line /\ Current.op = "pack" /\ Packs(Current.arg, Current.width)
    BY <1>2, FrameTypes DEF Pack, Directive, WalkInv
  <2>2. Current.arg \in PackForms /\ Current.width \in Widths
    BY <2>1, LineTypes
  <2>3. /\ packing \in Packing /\ packStack \in Seq(Packing)
        /\ packStack # <<>> => Head(packStack) \in Packing /\ Tail(packStack) \in Seq(Packing)
    BY HeadTailProperties DEF PackTypeOK
  <2>4. packing' \in Packing
    BY <2>1, <2>2, <2>3 DEF Packs, PackForms, Packing
  <2>5. <<packing>> \o packStack \in Seq(Packing)
    BY <2>3, ConcatProperties
  <2>6. packStack' \in Seq(Packing)
    BY <2>1, <2>3, <2>5 DEF Packs
  <2> QED
    BY <2>4, <2>6 DEF PackTypeOK
<1> QED
  BY <1>1, <1>2, Footprints

LEMMA OutputStep ==
  ASSUME IInv, [Step]_vars
  PROVE  output' \in Seq([mark : {TRUE}, width : Packing]
                           \cup [mark : {FALSE}, at : Sites, def : Sites \cup {None}])
<1> USE DEF IInv
<1> DEFINE Token == [mark : {FALSE}, at : Sites, def : Sites \cup {None}]
           Mark  == [mark : {TRUE}, width : Packing]
<1>1. output \in Seq(Mark \cup Token)
  BY DEF TextInv, TextTypeOK
<1>2. CASE UNCHANGED output
  BY <1>1, <1>2
<1>3. CASE Pack
  <2>1. [mark |-> TRUE, width |-> packing'] \in Mark \cup Token
    BY PackStep DEF PackTypeOK
  <2>2. \/ UNCHANGED output
        \/ output' = Append(output, [mark |-> TRUE, width |-> packing'])
    BY <1>3 DEF Pack
  <2> HIDE DEF Mark, Token
  <2>3. output' \in Seq(Mark \cup Token)
    BY <1>1, <2>1, <2>2, AppendProperties
  <2> QED
    BY <2>3 DEF Mark, Token
<1>4. CASE BeginDirective \/ EndFile
  <2>1. Len(pending) \in Nat
    BY LenProperties DEF WalkInv
  <2>2. ASSUME NEW i \in 1..Len(pending)
        PROVE  [mark |-> FALSE, at |-> pending[i].at, def |-> DefinitionOf(pending[i].name)]
                 \in Mark \cup Token
    <3>1. pending[i] \in [name : Names \cup {"#"}, at : Sites]
      BY ElementOfSeq DEF WalkInv
    <3>2. DefinitionOf(pending[i].name) \in Sites \cup {None}
      BY DEF DefinitionOf, TableInv, TableTypeOK
    <3> QED
      BY <3>1, <3>2
  <2>3. Expanded \in Seq(Mark \cup Token)
    <3> HIDE DEF Mark, Token
    <3>1. Expanded \in [1..Len(pending) -> Mark \cup Token]
      BY <2>2 DEF Expanded
    <3> QED
      BY <2>1, <3>1, SeqDef
  <2>4. UNCHANGED output \/ output' = output \o Expanded
    BY <1>4 DEF BeginDirective, EndFile, Flushes
  <2> HIDE DEF Mark, Token
  <2>5. output' \in Seq(Mark \cup Token)
    BY <1>1, <2>3, <2>4, ConcatProperties
  <2> QED
    BY <2>5 DEF Mark, Token
<1> QED
  BY <1>2, <1>3, <1>4, Footprints

\* A range of packed text ends where the text does.
LEMMA ClosingTypes ==
  ASSUME TextTypeOK, Closes
  PROVE  packed' \in Seq([from : Nat, to : Nat, width : Widths])
<1> DEFINE Packed == [from : Nat, to : Nat, width : Widths]
<1>1. packed \in Seq(Packed) /\ Len(text) \in Nat
  BY LenProperties DEF TextTypeOK
<1>2. CASE since = None
  BY <1>1, <1>2 DEF Closes
<1>3. CASE since # None
  <2> DEFINE new == [from |-> since.from, to |-> Len(text), width |-> since.width]
  <2>1. new \in Packed
    BY <1>1, <1>3 DEF TextTypeOK
  <2>2. packed' = Append(packed, new)
    BY <1>3 DEF Closes
  <2> HIDE DEF new, Packed
  <2>3. packed' \in Seq(Packed)
    BY <1>1, <2>1, <2>2, AppendProperties
  <2> QED
    BY <2>3 DEF Packed
<1> QED
  BY <1>2, <1>3

LEMMA TextStep ==
  ASSUME IInv, [Step]_vars
  PROVE  TextInv'
<1> USE DEF IInv
<1> DEFINE Words == [at : Sites, def : Sites \cup {None}]
<1>1. /\ text \in Seq(Words) /\ since \in [from : Nat, width : Widths] \cup {None}
      /\ packed \in Seq([from : Nat, to : Nat, width : Widths])
      /\ Len(text) \in Nat /\ Len(text) <= MaxGenerated /\ MaxGenerated \in Nat
  BY LimitTypes, LenProperties DEF TextInv, TextTypeOK
<1> SUFFICES /\ text' \in Seq(Words) /\ since' \in [from : Nat, width : Widths] \cup {None}
             /\ packed' \in Seq([from : Nat, to : Nat, width : Widths])
             /\ Len(text') <= MaxGenerated
  BY OutputStep, Footprints, LimitsStay DEF TextInv, TextTypeOK
<1>2. CASE UNCHANGED textVars
  BY <1>1, <1>2 DEF textVars
<1>3. todo <= Len(output) =>
        output[todo] \in [mark : {TRUE}, width : Packing]
                           \cup [mark : {FALSE}, at : Sites, def : Sites \cup {None}]
  <2> DEFINE Written == [mark : {TRUE}, width : Packing]
                          \cup [mark : {FALSE}, at : Sites, def : Sites \cup {None}]
  <2>1. output \in Seq(Written) /\ todo \in Nat \ {0}
    BY DEF TextInv, TextTypeOK, WalkInv
  <2> HIDE DEF Written
  <2>2. todo <= Len(output) => output[todo] \in Written
    BY <2>1, ElementOfSeq, LenProperties
  <2> QED
    BY <2>2 DEF Written
<1>4. CASE WriteMark
  <2>1. output[todo].width \in Packing
    BY <1>3, <1>4 DEF WriteMark, Texting
  <2>2. since' \in [from : Nat, width : Widths] \cup {None}
    BY <1>1, <1>4, <2>1 DEF WriteMark, Opened, Packing
  <2> QED
    BY <1>1, <1>4, <2>2, ClosingTypes DEF WriteMark, TextInv
<1>5. CASE WriteToken
  <2> DEFINE word == [at |-> output[todo].at, def |-> output[todo].def]
  <2>1. word \in Words
    BY <1>3, <1>5 DEF WriteToken, Texting
  <2>2. \/ UNCHANGED text
        \/ text' = Append(text, word) /\ ~(Len(text) + 1 > MaxGenerated)
    BY <1>5 DEF WriteToken
  <2> HIDE DEF word, Words
  <2>3. CASE text' = Append(text, word) /\ ~(Len(text) + 1 > MaxGenerated)
    <3>1. text' \in Seq(Words) /\ Len(text') = Len(text) + 1
      BY <1>1, <2>1, <2>3, AppendProperties
    <3> QED
      BY <1>1, <1>5, <2>3, <3>1 DEF WriteToken
  <2> QED
    BY <1>1, <1>5, <2>2, <2>3 DEF WriteToken
<1>6. CASE Return
  BY <1>1, <1>6, ClosingTypes DEF Return, TextInv
<1> QED
  BY <1>2, <1>4, <1>5, <1>6, Footprints

-----------------------------------------------------------------------------
(* The invariant *)

LEMMA Starts == Init => IInv
<1> SUFFICES ASSUME Init PROVE IInv
  OBVIOUS
<1>1. ConfigInv
  BY ConfigStarts
<1>2. WalkInv
  BY DEF Init, WalkInv
<1>3. SaidInv /\ PackTypeOK
  <2>1. issues = <<>> /\ stopped = FALSE /\ packing = None /\ packStack = <<>>
    BY DEF Init
  <2>2. 1..Len(issues) = {} /\ issues \in Seq(Codes)
    BY <2>1
  <2>3. SaidInv
    BY <2>1, <2>2 DEF SaidInv
  <2>4. PackTypeOK
    BY <2>1 DEF PackTypeOK, Packing
  <2> QED
    BY <2>3, <2>4
<1>4. LoadTypeOK
  BY DEF Init, LoadTypeOK
<1>5. TableInv /\ CountInv /\ TextInv
  BY <1>1, LimitTypes DEF Init, TableInv, TableTypeOK, CountInv, TextInv, TextTypeOK
<1> QED
  BY <1>1, <1>2, <1>3, <1>4, <1>5 DEF IInv

\* The parts of the invariant hold together, whatever is scanned.
THEOREM Invariance == Spec => []IInv
<1>1. Init => IInv
  BY Starts
<1>2. IInv /\ [Step]_vars => IInv'
  <2> SUFFICES ASSUME IInv, [Step]_vars PROVE IInv'
    OBVIOUS
  <2>1. ConfigInv'
    BY Footprints, ConfigStep DEF IInv
  <2> QED
    BY <2>1, WalkStep, SaidStep, TableStep, CountStep, LoadStep, PackStep, TextStep DEF IInv
<1> QED
  BY <1>1, <1>2, PTL DEF Spec

-----------------------------------------------------------------------------
(* The theorems *)

LEMMA TypesFollow == IInv => TypeOK
<1> SUFFICES ASSUME IInv PROVE TypeOK
  OBVIOUS
<1>1. WalkTypeOK
  <2>1. frames \in Seq(Frame)
    <3>1. Reading \subseteq Frame
      BY DEF Reading, Frame
    <3> QED
      BY <3>1, SeqMonotonic DEF IInv, WalkInv
  <2> QED
    BY <2>1 DEF IInv, WalkInv, WalkTypeOK
<1>2. TableTypeOK /\ LoadTypeOK /\ PackTypeOK /\ TextTypeOK
  BY DEF IInv, TableInv, TextInv
<1>3. CountTypeOK
  BY DEF IInv, CountInv, SaidInv, CountTypeOK
<1> QED
  BY <1>1, <1>2, <1>3 DEF TypeOK

\* Every variable keeps its type, for all programs and limits.
THEOREM TypesAreKept == Spec => []TypeOK
BY Invariance, TypesFollow, PTL

LEMMA BudgetsFollow == IInv => BudgetsKept
<1> SUFFICES ASSUME IInv PROVE BudgetsKept
  OBVIOUS
<1> USE DEF IInv
<1> DEFINE said == {i \in 1..Len(issues) : issues[i] \in LimitCodes}
<1>1. Cardinality(said) = IF stopped THEN 1 ELSE 0
  <2>1. CASE stopped
    <3>1. PICK k \in 1..Len(issues) :
            issues[k] \in LimitCodes /\ \A i \in 1..Len(issues) : issues[i] \in LimitCodes => i = k
      BY <2>1 DEF SaidInv
    <3>2. said = {k}
      BY <3>1
    <3> QED
      BY <2>1, <3>2, FS_Singleton
  <2>2. CASE ~stopped
    <3>1. said = {}
      BY <2>2 DEF SaidInv
    <3> QED
      BY <2>2, <3>1, FS_EmptySet
  <2> QED
    BY <2>1, <2>2
<1> QED
  BY <1>1 DEF BudgetsKept, CountInv, TableInv, TextInv

\* No budget is exceeded, and the first to be is reported once, for all
\* programs and limits and however files grow while they are read.
THEOREM BudgetsAreKept == Spec => []BudgetsKept
BY Invariance, BudgetsFollow, PTL

LEMMA InventoryFollows == IInv => InventoryIsActive
<1> SUFFICES ASSUME IInv PROVE InventoryIsActive
  OBVIOUS
<1> USE DEF IInv
<1>1. ASSUME NEW n \in Names
      PROVE  Cardinality({m \in Inventory : m.name = n}) = IF active[n] = None THEN 0 ELSE 1
  <2> DEFINE named == {m \in Inventory : m.name = n}
             entry == [name |-> n, at |-> active[n], support |-> Support(n)]
             Recorded == \E i \in 1..Len(defs) : defs[i] = [name |-> n, at |-> active[n]]
  <2>1. ASSUME NEW m \in named
        PROVE  m = entry /\ Recorded
    <3>1. PICK k \in Names :
            /\ m = [name |-> k, at |-> active[k], support |-> Support(k)]
            /\ \E i \in 1..Len(defs) : defs[i] = [name |-> k, at |-> active[k]]
      BY DEF Inventory
    <3>2. k = n
      BY <3>1
    <3> QED
      BY <3>1, <3>2
  <2>2. CASE active[n] = None
    <3>1. ASSUME NEW i \in 1..Len(defs), defs[i] = [name |-> n, at |-> active[n]]
          PROVE  FALSE
      <4>1. defs[i] \in [name : Names, at : Sites]
        BY ElementOfSeq DEF TableInv, TableTypeOK
      <4> QED
        BY <2>2, <3>1, <4>1, NoneAssumption
    <3>2. named = {}
      BY <2>1, <3>1
    <3> QED
      BY <2>2, <3>2, FS_EmptySet
  <2>3. CASE active[n] # None
    <3>1. \E i \in 1..Len(defs) : defs[i] = [name |-> n, at |-> active[n]]
      BY <2>3 DEF TableInv
    <3>2. named = {entry}
      <4>1. entry \in Inventory
        BY <3>1 DEF Inventory
      <4> QED
        BY <2>1, <4>1
    <3> QED
      BY <2>3, <3>2, FS_Singleton
  <2> QED
    BY <2>2, <2>3
<1>2. ASSUME NEW m \in Inventory
      PROVE  /\ m.at = active[m.name]
             /\ m.support = "supported" => BodyOf(m.at) \notin Pastes
             /\ m.support = "unsupported" => IsIssue("E2111")
             /\ m.support = "partial" => IsIssue("P2110")
  <2>1. PICK n \in Names :
          /\ m = [name |-> n, at |-> active[n], support |-> Support(n)]
          /\ \E i \in 1..Len(defs) : defs[i] = [name |-> n, at |-> active[n]]
    BY DEF Inventory
  <2>2. active[n] # None
    <3>1. PICK i \in 1..Len(defs) : defs[i] = [name |-> n, at |-> active[n]]
      BY <2>1
    <3>2. defs[i] \in [name : Names, at : Sites]
      BY ElementOfSeq DEF TableInv, TableTypeOK
    <3> QED
      BY <3>1, <3>2, NoneAssumption
  <2>3. BodyOf(active[n]) \in Pastes => n \in pasting
    BY <2>2 DEF TableInv
  <2> QED
    BY <2>1, <2>3 DEF Support, TableInv
<1> QED
  BY <1>1, <1>2 DEF InventoryIsActive

\* The inventory is the macros that are active, with what holds them back.
THEOREM InventoryStaysActive == Spec => []InventoryIsActive
BY Invariance, InventoryFollows, PTL

\* No if-section has two branches.
THEOREM BranchesStayExclusive == Spec => BranchesAreExclusive
<1>1. IInv /\ [Step]_vars =>
        [frames # <<>> /\ Len(frames') = Len(frames) /\ ~AtEnd /\ Top.conds # <<>> =>
           (Head(Top.conds).taken /\ Current.op \in {"elif", "else"} =>
              LET state == Head(Head(frames').conds) IN state.taken /\ ~state.active)]_frames
  BY BranchesStep DEF IInv
<1> QED
  BY <1>1, Invariance, PTL DEF Spec, BranchesAreExclusive

-----------------------------------------------------------------------------
(* Conditionals inside each other *)

\* NestedInTaken, of the conditionals of one file.
Nested(conds) ==
  \A j \in 1..Len(conds) :
    /\ conds[j].active => conds[j].taken /\ conds[j].parent
    /\ conds[j].parent = (j = Len(conds) \/ conds[j + 1].active)

LEMMA NestedOpens ==
  ASSUME NEW conds \in Seq(Conditional), Nested(conds), NEW state \in Conditional,
         state.active => state.taken /\ state.parent,
         state.parent = (conds # <<>> => Head(conds).active)
  PROVE  Nested(<<state>> \o conds)
<1> DEFINE all == <<state>> \o conds
<1>1. /\ Len(conds) \in Nat /\ Len(all) = Len(conds) + 1 /\ all[1] = state
      /\ \A j \in 1..Len(all) : j > 1 => all[j] = conds[j - 1]
  BY ConcatProperties, LenProperties
<1>2. conds = <<>> <=> Len(conds) = 0
  BY EmptySeq
<1>3. conds # <<>> => Head(conds) = conds[1]
  OBVIOUS
<1> HIDE DEF all
<1>4. ASSUME NEW j \in 1..Len(all)
      PROVE  /\ all[j].active => all[j].taken /\ all[j].parent
             /\ all[j].parent = (j = Len(all) \/ all[j + 1].active)
  <2>1. CASE j = 1
    <3>1. j = Len(all) <=> conds = <<>>
      BY <1>1, <1>2, <2>1
    <3>2. conds # <<>> => all[j + 1] = Head(conds)
      BY <1>1, <1>2, <1>3, <2>1
    <3>3. all[j].parent = (conds # <<>> => Head(conds).active)
      BY <1>1, <2>1
    <3>4. (conds # <<>> => Head(conds).active) = (j = Len(all) \/ all[j + 1].active)
      BY <3>1, <3>2
    <3> QED
      BY <1>1, <2>1, <3>3, <3>4
  <2>2. CASE j > 1
    <3>1. /\ j - 1 \in 1..Len(conds) /\ all[j] = conds[j - 1]
          /\ j = Len(all) <=> j - 1 = Len(conds)
          /\ j # Len(all) => all[j + 1] = conds[(j - 1) + 1]
      BY <1>1, <2>2
    <3> QED
      BY <3>1 DEF Nested
  <2> QED
    BY <1>1, <2>1, <2>2
<1> QED
  BY <1>4 DEF Nested, all

LEMMA NestedCloses ==
  ASSUME NEW conds \in Seq(Conditional), Nested(conds), conds # <<>>
  PROVE  Nested(Tail(conds)) /\ Head(conds).parent =
           (Tail(conds) # <<>> => Head(Tail(conds)).active)
<1> DEFINE rest == Tail(conds)
<1>1. /\ Len(conds) \in Nat \ {0} /\ Len(rest) = Len(conds) - 1 /\ rest \in Seq(Conditional)
      /\ \A j \in 1..Len(rest) : rest[j] = conds[j + 1]
      /\ Head(conds) = conds[1]
  BY HeadTailProperties, EmptySeq
<1>2. rest = <<>> <=> Len(rest) = 0
  BY <1>1, EmptySeq
<1>3. rest # <<>> => Head(rest) = rest[1]
  BY <1>1
<1> HIDE DEF rest
<1>4. ASSUME NEW j \in 1..Len(rest)
      PROVE  /\ rest[j].active => rest[j].taken /\ rest[j].parent
             /\ rest[j].parent = (j = Len(rest) \/ rest[j + 1].active)
  <2>1. /\ j + 1 \in 1..Len(conds) /\ rest[j] = conds[j + 1]
        /\ j = Len(rest) <=> j + 1 = Len(conds)
        /\ j # Len(rest) => rest[j + 1] = conds[(j + 1) + 1]
    BY <1>1
  <2> QED
    BY <2>1 DEF Nested
<1>5. conds[1].parent = (1 = Len(conds) \/ conds[2].active)
  BY <1>1 DEF Nested
<1>6. /\ 1 = Len(conds) <=> rest = <<>>
      /\ rest # <<>> => Head(rest) = conds[2]
  BY <1>1, <1>2, <1>3
<1> QED
  BY <1>1, <1>4, <1>5, <1>6 DEF Nested, rest

AllNested(read) == \A i \in 1..Len(read) : Nested(read[i].conds)

LEMMA NestedFrames ==
  ASSUME NEW read \in Seq(Reading), AllNested(read), NEW frame \in Reading, Nested(frame.conds)
  PROVE  AllNested(<<frame>> \o read)
<1> DEFINE all == <<frame>> \o read
<1>1. /\ Len(read) \in Nat /\ Len(all) = Len(read) + 1 /\ all[1] = frame
      /\ \A i \in 1..Len(all) : i > 1 => all[i] = read[i - 1] /\ i - 1 \in 1..Len(read)
  BY ConcatProperties, LenProperties
<1> HIDE DEF all
<1>2. \A i \in 1..Len(all) : i = 1 \/ i > 1
  BY <1>1
<1> QED
  BY <1>1, <1>2 DEF AllNested, all

\* Where the frames of the walk come from.
LEMMA NestedWalk ==
  ASSUME ConfigInv, WalkInv, AllNested(frames), frames # <<>>
  PROVE  /\ AllNested(Below) /\ Nested(Top.conds) /\ AllNested(Moved)
         /\ \A conds \in Seq(Conditional) : Nested(conds) => AllNested(WithConds(conds))
<1>1. Top \in Reading /\ Below \in Seq(Reading) /\ Passed \in Reading
  BY FrameTypes
<1>2. AllNested(Below) /\ Nested(Top.conds)
  <2>1. /\ Len(frames) \in Nat \ {0} /\ Len(Below) = Len(frames) - 1
        /\ \A i \in 1..Len(Below) : Below[i] = frames[i + 1]
        /\ Top = frames[1]
    BY HeadTailProperties, EmptySeq DEF WalkInv, Below, Top
  <2>2. 1 \in 1..Len(frames) /\ \A i \in 1..Len(Below) : i + 1 \in 1..Len(frames)
    BY <2>1
  <2> QED
    BY <2>1, <2>2 DEF AllNested
<1>3. Passed.conds = Top.conds
  BY <1>1 DEF Passed, Reading
<1>4. AllNested(Moved)
  BY <1>1, <1>2, <1>3, NestedFrames DEF Moved
<1>5. ASSUME NEW conds \in Seq(Conditional), Nested(conds)
      PROVE  AllNested(WithConds(conds))
  <2>1. [Passed EXCEPT !.conds = conds] \in Reading
        /\ [Passed EXCEPT !.conds = conds].conds = conds
    BY <1>1 DEF Reading
  <2> QED
    BY <1>1, <1>2, <1>5, <2>1, NestedFrames DEF WithConds
<1> QED
  BY <1>2, <1>4, <1>5

LEMMA NestedEnters ==
  ASSUME NEW f \in Files, NEW below \in Seq(Reading), AllNested(below), Enters(f, below)
  PROVE  AllNested(frames')
<1> DEFINE entered == [file |-> f, at |-> 1, conds |-> <<>>]
<1>1. entered \in Reading /\ Nested(entered.conds)
  BY DEF Reading, Nested
<1>2. frames' = below \/ frames' = <<entered>> \o below
  BY DEF Enters
<1> QED
  BY <1>1, <1>2, NestedFrames

LEMMA NestedConditionals ==
  ASSUME ConfigInv, WalkInv, AllNested(frames), OpenIf \/ Elif \/ Else \/ Endif
  PROVE  AllNested(frames')
<1>1. frames # <<>>
  BY DEF OpenIf, Elif, Else, Endif, Directive
<1>2. /\ Nested(Top.conds) /\ AllNested(Moved) /\ Top.conds \in Seq(Conditional)
      /\ \A conds \in Seq(Conditional) : Nested(conds) => AllNested(WithConds(conds))
      /\ Active \in BOOLEAN /\ Branch \in BOOLEAN
  BY <1>1, NestedWalk, ConditionalsTyped
<1>3. CASE OpenIf
  <2> DEFINE opened == [taken |-> Branch, active |-> Branch, parent |-> Active,
                        else_seen |-> FALSE]
  <2>1. opened \in Conditional
    BY <1>2 DEF Conditional
  <2>2. opened.active => opened.taken /\ opened.parent
    BY DEF Branch
  <2>3. opened.parent = (Top.conds # <<>> => Head(Top.conds).active)
    BY DEF Active
  <2>4. Nested(<<opened>> \o Top.conds) /\ <<opened>> \o Top.conds \in Seq(Conditional)
    <3> HIDE DEF opened
    <3> QED
      BY <1>2, <2>1, <2>2, <2>3, NestedOpens, ConcatProperties
  <2>5. frames' = WithConds(<<opened>> \o Top.conds)
    BY <1>3 DEF OpenIf
  <2> QED
    BY <1>2, <2>4, <2>5
<1>4. CASE Unmatched
  BY <1>2, <1>4 DEF Unmatched
<1>5. CASE Top.conds # <<>> /\ ~Unmatched /\ ~OpenIf
  <2> DEFINE state == Head(Top.conds)
             rest  == Tail(Top.conds)
  <2>1. /\ state \in Conditional /\ rest \in Seq(Conditional)
        /\ Nested(rest) /\ state.parent = (rest # <<>> => Head(rest).active)
    BY <1>2, <1>5, HeadTailProperties, NestedCloses
  <2>2. ASSUME NEW new \in Conditional, new.parent = state.parent,
               new.active => new.taken /\ new.parent, frames' = ReplaceCond(new)
        PROVE  AllNested(frames')
    <3>1. Nested(<<new>> \o rest) /\ <<new>> \o rest \in Seq(Conditional)
      <4> HIDE DEF state, rest
      <4>1. new.parent = (rest # <<>> => Head(rest).active)
        BY <2>1, <2>2
      <4> QED
        BY <2>1, <2>2, <4>1, NestedOpens, ConcatProperties
    <3> QED
      BY <1>2, <2>2, <3>1 DEF ReplaceCond
  <2>3. CASE Endif
    <3>1. frames' = WithConds(rest)
      BY <1>5, <2>3 DEF Endif
    <3> QED
      BY <1>2, <2>1, <3>1
  <2>4. CASE Malformed
    <3> DEFINE new == [state EXCEPT !.active = FALSE]
    <3>1. new \in Conditional /\ new.parent = state.parent /\ ~new.active
      BY <2>1 DEF Conditional
    <3> QED
      BY <2>2, <2>4, <3>1 DEF Malformed
  <2>5. CASE Else /\ ~Malformed
    <3>1. /\ Elsed(state) \in Conditional /\ Elsed(state).parent = state.parent
          /\ Elsed(state).active => Elsed(state).taken /\ Elsed(state).parent
      BY <2>1 DEF Elsed, Conditional
    <3> QED
      BY <1>5, <2>2, <2>5, <3>1 DEF Else
  <2>6. CASE Elif /\ ~Malformed
    <3> DEFINE branch == Asked(state) /\ Holds(Current)
               new == [state EXCEPT !.active = branch, !.taken = @ \/ branch]
    <3>1. branch \in BOOLEAN /\ (branch => state.parent)
      BY DEF Asked
    <3>2. frames' = ReplaceCond(new)
      BY <1>5, <2>6 DEF Elif
    <3>3. /\ new \in Conditional /\ new.parent = state.parent
          /\ new.active => new.taken /\ new.parent
      <4> HIDE DEF branch
      <4> QED
        BY <2>1, <3>1 DEF Conditional
    <3> QED
      BY <2>2, <3>2, <3>3
  <2> QED
    BY <1>5, <2>3, <2>4, <2>5, <2>6
<1> QED
  BY <1>3, <1>4, <1>5 DEF Elif, Else, Endif, Malformed

LEMMA NestedStep ==
  ASSUME IInv, AllNested(frames), [Step]_vars
  PROVE  AllNested(frames')
<1> USE DEF IInv
<1>1. CASE UNCHANGED frames
  BY <1>1
<1>2. CASE ProcessRoot
  <2>1. (Forced \o Entries)[todo] \in Files
    BY <1>2, ConcatProperties, ElementOfSeq DEF ProcessRoot, ConfigInv, WalkInv
  <2>2. <<>> \in Seq(Reading) /\ AllNested(<<>>)
    BY DEF AllNested
  <2> QED
    BY <1>2, <2>1, <2>2, NestedEnters DEF ProcessRoot
<1>3. CASE EndFile
  BY <1>3, NestedWalk DEF EndFile
<1>4. CASE OpenIf \/ Elif \/ Else \/ Endif
  BY <1>4, NestedConditionals
<1>5. CASE ReadText \/ Skip \/ Define \/ Undef \/ Once \/ Pack \/ Reported
  BY <1>5, NestedWalk DEF ReadText, Skip, Define, Undef, Once, Pack, Reported, Directive
<1>6. CASE IncludeNothing \/ IncludeTooMany \/ IncludeUnresolved
  BY <1>6, NestedWalk
     DEF IncludeNothing, IncludeTooMany, IncludeUnresolved, Counted, Including, Directive
<1>7. CASE \E seen, read \in Sizes : Include(seen, read)
  <2>1. Including /\ frames # <<>>
    BY <1>7 DEF Include, Counted, Including, Directive
  <2>2. UNCHANGED frames \/ \E hit \in Hits : Enters(hit.file, Moved)
    BY <1>7 DEF Include
  <2>3. Moved \in Seq(Reading) /\ AllNested(Moved)
    BY <2>1, MovedTypes, NestedWalk
  <2> QED
    BY <2>1, <2>2, <2>3, IncludedTypes, NestedEnters
<1>8. CASE Predefine \/ Predefined \/ (\E seen, read \in Sizes : LoadRoot(seen, read)) \/ Loaded
           \/ Processed \/ BeginDirective \/ WriteMark \/ WriteToken \/ Return \/ UNCHANGED vars
  <2>1. UNCHANGED frames
    BY <1>8 DEF Predefine, Predefined, LoadRoot, Loaded, Processed, BeginDirective, WriteMark,
                WriteToken, Return, vars
  <2> QED
    BY <2>1
<1> QED
  BY <1>2, <1>3, <1>4, <1>5, <1>6, <1>7, <1>8 DEF Step

\* A branch is read only where every branch around it is.
THEOREM NestingIsKept == Spec => []NestedInTaken
<1>1. Init => AllNested(frames)
  BY DEF Init, AllNested
<1>2. IInv /\ AllNested(frames) /\ [Step]_vars => AllNested(frames)'
  BY NestedStep
<1>3. AllNested(frames) => NestedInTaken
  BY DEF AllNested, Nested, NestedInTaken
<1> QED
  BY <1>1, <1>2, <1>3, Invariance, PTL DEF Spec

-----------------------------------------------------------------------------
(* The search for an include *)

\* The root after which a search begins; 0 if it looks through all of them.
ResumedAfter(layout, f, next) == IF next THEN SearchRootIndex(layout, f) ELSE 0

FirstPlace(layout, f, name, system, next) ==
  IF system \/ next THEN <<>> ELSE Beside(layout, f, name)

Candidates(layout, f, name, system, next) ==
  FirstPlace(layout, f, name, system, next)
    \o UnderRoots(layout, name, ResumedAfter(layout, f, next))

FirstFound(layout, candidates) ==
  {i \in DOMAIN candidates :
     /\ candidates[i].path \in DOMAIN layout.tree
     /\ \A j \in 1..(i - 1) : candidates[j].path \notin DOMAIN layout.tree}

LEMMA ResolvedIs ==
  ASSUME NEW layout, NEW f, NEW name, NEW system, NEW next,
         NEW candidates, candidates = Candidates(layout, f, name, system, next),
         NEW first, first = FirstFound(layout, candidates)
  PROVE  Resolved(layout, f, name, system, next) =
           IF first # {}
           THEN {[file |-> layout.tree[candidates[i].path], role |-> candidates[i].role,
                  root |-> candidates[i].root] : i \in first}
           ELSE IF ResumedAfter(layout, f, next) = 0 /\ name \in DOMAIN layout.builtins
           THEN {[file |-> layout.builtins[name], role |-> "builtin", root |-> 0]}
           ELSE {}
BY Zenon DEF Resolved, Candidates, FirstPlace, FirstFound, ResumedAfter

LEMMA RootIndex ==
  ASSUME NEW layout, LayoutAssumption(layout), NEW f
  PROVE  /\ SearchRootIndex(layout, f) \in 0..Len(layout.roots)
         /\ RootsOver(layout, f) = {} => SearchRootIndex(layout, f) = 0
         /\ RootsOver(layout, f) # {} =>
              /\ SearchRootIndex(layout, f) \in RootsOver(layout, f)
              /\ \A j \in RootsOver(layout, f) : SearchRootIndex(layout, f) <= j
<1> DEFINE over == RootsOver(layout, f)
<1>1. Len(layout.roots) \in Nat /\ DOMAIN layout.roots = 1..Len(layout.roots)
  BY LenProperties DEF LayoutAssumption
<1>2. over \subseteq 1..Len(layout.roots)
  BY <1>1 DEF RootsOver
<1>3. over # {} => \E i \in over : \A j \in over : i <= j
  <2>1. over \subseteq Nat
    BY <1>1, <1>2
  <2> HIDE DEF over
  <2> QED BY <2>1, LeastExists
<1>4. SearchRootIndex(layout, f) = IF over = {} THEN 0
                                   ELSE CHOOSE i \in over : \A j \in over : i <= j
  BY DEF SearchRootIndex
<1> HIDE DEF over
<1> QED BY <1>1, <1>2, <1>3, <1>4 DEF over

Place(layout, name, j) ==
  [path |-> layout.roots[j].dir \o name, role |-> layout.roots[j].kind, root |-> j]

\* The places that are looked at, in their order.
LEMMA Places ==
  ASSUME NEW layout, LayoutAssumption(layout), NEW f, NEW name, NEW system, NEW next,
         NEW candidates, candidates = Candidates(layout, f, name, system, next),
         NEW resumed, resumed = ResumedAfter(layout, f, next),
         NEW beside, beside = FirstPlace(layout, f, name, system, next)
  PROVE  /\ Len(beside) \in 0..1 /\ resumed \in 0..Len(layout.roots)
         /\ Len(layout.roots) \in Nat /\ DOMAIN layout.roots = 1..Len(layout.roots)
         /\ DOMAIN candidates = 1..(Len(beside) + Len(layout.roots) - resumed)
         /\ Len(beside) = 1 => /\ candidates[1] = beside[1]
                               /\ beside[1].root = 0 /\ beside[1].role = "user"
         /\ \A j \in (resumed + 1)..Len(layout.roots), i \in Nat :
              i = Len(beside) + j - resumed =>
                candidates[i] = Place(layout, name, j)
<1>1. PICK n : n = Len(layout.roots)
  OBVIOUS
<1>2. n \in Nat /\ DOMAIN layout.roots = 1..n
  BY <1>1, LenProperties DEF LayoutAssumption
<1>3. resumed \in 0..n
  BY <1>1, <1>2, RootIndex DEF ResumedAfter
<1>4. PICK b : b = Len(beside)
  OBVIOUS
<1>5. /\ b \in 0..1 /\ beside \in Seq({beside[1]})
      /\ b = 1 => beside[1].root = 0 /\ beside[1].role = "user"
  <2>1. CASE beside = <<>>
    BY <1>4, <2>1
  <2>2. CASE \E x : beside = <<x>> /\ x.root = 0 /\ x.role = "user"
    <3>1. PICK x : beside = <<x>> /\ x.root = 0 /\ x.role = "user"
      BY <2>2
    <3>2. <<x>> \in Seq({x}) /\ Len(<<x>>) = 1 /\ <<x>>[1] = x
      OBVIOUS
    <3> QED BY <1>4, <3>1, <3>2
  <2>3. beside = <<>> \/ \E x : beside = <<x>> /\ x.root = 0 /\ x.role = "user"
    BY DEF FirstPlace, Beside
  <2> QED BY <2>1, <2>2, <2>3
<1>6. PICK k : k = n - resumed
  OBVIOUS
<1>7. k \in Nat
  BY <1>2, <1>3, <1>6
<1>8. PICK under : under = UnderRoots(layout, name, resumed)
  OBVIOUS
<1>9. under = [i \in 1..k |-> [path |-> layout.roots[resumed + i].dir \o name,
                               role |-> layout.roots[resumed + i].kind, root |-> resumed + i]]
  BY <1>1, <1>6, <1>8 DEF UnderRoots
<1>10. PICK S : S = {beside[1]} \cup {under[i] : i \in 1..k}
  OBVIOUS
<1>11. DOMAIN under = 1..k /\ under = [i \in 1..k |-> under[i]] /\ \A i \in 1..k : under[i] \in S
  BY <1>9, <1>10
<1>12. under \in Seq(S) /\ Len(under) = k
  BY <1>7, <1>11
<1>13. beside \in Seq(S)
  BY <1>5, <1>10
<1>14. candidates = beside \o under
  BY <1>8 DEF Candidates
<1>15. /\ candidates \in Seq(S) /\ Len(candidates) = b + k
       /\ \A i \in 1..(b + k) :
            candidates[i] = IF i <= b THEN beside[i] ELSE under[i - b]
  <2>1. /\ beside \o under \in Seq(S) /\ Len(beside \o under) = Len(beside) + Len(under)
        /\ \A i \in 1..(Len(beside) + Len(under)) :
             (beside \o under)[i] = IF i <= Len(beside) THEN beside[i]
                                    ELSE under[i - Len(beside)]
    BY <1>12, <1>13, ConcatProperties, Zenon
  <2> QED BY <1>4, <1>12, <1>14, <2>1, Zenon
<1>16. DOMAIN candidates = 1..(b + k)
  BY <1>15, LenProperties
<1>17. b = 1 => candidates[1] = beside[1]
  BY <1>5, <1>7, <1>15
<1>18. ASSUME NEW j \in (resumed + 1)..n, NEW i \in Nat, i = b + j - resumed
       PROVE  candidates[i] = Place(layout, name, j)
  <2>1. j - resumed \in 1..k /\ resumed + (j - resumed) = j
    BY <1>2, <1>3, <1>6
  <2>3. i \in 1..(b + k) /\ ~(i <= b) /\ i - b = j - resumed
    BY <1>2, <1>3, <1>5, <1>6, <1>18
  <2>4. candidates[i] = under[i - b]
    BY <1>15, <2>3
  <2>5. candidates[i] = under[j - resumed]
    BY <2>3, <2>4
  <2> QED BY <1>9, <2>1, <2>5 DEF Place
<1>19. b + k = b + n - resumed
  BY <1>2, <1>3, <1>5, <1>6
<1> QED
  BY <1>1, <1>2, <1>3, <1>4, <1>5, <1>16, <1>17, <1>18, <1>19

\* If none of the places is the first that holds a file, none holds one.
LEMMA NoneFound ==
  ASSUME NEW layout, NEW candidates, NEW n \in Nat, DOMAIN candidates = 1..n,
         FirstFound(layout, candidates) = {}
  PROVE  \A i \in 1..n : candidates[i].path \notin DOMAIN layout.tree
<1> DEFINE found == {i \in 1..n : candidates[i].path \in DOMAIN layout.tree}
<1>1. ASSUME found # {}
      PROVE  FALSE
  <2>1. found \subseteq Nat
    OBVIOUS
  <2>2. PICK i \in found : \A j \in found : i <= j
    <3> HIDE DEF found
    <3> QED BY <1>1, <2>1, LeastExists
  <2>3. \A j \in 1..(i - 1) : j \in 1..n /\ ~(i <= j)
    BY <2>2
  <2>4. i \in FirstFound(layout, candidates)
    BY <2>2, <2>3 DEF FirstFound
  <2> QED BY <2>4
<1> QED
  BY <1>1

\* resolve_include takes the first place that holds a file: no root before the one
\* it takes it from holds one, nor the directory of the including file where that is
\* searched; #include_next looks only at the roots after that of the including file.
THEOREM SearchFindsFirst ==
  ASSUME NEW layout, LayoutAssumption(layout), NEW f, NEW name, NEW system, NEW next,
         NEW hit \in Resolved(layout, f, name, system, next)
  PROVE  /\ Resolved(layout, f, name, system, next) = {hit}
         /\ hit.root # 0 =>
              /\ hit.root \in (ResumedAfter(layout, f, next) + 1)..Len(layout.roots)
              /\ layout.roots[hit.root].dir \o name \in DOMAIN layout.tree
              /\ hit.file = layout.tree[layout.roots[hit.root].dir \o name]
         /\ \A j \in (ResumedAfter(layout, f, next) + 1)..Len(layout.roots) :
              hit.role = "builtin" \/ hit.root > j =>
                layout.roots[j].dir \o name \notin DOMAIN layout.tree
         /\ hit.role = "builtin" => ResumedAfter(layout, f, next) = 0
         /\ hit.root # 0 /\ ~system /\ ~next /\ Physical(layout, f) =>
              Front(layout.path[f]) \o name \notin DOMAIN layout.tree
<1>1. PICK candidates : candidates = Candidates(layout, f, name, system, next)
  OBVIOUS
<1>2. PICK first : first = FirstFound(layout, candidates)
  OBVIOUS
<1>3. PICK resumed : resumed = ResumedAfter(layout, f, next)
  OBVIOUS
<1>4. PICK beside : beside = FirstPlace(layout, f, name, system, next)
  OBVIOUS
<1>5. PICK n, b : n = Len(layout.roots) /\ b = Len(beside)
  OBVIOUS
<1>6. /\ b \in 0..1 /\ resumed \in 0..n /\ n \in Nat /\ DOMAIN layout.roots = 1..n
      /\ DOMAIN candidates = 1..(b + n - resumed)
      /\ b = 1 => candidates[1] = beside[1] /\ beside[1].root = 0 /\ beside[1].role = "user"
      /\ \A j \in (resumed + 1)..n, i \in Nat :
           i = b + j - resumed =>
             candidates[i] = Place(layout, name, j)
  <2>1. /\ Len(beside) \in 0..1 /\ resumed \in 0..Len(layout.roots)
        /\ Len(layout.roots) \in Nat /\ DOMAIN layout.roots = 1..Len(layout.roots)
        /\ DOMAIN candidates = 1..(Len(beside) + Len(layout.roots) - resumed)
        /\ Len(beside) = 1 => /\ candidates[1] = beside[1]
                              /\ beside[1].root = 0 /\ beside[1].role = "user"
        /\ \A j \in (resumed + 1)..Len(layout.roots), i \in Nat :
             i = Len(beside) + j - resumed =>
               candidates[i] = Place(layout, name, j)
    <3>1. Len(beside) \in 0..1 /\ resumed \in 0..Len(layout.roots)
      BY <1>1, <1>3, <1>4, Places
    <3>2. DOMAIN candidates = 1..(Len(beside) + Len(layout.roots) - resumed)
      BY <1>1, <1>3, <1>4, Places
    <3>3. \A j \in (resumed + 1)..Len(layout.roots), i \in Nat :
            i = Len(beside) + j - resumed => candidates[i] = Place(layout, name, j)
      BY <1>1, <1>3, <1>4, Places
    <3>4. Len(layout.roots) \in Nat /\ DOMAIN layout.roots = 1..Len(layout.roots)
      BY <1>1, <1>3, <1>4, Places
    <3>5. Len(beside) = 1 => /\ candidates[1] = beside[1]
                              /\ beside[1].root = 0 /\ beside[1].role = "user"
      BY <1>1, <1>3, <1>4, Places
    <3> QED BY <3>1, <3>2, <3>3, <3>4, <3>5
  <2> QED BY <1>5, <2>1
<1>7. ASSUME NEW j \in (resumed + 1)..n, NEW i \in Nat, i = b + j - resumed
      PROVE  /\ candidates[i].path = layout.roots[j].dir \o name
             /\ candidates[i].root = j /\ candidates[i].role # "builtin"
  <2>1. \A q \in 1..n : layout.roots[q].kind # "builtin"
    <3>1. layout.roots \in Seq([dir : Seq(STRING), kind : Kinds])
      BY DEF LayoutAssumption
    <3>2. \A q \in 1..n : layout.roots[q] \in [dir : Seq(STRING), kind : Kinds]
      BY <1>5, <3>1, ElementOfSeq
    <3> QED BY <3>2 DEF Kinds
  <2>2. j \in 1..n
    BY <1>6
  <2>3. candidates[i] = Place(layout, name, j)
    BY <1>6, <1>7
  <2> QED BY <2>1, <2>2, <2>3 DEF Place
<1>8. ~system /\ ~next /\ Physical(layout, f) =>
        b = 1 /\ beside[1].path = Front(layout.path[f]) \o name
  BY <1>4, <1>5 DEF FirstPlace, Beside
<1>9. \A i \in 1..(b + n - resumed) :
        \/ b = 1 /\ i = 1
        \/ \E j \in (resumed + 1)..n : i = b + j - resumed
  <2>1. ASSUME NEW i \in 1..(b + n - resumed), ~(b = 1 /\ i = 1)
        PROVE  i - b + resumed \in (resumed + 1)..n /\ i = b + (i - b + resumed) - resumed
    BY <1>6, <2>1
  <2> QED BY <2>1
<1>10. Resolved(layout, f, name, system, next) =
         IF first # {}
         THEN {[file |-> layout.tree[candidates[i].path], role |-> candidates[i].role,
                root |-> candidates[i].root] : i \in first}
         ELSE IF resumed = 0 /\ name \in DOMAIN layout.builtins
         THEN {[file |-> layout.builtins[name], role |-> "builtin", root |-> 0]}
         ELSE {}
  <2>1. Resolved(layout, f, name, system, next) =
         IF first # {}
         THEN {[file |-> layout.tree[candidates[i].path], role |-> candidates[i].role,
                root |-> candidates[i].root] : i \in first}
         ELSE IF ResumedAfter(layout, f, next) = 0 /\ name \in DOMAIN layout.builtins
         THEN {[file |-> layout.builtins[name], role |-> "builtin", root |-> 0]}
         ELSE {}
    BY <1>1, <1>2, ResolvedIs
  <2> QED BY <1>3, <2>1
<1> SUFFICES /\ Resolved(layout, f, name, system, next) = {hit}
             /\ hit.root # 0 => /\ hit.root \in (resumed + 1)..n
                                /\ layout.roots[hit.root].dir \o name \in DOMAIN layout.tree
                                /\ hit.file = layout.tree[layout.roots[hit.root].dir \o name]
             /\ \A j \in (resumed + 1)..n :
                  hit.role = "builtin" \/ hit.root > j =>
                    layout.roots[j].dir \o name \notin DOMAIN layout.tree
             /\ hit.role = "builtin" => resumed = 0
             /\ hit.root # 0 /\ b = 1 => beside[1].path \notin DOMAIN layout.tree
  BY <1>3, <1>5, <1>8
<1>11. CASE first # {}
  <2>1. PICK i \in first : hit = [file |-> layout.tree[candidates[i].path],
                                  role |-> candidates[i].role, root |-> candidates[i].root]
    BY <1>10, <1>11
  <2>2. \A k \in first : /\ k \in 1..(b + n - resumed) /\ candidates[k].path \in DOMAIN layout.tree
                         /\ \A j \in 1..(k - 1) : candidates[j].path \notin DOMAIN layout.tree
    BY <1>2, <1>6 DEF FirstFound
  <2>3. \A k \in first : k = i
    <3>1. ASSUME NEW k \in first, k < i
          PROVE  FALSE
      BY <1>6, <2>2, <3>1
    <3>2. ASSUME NEW k \in first, i < k
          PROVE  FALSE
      BY <1>6, <2>2, <3>2
    <3> QED BY <1>6, <2>2, <3>1, <3>2
  <2>4. Resolved(layout, f, name, system, next) = {hit}
    BY <1>10, <1>11, <2>1, <2>3
  <2>5. CASE b = 1 /\ i = 1
    <3>1. hit.root = 0 /\ hit.role # "builtin"
      BY <1>6, <2>1, <2>5
    <3> QED BY <1>6, <2>4, <3>1
  <2>6. ASSUME NEW k \in (resumed + 1)..n, i = b + k - resumed
        PROVE  /\ hit.root = k /\ hit.role # "builtin"
               /\ layout.roots[k].dir \o name \in DOMAIN layout.tree
               /\ hit.file = layout.tree[layout.roots[k].dir \o name]
               /\ \A j \in (resumed + 1)..n :
                    k > j => layout.roots[j].dir \o name \notin DOMAIN layout.tree
               /\ b = 1 => beside[1].path \notin DOMAIN layout.tree
    <3>1. /\ hit.root = k /\ hit.role # "builtin"
          /\ layout.roots[k].dir \o name \in DOMAIN layout.tree
          /\ hit.file = layout.tree[layout.roots[k].dir \o name]
      <4>1. i \in Nat
        BY <2>2
      <4> QED BY <1>7, <2>1, <2>2, <2>6, <4>1
    <3>2. ASSUME NEW j \in (resumed + 1)..n, k > j
          PROVE  layout.roots[j].dir \o name \notin DOMAIN layout.tree
      <4>1. PICK h : h = b + j - resumed
        OBVIOUS
      <4>2. h \in Nat /\ h \in 1..(i - 1)
        BY <1>6, <2>6, <3>2, <4>1
      <4>3. candidates[h].path \notin DOMAIN layout.tree
        BY <2>2, <4>2
      <4> QED BY <1>7, <4>1, <4>2, <4>3
    <3>3. b = 1 => 1 \in 1..(i - 1)
      BY <1>6, <2>6
    <3> QED BY <1>6, <2>2, <3>1, <3>2, <3>3
  <2>7. i \in 1..(b + n - resumed)
    BY <2>2
  <2> QED BY <1>9, <2>4, <2>5, <2>6, <2>7
<1>12. CASE first = {}
  <2>1. hit = [file |-> layout.builtins[name], role |-> "builtin", root |-> 0] /\ resumed = 0
    BY <1>10, <1>12
  <2>2. Resolved(layout, f, name, system, next) = {hit}
    BY <1>10, <1>12, <2>1
  <2>3. b + n - resumed \in Nat
    BY <1>6
  <2>4. \A i \in 1..(b + n - resumed) : candidates[i].path \notin DOMAIN layout.tree
    BY <1>2, <1>6, <1>12, <2>3, NoneFound
  <2>5. ASSUME NEW j \in (resumed + 1)..n
        PROVE  layout.roots[j].dir \o name \notin DOMAIN layout.tree
    <3>1. PICK h : h = b + j - resumed
      OBVIOUS
    <3>2. h \in Nat /\ h \in 1..(b + n - resumed)
      BY <1>6, <3>1
    <3>3. candidates[h].path \notin DOMAIN layout.tree
      BY <2>4, <3>2
    <3> QED BY <1>7, <3>1, <3>2, <3>3
  <2> QED BY <2>1, <2>2, <2>5
<1> QED
  BY <1>11, <1>12

LEMMA FoundUnderRoot ==
  ASSUME NEW layout, LayoutAssumption(layout), NEW f, NEW name, NEW system, NEW next,
         NEW hit \in Resolved(layout, f, name, system, next), hit.root # 0,
         NEW resumed, resumed = ResumedAfter(layout, f, next)
  PROVE  /\ hit.root \in (resumed + 1)..Len(layout.roots)
         /\ layout.roots[hit.root].dir \o name \in DOMAIN layout.tree
         /\ hit.file = layout.tree[layout.roots[hit.root].dir \o name]
BY SearchFindsFirst

\* No root lies in another, and no file is reached by two paths.
RootsAreApart(layout) ==
  \A i, j \in DOMAIN layout.roots :
    IsPrefix(layout.roots[i].dir, layout.roots[j].dir) => i = j
NothingIsLinked(layout) == \A p \in DOMAIN layout.tree : layout.path[layout.tree[p]] = p

LEMMA PrefixAt ==
  ASSUME NEW S, NEW s \in Seq(S), NEW t \in Seq(S)
  PROVE  IsPrefix(s, t) <=> Len(s) <= Len(t) /\ \A k \in 1..Len(s) : s[k] = t[k]
<1>1. Len(s) \in Nat /\ Len(t) \in Nat
  BY LenProperties
<1>2. SubSeq(s, 1, Len(s)) = [k \in 1..Len(s) |-> s[k]]
  BY <1>1
<1>3. Len(s) <= Len(t) => SubSeq(t, 1, Len(s)) = [k \in 1..Len(s) |-> t[k]]
  BY <1>1
<1> QED
  BY <1>1, <1>2, <1>3 DEF IsPrefix

\* If no root lies in another and there are no links, a search from a file that was
\* found under a root resumes after that root, and #include_next finds its file under
\* a later root than the including file's: a chain of headers that hand on to each
\* other goes through the roots once and ends.
THEOREM ResumedSearchRises ==
  ASSUME NEW layout, LayoutAssumption(layout), RootsAreApart(layout), NothingIsLinked(layout),
         NEW f, NEW name \in Seq(STRING), NEW system, NEW next,
         NEW hit \in Resolved(layout, f, name, system, next), hit.root # 0
  PROVE  /\ SearchRootIndex(layout, hit.file) = hit.root
         /\ next => SearchRootIndex(layout, f) < hit.root
         /\ hit.root <= Len(layout.roots)
<1>1. PICK resumed : resumed = ResumedAfter(layout, f, next)
  OBVIOUS
<1>2. PICK n : n = Len(layout.roots)
  OBVIOUS
<1>3. PICK r : r = hit.root
  OBVIOUS
<1>4. PICK place : place = layout.roots[r].dir \o name
  OBVIOUS
<1>5. next => resumed = SearchRootIndex(layout, f)
  BY <1>1 DEF ResumedAfter
<1>6. r \in (resumed + 1)..n /\ place \in DOMAIN layout.tree /\ hit.file = layout.tree[place]
  <2>1. /\ hit.root \in (resumed + 1)..Len(layout.roots)
        /\ layout.roots[hit.root].dir \o name \in DOMAIN layout.tree
        /\ hit.file = layout.tree[layout.roots[hit.root].dir \o name]
    BY <1>1, FoundUnderRoot
  <2> QED BY <1>2, <1>3, <1>4, <2>1
<1>7. n \in Nat /\ resumed \in Nat /\ DOMAIN layout.roots = 1..n
  <2>1. layout.roots \in Seq([dir : Seq(STRING), kind : Kinds])
    BY DEF LayoutAssumption
  <2>2. resumed \in 0..n
    BY <1>1, <1>2, <2>1, LenProperties, RootIndex DEF ResumedAfter
  <2> QED BY <1>2, <2>1, <2>2, LenProperties
<1>8. r \in DOMAIN layout.roots /\ resumed < r /\ r <= n
  BY <1>6, <1>7
<1>9. \A i \in DOMAIN layout.roots : layout.roots[i].dir \in Seq(STRING)
  <2>1. layout.roots \in Seq([dir : Seq(STRING), kind : Kinds])
    BY DEF LayoutAssumption
  <2>2. \A i \in 1..n : layout.roots[i] \in [dir : Seq(STRING), kind : Kinds]
    BY <1>2, <2>1, ElementOfSeq
  <2> QED BY <1>7, <2>2
<1>10. Physical(layout, hit.file) /\ layout.path[hit.file] = place
  BY <1>6 DEF LayoutAssumption, NothingIsLinked, Physical
<1>11. RootsOver(layout, hit.file) =
         {i \in DOMAIN layout.roots : IsPrefix(layout.roots[i].dir, place)}
  BY <1>10 DEF RootsOver
<1>12. PICK d : d = layout.roots[r].dir
  OBVIOUS
<1>13. /\ d \in Seq(STRING) /\ place \in Seq(STRING) /\ Len(d) \in Nat
       /\ Len(place) = Len(d) + Len(name) /\ Len(name) \in Nat
       /\ \A k \in 1..Len(d) : place[k] = d[k]
  <2>1. d \in Seq(STRING) /\ place = d \o name
    BY <1>4, <1>8, <1>9, <1>12
  <2>2. Len(d) \in Nat /\ Len(name) \in Nat
    BY <2>1, LenProperties
  <2>3. /\ d \o name \in Seq(STRING) /\ Len(d \o name) = Len(d) + Len(name)
        /\ \A k \in 1..(Len(d) + Len(name)) :
             (d \o name)[k] = IF k <= Len(d) THEN d[k] ELSE name[k - Len(d)]
    BY <2>1, ConcatProperties, Zenon
  <2> QED BY <2>1, <2>2, <2>3
<1>14. r \in RootsOver(layout, hit.file)
  <2>1. IsPrefix(d, place)
    BY <1>13, PrefixAt
  <2> QED BY <1>8, <1>11, <1>12, <2>1
<1>15. ASSUME NEW i \in RootsOver(layout, hit.file)
       PROVE  i = r
  <2>1. PICK e : e = layout.roots[i].dir
    OBVIOUS
  <2>2. i \in DOMAIN layout.roots /\ IsPrefix(e, place) /\ e \in Seq(STRING)
    BY <1>9, <1>11, <2>1
  <2>3. Len(e) \in Nat /\ \A k \in 1..Len(e) : e[k] = place[k]
    BY <1>13, <2>2, PrefixAt, LenProperties
  <2>4. CASE Len(e) <= Len(d)
    <3>1. \A k \in 1..Len(e) : k \in 1..Len(d)
      BY <1>13, <2>3, <2>4
    <3>2. IsPrefix(e, d)
      BY <1>13, <2>2, <2>3, <2>4, <3>1, PrefixAt
    <3> QED BY <1>8, <1>12, <2>1, <2>2, <3>2 DEF RootsAreApart
  <2>5. CASE Len(d) <= Len(e)
    <3>1. \A k \in 1..Len(d) : k \in 1..Len(e)
      BY <1>13, <2>3, <2>5
    <3>2. IsPrefix(d, e)
      BY <1>13, <2>2, <2>3, <2>5, <3>1, PrefixAt
    <3> QED BY <1>8, <1>12, <2>1, <2>2, <3>2 DEF RootsAreApart
  <2> QED BY <1>13, <2>3, <2>4, <2>5
<1>16. SearchRootIndex(layout, hit.file) = r
  BY <1>14, <1>15, RootIndex
<1> QED
  BY <1>2, <1>3, <1>5, <1>8, <1>16

=============================================================================
