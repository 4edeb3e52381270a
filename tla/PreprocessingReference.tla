----------------------- MODULE PreprocessingReference -----------------------
(***************************************************************************)
(* What the C standard makes of the files of TracedPreprocessor: a file is *)
(* a group of lines and of nested if-sections, the first section whose     *)
(* condition holds is the one that is read, and a line of text means what  *)
(* its identifier is defined as at that line.  A file remembers the root   *)
(* under which it was found (0 for none), which is where #include_next     *)
(* resumes.  The reference knows neither flags nor pending text nor        *)
(* limits; the walk must agree with it.                                    *)
(***************************************************************************)
EXTENDS TracedPreprocessor

Op(f, i) == program[f][i].op
Past(f)  == Len(program[f]) + 1

\* The end of the group at line i of file f: the line that closes it, the end
\* of the file, or 0 when an if-section in it is malformed.
RECURSIVE GroupEnd(_, _), SectionEnd(_, _)
GroupEnd(f, i) ==
  IF i = Past(f) \/ Op(f, i) \in {"elif", "else", "endif"} THEN i
  ELSE IF Op(f, i) \in {"if", "ifdef", "ifndef"}
  THEN IF SectionEnd(f, i) = 0 THEN 0 ELSE GroupEnd(f, SectionEnd(f, i) + 1)
  ELSE GroupEnd(f, i + 1)

\* The #endif of the if-section one of whose branches begins at line i.
SectionEnd(f, i) ==
  LET e == GroupEnd(f, i + 1) IN
  IF e \in {0, Past(f)} THEN 0
  ELSE IF Op(f, e) = "endif" THEN e
  ELSE IF Op(f, i) = "else" THEN 0
  ELSE SectionEnd(f, e)

WellFormed(f) == GroupEnd(f, 1) = Past(f)

True(line, table) ==
  \/ line.op = "else"
  \/ line.op \in {"if", "elif"} /\ line.arg = "true"
  \/ line.op = "ifdef" /\ table[line.arg] # None
  \/ line.op = "ifndef" /\ table[line.arg] = None

\* What one line that is no conditional does to the state.
Effect(f, i, st) ==
  LET line == program[f][i] IN
  CASE line.op = "text" ->
         [st EXCEPT !.text = Append(@, [at |-> Definition(f, i), width |-> st.pack,
            def |-> IF line.arg \in Names THEN st.table[line.arg] ELSE None])]
    [] line.op = "define" -> [st EXCEPT !.table[line.arg] = Definition(f, i)]
    [] line.op = "undef" -> [st EXCEPT !.table[line.arg] = None]
    [] line.op = "once" -> [st EXCEPT !.once = @ \cup {f}]
    [] line.op = "pack" ->
         [st EXCEPT !.pack = IF line.arg \in {"set", "push set"} THEN line.width
                             ELSE IF line.arg = "reset" THEN None
                             ELSE IF line.arg # "pop" THEN @
                             ELSE IF st.stack = <<>> THEN None ELSE st.stack[Len(st.stack)],
                    !.stack = IF line.arg \in {"push", "push set"} THEN Append(@, st.pack)
                              ELSE IF line.arg = "pop" /\ @ # <<>>
                                   THEN SubSeq(@, 1, Len(@) - 1) ELSE @]
    [] OTHER -> st

\* Where an include in file f, which was found under root `from`, may find its
\* file, the first place first: 0 is the directory of f.
Places(f, from, line) ==
  LET resumed == IF line.next THEN from ELSE 0
      At(i) == (IF i = 0 THEN SubSeq(Layout.path[f], 1, Len(Layout.path[f]) - 1)
                ELSE Layout.roots[i].dir) \o line.arg IN
  {[at |-> i, file |-> Layout.tree[At(i)]] :
     i \in {j \in 0..Len(Layout.roots) :
              /\ j > resumed \/ (j = 0 /\ ~line.system /\ ~line.next /\ Physical(Layout, f))
              /\ At(j) \in DOMAIN Layout.tree}}

\* The headers PARC supplies are the last place of a search from the beginning.
Supplied(from, line) ==
  {[at |-> 0, file |-> Layout.builtins[n]] :
     n \in {m \in DOMAIN Layout.builtins : m = line.arg /\ ~(line.next /\ from > 0)}}

Nearest(places) == {p \in places : \A q \in places : p.at <= q.at}

Named(f, from, line) ==
  IF Unsafe(line.arg) \/ line.arg = <<>> THEN {}
  ELSE LET places == Places(f, from, line) IN
       IF places # {} THEN Nearest(places) ELSE Supplied(from, line)

RoleAt(p) ==
  IF p.file \in Builtins THEN "builtin"
  ELSE IF p.at = 0 THEN "user" ELSE Layout.roots[p.at].kind

\* Departs: #include_next in a file whose path is not first under the root it
\* was found under.
Departs(f, from, line) == line.next /\ SearchRootIndex(Layout, f) # from

RECURSIVE ReadGroup(_, _, _, _, _), ReadSection(_, _, _, _, _)
RECURSIVE ReadFile(_, _, _, _), ReadInclude(_, _, _, _, _)
ReadFile(f, from, depth, st) ==
  IF f \in st.once \/ depth > MaxDepth THEN st
  ELSE IF ~WellFormed(f) THEN [st EXCEPT !.malformed = TRUE]
  ELSE ReadGroup(f, from, 1, depth, st)

ReadInclude(f, from, line, depth, st) ==
  IF Departs(f, from, line) THEN [st EXCEPT !.departs = TRUE]
  ELSE LET named == Named(f, from, line)
           p == CHOOSE p \in named : TRUE IN
       IF named = {} THEN st
       ELSE ReadFile(p.file, p.at, depth + 1,
              [st EXCEPT !.roles[p.file] = IF @ = None THEN RoleAt(p) ELSE @,
                         !.used = IF p.at = 0 THEN @
                                  ELSE @ \cup {<<Layout.roots[p.at].dir, p.file>>}])

ReadGroup(f, from, i, depth, st) ==
  IF st.malformed \/ st.departs \/ i = GroupEnd(f, i) THEN st
  ELSE IF Op(f, i) \in {"if", "ifdef", "ifndef"}
  THEN ReadGroup(f, from, SectionEnd(f, i) + 1, depth, ReadSection(f, from, i, depth, st))
  ELSE ReadGroup(f, from, i + 1, depth,
         IF Op(f, i) = "include" THEN ReadInclude(f, from, program[f][i], depth, st)
         ELSE Effect(f, i, st))

ReadSection(f, from, i, depth, st) ==
  IF True(program[f][i], st.table) THEN ReadGroup(f, from, i + 1, depth, st)
  ELSE LET e == GroupEnd(f, i + 1) IN
       IF Op(f, e) = "endif" THEN st ELSE ReadSection(f, from, e, depth, st)

RECURSIVE ReadRoots(_, _), ReadCommandLine(_, _)
ReadRoots(i, st) ==
  IF i > Len(Forced \o Entries) THEN st
  ELSE ReadRoots(i + 1, ReadFile((Forced \o Entries)[i], 0, 0, st))

ReadCommandLine(i, st) ==
  IF i > Len(program[CommandLine]) THEN st
  ELSE ReadCommandLine(i + 1, Effect(CommandLine, i, st))

\* Entries are entries, even if they are forced or included as well.
RootRole(f) ==
  IF \E i \in DOMAIN Entries : Entries[i] = f THEN "entry"
  ELSE IF \E i \in DOMAIN Forced : Forced[i] = f THEN "user" ELSE None

Reference ==
  ReadRoots(1, ReadCommandLine(1,
    [text |-> <<>>, table |-> [n \in Names |-> None], once |-> {}, pack |-> None,
     stack |-> <<>>, roles |-> [f \in Files |-> RootRole(f)], used |-> {},
     malformed |-> FALSE, departs |-> FALSE]))

\* The packing the returned ranges give the i-th token of the text.
WidthAt(i) ==
  LET over == {j \in 1..Len(packed) : packed[j].from < i /\ i <= packed[j].to} IN
  IF over = {} THEN None ELSE packed[CHOOSE j \in over : TRUE].width

\* A scan of well-formed files that keeps its limits returns exactly the text
\* of the standard: the active lines in order through the includes, each with
\* the definition and the packing in force at that line; no byte is in two
\* packed ranges; and the macro table at the end is the standard's.
TextIsReference ==
  phase = "done" /\ ~stopped =>
    LET ref == Reference IN
    ref.malformed \/ ref.departs \/
      /\ text = [i \in 1..Len(ref.text) |-> [at |-> ref.text[i].at, def |-> ref.text[i].def]]
      /\ \A i \in 1..Len(text) : WidthAt(i) = ref.text[i].width
      /\ \A i, j \in 1..Len(packed) : i < j => packed[i].to <= packed[j].from
      /\ active = ref.table

\* Conditionals are reported as unmatched, unfinished or misplaced exactly when
\* a file that is read is not a nest of if-sections.
StructureIsChecked ==
  phase = "done" /\ ~stopped =>
    LET ref == Reference IN
    ref.departs \/ (ref.malformed <=> \E code \in {"E2105", "E2106", "E2107"} : IsIssue(code))

\* Each file is found where a search finds it that remembers, along every chain
\* of #include and #include_next, under which root the including file was found:
\* the roots are credited with the files found under them, which is what the
\* fingerprint of a search covers, and a file has the role of its first finding.
SearchIsReference ==
  phase = "done" /\ ~stopped =>
    LET ref == Reference IN
    ref.malformed \/ ref.departs \/
      /\ used = ref.used
      /\ \A f \in Files \ Builtins :
           ref.roles[f] = IF f \in DOMAIN loaded THEN loaded[f] ELSE None

=============================================================================
