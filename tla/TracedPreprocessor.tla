------------------------- MODULE TracedPreprocessor -------------------------
(***************************************************************************)
(* scan/traced.rs: the built-in preprocessor of a scan.  It loads files    *)
(* under byte budgets, walks their lines with a stack of conditionals per  *)
(* file, keeps the macro table, descends into includes, expands the text   *)
(* between two directives at once, and gives up at the first of its limits.*)
(*                                                                         *)
(* A file is a sequence of lines; a line of text is one identifier, whose  *)
(* expansion is the definition it meets.  An include is the header name it *)
(* spells, a condition is what it evaluates to, each with the number of    *)
(* macros it invokes; a definition is where it stands and its body.        *)
(***************************************************************************)
EXTENDS IncludeSearch, FiniteSets

CONSTANTS
  Files,         \* the physical files
  Builtins,      \* the headers PARC supplies: subset of Files
  CommandLine,   \* the pseudo file of the define events
  Names,         \* macro names
  Bodies,        \* replacement lists
  Pastes,        \* those with # or ##: subset of Bodies
  Setups,        \* what is scanned: programs, with configuration and limits
  None           \* no definition, no packing

Conditionals == {"if", "ifdef", "ifndef", "elif", "else", "endif"}
Reports   == {"E2103", "W2100", "P2101", "P2103", "P2104", "P2105"}
Widths    == {1, 2}
PackForms == {"reset", "set", "push", "push set", "pop", "unknown"}

\* A line, by what parse_directive makes of it.
Line ==
  [op : {"text"}, arg : Names \cup {"#"}]
    \cup [op : {"if", "elif"}, arg : {"true", "false", "bad"}, calls : Nat]
    \cup [op : {"ifdef", "ifndef", "undef"}, arg : Names]
    \cup [op : {"else", "endif", "once"}]
    \cup [op : {"define"}, arg : Names, body : Bodies]
    \cup [op : {"include"}, arg : Seq(STRING), system : BOOLEAN, next : BOOLEAN, calls : Nat]
    \cup [op : {"pack"}, arg : PackForms, width : Widths]
    \cup [op : {"report"}, arg : Reports]

LimitCodes == {"E2203", "E2204", "E2205", "E2206", "E2207", "E2208"}
LoadCodes  == {"E2201", "E2202"}
Codes == LimitCodes \cup Reports \cup
           {"E2102", "E2104", "E2105", "E2106", "E2107", "E2108", "E2111", "E2113",
            "P2100", "P2106", "P2110"}

ASSUME FilesAssumption ==
  /\ Builtins \subseteq Files
  /\ CommandLine \notin Files
  /\ Pastes \subseteq Bodies

\* Where a macro is defined, and where a word is read.
Sites == [file : Files \cup {CommandLine}, line : Nat]

ASSUME NoneAssumption == None \notin Sites

ScanLimits == [max_input_file_bytes : Nat, max_total_input_bytes : Nat, max_include_depth : Nat,
               max_include_count : Nat, max_macro_definitions : Nat,
               max_macro_expansions : Nat, max_tokens : Nat, max_generated_bytes : Nat]

LayoutAssumption(layout) ==
  /\ layout.roots \in Seq([dir : Seq(STRING), kind : Kinds])
  /\ \A f \in DOMAIN layout.path : f \in Files \ Builtins /\ layout.tree[layout.path[f]] = f
  /\ \A p \in DOMAIN layout.tree : layout.tree[p] \in DOMAIN layout.path
  /\ \A n \in DOMAIN layout.builtins : layout.builtins[n] \in Builtins

ASSUME SetupsAssumption ==
  \A k \in DOMAIN Setups :
    /\ Setups[k].programs \subseteq [Files \cup {CommandLine} -> Seq(Line)]
    /\ Setups[k].forced_includes \in Seq(Files)
    /\ Setups[k].entry_headers \in Seq(Files)
    /\ Setups[k].sizes \subseteq Nat
    /\ Setups[k].limits \in ScanLimits
    /\ LayoutAssumption(Setups[k].layout)
    /\ \A i \in DOMAIN Setups[k].forced_includes :
         Physical(Setups[k].layout, Setups[k].forced_includes[i])
    /\ \A i \in DOMAIN Setups[k].entry_headers :
         Physical(Setups[k].layout, Setups[k].entry_headers[i])

VARIABLES
  config,     \* the configuration of the scan, and what the files hold
  phase,      \* where preprocess_builtin_traced is
  todo,       \* the next file, define event or output token of that phase
  frames,     \* process_loaded calls, innermost first
  pc,         \* whether the line at hand is new or its pending text was flushed
  pending,    \* text read and not expanded yet
  output,     \* expanded tokens and packing marks
  active, defs, inconsistent, pasting,  \* active_macros, macro_definitions, ...
  once,       \* files that said #pragma once
  packing, packStack,
  loaded, total, used,    \* loaded with roles, total_input_bytes, used_search_files
  includes, expansions, tokens,         \* the counters of the limits
  issues, stopped, error,
  text, since, packed                   \* what is returned

macroVars == <<active, defs, inconsistent, pasting>>
packVars  == <<packing, packStack>>
loadVars  == <<loaded, total, used>>
textVars  == <<text, since, packed>>
vars == <<config, phase, todo, frames, pc, pending, output, macroVars, once, packVars,
          loadVars, includes, expansions, tokens, issues, stopped, error, textVars>>

program == config.program
Forced  == config.forced_includes
Entries == config.entry_headers
Sizes   == config.sizes   \* of a file, when it is looked at and when it is read
Layout  == config.layout

MaxFileBytes   == config.limits.max_input_file_bytes
MaxTotalBytes  == config.limits.max_total_input_bytes
MaxDepth       == config.limits.max_include_depth
MaxIncludes    == config.limits.max_include_count
MaxDefinitions == config.limits.max_macro_definitions
MaxExpansions  == config.limits.max_macro_expansions
MaxTokens      == config.limits.max_tokens
MaxGenerated   == config.limits.max_generated_bytes

Init ==
  /\ \E k \in DOMAIN Setups : \E p \in Setups[k].programs :
       config = [program |-> p, forced_includes |-> Setups[k].forced_includes,
                 entry_headers |-> Setups[k].entry_headers, sizes |-> Setups[k].sizes,
                 limits |-> Setups[k].limits, layout |-> Setups[k].layout]
  /\ phase = "define" /\ todo = 1
  /\ frames = <<>> /\ pc = "line" /\ pending = <<>> /\ output = <<>>
  /\ active = [n \in Names |-> None] /\ defs = <<>>
  /\ inconsistent = {} /\ pasting = {}
  /\ once = {} /\ packing = None /\ packStack = <<>>
  /\ loaded = <<>> /\ total = 0 /\ used = {}
  /\ includes = 0 /\ expansions = 0 /\ tokens = 0
  /\ issues = <<>> /\ stopped = FALSE /\ error = "none"
  /\ text = <<>> /\ since = None /\ packed = <<>>

\* limit_issue: only the first limit is reported.
LimitHit(code) ==
  /\ issues' = IF stopped THEN issues ELSE Append(issues, code)
  /\ stopped' = TRUE

Report(code) == issues' = Append(issues, code)

-----------------------------------------------------------------------------
(* The macro table *)

Definition(file, line) == [file |-> file, line |-> line]
BodyOf(d) == program[d.file][d.line].body

DefinitionIssues(differs, pastes) ==
  (IF differs THEN <<"P2110">> ELSE <<>>) \o (IF pastes THEN <<"E2111">> ELSE <<>>)

\* define_macro: a redefinition that differs is noted and still takes effect.
Defines(n, d) ==
  IF Len(defs) >= MaxDefinitions
  THEN LimitHit("E2208") /\ UNCHANGED macroVars
  ELSE LET differs == active[n] # None /\ BodyOf(active[n]) # BodyOf(d)
           pastes  == BodyOf(d) \in Pastes IN
       /\ inconsistent' = IF differs THEN inconsistent \cup {n} ELSE inconsistent
       /\ pasting' = IF pastes THEN pasting \cup {n} ELSE pasting
       /\ issues' = issues \o DefinitionIssues(differs, pastes)
       /\ defs' = Append(defs, [name |-> n, at |-> d])
       /\ active' = [active EXCEPT ![n] = d]
       /\ UNCHANGED stopped

Undefines(n) ==
  /\ active' = [active EXCEPT ![n] = None]
  /\ UNCHANGED <<defs, inconsistent, pasting>>

\* install_command_line_macros
Predefine ==
  /\ phase = "define"
  /\ todo <= Len(program[CommandLine])
  /\ todo' = todo + 1
  /\ LET line == program[CommandLine][todo] IN
       \/ line.op = "define" /\ Defines(line.arg, Definition(CommandLine, todo))
       \/ line.op = "undef" /\ Undefines(line.arg) /\ UNCHANGED <<issues, stopped>>
  /\ UNCHANGED <<config, phase, frames, pc, pending, output, once, packVars, loadVars,
                 includes, expansions, tokens, error, textVars>>

Predefined ==
  /\ phase = "define"
  /\ todo > Len(program[CommandLine])
  /\ phase' = "load" /\ todo' = 1
  /\ UNCHANGED <<config, frames, pc, pending, output, macroVars, once, packVars, loadVars,
                 includes, expansions, tokens, issues, stopped, error, textVars>>

\* finish_macros: one entry per active name, with what any of its definitions
\* did to it.
Support(n) ==
  IF n \in pasting THEN "unsupported"
  ELSE IF n \in inconsistent THEN "partial" ELSE "supported"

\* Mutant of Inventory: superseded and undefined definitions are listed too.
InventoryOfAll ==
  {[name |-> defs[i].name, at |-> defs[i].at, support |-> Support(defs[i].name)] :
     i \in 1..Len(defs)}

Inventory ==
  {[name |-> n, at |-> active[n], support |-> Support(n)] :
     n \in {m \in Names : \E i \in 1..Len(defs) : defs[i] = [name |-> m, at |-> active[m]]}}

-----------------------------------------------------------------------------
(* load_physical: a file is looked at, then read, and may have grown *)

Smaller(m, n) == IF m < n THEN m ELSE n
Cached(f) == f \in DOMAIN loaded \cup Builtins

\* Mutant of LoadError: the bytes read are not counted again.
LoadErrorBySeen(f, seen, read) ==
  IF Cached(f) THEN "none"
  ELSE IF seen > MaxFileBytes THEN "E2201"
  ELSE IF seen > MaxTotalBytes - total THEN "E2202"
  ELSE "none"

LoadError(f, seen, read) ==
  LET room == MaxTotalBytes - total IN
  IF Cached(f) THEN "none"
  ELSE IF seen > MaxFileBytes THEN "E2201"
  ELSE IF seen > room THEN "E2202"
  ELSE IF read > Smaller(MaxFileBytes, room)
       THEN IF MaxFileBytes <= room THEN "E2201" ELSE "E2202"
  ELSE IF f \notin Layout.mapped THEN "unmapped"
  ELSE "none"

\* A file keeps the role it was first loaded in.
Loads(f, read, role) ==
  /\ loaded' = IF Cached(f) THEN loaded
               ELSE [g \in DOMAIN loaded \cup {f} |-> IF g = f THEN role ELSE loaded[g]]
  /\ total' = IF Cached(f) THEN total ELSE total + read

Fails(code) == phase' = "failed" /\ error' = code

\* Entries before forced includes, so that an entry keeps its role.
LoadRoot(seen, read) ==
  /\ phase = "load"
  /\ todo <= Len(Entries \o Forced)
  /\ LET f == (Entries \o Forced)[todo]
         code == LoadError(f, seen, read) IN
       IF code = "none"
       THEN /\ Loads(f, read, IF todo <= Len(Entries) THEN "entry" ELSE "user")
            /\ todo' = todo + 1
            /\ UNCHANGED <<phase, error, used>>
       ELSE Fails(code) /\ UNCHANGED <<loadVars, todo>>
  /\ UNCHANGED <<config, frames, pc, pending, output, macroVars, once, packVars,
                 includes, expansions, tokens, issues, stopped, textVars>>

Loaded ==
  /\ phase = "load"
  /\ todo > Len(Entries \o Forced)
  /\ phase' = "process" /\ todo' = 1
  /\ UNCHANGED <<config, frames, pc, pending, output, macroVars, once, packVars, loadVars,
                 includes, expansions, tokens, issues, stopped, error, textVars>>

-----------------------------------------------------------------------------
(* process_loaded: the walk over the lines of a file *)

Top     == Head(frames)
Below   == Tail(frames)
Body    == program[Top.file]
AtEnd   == Top.at > Len(Body)
Current == Body[Top.at]
Here    == Definition(Top.file, Top.at)

Over == stopped \/ AtEnd

\* Mutant of Active: a branch that was taken is read on and on.
ActiveOnceTaken == Top.conds # <<>> => Head(Top.conds).taken

Active == Top.conds # <<>> => Head(Top.conds).active

Passed == [Top EXCEPT !.at = @ + 1]
Moved  == <<Passed>> \o Below
WithConds(conds) == <<[Passed EXCEPT !.conds = conds]>> \o Below

\* The start of process_loaded, up to tokenize, above the frames `below`.
Enters(f, below) ==
  IF stopped \/ f \in once
  THEN frames' = below /\ UNCHANGED <<tokens, issues, stopped>>
  ELSE IF Len(below) > MaxDepth
  THEN frames' = below /\ LimitHit("E2203") /\ UNCHANGED tokens
  ELSE /\ frames' = <<[file |-> f, at |-> 1, conds |-> <<>>]>> \o below
       /\ tokens' = tokens + Len(program[f]) + 1
       /\ IF tokens' > MaxTokens THEN LimitHit("E2205") ELSE UNCHANGED <<issues, stopped>>

ProcessRoot ==
  /\ phase = "process" /\ frames = <<>>
  /\ todo <= Len(Forced \o Entries)
  /\ Enters((Forced \o Entries)[todo], <<>>)
  /\ todo' = todo + 1
  /\ UNCHANGED <<config, phase, pc, pending, output, macroVars, once, packVars, loadVars,
                 includes, expansions, error, textVars>>

Processed ==
  /\ phase = "process" /\ frames = <<>>
  /\ todo > Len(Forced \o Entries)
  /\ phase' = "text" /\ todo' = 1
  /\ UNCHANGED <<config, frames, pc, pending, output, macroVars, once, packVars, loadVars,
                 includes, expansions, tokens, issues, stopped, error, textVars>>

\* Text is collected, to be expanded at the next directive or the end.
ReadText ==
  /\ phase = "process" /\ frames # <<>> /\ pc = "line" /\ ~Over
  /\ Current.op = "text"
  /\ pending' = IF Active THEN Append(pending, [name |-> Current.arg, at |-> Here])
                ELSE pending
  /\ issues' = IF Active /\ Current.arg = "#" THEN Append(issues, "E2108") ELSE issues
  /\ frames' = Moved
  /\ UNCHANGED <<config, phase, todo, pc, output, macroVars, once, packVars, loadVars,
                 includes, expansions, tokens, stopped, error, textVars>>

DefinitionOf(name) == IF name \in Names THEN active[name] ELSE None
Expanded == [i \in 1..Len(pending) |->
               [mark |-> FALSE, at |-> pending[i].at, def |-> DefinitionOf(pending[i].name)]]
Invocations == Cardinality({i \in 1..Len(pending) : Expanded[i].def # None})

\* flush_pending, then the issues `after` it.  Past a limit nothing is written.
Flushes(after) ==
  /\ pending' = <<>>
  /\ IF pending = <<>> \/ stopped
     THEN issues' = issues \o after /\ UNCHANGED <<output, expansions, tokens, stopped>>
     ELSE LET hit == IF expansions + Invocations > MaxExpansions THEN <<"E2206">>
                     ELSE IF tokens + Len(pending) > MaxTokens THEN <<"E2205">>
                     ELSE <<>> IN
          /\ expansions' = Smaller(expansions + Invocations, MaxExpansions + 1)
          /\ tokens' = tokens + Len(pending)
          /\ output' = IF hit = <<>> THEN output \o Expanded ELSE output
          /\ issues' = issues \o hit \o after
          /\ stopped' = (hit # <<>>)

\* Mutant of BeginDirective: the text waits for the end of the file.
BeginUnflushed ==
  /\ phase = "process" /\ frames # <<>> /\ pc = "line" /\ ~Over
  /\ Current.op # "text"
  /\ pc' = "directive"
  /\ UNCHANGED <<config, phase, todo, frames, pending, output, macroVars, once, packVars,
                 loadVars, includes, expansions, tokens, issues, stopped, error, textVars>>

\* A directive first flushes the text before it, even one that is skipped.
BeginDirective ==
  /\ phase = "process" /\ frames # <<>> /\ pc = "line" /\ ~Over
  /\ Current.op # "text"
  /\ Flushes(<<>>)
  /\ pc' = "directive"
  /\ UNCHANGED <<config, phase, todo, frames, macroVars, once, packVars, loadVars,
                 includes, error, textVars>>

\* The end of the file, or of all work: what is open is malformed.
EndFile ==
  /\ phase = "process" /\ frames # <<>> /\ pc = "line" /\ Over
  /\ Flushes(IF Top.conds # <<>> THEN <<"E2105">> ELSE <<>>)
  /\ frames' = Below
  /\ UNCHANGED <<config, phase, todo, pc, macroVars, once, packVars, loadVars,
                 includes, error, textVars>>

-----------------------------------------------------------------------------
(* The directives.  After its flush a directive runs whether or not that   *)
(* flush hit a limit.                                                      *)

Directive(ops) ==
  /\ phase = "process" /\ frames # <<>> /\ pc = "directive"
  /\ Current.op \in ops
  /\ pc' = "line"
  /\ UNCHANGED <<config, todo, pending, textVars>>

\* expand_tokens of an operand that begins with its macros: past the limit on
\* expansions, or after any other, nothing of it is left.
Overruns == ~stopped /\ expansions + Current.calls > MaxExpansions
Cut      == stopped \/ Overruns
Evaluates(after) ==
  /\ expansions' = IF stopped THEN expansions
                   ELSE Smaller(expansions + Current.calls, MaxExpansions + 1)
  /\ issues' = issues \o (IF Overruns THEN <<"E2206">> ELSE <<>>) \o after
  /\ stopped' = Cut

\* evaluate_condition: nothing is no condition.
Bad(line) == line.op \in {"if", "elif"} /\ (line.arg = "bad" \/ Cut)
Holds(line) ==
  \/ line.op \in {"if", "elif"} /\ line.arg = "true" /\ ~Bad(line)
  \/ line.op = "ifdef" /\ active[line.arg] # None
  \/ line.op = "ifndef" /\ active[line.arg] = None

\* Mutant of Branch: the branch around an #if is not looked at.
BranchAnywhere == Holds(Current)

Branch == Active /\ Holds(Current)

OpenIf ==
  /\ Directive({"if", "ifdef", "ifndef"})
  /\ frames' = WithConds(<<[taken |-> Branch, active |-> Branch, parent |-> Active,
                            else_seen |-> FALSE]>> \o Top.conds)
  /\ IF Active /\ Current.op = "if"
     THEN Evaluates(IF Bad(Current) THEN <<"E2113">> ELSE <<>>)
     ELSE UNCHANGED <<expansions, issues, stopped>>
  /\ UNCHANGED <<phase, output, macroVars, once, packVars, loadVars, includes, tokens, error>>

\* Elif, Else and Endif act on the innermost conditional of this file.
Unmatched ==
  /\ Top.conds = <<>>
  /\ frames' = Moved
  /\ Report("E2106")
  /\ UNCHANGED <<expansions, stopped>>

ReplaceCond(state) == WithConds(<<state>> \o Tail(Top.conds))

\* An #elif or #else after #else closes the conditional for good.
Malformed ==
  /\ Top.conds # <<>> /\ Head(Top.conds).else_seen
  /\ frames' = ReplaceCond([Head(Top.conds) EXCEPT !.active = FALSE])
  /\ Report("E2107")
  /\ UNCHANGED <<expansions, stopped>>

\* Mutant of Asked: a branch is taken though an earlier one was.
AskedAgain(state) == state.parent

\* An #elif is evaluated only where its value matters.
Asked(state) == ~state.taken /\ state.parent

Elif ==
  /\ Directive({"elif"})
  /\ \/ Unmatched
     \/ Malformed
     \/ /\ Top.conds # <<>> /\ ~Head(Top.conds).else_seen
        /\ LET state == Head(Top.conds)
               branch == Asked(state) /\ Holds(Current) IN
             /\ frames' = ReplaceCond([state EXCEPT !.active = branch,
                                                    !.taken = @ \/ branch])
             /\ IF Asked(state) THEN Evaluates(IF Bad(Current) THEN <<"E2113">> ELSE <<>>)
                ELSE UNCHANGED <<expansions, issues, stopped>>
  /\ UNCHANGED <<phase, output, macroVars, once, packVars, loadVars, includes, tokens, error>>

\* Mutant of Elsed: an #else leaves no trace.
ElsedOnceMore(state) == [state EXCEPT !.active = state.parent /\ ~state.taken, !.taken = TRUE]

Elsed(state) ==
  [state EXCEPT !.active = state.parent /\ ~state.taken, !.taken = TRUE, !.else_seen = TRUE]

Else ==
  /\ Directive({"else"})
  /\ \/ Unmatched
     \/ Malformed
     \/ /\ Top.conds # <<>> /\ ~Head(Top.conds).else_seen
        /\ frames' = ReplaceCond(Elsed(Head(Top.conds)))
        /\ UNCHANGED <<expansions, issues, stopped>>
  /\ UNCHANGED <<phase, output, macroVars, once, packVars, loadVars, includes, tokens, error>>

Endif ==
  /\ Directive({"endif"})
  /\ \/ Unmatched
     \/ /\ Top.conds # <<>>
        /\ frames' = WithConds(Tail(Top.conds))
        /\ UNCHANGED <<expansions, issues, stopped>>
  /\ UNCHANGED <<phase, output, macroVars, once, packVars, loadVars, includes, tokens, error>>

\* Mutant of Skip: the walk stays at a line that is not for it.
SkipStaying ==
  /\ Directive({"define", "undef", "include", "once", "pack", "report"}) /\ ~Active
  /\ UNCHANGED <<phase, frames, output, macroVars, once, packVars, loadVars, includes, tokens, expansions,
                 issues, stopped, error>>

Skip ==
  /\ Directive({"define", "undef", "include", "once", "pack", "report"}) /\ ~Active
  /\ frames' = Moved
  /\ UNCHANGED <<phase, output, macroVars, once, packVars, loadVars, includes, tokens, expansions,
                 issues, stopped, error>>

Define ==
  /\ Directive({"define"}) /\ Active
  /\ Defines(Current.arg, Here)
  /\ frames' = Moved
  /\ UNCHANGED <<phase, output, once, packVars, loadVars, includes, tokens, expansions, error>>

Undef ==
  /\ Directive({"undef"}) /\ Active
  /\ Undefines(Current.arg)
  /\ frames' = Moved
  /\ UNCHANGED <<phase, output, once, packVars, loadVars, includes, tokens, expansions, issues, stopped,
                 error>>

Including == Directive({"include"}) /\ Active

\* A computed include, and whether it spells a header.
Computed == Current.calls > 0 \/ Current.arg = <<>>
Spelled  == Computed => Current.arg # <<>> /\ ~Cut

\* computed_include that spells no header: it is not even counted.
IncludeNothing ==
  /\ Including
  /\ ~Spelled
  /\ Evaluates(<<"P2106">>)
  /\ frames' = Moved
  /\ UNCHANGED <<phase, output, macroVars, once, packVars, loadVars, includes, tokens, error>>

\* The macros of a header that is spelled are within the limit, or there are none.
Counted ==
  /\ Including
  /\ Spelled
  /\ expansions' = expansions + Current.calls
  /\ includes' = includes + 1

IncludeTooMany ==
  /\ Counted
  /\ includes' > MaxIncludes
  /\ LimitHit("E2204")
  /\ frames' = Moved
  /\ UNCHANGED <<phase, output, macroVars, once, packVars, loadVars, tokens, error>>

\* What the include of this line finds.
Hits == IF Unsafe(Current.arg) THEN {}
        ELSE Resolved(Layout, Top.file, Current.arg, Current.system, Current.next)

IncludeUnresolved ==
  /\ Counted
  /\ includes' <= MaxIncludes
  /\ Hits = {}
  /\ Report(IF Unsafe(Current.arg) THEN "E2102" ELSE "P2100")
  /\ frames' = Moved
  /\ UNCHANGED <<phase, output, macroVars, once, packVars, loadVars, tokens, stopped, error>>

\* The mapping is asked before the file is loaded.
IncludeError(f, seen, read) ==
  IF f \notin Layout.mapped \cup Builtins THEN "unmapped" ELSE LoadError(f, seen, read)

\* A header is loaded, and its root credited with it, before its #pragma once
\* and the depth are looked at.
Include(seen, read) ==
  /\ Counted
  /\ includes' <= MaxIncludes
  /\ \E hit \in Hits :
     LET f == hit.file
         code == IncludeError(f, seen, read) IN
       IF code = "none"
       THEN /\ Loads(f, read, hit.role)
            /\ used' = IF hit.root = 0 THEN used
                       ELSE used \cup {<<Layout.roots[hit.root].dir, f>>}
            /\ Enters(f, Moved)
            /\ UNCHANGED <<phase, error>>
       ELSE /\ Fails(code)
            /\ UNCHANGED <<loadVars, frames, tokens, issues, stopped>>
  /\ UNCHANGED <<output, macroVars, once, packVars>>

Once ==
  /\ Directive({"once"}) /\ Active
  /\ once' = once \cup {Top.file}
  /\ frames' = Moved
  /\ UNCHANGED <<phase, output, macroVars, packVars, loadVars, includes, tokens, expansions, issues,
                 stopped, error>>

\* apply_pack_pragma: a pop of nothing turns packing off.
Packs(form, width) ==
  /\ packing' = CASE form = "reset" -> None
                  [] form \in {"set", "push set"} -> width
                  [] form = "pop" -> (IF packStack = <<>> THEN None ELSE Head(packStack))
                  [] form \in {"push", "unknown"} -> packing
  /\ packStack' = CASE form \in {"push", "push set"} -> <<packing>> \o packStack
                    [] form = "pop" /\ packStack # <<>> -> Tail(packStack)
                    [] OTHER -> packStack

\* A mark is left in the output only where the packing changes.
Pack ==
  /\ Directive({"pack"}) /\ Active
  /\ Packs(Current.arg, Current.width)
  /\ output' = IF packing' # packing THEN Append(output, [mark |-> TRUE, width |-> packing'])
               ELSE output
  /\ Report("E2104")
  /\ frames' = Moved
  /\ UNCHANGED <<phase, macroVars, once, loadVars, includes, tokens, expansions, stopped, error>>

Reported ==
  /\ Directive({"report"}) /\ Active
  /\ Report(Current.arg)
  /\ frames' = Moved
  /\ UNCHANGED <<phase, output, macroVars, once, packVars, loadVars, includes, tokens, expansions,
                 stopped, error>>

-----------------------------------------------------------------------------
(* The text: what the parser will read, and which of it is packed *)

Texting == phase = "text" /\ todo <= Len(output) /\ ~stopped

\* A packed range ends where the packing changes; ranges are [from, to).
Closes == packed' = IF since = None THEN packed
                    ELSE Append(packed, [from |-> since.from, to |-> Len(text),
                                         width |-> since.width])

\* Mutant of Opened: no packing is a width too.
OpenedAlways(width) == [from |-> Len(text), width |-> width]

Opened(width) == IF width = None THEN None ELSE [from |-> Len(text), width |-> width]

WriteMark ==
  /\ Texting /\ output[todo].mark
  /\ Closes
  /\ since' = Opened(output[todo].width)
  /\ todo' = todo + 1
  /\ UNCHANGED <<config, phase, frames, pc, pending, output, macroVars, once, packVars,
                 loadVars, includes, expansions, tokens, issues, stopped, error, text>>

WriteToken ==
  /\ Texting /\ ~output[todo].mark
  /\ IF Len(text) + 1 > MaxGenerated
     THEN LimitHit("E2207") /\ UNCHANGED <<text, todo>>
     ELSE /\ text' = Append(text, [at |-> output[todo].at, def |-> output[todo].def])
          /\ todo' = todo + 1
          /\ UNCHANGED <<issues, stopped>>
  /\ UNCHANGED <<config, phase, frames, pc, pending, output, macroVars, once, packVars,
                 loadVars, includes, expansions, tokens, error, since, packed>>

Return ==
  /\ phase = "text"
  /\ todo > Len(output) \/ stopped
  /\ Closes /\ since' = None
  /\ phase' = "done"
  /\ UNCHANGED <<config, todo, frames, pc, pending, output, macroVars, once, packVars,
                 loadVars, includes, expansions, tokens, issues, stopped, error, text>>

-----------------------------------------------------------------------------
Step ==
  \/ Predefine
  \/ Predefined
  \/ \E seen, read \in Sizes : LoadRoot(seen, read)
  \/ Loaded
  \/ ProcessRoot
  \/ Processed
  \/ ReadText
  \/ BeginDirective
  \/ EndFile
  \/ OpenIf
  \/ Elif
  \/ Else
  \/ Endif
  \/ Skip
  \/ Define
  \/ Undef
  \/ IncludeNothing
  \/ IncludeTooMany
  \/ IncludeUnresolved
  \/ \E seen, read \in Sizes : Include(seen, read)
  \/ Once
  \/ Pack
  \/ Reported
  \/ WriteMark
  \/ WriteToken
  \/ Return

Spec == Init /\ [][Step]_vars

FairSpec == Spec /\ WF_vars(Step)

-----------------------------------------------------------------------------
(* Properties *)

Conditional == [taken : BOOLEAN, active : BOOLEAN, parent : BOOLEAN, else_seen : BOOLEAN]
Frame == [file : Files, at : Nat, conds : Seq(Conditional)]
Packing == Widths \cup {None}

WalkTypeOK ==
  /\ phase \in {"define", "load", "process", "text", "done", "failed"}
  /\ todo \in Nat
  /\ frames \in Seq(Frame)
  /\ pc \in {"line", "directive"}
  /\ pending \in Seq([name : Names \cup {"#"}, at : Sites])
  /\ once \subseteq Files

TableTypeOK ==
  /\ active \in [Names -> Sites \cup {None}]
  /\ defs \in Seq([name : Names, at : Sites])
  /\ inconsistent \subseteq Names /\ pasting \subseteq Names

CountTypeOK ==
  /\ total \in Nat /\ includes \in Nat /\ expansions \in Nat /\ tokens \in Nat
  /\ issues \in Seq(Codes)
  /\ stopped \in BOOLEAN
  /\ error \in LoadCodes \cup {"none", "unmapped"}

LoadTypeOK ==
  /\ DOMAIN loaded \subseteq Files \ Builtins
  /\ \A f \in DOMAIN loaded : loaded[f] \in Roles
  /\ used \in SUBSET {<<Layout.roots[i].dir, f>> : i \in DOMAIN Layout.roots, f \in Files}

PackTypeOK == packing \in Packing /\ packStack \in Seq(Packing)

TextTypeOK ==
  /\ output \in Seq([mark : {TRUE}, width : Packing]
                      \cup [mark : {FALSE}, at : Sites, def : Sites \cup {None}])
  /\ text \in Seq([at : Sites, def : Sites \cup {None}])
  /\ since \in [from : Nat, width : Widths] \cup {None}
  /\ packed \in Seq([from : Nat, to : Nat, width : Widths])

\* Every variable keeps its type.
TypeOK == WalkTypeOK /\ TableTypeOK /\ CountTypeOK /\ LoadTypeOK /\ PackTypeOK /\ TextTypeOK

IsIssue(code) == \E i \in 1..Len(issues) : issues[i] = code

\* The budgets hold at every moment: bytes of files that grow while they are
\* read, nested files, definitions, and the text that is returned.  However one
\* is passed - on entering a file, in a flush that a directive of the same line
\* follows, in the text - the scan stops and says so once.
BudgetsKept ==
  /\ total <= MaxTotalBytes
  /\ Len(frames) <= MaxDepth + 1
  /\ Len(defs) <= MaxDefinitions
  /\ Len(text) <= MaxGenerated
  /\ ~stopped => includes <= MaxIncludes /\ expansions <= MaxExpansions /\ tokens <= MaxTokens
  /\ Cardinality({i \in 1..Len(issues) : issues[i] \in LimitCodes}) = IF stopped THEN 1 ELSE 0

\* A conditional is active only in a branch that was taken inside a branch that
\* is itself active, up to the top of the file.
NestedInTaken ==
  \A i \in 1..Len(frames) : LET conds == frames[i].conds IN
    \A j \in 1..Len(conds) :
      /\ conds[j].active => conds[j].taken /\ conds[j].parent
      /\ conds[j].parent = (j = Len(conds) \/ conds[j + 1].active)

\* An if-section has one branch: after it was entered, the section stays taken
\* and every further #elif and #else of it, misplaced ones too, leaves it inactive.
BranchesAreExclusive ==
  [][frames # <<>> /\ Len(frames') = Len(frames) /\ ~AtEnd /\ Top.conds # <<>> =>
       (Head(Top.conds).taken /\ Current.op \in {"elif", "else"} =>
          LET state == Head(Head(frames').conds) IN state.taken /\ ~state.active)]_frames

\* The returned inventory names each macro that is defined at the end once, at
\* the definition in force, and calls it supported only if that can be bound:
\* it does not paste; one that is held back has the issue validation asks for.
InventoryIsActive ==
  phase = "done" =>
    /\ \A n \in Names : Cardinality({m \in Inventory : m.name = n}) =
                          IF active[n] = None THEN 0 ELSE 1
    /\ \A m \in Inventory : m.at = active[m.name]
                            /\ (m.support = "supported" => BodyOf(m.at) \notin Pastes)
    /\ \A m \in Inventory :
         /\ m.support = "unsupported" => IsIssue("E2111")
         /\ m.support = "partial" => IsIssue("P2110")

\* The scan comes to an end, though files may include each other and themselves.
Ends == <>(phase \in {"done", "failed"})

=============================================================================
