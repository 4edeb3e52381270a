------------------------ MODULE MCTracedPreprocessor ------------------------
(***************************************************************************)
(* Families of small programs for TracedPreprocessor: every file of five   *)
(* lines of conditionals, every pair of files that include each other,     *)
(* small files under limits tight enough that each of them is met, and     *)
(* chains of headers of one name under roots of every arrangement.         *)
(***************************************************************************)
EXTENDS PreprocessingReference

CONSTANTS a, b, c, d, cmd, A

L(op)       == [op |-> op]
LA(op, arg) == [op |-> op, arg |-> arg]
Cond(op, arg, calls) == [op |-> op, arg |-> arg, calls |-> calls]
IncludeLine(name, system, next, calls) ==
  [op |-> "include", arg |-> name, system |-> system, next |-> next, calls |-> calls]
Inc(name, calls) == IncludeLine(<<name>>, FALSE, FALSE, calls)
Def(body)   == [op |-> "define", arg |-> A, body |-> body]
PackLine(form, width) == [op |-> "pack", arg |-> form, width |-> width]

MCNames  == {A}
MCBodies == {"1", "2", "x##y"}
MCPastes == {"x##y"}
Lists(S, n) == UNION {[1..k -> S] : k \in 0..n}
NoFiles  == <<>>
JustA    == <<a>>
JustB    == <<b>>

Program(la, lb, lc, ld, lcmd) ==
  [f \in {a, b, c, d, cmd} |-> CASE f = a -> la [] f = b -> lb [] f = c -> lc [] f = d -> ld
                                 [] f = cmd -> lcmd]

\* One file, and a macro that the command line may have defined.
OneFile(bodies, commands) ==
  {Program(l, <<>>, <<>>, <<>>, k) : l \in bodies, k \in commands}

ConditionalLines ==
  {Cond("if", "true", 0), Cond("if", "false", 0), Cond("elif", "true", 0), L("else"), L("endif"),
   LA("ifdef", A), Def("2"), LA("text", A)}
ConditionalPrograms ==
  OneFile(Lists(ConditionalLines, 5), {<<>>}) \cup OneFile(Lists(ConditionalLines, 4), {<<Def("1")>>})

\* Two files that include each other and themselves.
Headers ==
  {<<Def("x##y"), LA("text", A)>>,
   <<L("once"), LA("text", A), Inc("a", 0)>>,
   <<LA("ifndef", A), Def("x##y"), Inc("b", 0), LA("text", A), L("endif")>>,
   <<PackLine("push set", 1), Inc("a", 0), LA("text", A), PackLine("pop", 1)>>,
   <<LA("undef", A), PackLine("set", 2), LA("text", A)>>}
IncludingLines ==
  {Inc("b", 0), Inc("missing", 0), IncludeLine(<<"..", "b">>, FALSE, FALSE, 0),
   IncludeLine(<<>>, FALSE, FALSE, 1), LA("text", A), LA("text", "#"), Def("2"), LA("undef", A),
   LA("ifdef", A), L("endif"), L("once"), PackLine("pop", 1), PackLine("push set", 2),
   PackLine("unknown", 1), LA("report", "P2101")}
IncludePrograms ==
  {Program(l, h, <<>>, <<>>, <<>>) :
     l \in Lists(IncludingLines, 3), h \in Headers}

\* Little files for tight limits.
LimitLines ==
  {Inc("b", 0), Inc("a", 0), LA("text", A), Def("1"), Cond("if", "true", 1),
   Cond("if", "bad", 0), Inc("missing", 0), Inc("b", 1)}
LimitPrograms ==
  {Program(l, h, <<>>, <<>>, k) :
     l \in Lists(LimitLines, 3), h \in {<<LA("text", A)>>, <<Inc("a", 0)>>},
     k \in {<<>>, <<Def("1")>>}}

WideLimits ==
  [max_input_file_bytes |-> 9, max_total_input_bytes |-> 9, max_include_depth |-> 2,
   max_include_count |-> 9, max_macro_definitions |-> 9, max_macro_expansions |-> 9,
   max_tokens |-> 99, max_generated_bytes |-> 9]
TightLimits ==
  [max_input_file_bytes |-> 1, max_total_input_bytes |-> 2, max_include_depth |-> 1,
   max_include_count |-> 2, max_macro_definitions |-> 1, max_macro_expansions |-> 1,
   max_tokens |-> 9, max_generated_bytes |-> 1]

DeepLimits == [WideLimits EXCEPT !.max_include_depth = 4]

\* Headers of one name: b and c somewhere under the roots, d supplied by PARC.
Header(system, next) == IncludeLine(<<"h">>, system, next, 0)
SearchPrograms ==
  {Program(la, lb, lc, ld, <<>>) :
     la \in {<<Header(FALSE, FALSE)>>, <<Header(TRUE, FALSE)>>, <<Header(FALSE, TRUE)>>,
             <<Header(FALSE, FALSE), Header(TRUE, FALSE)>>},
     lb \in Lists({LA("text", A), L("once"), Header(TRUE, TRUE), Header(TRUE, FALSE)}, 2),
     lc \in {<<LA("text", A)>>, <<L("once"), Header(TRUE, TRUE)>>, <<Header(FALSE, TRUE)>>},
     ld \in {<<LA("text", A)>>, <<L("once"), Header(TRUE, TRUE)>>}}

Root(dir, kind) == [dir |-> dir, kind |-> kind]

\* Where a, b and c are, the roots, and a link to b, if any.
LayoutOf(atA, atB, atC, roots, links) ==
  LET path == [f \in {a, b, c} |-> CASE f = a -> atA [] f = b -> atB [] f = c -> atC] IN
  [roots |-> roots, path |-> path, builtins |-> [n \in {<<"h">>} |-> d], mapped |-> {a, b, c},
   tree |-> [p \in {atA, atB, atC} \cup links |->
               IF p \in links THEN b ELSE CHOOSE f \in {a, b, c} : path[f] = p]]

X == Root(<<"x">>, "user")
Y == Root(<<"y">>, "system")
Z == Root(<<"x", "z">>, "system")

Flat   == LayoutOf(<<"a">>, <<"b">>, <<"c">>, <<>>, {})
Apart  == LayoutOf(<<"a">>, <<"x", "h">>, <<"y", "h">>, <<X, Y>>, {})
Inner  == LayoutOf(<<"a">>, <<"x", "z", "h">>, <<"x", "h">>, <<Z, X>>, {})
Outer  == LayoutOf(<<"a">>, <<"x", "z", "h">>, <<"y", "h">>, <<X, Z, Y>>, {})
Twice  == LayoutOf(<<"a">>, <<"x", "h">>, <<"y", "h">>, <<X, X, Y>>, {})
Adjacent == LayoutOf(<<"a">>, <<"h">>, <<"y", "h">>, <<X, Y>>, {})
InRoot == LayoutOf(<<"x", "a">>, <<"x", "h">>, <<"y", "h">>, <<X, Y>>, {})
Linked == LayoutOf(<<"a">>, <<"y", "h">>, <<"x", "z", "h">>, <<X, Y, Z>>, {<<"x", "h">>})
Hidden == [Apart EXCEPT !.mapped = {a, b}]

Scan(programs, forced, sizes, limits, layout) ==
  [programs |-> programs, forced_includes |-> forced, entry_headers |-> JustA,
   sizes |-> sizes, limits |-> limits, layout |-> layout]

SearchSetup(layout) == Scan(SearchPrograms, NoFiles, {1}, DeepLimits, layout)

MCSetups ==
  <<Scan(ConditionalPrograms, NoFiles, {1}, WideLimits, Flat),
    Scan(IncludePrograms, NoFiles, {1}, WideLimits, Flat),
    Scan(LimitPrograms, JustB, {1, 2}, TightLimits, Flat),
    SearchSetup(Apart), SearchSetup(Inner), SearchSetup(Outer), SearchSetup(Twice),
    SearchSetup(Adjacent), SearchSetup(InRoot), SearchSetup(Linked), SearchSetup(Hidden)>>

=============================================================================
