------------------------ MODULE MCPackageComposition ------------------------
(***************************************************************************)
(* Packages of three entry files that share a header, with a record, an    *)
(* alias of it and a function, a macro and at most two diagnostics each:   *)
(* callers that merge three of them, and callers that project and merge    *)
(* two.  A package may have two diagnostics, and all the files.            *)
(***************************************************************************)
EXTENDS PackageComposition, TLC

CONSTANTS R, T, F, header, e1, e2, e3, M, none

MCIds == {R, T, F}
MCFiles == {header, e1, e2, e3}
MCCodes == {"P0001", "P2110"}
MCLimits == [files |-> 4, declarations |-> 3, macros |-> 1, diagnostics |-> 2, typeDepth |-> 1]

At(f, start, end) == [file |-> f, start |-> start, end |-> end]

\* An occurrence in a file, reached from another one unless that is `none`.
Seen(f, start, end, tokens, from, attrsOk) ==
  [range |-> At(f, start, end), tokens |-> tokens,
   origin |-> IF f = header THEN "UserInclude" ELSE "Entry",
   chain |-> IF from = none THEN <<>>
             ELSE <<[directive |-> At(from, 0, 1), included |-> f]>>,
   attrsOk |-> attrsOk]

Unit == [in |-> "TranslationUnit"]

HeadOf(kind, refs) ==
  [space |-> IF kind = "record" THEN "Tag" ELSE "Ordinary",
   scope |-> Unit, internal |-> FALSE, kind |-> kind, refs |-> refs,
   outermost |-> "value", depth |-> 0, children |-> {}, supported |-> kind # "unsupported",
   bodyOk |-> TRUE, incomplete |-> FALSE]

RefTo(d, as, via, pointer) == [to |-> d, as |-> as, via |-> via, pointer |-> pointer]

Field == [key |-> <<"x", 0>>, range |-> At(header, 2, 3), origin |-> "UserInclude"]

\* struct R: declared in the entry, and again in the header, or defined in the header, which the entry
\* includes or the command line does, or defined in the scope of T.
Record(how, e) ==
  CASE how = "opaque" ->
         [head |-> [HeadOf("record", {}) EXCEPT !.incomplete = TRUE],
          occurrences |-> {Seen(e, 1, 2, 1, none, TRUE)}]
    [] how = "again" ->
         [head |-> [HeadOf("record", {}) EXCEPT !.incomplete = TRUE],
          occurrences |-> {Seen(e, 1, 2, 1, none, TRUE), Seen(header, 1, 2, 1, e, TRUE)}]
    [] how = "included" ->
         [head |-> [HeadOf("record", {}) EXCEPT !.children = {Field}],
          occurrences |-> {Seen(header, 1, 4, 2, e, TRUE)}]
    [] how = "forced" ->
         [head |-> [HeadOf("record", {}) EXCEPT !.children = {Field}],
          occurrences |-> {Seen(header, 1, 4, 2, none, TRUE)}]
    [] how = "owned" ->
         [head |-> [HeadOf("record", {}) EXCEPT !.scope = [in |-> "Owner", owner |-> T]],
          occurrences |-> {Seen(header, 1, 4, 3, none, TRUE)}]
    [] how = "refused" ->
         [head |-> [HeadOf("record", {}) EXCEPT !.supported = FALSE],
          occurrences |-> {Seen(header, 1, 4, 4, none, TRUE)}]

\* typedef struct R *T; or typedef struct R T; or typedef int T;
Alias(how) ==
  [head |-> CASE how = "pointer" -> [HeadOf("alias", {RefTo(R, "record", "pointer", FALSE)})
                                     EXCEPT !.outermost = "pointer", !.depth = 1]
              [] how = "value" -> HeadOf("alias", {RefTo(R, "record", "value", FALSE)})
              [] how = "int" -> HeadOf("alias", {}),
   occurrences |-> {Seen(header, 5, 6, 5, none, TRUE)}]

\* T restrict F(void), or struct R F(void), declared in the entry.
Function(how, e) ==
  [head |-> CASE how = "alias" -> HeadOf("function", {RefTo(T, "alias", "value", TRUE)})
              [] how = "record" -> HeadOf("function", {RefTo(R, "record", "value", FALSE)})
              [] how \in {"plain", "packed"} -> HeadOf("function", {})
              [] how = "refused" -> HeadOf("unsupported", {}),
   occurrences |-> {Seen(e, 3, 4, 6, none, how # "packed")}]

Package(e, record, alias, function, diagnostics, code) ==
  LET declared == {d \in MCIds : <<record, alias, function>>[CASE d = R -> 1 [] d = T -> 2
                                                             [] d = F -> 3] # "absent"}
      all == [d \in declared |-> CASE d = R -> Record(record, e) [] d = T -> Alias(alias)
                                   [] d = F -> Function(function, e)] IN
  [target |-> "linux", inputs |-> "default", forced |-> {header}, entries |-> {e},
   files |-> [f \in {header, e} |->
                [role |-> IF f = header THEN "UserInclude" ELSE "Entry", length |-> 9]],
   decls |-> all,
   macros |-> IF code = "absent" THEN <<>>
              ELSE M :> [head |-> [file |-> header, code |-> code],
                         occurrences |-> {Seen(header, 7, 8, 7, none, TRUE)}],
   diagnostics |-> diagnostics,
   verdict |-> VerdictOf(diagnostics), reasons |-> ReasonsOf(diagnostics)]

Note(impact, d, stage, code, error) ==
  [impact |-> impact, decl |-> d, stage |-> stage, code |-> code, error |-> error,
   range |-> NoRange]

Partial(d) == Note("ForcesPartial", d, "Extract", "P0001", FALSE)
Reject(d)  == Note("ForcesRejected", d, "Extract", "P0001", TRUE)
Pasting    == Note("ForcesPartial", none, "Preprocess", "P2110", FALSE)
Silent     == Note("Informational", none, "Parse", "P0001", TRUE)
Warned     == Note("Informational", none, "Preprocess", "P0001", FALSE)

PackagesOf(e) ==
  {Package(e, "forced", "pointer", "alias", {}, "Supported"),
   Package(e, "included", "value", "absent", {}, "P2110"),
   Package(e, "opaque", "absent", "plain", {Pasting}, "absent"),
   Package(e, "again", "absent", "plain", {}, "Supported"),
   Package(e, "absent", "absent", "packed", {Warned}, "Supported"),
   Package(e, "forced", "value", "record", {Partial(F)}, "P2110"),
   Package(e, "owned", "int", "record", {Partial(none)}, "absent"),
   Package(e, "refused", "pointer", "alias", {Partial(R)}, "Supported"),
   Package(e, "forced", "absent", "refused", {Reject(F)}, "absent"),
   Package(e, "absent", "int", "refused", {Partial(F), Silent}, "absent")}

Elsewhere == {[Package(e3, "absent", "absent", "plain", {}, "absent") EXCEPT !.target = "windows"],
              [Package(e3, "absent", "absent", "plain", {}, "absent") EXCEPT !.inputs = "DEBUG"]}

Selected(mode, S) == [mode |-> mode, ids |-> S]
MCSelections == {Selected("AllSupported", {}), Selected("Only", {F}), Selected("Only", {R}),
                 Selected("OpaqueOnly", {R, T})}

ThirdPackages ==
  {Package(e3, "opaque", "absent", "plain", {}, code) : code \in {"absent", "P2110"}} \cup
  {Package(e3, "forced", "pointer", "alias", {Partial(R)}, "P2110")} \cup Elsewhere

MergingCallers ==
  {[packages |-> {p, q, r}, selections |-> {}, operations |-> 4] :
     p \in PackagesOf(e1), q \in PackagesOf(e2), r \in ThirdPackages}
ProjectingCallers ==
  {[packages |-> {p, q}, selections |-> MCSelections, operations |-> 2] :
     p \in PackagesOf(e1), q \in PackagesOf(e2)}
MCCallers == MergingCallers \cup ProjectingCallers

=============================================================================
