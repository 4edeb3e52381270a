-------------------------- MODULE MCCompleteClosure --------------------------
(***************************************************************************)
(* Small packages for CompleteClosure: three declarations, each with any   *)
(* of the kinds a type can refer to, up to two references each and at most *)
(* one fault; a selection may name a declaration the package lacks.        *)
(***************************************************************************)
EXTENDS CompleteClosure, FiniteSets, TLC

CONSTANTS a, b, c, none

MCIds == {a, b, c}
MCCodes == {"P0001", "P2110"}

Shape(kinds, edges, decls, bad, inc, diags, mcodes) ==
  [decls |-> decls, kind |-> kinds, edges |-> edges,
   supported |-> [d \in MCIds |-> d # bad.support /\ kinds[d] # "unsupported"],
   attrsOk |-> [d \in MCIds |-> d # bad.attrs],
   bodyOk |-> [d \in MCIds |-> d # bad.body],
   incomplete |-> [d \in MCIds |-> d \in inc],
   diagnostics |-> diags, macroCodes |-> mcodes]

NoFault == [support |-> none, attrs |-> none, body |-> none]
FaultAt(d) == {NoFault, [NoFault EXCEPT !.support = d],
               [NoFault EXCEPT !.attrs = d], [NoFault EXCEPT !.body = d]}

Ref(d, v) == [to |-> d, via |-> v]

\* Graphs: a refers to b twice or to b and c, b and c to one another or back, so that
\* cycles, diamonds and a pointer before or after a value use of the same
\* record all occur.  What try_new would refuse is left out.
GraphPackages ==
  {p \in
    {Shape((a :> ka) @@ (b :> kb) @@ (c :> "record"),
           (a :> {Ref(b, v1), Ref(x, v2)}) @@ (b :> eb) @@ (c :> ec),
           decls, bad, inc, {}, {}) :
       decls \in {MCIds, {a, b}},
       ka \in {"function", "alias", "record"}, kb \in {"record", "alias"},
       x \in {b, c}, v1 \in Vias, v2 \in Vias,
       eb \in {{}, {Ref(c, "value")}, {Ref(c, "pointer")}, {Ref(a, "forced")},
               {Ref(a, "pointer"), Ref(c, "pointer")}},
       ec \in {{}, {Ref(a, "pointer")}, {Ref(b, "value")}},
       bad \in {NoFault, [NoFault EXCEPT !.body = c]},
       inc \in {{}, {c}}} :
     IsPackage(p)}

\* Packages judged by their diagnostics and their headers.
Diag(i, d, s, k) == [impact |-> i, decl |-> d, stage |-> s, code |-> k]

VerdictPackages ==
  {Shape((a :> "function") @@ (b :> "record") @@ (c :> "unsupported"),
         (a :> {Ref(b, "pointer")}) @@ (b :> {}) @@ (c :> {}),
         decls, bad, {b}, diags, mcodes) :
     decls \in {MCIds, {a, b}},
     bad \in FaultAt(a),
     diags \in {{},
                {Diag("ForcesPartial", none, "Extract", "P0001")},
                {Diag("ForcesPartial", none, "Preprocess", "P2110")},
                {Diag("ForcesPartial", none, "Recovery", "P0001")},
                {Diag("ForcesPartial", b, "Extract", "P0001")},
                {Diag("ForcesRejected", b, "Preprocess", "P0001")},
                {Diag("Informational", none, "Extract", "P0001")}},
     mcodes \in {{}, {"P2110"}}}

Only(S)       == [mode |-> "Only", ids |-> S]
OpaqueOnly(S) == [mode |-> "OpaqueOnly", ids |-> S]
AllSupported  == [mode |-> "AllSupported", ids |-> {}]

MCPackages == GraphPackages \cup VerdictPackages
MCSelections == {AllSupported, Only({a}), Only({a, c}), OpaqueOnly({b, c}),
                 OpaqueOnly({a})}

=============================================================================
