---------------------------- MODULE IncludeSearch ----------------------------
(***************************************************************************)
(* scan/traced.rs: how the built-in preprocessor finds what an include     *)
(* names.  A path is the sequence of its components.  A layout is what the *)
(* search looks at: the roots in their order, the regular files (`tree`,   *)
(* by every path that reaches one, links included), the canonical path of  *)
(* each, the headers PARC supplies, and the files the path mapping covers. *)
(***************************************************************************)
EXTENDS SequencesExt

Kinds == {"user", "system"}
Roles == Kinds \cup {"entry", "builtin"}

\* unsafe_include_spelling: the first component of an absolute path is "/".
Unsafe(name) == \E i \in DOMAIN name : name[i] \in {"/", ".."}

Physical(layout, f) == f \in DOMAIN layout.path

\* search_root_index: by the path of the file, whichever root it was found
\* under; 0 for none.
RootsOver(layout, f) ==
  {i \in DOMAIN layout.roots :
     Physical(layout, f) /\ IsPrefix(layout.roots[i].dir, layout.path[f])}

SearchRootIndex(layout, f) ==
  LET over == RootsOver(layout, f) IN
  IF over = {} THEN 0 ELSE CHOOSE i \in over : \A j \in over : i <= j

\* The including file's own directory.
Beside(layout, f, name) ==
  IF Physical(layout, f)
  THEN <<[path |-> Front(layout.path[f]) \o name, role |-> "user", root |-> 0]>>
  ELSE <<>>

\* Mutant of UnderRoots: the root the file came from is searched again.
UnderRootsAgain(layout, name, resumed) ==
  [i \in 1..(Len(layout.roots) - (IF resumed = 0 THEN 0 ELSE resumed - 1)) |->
     LET j == (IF resumed = 0 THEN 0 ELSE resumed - 1) + i IN
     [path |-> layout.roots[j].dir \o name, role |-> layout.roots[j].kind, root |-> j]]

UnderRoots(layout, name, resumed) ==
  [i \in 1..(Len(layout.roots) - resumed) |->
     LET j == resumed + i IN
     [path |-> layout.roots[j].dir \o name, role |-> layout.roots[j].kind, root |-> j]]

\* resolve_include: the first candidate that is a file, else a builtin, which
\* never satisfies a resumed search; at most one.
Resolved(layout, f, name, system, next) ==
  LET resumed == IF next THEN SearchRootIndex(layout, f) ELSE 0
      candidates == (IF system \/ next THEN <<>> ELSE Beside(layout, f, name))
                      \o UnderRoots(layout, name, resumed)
      Exists(i) == candidates[i].path \in DOMAIN layout.tree
      first == {i \in DOMAIN candidates : Exists(i) /\ \A j \in 1..(i - 1) : ~Exists(j)} IN
  IF first # {}
  THEN {[file |-> layout.tree[candidates[i].path], role |-> candidates[i].role,
         root |-> candidates[i].root] : i \in first}
  ELSE IF resumed = 0 /\ name \in DOMAIN layout.builtins
  THEN {[file |-> layout.builtins[name], role |-> "builtin", root |-> 0]}
  ELSE {}

=============================================================================
