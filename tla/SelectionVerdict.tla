--------------------------- MODULE SelectionVerdict ---------------------------
(***************************************************************************)
(* What SourcePackage::into_complete promises its caller, without saying   *)
(* how: it answers once, with the least closure of the selection and all   *)
(* the blockers of that closure and no others.  The answer depends on the  *)
(* package and the selection alone, never on the order of a walk.          *)
(***************************************************************************)
EXTENDS SourceClosure

VARIABLES
  pkg,      \* the package asked about
  sel,      \* the selection asked for
  verdict,  \* "pending", then "complete" or "incomplete"
  closure,  \* the need proved for each declaration, once answered
  refusal   \* the blockers, once answered

vars == <<pkg, sel, verdict, closure, refusal>>

Nothing == [d \in Ids |-> NoNeed]

Init ==
  /\ pkg \in Packages
  /\ sel \in Selections
  /\ verdict = "pending"
  /\ closure = Nothing
  /\ refusal = {}

Answer ==
  /\ verdict = "pending"
  /\ closure' \in NeedMaps
  /\ LeastClosed(pkg, sel, closure')
  /\ refusal' = ClosureBlockers(pkg, sel, closure')
  /\ verdict' = IF refusal' = {} THEN "complete" ELSE "incomplete"
  /\ UNCHANGED <<pkg, sel>>

Next == Answer

Spec == Init /\ [][Next]_vars

=============================================================================
