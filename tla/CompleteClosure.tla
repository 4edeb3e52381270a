--------------------------- MODULE CompleteClosure ---------------------------
(***************************************************************************)
(* The completeness proof of contract/complete.rs: SourcePackage::         *)
(* into_complete walks a checked package from the selected declarations    *)
(* along their types and either returns the declaration closure, each      *)
(* member with the need (Opaque or Definition) proved for it, or the       *)
(* blockers that refuse the selection.                                     *)
(*                                                                         *)
(* The walk is a worklist: `required` holds the strongest need seen for a  *)
(* declaration, `queue` the (declaration, need) entries still to visit.  A *)
(* need can be raised after its entry was queued, so the queue may hold    *)
(* stale entries.  DeclarationIds are content hashes: the order in which   *)
(* roots and the references of one declaration are enqueued is any order.  *)
(***************************************************************************)
EXTENDS SourceClosure, Sequences

VARIABLES
  pkg,        \* self: the package the walk consumes
  sel,        \* the selection asked for
  phase,      \* where into_complete is
  rootsLeft,  \* roots not enqueued yet
  required,   \* BTreeMap<DeclarationId, Need>
  queue,      \* VecDeque<(DeclarationId, Need)>
  edgesLeft,  \* what the declaration being visited still has to enqueue
  blockers    \* Vec<CompletionBlocker>, as the set its sort and dedup make it

vars == <<pkg, sel, phase, rootsLeft, required, queue, edgesLeft, blockers>>

Init ==
  /\ pkg \in Packages
  /\ sel \in Selections
  /\ phase = "gate"
  /\ rootsLeft = {}
  /\ required = [d \in Ids |-> NoNeed]
  /\ queue = <<>>
  /\ edgesLeft = {}
  /\ blockers = {}

CheckPackage ==
  /\ phase = "gate"
  /\ phase' = "roots"
  /\ blockers' = PackageBlockers(pkg)
  /\ rootsLeft' = RootIds(pkg, sel)
  /\ UNCHANGED <<pkg, sel, required, queue, edgesLeft>>

\* Mutants of Enqueue.
Record(id, need) == required' = [required EXCEPT ![id] = need]
Push(id, need)   == queue' = Append(queue, <<id, need>>)

\* The needs add up instead of the stronger one winning.
EnqueueAdding(id, need) ==
  /\ required' = [required EXCEPT ![id] = @ + need]
  /\ IF required[id] < need THEN Push(id, need) ELSE UNCHANGED queue

\* A raised need is recorded but not queued again.
EnqueueOnce(id, need) ==
  /\ IF required[id] < need THEN Record(id, need) ELSE UNCHANGED required
  /\ IF required[id] = NoNeed THEN Push(id, need) ELSE UNCHANGED queue

\* The last need wins, not the strongest.
EnqueueLast(id, need) ==
  IF required[id] # need THEN Record(id, need) /\ Push(id, need)
                         ELSE UNCHANGED <<required, queue>>

\* An equal need is queued again.
EnqueueEqual(id, need) ==
  IF required[id] <= need THEN Record(id, need) /\ Push(id, need)
                          ELSE UNCHANGED <<required, queue>>

\* enqueue: record a new or a strictly stronger need, and queue it.
Enqueue(id, need) ==
  IF required[id] < need THEN Record(id, need) /\ Push(id, need)
                         ELSE UNCHANGED <<required, queue>>

EnqueueRoot(id) ==
  /\ phase = "roots"
  /\ id \in rootsLeft
  /\ rootsLeft' = rootsLeft \ {id}
  /\ Enqueue(id, RootNeed(pkg, sel, id))
  /\ UNCHANGED <<pkg, sel, phase, edgesLeft, blockers>>

StartWalk ==
  /\ phase = "roots"
  /\ rootsLeft = {}
  /\ phase' = "walk"
  /\ UNCHANGED <<pkg, sel, rootsLeft, required, queue, edgesLeft, blockers>>

\* Mutant of Stale: the comparison with the current need is inverted.
StaleInverted(entry) == required[entry[1]] = entry[2] /\ entry[2] = Opaque

\* An opaque entry whose declaration's need was raised after it was queued.
Stale(entry) == required[entry[1]] # entry[2] /\ entry[2] = Opaque

PopReady == phase = "walk" /\ edgesLeft = {} /\ queue # <<>>

SkipStale ==
  /\ PopReady
  /\ Stale(Head(queue))
  /\ queue' = Tail(queue)
  /\ UNCHANGED <<pkg, sel, phase, rootsLeft, required, edgesLeft, blockers>>

\* A declaration the package lacks, an opaque root that is not a record, or
\* validate_declaration_closure: Faults and Demands tell the three apart.
Visit ==
  /\ PopReady
  /\ ~Stale(Head(queue))
  /\ queue' = Tail(queue)
  /\ LET d == Head(queue)[1] IN
       /\ blockers' = blockers \cup VisitBlockers(pkg, sel, d, required[d])
       /\ edgesLeft' = Demands(pkg, sel, d, required[d])
  /\ UNCHANGED <<pkg, sel, phase, rootsLeft, required>>

\* Mutant of VisitEdge: the visit stops at the first reference it finds.
VisitFirstEdge(o) ==
  /\ phase = "walk"
  /\ o \in edgesLeft
  /\ edgesLeft' = {}
  /\ Enqueue(o[1], o[2])
  /\ UNCHANGED <<pkg, sel, phase, rootsLeft, blockers>>

\* visit_type reaches one more reference of the declaration.
VisitEdge(o) ==
  /\ phase = "walk"
  /\ o \in edgesLeft
  /\ edgesLeft' = edgesLeft \ {o}
  /\ Enqueue(o[1], o[2])
  /\ UNCHANGED <<pkg, sel, phase, rootsLeft, blockers>>

\* Mutant of Finish: blockers found during the walk are forgotten.
FinishUnchecked ==
  /\ phase = "walk"
  /\ edgesLeft = {}
  /\ queue = <<>>
  /\ phase' = "complete"
  /\ UNCHANGED <<pkg, sel, rootsLeft, required, queue, edgesLeft, blockers>>

Finish ==
  /\ phase = "walk"
  /\ edgesLeft = {}
  /\ queue = <<>>
  /\ phase' = IF blockers = {} THEN "complete" ELSE "incomplete"
  /\ UNCHANGED <<pkg, sel, rootsLeft, required, queue, edgesLeft, blockers>>

Returned == phase \in {"complete", "incomplete"}

Next ==
  \/ CheckPackage
  \/ \E id \in rootsLeft : EnqueueRoot(id)
  \/ StartWalk
  \/ SkipStale
  \/ Visit
  \/ \E o \in edgesLeft : VisitEdge(o)
  \/ Finish

Spec == Init /\ [][Next]_vars

\* One sequential call: while a step can be taken it is taken.
FairSpec == Spec /\ WF_vars(Next)

-----------------------------------------------------------------------------
(* Properties *)

Phases == {"gate", "roots", "walk", "complete", "incomplete"}

\* Every variable keeps the type of the Rust value it stands for.
TypeOK ==
  /\ pkg \in Packages
  /\ sel \in Selections
  /\ phase \in Phases
  /\ rootsLeft \subseteq Ids
  /\ required \in NeedMaps
  /\ queue \in Seq(Ids \X Needs)
  /\ edgesLeft \subseteq Ids \X Needs

\* into_complete returns the least closure of the selection: no member's
\* demand is dropped because its need was raised after it was queued, and no
\* declaration is held to more than some path from a root demands of it.
ReturnsLeastClosure == Returned => LeastClosed(pkg, sel, required)

\* The blockers name every fault of the returned closure at the need finally
\* proved for it and nothing else, whatever the order of the walk: an opaque
\* visit that a later upgrade overtook has left nothing behind and lost nothing.
BlockersAreExact ==
  Returned => blockers = ClosureBlockers(pkg, sel, required)

\* An opaque selection proves nothing about any declaration the caller did not
\* name: no definition is ever required and the closure is the named roots.
OpaqueStaysOpaque ==
  sel.mode = "OpaqueOnly" =>
    Members(required) \subseteq sel.ids /\ \A d \in Ids : required[d] # Definition

\* Only a name the caller gave can be missing: a checked package resolves every
\* reference it holds, so the walk never falls out of the package.
OnlyRootsAreMissing ==
  \A x \in blockers : x.what = "MissingDeclaration" => x.id \in sel.ids \ pkg.decls

Queued(d, n) == \E i \in DOMAIN queue : queue[i] = <<d, n>>

\* A need once recorded is on its way to a visit or has been visited: what it
\* demands is queued, being enqueued, or already recorded at that need.
WalkInv ==
  \A d \in Members(required) :
    \/ Queued(d, required[d])
    \/ /\ \A o \in Demands(pkg, sel, d, required[d]) :
            o \in edgesLeft \/ o[2] <= required[o[1]]
       /\ VisitBlockers(pkg, sel, d, required[d]) \subseteq blockers

\* A proved need is never lowered, so a caller's definition is never
\* downgraded to opaque by a later pointer to the same record.
NeedsOnlyRise == [][\A d \in Ids : required[d] <= required'[d]]_vars

\* Recursive types end: the walk returns although the references of a package
\* form cycles and a declaration is queued again when its need is raised.
WalkEnds == <>Returned

\* The order-free promise of SelectionVerdict.
Verdict == INSTANCE SelectionVerdict WITH
  verdict <- IF Returned THEN phase ELSE "pending",
  closure <- IF Returned THEN required ELSE [d \in Ids |-> NoNeed],
  refusal <- IF Returned THEN blockers ELSE {}

\* into_complete implements the promise: every walk answers as if in one step.
ImplementsVerdict == Verdict!Spec

=============================================================================
