------------------------ MODULE CompleteClosureProofs ------------------------
(***************************************************************************)
(* Proofs about CompleteClosure, for every set of packages and selections: *)
(* the walk returns the least closure and exactly its blockers, whatever   *)
(* the order it enqueues in, and so implements SelectionVerdict.           *)
(***************************************************************************)
EXTENDS CompleteClosure, SequenceTheorems, TLAPS

-----------------------------------------------------------------------------
(* What a visit demands and refuses *)

LEMMA RootsTyped ==
  ASSUME NEW p, IsPackage(p), NEW s, IsSelection(s)
  PROVE  /\ RootIds(p, s) \subseteq Ids
         /\ \A d : RootNeed(p, s, d) \in Needs
BY DEF IsPackage, HasPackageShape, IsSelection, RootIds, RootNeed, Needs,
       Opaque, Definition

LEMMA DemandsTyped ==
  ASSUME NEW p, IsPackage(p), NEW s, NEW d \in Ids, NEW n
  PROVE  Demands(p, s, d, n) \subseteq Ids \X Needs
BY DEF IsPackage, HasPackageShape, Demands, EdgeNeed, Edges, Needs, Opaque,
       Definition

\* A definition demands of a declaration at least what an opaque visit does.
LEMMA DemandsGrow ==
  ASSUME NEW p, IsPackage(p), NEW s, NEW d \in Ids,
         NEW n \in Needs, NEW m \in Needs, n <= m,
         NEW o \in Demands(p, s, d, n)
  PROVE  \E q \in Demands(p, s, d, m) : q[1] = o[1] /\ o[2] <= q[2]
<1>1. PICK e \in p.edges[d] : /\ o = <<e.to, EdgeNeed(p, d, n, e)>>
                              /\ Visited(p, s, d, n)
                              /\ BodyVisited(p, d, n)
  BY DEF Demands
<1>2. Visited(p, s, d, m) /\ BodyVisited(p, d, m)
  BY <1>1 DEF Visited, NonRecordRoot, BodyVisited, Needs, Opaque, Definition
<1>3. <<e.to, EdgeNeed(p, d, m, e)>> \in Demands(p, s, d, m)
  BY <1>1, <1>2 DEF Demands
<1>4. EdgeNeed(p, d, n, e) <= EdgeNeed(p, d, m, e)
  BY DEF EdgeNeed, Needs, Opaque, Definition
<1> QED BY <1>1, <1>3, <1>4

\* Outside an opaque selection a definition refuses all an opaque visit does.
LEMMA BlockersGrow ==
  ASSUME NEW p, NEW s, s.mode # "OpaqueOnly", NEW d, NEW n \in Needs
  PROVE  VisitBlockers(p, s, d, n) \subseteq VisitBlockers(p, s, d, Definition)
BY DEF VisitBlockers, Faults, Visited, NonRecordRoot, UnsupportedAt,
       IncompleteAt, BodyVisited, Needs, Opaque, Definition

\* An opaque root opens nothing: a record hides its fields, the rest is refused.
LEMMA OpaqueRootsDemandNothing ==
  ASSUME NEW p, NEW s, s.mode = "OpaqueOnly", NEW d
  PROVE  Demands(p, s, d, Opaque) = {}
BY DEF Demands, Visited, NonRecordRoot, BodyVisited

\* What a checked package demands, it holds.
LEMMA DemandsPresent ==
  ASSUME NEW p, IsPackage(p), NEW s, NEW d \in Ids, NEW n,
         NEW o \in Demands(p, s, d, n)
  PROVE  o[1] \in p.decls
BY DEF IsPackage, ReferencesChecked, Demands, Visited

-----------------------------------------------------------------------------
(* The inductive invariant *)

\* Before the walk nothing is being visited; before the roots, nothing is known.
PhaseInv ==
  /\ phase \in {"gate", "roots"} => edgesLeft = {}
  /\ phase = "gate" =>
       /\ required = [d \in Ids |-> NoNeed]
       /\ queue = <<>>
       /\ blockers = {}
       /\ rootsLeft = {}
  /\ phase # "gate" => PackageBlockers(pkg) \subseteq blockers
  /\ phase \in {"walk", "complete", "incomplete"} => rootsLeft = {}
  /\ Returned => queue = <<>> /\ edgesLeft = {}

\* Every root is waiting or recorded at its need.
RootsInv ==
  /\ rootsLeft \subseteq RootIds(pkg, sel)
  /\ phase # "gate" =>
       \A d \in RootIds(pkg, sel) \ rootsLeft :
         RootNeed(pkg, sel, d) <= required[d]

\* No queued entry asks for more than is recorded.
QueueInv ==
  \A i \in DOMAIN queue : queue[i][2] <= required[queue[i][1]]

\* Nothing is recorded or about to be that some closed map could do without.
LeastInv ==
  \A g \in NeedMaps : Closed(pkg, sel, g) =>
    /\ \A d \in Ids : required[d] <= g[d]
    /\ \A o \in edgesLeft : o[2] <= g[o[1]]

\* Every blocker is one of the closure as far as it is known.
BlockersInv == blockers \subseteq ClosureBlockers(pkg, sel, required)

OpaqueInv ==
  sel.mode = "OpaqueOnly" =>
    /\ edgesLeft = {}
    /\ Members(required) \subseteq sel.ids
    /\ \A d \in Ids : required[d] # Definition

\* Whatever is not a root was found in the package.
PresentInv ==
  /\ \A d \in Members(required) : d \in pkg.decls \/ d \in RootIds(pkg, sel)
  /\ \A o \in edgesLeft : o[1] \in pkg.decls

IInv ==
  /\ TypeOK
  /\ PhaseInv
  /\ RootsInv
  /\ QueueInv
  /\ WalkInv
  /\ LeastInv
  /\ BlockersInv
  /\ OpaqueInv
  /\ PresentInv

-----------------------------------------------------------------------------
(* Enqueue, and the removal of the head of the queue *)

LEMMA InputsTyped ==
  TypeOK => IsPackage(pkg) /\ IsSelection(sel)
BY PackagesAssumption DEF TypeOK

LEMMA EnqueueEffect ==
  ASSUME TypeOK, QueueInv, NEW id \in Ids, NEW need \in Needs, Enqueue(id, need)
  PROVE  /\ required' \in NeedMaps
         /\ queue' \in Seq(Ids \X Needs)
         /\ QueueInv'
         /\ \A d \in Ids : required[d] <= required'[d]
         /\ \A d \in Ids : d # id => required'[d] = required[d]
         /\ need <= required'[id]
         /\ \A d \in Ids, n \in Needs : Queued(d, n) => Queued(d, n)'
         /\ required'[id] # required[id] =>
              required[id] < need /\ required'[id] = need /\ Queued(id, need)'
<1> USE DEF NeedMaps, Needs, NoNeed, Opaque, Definition
<1>1. CASE required[id] < need
  <2>1. required' = [required EXCEPT ![id] = need] /\ queue' = Append(queue, <<id, need>>)
    BY <1>1 DEF Enqueue, Record, Push
  <2>2. queue' \in Seq(Ids \X Needs) /\ required' \in NeedMaps
    BY <2>1 DEF TypeOK
  <2>3. /\ Len(queue') = Len(queue) + 1
        /\ \A i \in DOMAIN queue : i \in DOMAIN queue' /\ queue'[i] = queue[i]
        /\ queue'[Len(queue) + 1] = <<id, need>>
        /\ Len(queue) + 1 \in DOMAIN queue'
        /\ \A i \in DOMAIN queue' : i \in DOMAIN queue \/ i = Len(queue) + 1
    BY <2>1 DEF TypeOK
  <2>4. \A d \in Ids : required[d] <= required'[d]
    BY <1>1, <2>1 DEF TypeOK
  <2>5. QueueInv'
    <3> SUFFICES ASSUME NEW i \in DOMAIN queue'
                 PROVE  queue'[i][2] <= required'[queue'[i][1]]
      BY DEF QueueInv
    <3>1. CASE i \in DOMAIN queue
      <4>1. queue[i] \in Ids \X Needs
        BY <3>1 DEF TypeOK
      <4>2. queue[i][2] <= required[queue[i][1]]
        BY <3>1 DEF QueueInv
      <4> DEFINE d == queue[i][1]
      <4>3. d \in Ids /\ queue[i][2] \in 1..2
        BY <4>1
      <4>4. required[d] <= required'[d] /\ required[d] \in 0..2 /\ required'[d] \in 0..2
        BY <4>3, <2>2, <2>4 DEF TypeOK
      <4>5. queue[i][2] <= required'[d]
        BY <4>2, <4>3, <4>4
      <4> QED BY <4>5, <2>3, <3>1
    <3>2. CASE i = Len(queue) + 1
      BY <2>1, <2>3, <3>2 DEF TypeOK
    <3> QED BY <2>3, <3>1, <3>2
  <2>6. \A d \in Ids, n \in Needs : Queued(d, n) => Queued(d, n)'
    BY <2>3 DEF Queued
  <2>7. Queued(id, need)'
    BY <2>3 DEF Queued
  <2> QED BY <1>1, <2>1, <2>2, <2>4, <2>5, <2>6, <2>7 DEF TypeOK
<1>2. CASE ~(required[id] < need)
  <2>1. UNCHANGED <<required, queue>>
    BY <1>2 DEF Enqueue
  <2> QED BY <1>2, <2>1 DEF TypeOK, QueueInv, Queued
<1> QED BY <1>1, <1>2

LEMMA TailEffect ==
  ASSUME TypeOK, QueueInv, queue # <<>>, queue' = Tail(queue), UNCHANGED required
  PROVE  /\ queue' \in Seq(Ids \X Needs)
         /\ QueueInv'
         /\ Head(queue) \in Ids \X Needs
         /\ Head(queue)[2] <= required[Head(queue)[1]]
         /\ \A d \in Ids, n \in Needs :
              Queued(d, n) => Queued(d, n)' \/ Head(queue) = <<d, n>>
<1>1. /\ queue' \in Seq(Ids \X Needs)
      /\ Head(queue) = queue[1] /\ 1 \in DOMAIN queue
      /\ \A i \in DOMAIN queue' : i + 1 \in DOMAIN queue /\ queue'[i] = queue[i + 1]
      /\ \A i \in DOMAIN queue : i = 1 \/ (i - 1 \in DOMAIN queue' /\ queue'[i - 1] = queue[i])
  BY DEF TypeOK
<1>2. QueueInv'
  BY <1>1 DEF QueueInv
<1>3. Head(queue) \in Ids \X Needs
  BY <1>1 DEF TypeOK
<1>4. Head(queue)[2] <= required[Head(queue)[1]]
  BY <1>1 DEF QueueInv
<1>5. \A d \in Ids, n \in Needs :
         Queued(d, n) => Queued(d, n)' \/ Head(queue) = <<d, n>>
  BY <1>1 DEF Queued
<1> QED BY <1>1, <1>2, <1>3, <1>4, <1>5

-----------------------------------------------------------------------------
(* Each step keeps the invariant *)

THEOREM InitInv == Init => IInv
<1> SUFFICES ASSUME Init PROVE IInv
  OBVIOUS
<1> USE DEF Init
<1>1. TypeOK
  BY DEF TypeOK, Phases, NeedMaps
<1>2. PhaseInv /\ RootsInv /\ QueueInv
  BY DEF PhaseInv, RootsInv, QueueInv, Returned
<1>3. Members(required) = {}
  BY DEF Members
<1>4. WalkInv /\ PresentInv /\ OpaqueInv /\ BlockersInv
  BY <1>3 DEF WalkInv, PresentInv, OpaqueInv, BlockersInv, NoNeed, Definition
<1>5. LeastInv
  BY DEF LeastInv, NeedMaps, NoNeed, Opaque, Definition
<1> QED BY <1>1, <1>2, <1>4, <1>5 DEF IInv

\* The blockers of a closure grow with it.
LEMMA ClosureBlockersGrow ==
  ASSUME NEW f \in NeedMaps, NEW g \in NeedMaps,
         sel.mode = "OpaqueOnly" => \A d \in Ids : g[d] # Definition,
         \A d \in Ids : f[d] <= g[d]
  PROVE  ClosureBlockers(pkg, sel, f) \subseteq ClosureBlockers(pkg, sel, g)
<1> SUFFICES ASSUME NEW d \in Members(f)
             PROVE  /\ d \in Members(g)
                    /\ VisitBlockers(pkg, sel, d, f[d])
                         \subseteq VisitBlockers(pkg, sel, d, g[d])
  BY DEF ClosureBlockers
<1>1. d \in Ids /\ f[d] \in Needs /\ g[d] \in Needs /\ f[d] <= g[d]
  BY DEF Members, NeedMaps, Needs, NoNeed, Opaque, Definition
<1>2. CASE f[d] = g[d]
  BY <1>1, <1>2 DEF Members, NoNeed, Needs, Opaque, Definition
<1>3. CASE f[d] # g[d]
  <2>1. g[d] = Definition /\ sel.mode # "OpaqueOnly"
    BY <1>1, <1>3 DEF Needs, Opaque, Definition
  <2>2. VisitBlockers(pkg, sel, d, f[d]) \subseteq VisitBlockers(pkg, sel, d, g[d])
    BY <1>1, <2>1, BlockersGrow
  <2> QED BY <1>1, <2>2 DEF Members, NoNeed, Needs, Opaque, Definition
<1> QED BY <1>2, <1>3

\* What Enqueue keeps, whoever calls it: the parts of the invariant that
\* speak of what is recorded and queued, when the demand itself is justified.
LEMMA EnqueueKeeps ==
  ASSUME IInv, NEW id \in Ids, NEW need \in Needs, Enqueue(id, need),
         UNCHANGED <<pkg, sel, blockers>>,
         edgesLeft' = edgesLeft \ {<<id, need>>},
         \A g \in NeedMaps : Closed(pkg, sel, g) => need <= g[id],
         id \in pkg.decls \/ id \in RootIds(pkg, sel),
         sel.mode = "OpaqueOnly" => need = Opaque /\ id \in sel.ids
  PROVE  QueueInv' /\ WalkInv' /\ LeastInv' /\ BlockersInv' /\ OpaqueInv' /\ PresentInv'
<1> USE DEF NeedMaps, Needs, NoNeed, Opaque, Definition
<1>1. /\ required' \in NeedMaps
      /\ QueueInv'
      /\ \A d \in Ids : required[d] <= required'[d]
      /\ \A d \in Ids : d # id => required'[d] = required[d]
      /\ need <= required'[id]
      /\ \A d \in Ids, n \in Needs : Queued(d, n) => Queued(d, n)'
      /\ required'[id] # required[id] =>
           required[id] < need /\ required'[id] = need /\ Queued(id, need)'
  BY EnqueueEffect DEF IInv
<1>2. required \in NeedMaps
  BY DEF IInv, TypeOK
<1>3. WalkInv'
  <2> SUFFICES ASSUME NEW d \in Members(required')
      PROVE \/ Queued(d, required[d])'
            \/ /\ \A o \in Demands(pkg, sel, d, required'[d]) :
                     o \in edgesLeft' \/ o[2] <= required'[o[1]]
               /\ VisitBlockers(pkg, sel, d, required'[d]) \subseteq blockers
    BY DEF WalkInv, Members
  <2>0. d \in Ids
    BY DEF Members
  <2>1. CASE required'[d] # required[d]
    <3>1. d = id
      BY <1>1, <2>0, <2>1
    <3> QED BY <1>1, <2>1, <3>1 DEF Queued
  <2>2. CASE required'[d] = required[d]
    <3>1. d \in Members(required) /\ required[d] \in Needs
      BY <2>0, <2>2, <1>2 DEF Members
    <3>2. CASE Queued(d, required[d])
      <4>1. Queued(d, required[d])'
        BY <1>1, <2>0, <2>2, <3>1, <3>2 DEF Queued
      <4> QED BY <4>1
    <3>3. CASE /\ \A o \in Demands(pkg, sel, d, required[d]) :
                    o \in edgesLeft \/ o[2] <= required[o[1]]
               /\ VisitBlockers(pkg, sel, d, required[d]) \subseteq blockers
      <4> SUFFICES ASSUME NEW o \in Demands(pkg, sel, d, required[d])
                   PROVE  o \in edgesLeft' \/ o[2] <= required'[o[1]]
        BY <2>2, <3>3
      <4>1. o \in Ids \X Needs
        BY <2>0, InputsTyped, DemandsTyped DEF IInv
      <4>2. o[1] \in Ids /\ o[2] \in 1..2
        BY <4>1
      <4>3. o \in edgesLeft \/ o[2] <= required[o[1]]
        BY <3>3
      <4>4. CASE o = <<id, need>>
        BY <1>1, <4>4
      <4>5. CASE o # <<id, need>> /\ o \in edgesLeft
        BY <4>5
      <4>6. CASE o[2] <= required[o[1]]
        <5>1. /\ required[o[1]] <= required'[o[1]]
              /\ required[o[1]] \in 0..2 /\ required'[o[1]] \in 0..2
          BY <1>1, <1>2, <4>2
        <5> QED BY <4>2, <4>6, <5>1
      <4> QED BY <4>3, <4>4, <4>5, <4>6
    <3> QED BY <3>1, <3>2, <3>3 DEF IInv, WalkInv
  <2> QED BY <2>1, <2>2
<1>4. LeastInv'
  <2> SUFFICES ASSUME NEW g \in NeedMaps, Closed(pkg, sel, g)
               PROVE  /\ \A d \in Ids : required'[d] <= g[d]
                      /\ \A o \in edgesLeft' : o[2] <= g[o[1]]
    BY DEF LeastInv
  <2>1. /\ \A d \in Ids : required[d] <= g[d]
        /\ \A o \in edgesLeft : o[2] <= g[o[1]]
    BY DEF IInv, LeastInv
  <2> QED BY <1>1, <2>1
<1>5. OpaqueInv'
  <2> SUFFICES ASSUME sel.mode = "OpaqueOnly"
               PROVE  /\ edgesLeft' = {}
                      /\ Members(required') \subseteq sel.ids
                      /\ \A d \in Ids : required'[d] # Definition
    BY DEF OpaqueInv
  <2>1. /\ edgesLeft = {}
        /\ Members(required) \subseteq sel.ids
        /\ \A d \in Ids : required[d] # Definition
    BY DEF IInv, OpaqueInv
  <2> QED BY <1>1, <2>1 DEF Members
<1>6. BlockersInv'
  <2>1. ClosureBlockers(pkg, sel, required) \subseteq ClosureBlockers(pkg, sel, required')
    BY <1>1, <1>2, <1>5, ClosureBlockersGrow DEF OpaqueInv
  <2> QED BY <2>1 DEF IInv, BlockersInv
<1>7. PresentInv'
  BY <1>1 DEF IInv, PresentInv, Members
<1> QED BY <1>1, <1>3, <1>4, <1>5, <1>6, <1>7

\* A popped entry that is stale leaves the invariant as it is.
LEMMA SkipStaleKeeps == IInv /\ SkipStale => IInv'
<1> SUFFICES ASSUME IInv, SkipStale PROVE IInv'
  OBVIOUS
<1> USE DEF Needs, NeedMaps, NoNeed, Opaque, Definition
<1>1. /\ queue' \in Seq(Ids \X Needs)
      /\ QueueInv'
      /\ \A d \in Ids, n \in Needs :
           Queued(d, n) => Queued(d, n)' \/ Head(queue) = <<d, n>>
  BY TailEffect DEF IInv, SkipStale, PopReady
<1>2. required[Head(queue)[1]] # Head(queue)[2]
  BY DEF SkipStale, Stale
<1>3. TypeOK'
  BY <1>1 DEF IInv, TypeOK, SkipStale
<1>4. WalkInv'
  <2> SUFFICES ASSUME NEW d \in Members(required), Queued(d, required[d])
               PROVE  Queued(d, required[d])'
    BY DEF IInv, WalkInv, SkipStale, Members, Queued
  <2>1. d \in Ids /\ required[d] \in Needs
    BY DEF Members, IInv, TypeOK
  <2>2. Head(queue) # <<d, required[d]>>
    BY <1>2
  <2>3. Queued(d, required[d])'
    BY <1>1, <2>1, <2>2 DEF SkipStale, Queued
  <2> QED BY <2>3
<1>5. PhaseInv' /\ RootsInv'
  BY DEF IInv, PhaseInv, RootsInv, SkipStale, PopReady, Returned
<1>6. LeastInv' /\ BlockersInv' /\ OpaqueInv' /\ PresentInv'
  BY DEF IInv, LeastInv, BlockersInv, OpaqueInv, PresentInv, SkipStale
<1> QED BY <1>1, <1>3, <1>4, <1>5, <1>6 DEF IInv

\* A visit turns the entry it pops into demands and blockers.
LEMMA VisitKeeps == IInv /\ Visit => IInv'
<1> SUFFICES ASSUME IInv, Visit PROVE IInv'
  OBVIOUS
<1> USE DEF Needs, NeedMaps, NoNeed, Opaque, Definition
<1> DEFINE h == Head(queue)[1]
<1>1. /\ queue' \in Seq(Ids \X Needs)
      /\ QueueInv'
      /\ Head(queue) \in Ids \X Needs
      /\ Head(queue)[2] <= required[h]
      /\ \A d \in Ids, n \in Needs :
           Queued(d, n) => Queued(d, n)' \/ Head(queue) = <<d, n>>
  BY TailEffect DEF IInv, Visit, PopReady
<1>2. h \in Ids /\ required[h] \in Needs /\ h \in Members(required)
  BY <1>1 DEF IInv, TypeOK, Members
<1>3. /\ edgesLeft = {}
      /\ edgesLeft' = Demands(pkg, sel, h, required[h])
      /\ blockers' = blockers \cup VisitBlockers(pkg, sel, h, required[h])
      /\ UNCHANGED <<pkg, sel, phase, rootsLeft, required>>
      /\ phase = "walk"
  BY DEF Visit, PopReady
<1>4. IsPackage(pkg) /\ IsSelection(sel)
  BY InputsTyped DEF IInv
<1>5. TypeOK'
  <2>1. edgesLeft' \subseteq Ids \X Needs
    BY <1>2, <1>3, <1>4, DemandsTyped
  <2> QED BY <1>1, <1>3, <2>1 DEF IInv, TypeOK
<1>6. PhaseInv' /\ RootsInv'
  BY <1>3 DEF IInv, PhaseInv, RootsInv, Returned
<1>7. WalkInv'
  <2> SUFFICES ASSUME NEW d \in Members(required)
      PROVE \/ Queued(d, required[d])'
            \/ /\ \A o \in Demands(pkg, sel, d, required[d]) :
                     o \in edgesLeft' \/ o[2] <= required[o[1]]
               /\ VisitBlockers(pkg, sel, d, required[d]) \subseteq blockers'
    BY <1>3 DEF WalkInv, Members
  <2>1. CASE d = h
    BY <1>3, <2>1
  <2>2. CASE d # h
    <3>1. d \in Ids /\ required[d] \in Needs
      BY DEF Members, IInv, TypeOK
    <3>2. Queued(d, required[d]) => Queued(d, required[d])'
      BY <1>1, <1>3, <2>2, <3>1 DEF Queued
    <3> QED BY <1>3, <3>2 DEF IInv, WalkInv
  <2> QED BY <2>1, <2>2
<1>8. LeastInv'
  <2> SUFFICES ASSUME NEW g \in NeedMaps, Closed(pkg, sel, g),
                      NEW o \in Demands(pkg, sel, h, required[h])
               PROVE  o[2] <= g[o[1]]
    BY <1>3 DEF IInv, LeastInv
  <2>1. required[h] <= g[h] /\ g[h] \in Needs /\ h \in Members(g)
    BY <1>2 DEF IInv, LeastInv, Members
  <2>2. PICK q \in Demands(pkg, sel, h, g[h]) : q[1] = o[1] /\ o[2] <= q[2]
    BY <1>2, <1>4, <2>1, DemandsGrow
  <2>3. q[2] <= g[q[1]]
    BY <2>1, <2>2 DEF Closed
  <2>4. o \in Ids \X Needs /\ q \in Ids \X Needs
    BY <1>2, <1>4, <2>2, DemandsTyped
  <2>5. o[2] \in 1..2 /\ q[2] \in 1..2 /\ g[o[1]] \in 0..2
    BY <2>4
  <2> QED BY <2>2, <2>3, <2>5
<1>9. BlockersInv'
  BY <1>2, <1>3 DEF IInv, BlockersInv, ClosureBlockers
<1>10. OpaqueInv'
  <2> SUFFICES ASSUME sel.mode = "OpaqueOnly" PROVE edgesLeft' = {}
    BY <1>3 DEF IInv, OpaqueInv
  <2>1. required[h] = Opaque
    BY <1>2 DEF IInv, OpaqueInv
  <2> QED BY <1>3, <2>1, OpaqueRootsDemandNothing
<1>11. PresentInv'
  BY <1>2, <1>3, <1>4, DemandsPresent DEF IInv, PresentInv
<1> QED BY <1>1, <1>5, <1>6, <1>7, <1>8, <1>9, <1>10, <1>11 DEF IInv

\* Everything else a step may do: enqueue a root or a demand, and the steps
\* that only move the phase on.
LEMMA EnqueueRootKeeps ==
  ASSUME IInv, NEW id \in rootsLeft, EnqueueRoot(id)
  PROVE  IInv'
<1> DEFINE need == RootNeed(pkg, sel, id)
<1>1. IsPackage(pkg) /\ IsSelection(sel)
  BY InputsTyped DEF IInv
<1>2. id \in Ids /\ id \in RootIds(pkg, sel) /\ need \in Needs
  BY <1>1, RootsTyped DEF IInv, RootsInv, TypeOK
<1>3. /\ phase = "roots" /\ edgesLeft = {}
      /\ Enqueue(id, need)
      /\ rootsLeft' = rootsLeft \ {id}
      /\ UNCHANGED <<pkg, sel, phase, edgesLeft, blockers>>
  BY DEF EnqueueRoot, IInv, PhaseInv
<1>4. /\ required' \in NeedMaps
      /\ queue' \in Seq(Ids \X Needs)
      /\ \A d \in Ids : required[d] <= required'[d]
      /\ need <= required'[id]
  BY <1>2, <1>3, EnqueueEffect DEF IInv
<1>5. TypeOK'
  BY <1>3, <1>4 DEF IInv, TypeOK
<1>6. \A g \in NeedMaps : Closed(pkg, sel, g) => need <= g[id]
  BY <1>2 DEF Closed
<1>7. sel.mode = "OpaqueOnly" => need = Opaque /\ id \in sel.ids
  BY <1>2 DEF RootNeed, RootIds
<1>8. QueueInv' /\ WalkInv' /\ LeastInv' /\ BlockersInv' /\ OpaqueInv' /\ PresentInv'
  <2>1. edgesLeft' = edgesLeft \ {<<id, need>>}
    BY <1>3
  <2>2. UNCHANGED <<pkg, sel, blockers>>
    BY <1>3
  <2> HIDE DEF need
  <2> QED BY <1>2, <1>3, <1>6, <1>7, <2>1, <2>2, EnqueueKeeps
<1>9. PhaseInv'
  BY <1>3 DEF IInv, PhaseInv, Returned
<1>10. RootsInv'
  <2> SUFFICES ASSUME NEW d \in RootIds(pkg, sel) \ rootsLeft'
               PROVE  RootNeed(pkg, sel, d) <= required'[d]
    BY <1>3 DEF IInv, RootsInv
  <2>1. CASE d = id
    BY <1>4, <2>1
  <2>2. CASE d # id
    <3>1. d \in Ids /\ RootNeed(pkg, sel, d) \in 1..2
      BY <1>1, RootsTyped DEF Needs, Opaque, Definition
    <3>2. RootNeed(pkg, sel, d) <= required[d]
      BY <1>3, <2>2 DEF IInv, RootsInv
    <3>3. required[d] \in 0..2 /\ required'[d] \in 0..2
      BY <3>1, <1>4 DEF IInv, TypeOK, NeedMaps, NoNeed, Opaque, Definition
    <3>4. required[d] <= required'[d]
      BY <3>1, <1>4
    <3> HIDE DEF need
    <3> QED BY <3>1, <3>2, <3>3, <3>4
  <2> QED BY <2>1, <2>2
<1> QED BY <1>5, <1>8, <1>9, <1>10 DEF IInv

LEMMA VisitEdgeKeeps ==
  ASSUME IInv, NEW o \in edgesLeft, VisitEdge(o)
  PROVE  IInv'
<1>1. o \in Ids \X Needs /\ o = <<o[1], o[2]>> /\ o[1] \in Ids /\ o[2] \in Needs
  BY DEF IInv, TypeOK
<1>2. /\ phase = "walk"
      /\ Enqueue(o[1], o[2])
      /\ edgesLeft' = edgesLeft \ {<<o[1], o[2]>>}
      /\ UNCHANGED <<pkg, sel, phase, rootsLeft, blockers>>
  BY <1>1 DEF VisitEdge
<1>3. /\ required' \in NeedMaps
      /\ queue' \in Seq(Ids \X Needs)
      /\ \A d \in Ids : required[d] <= required'[d]
  BY <1>1, <1>2, EnqueueEffect DEF IInv
<1>4. \A g \in NeedMaps : Closed(pkg, sel, g) => o[2] <= g[o[1]]
  BY DEF IInv, LeastInv
<1>5. o[1] \in pkg.decls /\ sel.mode # "OpaqueOnly"
  BY DEF IInv, PresentInv, OpaqueInv
<1>6. QueueInv' /\ WalkInv' /\ LeastInv' /\ BlockersInv' /\ OpaqueInv' /\ PresentInv'
  BY <1>1, <1>2, <1>4, <1>5, EnqueueKeeps
<1>7. TypeOK'
  BY <1>2, <1>3 DEF IInv, TypeOK
<1>8. PhaseInv'
  BY <1>2 DEF IInv, PhaseInv, Returned
<1>9. RootsInv'
  <2> SUFFICES ASSUME NEW d \in RootIds(pkg, sel) \ rootsLeft
               PROVE  RootNeed(pkg, sel, d) <= required'[d]
    BY <1>2 DEF IInv, RootsInv
  <2>1. IsPackage(pkg) /\ IsSelection(sel)
    BY InputsTyped DEF IInv
  <2>2. d \in Ids /\ RootNeed(pkg, sel, d) \in 1..2
    BY <2>1, RootsTyped DEF Needs, Opaque, Definition
  <2>3. RootNeed(pkg, sel, d) <= required[d]
    BY <1>2 DEF IInv, RootsInv
  <2>4. required[d] \in 0..2 /\ required'[d] \in 0..2
    BY <2>2, <1>3 DEF IInv, TypeOK, NeedMaps, NoNeed, Opaque, Definition
  <2>5. required[d] <= required'[d]
    BY <2>2, <1>3
  <2> QED BY <2>2, <2>3, <2>4, <2>5
<1> QED BY <1>6, <1>7, <1>8, <1>9 DEF IInv

LEMMA PhaseStepsKeep == IInv /\ (CheckPackage \/ StartWalk \/ Finish) => IInv'
<1> SUFFICES ASSUME IInv, CheckPackage \/ StartWalk \/ Finish PROVE IInv'
  OBVIOUS
<1>1. CASE CheckPackage
  <2>1. IsPackage(pkg) /\ IsSelection(sel)
    BY InputsTyped DEF IInv
  <2>2. TypeOK'
    BY <1>1, <2>1, RootsTyped DEF IInv, TypeOK, CheckPackage, Phases
  <2>3. Members(required) = {} /\ edgesLeft = {} /\ queue = <<>>
    BY <1>1 DEF IInv, PhaseInv, CheckPackage, Members
  <2>4. PhaseInv' /\ RootsInv'
    BY <1>1, <2>3 DEF IInv, PhaseInv, RootsInv, CheckPackage, Returned
  <2>5. QueueInv' /\ WalkInv' /\ PresentInv'
    BY <1>1, <2>3 DEF IInv, QueueInv, WalkInv, PresentInv, CheckPackage, Members
  <2>6. LeastInv' /\ OpaqueInv'
    BY <1>1 DEF IInv, LeastInv, OpaqueInv, CheckPackage
  <2>7. BlockersInv'
    BY <1>1 DEF BlockersInv, ClosureBlockers, CheckPackage
  <2> QED BY <2>2, <2>4, <2>5, <2>6, <2>7 DEF IInv
<1>2. CASE StartWalk
  <2>1. TypeOK' /\ PhaseInv' /\ RootsInv'
    BY <1>2 DEF IInv, TypeOK, PhaseInv, RootsInv, StartWalk, Phases, Returned
  <2>2. QueueInv' /\ WalkInv' /\ PresentInv' /\ LeastInv' /\ OpaqueInv' /\ BlockersInv'
    BY <1>2 DEF IInv, QueueInv, WalkInv, PresentInv, LeastInv, OpaqueInv,
                BlockersInv, StartWalk, Queued, Members
  <2> QED BY <2>1, <2>2 DEF IInv
<1>3. CASE Finish
  <2>1. TypeOK' /\ PhaseInv' /\ RootsInv'
    BY <1>3 DEF IInv, TypeOK, PhaseInv, RootsInv, Finish, Phases, Returned
  <2>2. QueueInv' /\ WalkInv' /\ PresentInv' /\ LeastInv' /\ OpaqueInv' /\ BlockersInv'
    BY <1>3 DEF IInv, QueueInv, WalkInv, PresentInv, LeastInv, OpaqueInv,
                BlockersInv, Finish, Queued, Members
  <2> QED BY <2>1, <2>2 DEF IInv
<1> QED BY <1>1, <1>2, <1>3

LEMMA StutterKeeps == IInv /\ UNCHANGED vars => IInv'
BY DEF IInv, TypeOK, PhaseInv, RootsInv, QueueInv, WalkInv, LeastInv, BlockersInv,
       OpaqueInv, PresentInv, vars, Queued, Members, Returned

THEOREM StepInv == IInv /\ [Next]_vars => IInv'
BY SkipStaleKeeps, VisitKeeps, EnqueueRootKeeps, VisitEdgeKeeps, PhaseStepsKeep,
   StutterKeeps DEF Next

THEOREM Invariance == Spec => []IInv
BY InitInv, StepInv, PTL DEF Spec

-----------------------------------------------------------------------------
(* The theorems *)

\* Every variable of the walk keeps its type, for all packages and selections.
THEOREM TypeCorrect == Spec => []TypeOK
BY Invariance, PTL DEF IInv

LEMMA DoneIsLeast == IInv => ReturnsLeastClosure
<1> SUFFICES ASSUME IInv, Returned PROVE LeastClosed(pkg, sel, required)
  BY DEF ReturnsLeastClosure
<1>1. queue = <<>> /\ edgesLeft = {} /\ rootsLeft = {} /\ phase # "gate"
  BY DEF IInv, PhaseInv, Returned
<1>2. Closed(pkg, sel, required)
  BY <1>1 DEF IInv, RootsInv, WalkInv, Closed, Queued
<1>3. \A g \in NeedMaps : Closed(pkg, sel, g) => \A d \in Ids : required[d] <= g[d]
  BY DEF IInv, LeastInv
<1> QED BY <1>2, <1>3 DEF LeastClosed

LEMMA DoneIsExact == IInv => BlockersAreExact
<1> SUFFICES ASSUME IInv, Returned
             PROVE  blockers = ClosureBlockers(pkg, sel, required)
  BY DEF BlockersAreExact
<1>1. queue = <<>> /\ phase # "gate" /\ PackageBlockers(pkg) \subseteq blockers
  BY DEF IInv, PhaseInv, Returned
<1>2. ClosureBlockers(pkg, sel, required) \subseteq blockers
  BY <1>1 DEF IInv, WalkInv, Queued, ClosureBlockers
<1> QED BY <1>2 DEF IInv, BlockersInv

\* Whatever the order of the walk, into_complete returns the least closure of
\* the selection.
THEOREM LeastClosure == Spec => []ReturnsLeastClosure
BY Invariance, DoneIsLeast, PTL

\* Whatever the order of the walk, its blockers are those of that closure.
THEOREM ExactBlockers == Spec => []BlockersAreExact
BY Invariance, DoneIsExact, PTL

\* An opaque selection never requires a definition nor leaves its own roots.
THEOREM OpaqueSelections == Spec => []OpaqueStaysOpaque
<1>1. IInv => OpaqueStaysOpaque
  BY DEF IInv, OpaqueInv, OpaqueStaysOpaque
<1> QED BY <1>1, Invariance, PTL

\* The only declarations reported missing are names the caller gave.
THEOREM MissingAreRoots == Spec => []OnlyRootsAreMissing
<1>1. IInv => OnlyRootsAreMissing
  <2> SUFFICES ASSUME IInv, NEW x \in blockers, x.what = "MissingDeclaration"
               PROVE  x.id \in sel.ids \ pkg.decls
    BY DEF OnlyRootsAreMissing
  <2>1. x \in ClosureBlockers(pkg, sel, required)
    BY DEF IInv, BlockersInv
  <2>2. x \notin PackageBlockers(pkg)
    BY DEF PackageBlockers, Blocker
  <2>3. PICK d \in Members(required) :
          x \in VisitBlockers(pkg, sel, d, required[d])
    BY <2>1, <2>2 DEF ClosureBlockers
  <2>4. x.id = d /\ x.what \in Faults(pkg, sel, d, required[d])
    BY <2>3 DEF VisitBlockers, Blocker
  <2>5. d \notin pkg.decls
    BY <2>4 DEF Faults
  <2>6. d \in RootIds(pkg, sel)
    BY <2>3, <2>5 DEF IInv, PresentInv
  <2> QED BY <2>4, <2>5, <2>6 DEF RootIds
<1> QED BY <1>1, Invariance, PTL

\* No step lowers a recorded need.
THEOREM NeedsRise == Spec => NeedsOnlyRise
<1>1. IInv /\ [Next]_vars => [\A d \in Ids : required[d] <= required'[d]]_vars
  <2> SUFFICES ASSUME IInv, Next PROVE \A d \in Ids : required[d] <= required'[d]
    OBVIOUS
  <2>0. \A d \in Ids : required[d] \in 0..2
    BY DEF IInv, TypeOK, NeedMaps, NoNeed, Opaque, Definition
  <2>1. CASE required' = required
    BY <2>0, <2>1
  <2>2. ASSUME NEW id \in rootsLeft, EnqueueRoot(id)
        PROVE  \A d \in Ids : required[d] <= required'[d]
    <3>1. id \in Ids /\ RootNeed(pkg, sel, id) \in Needs
      BY InputsTyped, RootsTyped DEF IInv, TypeOK
    <3> QED BY <2>2, <3>1, EnqueueEffect DEF IInv, EnqueueRoot
  <2>3. ASSUME NEW o \in edgesLeft, VisitEdge(o)
        PROVE  \A d \in Ids : required[d] <= required'[d]
    <3>1. o[1] \in Ids /\ o[2] \in Needs
      BY DEF IInv, TypeOK
    <3> QED BY <2>3, <3>1, EnqueueEffect DEF IInv, VisitEdge
  <2> QED BY <2>1, <2>2, <2>3
       DEF Next, CheckPackage, StartWalk, SkipStale, Visit, Finish
<1> QED BY <1>1, Invariance, PTL DEF Spec, NeedsOnlyRise

-----------------------------------------------------------------------------
(* The walk implements the order-free promise *)

\* SelectionVerdict reads a package as the walk does.
LEMMA SamePackageTerms ==
  /\ Verdict!NeedMaps = NeedMaps
  /\ \A p, s, f : Verdict!LeastClosed(p, s, f) = LeastClosed(p, s, f)
  /\ \A p, s, f : Verdict!ClosureBlockers(p, s, f) = ClosureBlockers(p, s, f)
<1> USE DEF Verdict!NoNeed, Verdict!Opaque, Verdict!Definition,
            NoNeed, Opaque, Definition
<1>1. Verdict!NeedMaps = NeedMaps
  BY DEF Verdict!NeedMaps, NeedMaps
<1>2. \A p, s : Verdict!RootIds(p, s) = RootIds(p, s)
  BY DEF Verdict!RootIds, RootIds
<1>3. \A p, s, d : Verdict!RootNeed(p, s, d) = RootNeed(p, s, d)
  BY DEF Verdict!RootNeed, RootNeed
<1>4. \A p, d, n, e : Verdict!EdgeNeed(p, d, n, e) = EdgeNeed(p, d, n, e)
  BY DEF Verdict!EdgeNeed, EdgeNeed
<1>5. \A p, d, n : Verdict!BodyVisited(p, d, n) = BodyVisited(p, d, n)
  BY DEF Verdict!BodyVisited, BodyVisited
<1>6. \A p, s, d, n : Verdict!NonRecordRoot(p, s, d, n) = NonRecordRoot(p, s, d, n)
  BY DEF Verdict!NonRecordRoot, NonRecordRoot
<1>7. \A p, s, d, n : Verdict!Visited(p, s, d, n) = Visited(p, s, d, n)
  BY <1>6 DEF Verdict!Visited, Visited
<1>8. \A p, s, d, n : Verdict!Demands(p, s, d, n) = Demands(p, s, d, n)
  BY <1>4, <1>5, <1>7 DEF Verdict!Demands, Demands
<1>9. \A f : Verdict!Members(f) = Members(f)
  BY DEF Verdict!Members, Members
<1>10. \A p, s, f : Verdict!Closed(p, s, f) = Closed(p, s, f)
  BY <1>2, <1>3, <1>8, <1>9 DEF Verdict!Closed, Closed
<1>11. \A p, s, f : Verdict!LeastClosed(p, s, f) = LeastClosed(p, s, f)
  BY <1>1, <1>10 DEF Verdict!LeastClosed, LeastClosed
<1>12. \A p, s, d, n : Verdict!Faults(p, s, d, n) = Faults(p, s, d, n)
  <2>1. \A p, d, n : Verdict!UnsupportedAt(p, d, n) = UnsupportedAt(p, d, n)
    BY <1>5 DEF Verdict!UnsupportedAt, UnsupportedAt
  <2>2. \A p, d, n : Verdict!IncompleteAt(p, d, n) = IncompleteAt(p, d, n)
    BY DEF Verdict!IncompleteAt, IncompleteAt
  <2> QED BY <2>1, <2>2, <1>6, <1>7 DEF Verdict!Faults, Faults
<1>13. \A p, s, d, n : Verdict!VisitBlockers(p, s, d, n) = VisitBlockers(p, s, d, n)
  BY <1>12 DEF Verdict!VisitBlockers, VisitBlockers, Verdict!Blocker, Blocker
<1>14. \A p : Verdict!PackageBlockers(p) = PackageBlockers(p)
  <2>1. \A p : Verdict!PackageScoped(p) = PackageScoped(p)
    BY DEF Verdict!PackageScoped, PackageScoped, Verdict!Forcing, Forcing
  <2> QED BY <2>1 DEF Verdict!PackageBlockers, PackageBlockers,
             Verdict!Rejected, Rejected, Verdict!Blocker, Blocker
<1>15. \A p, s, f : Verdict!ClosureBlockers(p, s, f) = ClosureBlockers(p, s, f)
  BY <1>9, <1>13, <1>14 DEF Verdict!ClosureBlockers, ClosureBlockers
<1> QED BY <1>1, <1>11, <1>15

LEMMA InitAnswersNothing == Init => Verdict!Init
BY DEF Init, Verdict!Init, Verdict!Nothing, Returned, NoNeed, Verdict!NoNeed

LEMMA DoneNext == IInv' => ReturnsLeastClosure' /\ BlockersAreExact'
BY DoneIsLeast, DoneIsExact, PTL

\* The last step of the walk is the answer; no other step shows.
LEMMA StepAnswers == IInv /\ IInv' /\ [Next]_vars => [Verdict!Next]_Verdict!vars
<1> SUFFICES ASSUME IInv, IInv', [Next]_vars PROVE [Verdict!Next]_Verdict!vars
  OBVIOUS
<1>1. CASE Finish
  <2>1. ~Returned /\ Returned'
    BY <1>1 DEF Finish, Returned
  <2>2. UNCHANGED <<pkg, sel, required, blockers>>
    BY <1>1 DEF Finish
  <2>3. required' \in NeedMaps /\ LeastClosed(pkg, sel, required')
    BY <2>1, <2>2, DoneNext DEF IInv, TypeOK, ReturnsLeastClosure
  <2>4. blockers' = ClosureBlockers(pkg, sel, required')
    BY <2>1, <2>2, DoneNext DEF BlockersAreExact
  <2>5. phase' = IF blockers' = {} THEN "complete" ELSE "incomplete"
    BY <1>1 DEF Finish
  <2>6. Verdict!Answer
    BY <2>1, <2>2, <2>3, <2>4, <2>5, SamePackageTerms DEF Verdict!Answer
  <2> QED BY <2>6 DEF Verdict!Next
<1>2. CASE ~Finish
  <2>1. UNCHANGED <<pkg, sel>>
    BY <1>2 DEF vars, Next, CheckPackage, EnqueueRoot, StartWalk, SkipStale,
               Visit, VisitEdge
  <2>2. (~Returned /\ ~Returned') \/ UNCHANGED vars
    BY <1>2 DEF vars, Next, CheckPackage, EnqueueRoot, StartWalk, SkipStale,
               Visit, VisitEdge, PopReady, Returned
  <2>3. CASE ~Returned /\ ~Returned'
    BY <2>1, <2>3 DEF Verdict!vars
  <2>4. CASE UNCHANGED vars
    BY <2>4 DEF Verdict!vars, vars, Returned
  <2> QED BY <2>2, <2>3, <2>4
<1> QED BY <1>1, <1>2

\* Every walk answers as SelectionVerdict does in one step.
THEOREM Refinement == Spec => ImplementsVerdict
<1>1. Init /\ [][Next]_vars /\ []IInv => Verdict!Init /\ [][Verdict!Next]_Verdict!vars
  BY InitAnswersNothing, StepAnswers, PTL
<1> QED BY <1>1, Invariance, PTL DEF Spec, ImplementsVerdict, Verdict!Spec

=============================================================================
