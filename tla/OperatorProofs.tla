--------------------------- MODULE OperatorProofs ---------------------------
(***************************************************************************)
(* Theorems about Operator: type correctness, and that no object of an     *)
(* environment exists outside the care of the finalizer, for every set of  *)
(* clusters with unambiguous names, every set of specs and every budget.   *)
(***************************************************************************)
EXTENDS OperatorProperties, TLAPS

-----------------------------------------------------------------------------
\* Type correctness.

\* A stored copy is an AxonOpsCassandra object, or has left.
LEMMA StoredType ==
    ASSUME NEW c \in CustomResources
    PROVE  Stored(c) \in CustomResources \cup {None}
  BY DEF Stored

\* An updated object is an AxonOpsCassandra object.
LEMMA UpdatedType ==
    ASSUME NEW c \in CustomResources, NEW copy \in CustomResources, rev \in Nat
    PROVE  Updated(c, copy) \in CustomResources
  <1> DEFINE gen == IF c.spec = copy.spec THEN c.gen ELSE c.gen + 1
  <1>1. /\ gen \in Nat /\ rev + 1 \in Nat
        /\ copy.spec \in Specs /\ copy.fin \in SUBSET (ForeignFinalizers \cup {Finalizer})
    BY DEF CustomResources
  <1>2. Updated(c, copy) =
          [c EXCEPT !.spec = copy.spec, !.fin = copy.fin, !.rv = rev + 1, !.gen = gen]
    BY DEF Updated
  <1> HIDE DEF gen
  <1> QED
    BY <1>1, <1>2 DEF CustomResources

\* So is one that was marked for deletion.
LEMMA MarkedType ==
    ASSUME NEW c \in CustomResources, rev \in Nat
    PROVE  Marked(c) \in CustomResources
  <1>1. c.gen + 1 \in Nat /\ rev + 1 \in Nat
    BY DEF CustomResources
  <1> QED
    BY <1>1 DEF Marked, CustomResources

\* The effect of Update on the types.
LEMMA UpdateType ==
    ASSUME NEW n \in Clusters, NEW copy \in CustomResources,
           cr \in [Clusters -> CustomResources \cup {None}], cr[n] # None,
           rev \in Nat, Update(n, copy)
    PROVE  /\ rev' \in Nat
           /\ cr' \in [Clusters -> CustomResources \cup {None}]
  <1>1. Stored(Updated(cr[n], copy)) \in CustomResources \cup {None}
    BY UpdatedType, StoredType
  <1> QED
    BY <1>1 DEF Update

\* The stages and the deletions that follow one another.
LEMMA AfterType ==
    ASSUME NEW spec, NEW i \in StageIds
    PROVE  /\ AfterStage(spec, i) \in StageIds \cup {Done}
           /\ AfterDeletion(spec, i) \in StageIds \cup {Done}
  BY DEF AfterStage, AfterDeletion, StageIds, Done

\* A stage looks up a known object, and what it creates or updates belongs to the
\* environment or to its metrics cluster.
LEMMA StageObjects ==
    ASSUME NEW n \in Clusters, NEW i \in StageIds
    PROVE  /\ Stage(n, i).look \in Keys
           /\ Stage(n, i).target \in Kids(n) \cup MetricsKids(n)
  <1>1. /\ Stage(n, i).look \in Kids(n) \cup {Sts(CaMt(n))}
        /\ Stage(n, i).target \in Kids(n) \cup MetricsKids(n)
    <2>1. i \in {1, 2, 3, 4} \/ i \in {5, 6, 7} \/ i \in {8, 9, 10, 11}
      BY DEF StageIds
    <2>2. CASE i \in {1, 2, 3, 4}
      BY <2>2 DEF Stage, Kids, MetricsKids, ElasticSts, ElasticSvc, DashboardDep, DashboardSvc
    <2>3. CASE i \in {5, 6, 7}
      BY <2>3 DEF Stage, Kids, MetricsKids, DashboardIngress, MetricsSts, MetricsSvc
    <2>4. CASE i \in {8, 9, 10, 11}
      BY <2>4 DEF Stage, Kids, MetricsKids, ServerSts, ServerSvc, CassandraSts, CassandraSvc
    <2> QED
      BY <2>1, <2>2, <2>3, <2>4
  <1> QED
    BY <1>1 DEF Keys

\* Spending a disturbance leaves the budget a budget.
LEMMA SpendType ==
    ASSUME budget \in [Disturbances -> Nat], NEW d \in Disturbances, Spend(d)
    PROVE  budget' \in [Disturbances -> Nat]
  BY DEF Spend

\* Users and other controllers preserve the types.
LEMMA UserType ==
    ASSUME ApiTypeOK, UserNext
    PROVE  ApiTypeOK'
  <1>1. ASSUME NEW n \in Clusters, NEW spec \in Specs, NEW foreign \in SUBSET ForeignFinalizers,
               UserCreates(n, spec, foreign)
        PROVE  ApiTypeOK'
    <2> DEFINE new == [ uid |-> rev + 1, rv |-> rev + 1, gen |-> 1, deleting |-> FALSE,
                        fin |-> foreign, spec |-> spec ]
    <2>1. new \in CustomResources /\ rev + 1 \in Nat
      BY DEF ApiTypeOK, CustomResources
    <2>2. cr' = [cr EXCEPT ![n] = new] /\ rev' = rev + 1 /\ store' = store
      BY <1>1 DEF UserCreates
    <2>3. budget' \in [Disturbances -> Nat]
      BY <1>1, SpendType DEF UserCreates, ApiTypeOK, Disturbances
    <2> QED
      BY <2>1, <2>2, <2>3 DEF ApiTypeOK
  <1>2. ASSUME NEW n \in Clusters, NEW spec \in Specs, UserEdits(n, spec)
        PROVE  ApiTypeOK'
    <2>1. cr[n] \in CustomResources /\ [cr[n] EXCEPT !.spec = spec] \in CustomResources
      BY <1>2 DEF UserEdits, ApiTypeOK, CustomResources
    <2>2. Updated(cr[n], [cr[n] EXCEPT !.spec = spec]) \in CustomResources
      BY <2>1, UpdatedType DEF ApiTypeOK
    <2>3. budget' \in [Disturbances -> Nat]
      BY <1>2, SpendType DEF UserEdits, ApiTypeOK, Disturbances
    <2> QED
      BY <1>2, <2>2, <2>3 DEF UserEdits, ApiTypeOK
  <1>3. ASSUME NEW n \in Clusters, UserDeletes(n)
        PROVE  ApiTypeOK'
    <2>1. cr[n] \in CustomResources
      BY <1>3 DEF UserDeletes, ApiTypeOK
    <2>2. Marked(cr[n]) \in CustomResources
      BY <2>1, MarkedType DEF ApiTypeOK
    <2>4. Stored(Marked(cr[n])) \in CustomResources \cup {None}
      BY <2>2, StoredType
    <2>3. budget' \in [Disturbances -> Nat]
      BY <1>3, SpendType DEF UserDeletes, ApiTypeOK, Disturbances
    <2> QED
      BY <1>3, <2>3, <2>4 DEF UserDeletes, ApiTypeOK
  <1>4. ASSUME NEW n \in Clusters, ForeignRelease(n)
        PROVE  ApiTypeOK'
    <2>1. cr[n] # None /\ cr[n] \in CustomResources
      BY <1>4 DEF ForeignRelease, Terminating, ApiTypeOK
    <2>2. PICK f \in cr[n].fin \cap ForeignFinalizers :
              Update(n, [cr[n] EXCEPT !.fin = cr[n].fin \ {f}])
      BY <1>4 DEF ForeignRelease
    <2>3. [cr[n] EXCEPT !.fin = cr[n].fin \ {f}] \in CustomResources
      BY <2>1 DEF CustomResources
    <2> QED
      BY <1>4, <2>1, <2>2, <2>3, UpdateType DEF ForeignRelease, ApiTypeOK
  <1>5. ASSUME NEW k \in Keys, ObjectLost(k)
        PROVE  ApiTypeOK'
    <2>1. budget' \in [Disturbances -> Nat]
      BY <1>5, SpendType DEF ObjectLost, ApiTypeOK, Disturbances
    <2> QED
      BY <1>5, <2>1 DEF ObjectLost, ApiTypeOK
  <1> QED
    BY <1>1, <1>2, <1>3, <1>4, <1>5 DEF UserNext

\* The ways in which a call of a pass ends.
LEMMA DropType ==
    ASSUME Drop
    PROVE  WorkerTypeOK'
  BY DEF Drop, WorkerTypeOK, PcValues

LEMMA RetryType ==
    ASSUME req \in Clusters, queue \subseteq Clusters, Retry
    PROVE  WorkerTypeOK' /\ queue' \subseteq Clusters
  BY DropType DEF Retry

LEMMA FinishType ==
    ASSUME queue \subseteq Clusters, Finish
    PROVE  WorkerTypeOK' /\ queue' \subseteq Clusters
  BY DropType DEF Finish

LEMMA GoToType ==
    ASSUME req \in Clusters, obj \in CustomResources, queue \subseteq Clusters,
           NEW label, NEW i, GoTo(label, i),
           \/ label \in {"lookup", "teardown"} /\ i \in StageIds
           \/ label \in {"announce", "release"} /\ i = 0
    PROVE  WorkerTypeOK' /\ queue' \subseteq Clusters
  BY DEF GoTo, WorkerTypeOK, PcValues

LEMMA AdvanceType ==
    ASSUME req \in Clusters, obj \in CustomResources, queue \subseteq Clusters,
           step \in StageIds, Advance
    PROVE  WorkerTypeOK' /\ queue' \subseteq Clusters
  <1> DEFINE next == AfterStage(obj.spec, step)
  <1>1. next \in StageIds \cup {Done}
    BY AfterType
  <1>2. CASE next = Done
    <2>1. GoTo("announce", 0)
      BY <1>2 DEF Advance
    <2> QED
      BY <2>1, GoToType
  <1>3. CASE next # Done
    <2>1. GoTo("lookup", next) /\ next \in StageIds
      BY <1>1, <1>3 DEF Advance
    <2> QED
      BY <2>1, GoToType
  <1> QED
    BY <1>2, <1>3

\* The body a stage renders is one of Bodies.
LEMMA BodyType ==
    ASSUME req \in Clusters, obj \in CustomResources, step \in StageIds
    PROVE  ThisBody \in Bodies
  BY DEF ThisBody, Bodies, CustomResources

\* A call of the worker that got an answer, or whose answer was lost.
LEMMA LostAnswerType ==
    ASSUME req \in Clusters, queue \subseteq Clusters, budget \in [Disturbances -> Nat],
           Spend("fault"), Retry
    PROVE  WorkerTypeOK' /\ queue' \subseteq Clusters /\ budget' \in [Disturbances -> Nat]
  BY RetryType, SpendType DEF Disturbances

\* What the worker keeps of the object while a pass is under way.
LEMMA PassType ==
    ASSUME TypeOK, pc \notin {"idle", "fetch"}
    PROVE  req \in Clusters /\ obj \in CustomResources
  BY DEF TypeOK, WorkerTypeOK

-----------------------------------------------------------------------------
\* Every step preserves the types.

LEMMA WorkerType ==
    ASSUME TypeOK, Reconcile
    PROVE  TypeOK'
  <1> USE DEF apiVars
  <1>1. CASE FetchNothing
    BY <1>1, FinishType DEF FetchNothing, TypeOK, ApiTypeOK
  <1>2. CASE FetchCluster
    <2>1. req \in Clusters /\ crCache[req] \in CustomResources
      BY <1>2 DEF FetchCluster, TypeOK, WorkerTypeOK
    <2>2. /\ obj' \in CustomResources /\ req' \in Clusters /\ found' \in BOOLEAN
          /\ \/ pc' \in {"teardown", "lookup"} /\ step' = 1
             \/ pc' = "guard" /\ step' = 0
      BY <1>2, <2>1 DEF FetchCluster, TypeOK, WorkerTypeOK
    <2>3. WorkerTypeOK'
      BY <2>2 DEF WorkerTypeOK, PcValues, StageIds
    <2> QED
      BY <1>2, <2>3 DEF FetchCluster, TypeOK, ApiTypeOK
  <1>3. CASE AddFinalizer
    <2>1. req \in Clusters /\ obj \in CustomResources /\ cr[req] # None
      BY <1>3, PassType DEF AddFinalizer, IsCurrent
    <2> DEFINE copy == [obj EXCEPT !.fin = obj.fin \cup {Finalizer}]
    <2>2. copy \in CustomResources
      BY <2>1 DEF CustomResources
    <2>3. rev' \in Nat /\ cr' \in [Clusters -> CustomResources \cup {None}]
      BY <1>3, <2>1, <2>2, UpdateType DEF AddFinalizer, TypeOK, ApiTypeOK
    <2>4. WorkerTypeOK' /\ queue' \subseteq Clusters /\ budget' \in [Disturbances -> Nat]
      <3>1. CASE Spend("fault") /\ Retry
        BY <2>1, <3>1, LostAnswerType DEF TypeOK, ApiTypeOK
      <3>2. CASE /\ obj' = cr'[req] /\ pc' = "lookup" /\ step' = 1
                 /\ UNCHANGED <<queue, req, found, budget>>
        <4>1. obj' \in CustomResources
          <5>1. Updated(cr[req], copy) \in CustomResources
            BY <2>1, <2>2, UpdatedType DEF TypeOK, ApiTypeOK
          <5>2. Updated(cr[req], copy).fin = obj.fin \cup {Finalizer}
            BY <2>1, <2>2 DEF Updated, CustomResources, TypeOK, ApiTypeOK
          <5>3. Stored(Updated(cr[req], copy)) = Updated(cr[req], copy)
            BY <5>2 DEF Stored
          <5>4. cr'[req] = Stored(Updated(cr[req], copy))
            BY <1>3, <2>1 DEF AddFinalizer, Update, TypeOK, ApiTypeOK
          <5> QED
            BY <3>2, <5>1, <5>3, <5>4
        <4>2. req' \in Clusters /\ found' \in BOOLEAN
          BY <2>1, <3>2 DEF TypeOK, WorkerTypeOK
        <4> QED
          BY <3>2, <4>1, <4>2 DEF TypeOK, ApiTypeOK, WorkerTypeOK, PcValues, StageIds
      <3> QED
        BY <1>3, <3>1, <3>2 DEF AddFinalizer, Answered
    <2> QED
      BY <1>3, <2>3, <2>4 DEF AddFinalizer, TypeOK, ApiTypeOK
  <1>4. CASE AddFinalizerConflict \/ RenderFails \/ WriteRefused \/ RemoveFinalizerConflict
    <2>1. req \in Clusters /\ Retry /\ UNCHANGED <<apiVars, crCache, seen>>
      BY <1>4, PassType DEF AddFinalizerConflict, RenderFails, WriteRefused,
                            RemoveFinalizerConflict
    <2> QED
      BY <2>1, RetryType DEF TypeOK, ApiTypeOK
  <1>5. CASE SkipExisting
    <2>1. req \in Clusters /\ obj \in CustomResources /\ step \in StageIds
      BY <1>5, PassType DEF SkipExisting, TypeOK, WorkerTypeOK
    <2> QED
      BY <1>5, <2>1, AdvanceType DEF SkipExisting, TypeOK, ApiTypeOK
  <1>6. CASE LookUp
    <2>1. req \in Clusters /\ step \in StageIds
      BY <1>6, PassType DEF LookUp, TypeOK, WorkerTypeOK
    <2>2. ThisStage.look \in Keys
      BY <2>1, StageObjects DEF ThisStage
    <2> QED
      BY <1>6, <2>1, <2>2 DEF LookUp, TypeOK, ApiTypeOK, WorkerTypeOK, PcValues
  <1>7. CASE Write
    <2>1. req \in Clusters /\ obj \in CustomResources /\ step \in StageIds
      BY <1>7, PassType DEF Write, TypeOK, WorkerTypeOK
    <2>2. [uid |-> obj.uid, gen |-> obj.gen, body |-> ThisBody] \in Objects
      BY <2>1, BodyType DEF Objects, CustomResources
    <2>3. store' \in [Keys -> Objects \cup {None}]
      BY <1>7, <2>2 DEF Write, TypeOK, ApiTypeOK
    <2>4. WorkerTypeOK' /\ queue' \subseteq Clusters /\ budget' \in [Disturbances -> Nat]
      <3>1. CASE Spend("fault") /\ Retry
        BY <2>1, <3>1, LostAnswerType DEF TypeOK, ApiTypeOK
      <3>2. CASE Advance /\ UNCHANGED budget
        BY <2>1, <3>2, AdvanceType DEF TypeOK, ApiTypeOK
      <3> QED
        BY <1>7, <3>1, <3>2 DEF Write, Answered
    <2> QED
      BY <1>7, <2>3, <2>4 DEF Write, TypeOK, ApiTypeOK
  <1>8. CASE Announce
    BY <1>8, FinishType DEF Announce, TypeOK, ApiTypeOK
  <1>9. CASE DeleteObject
    <2> DEFINE next == AfterDeletion(obj.spec, step)
    <2>1. req \in Clusters /\ obj \in CustomResources /\ step \in StageIds
      BY <1>9, PassType DEF DeleteObject, TypeOK, WorkerTypeOK
    <2>2. store' \in [Keys -> Objects \cup {None}]
      BY <1>9 DEF DeleteObject, TypeOK, ApiTypeOK
    <2>3. next \in StageIds \cup {Done}
      BY <2>1, AfterType
    <2>4. WorkerTypeOK' /\ queue' \subseteq Clusters /\ budget' \in [Disturbances -> Nat]
      <3>1. CASE Spend("fault") /\ Retry
        BY <2>1, <3>1, LostAnswerType DEF TypeOK, ApiTypeOK
      <3>2. CASE next = Done /\ GoTo("release", 0) /\ UNCHANGED budget
        BY <2>1, <3>2, GoToType DEF TypeOK, ApiTypeOK
      <3>3. CASE next \in StageIds /\ GoTo("teardown", next) /\ UNCHANGED budget
        BY <2>1, <3>3, GoToType DEF TypeOK, ApiTypeOK
      <3> QED
        BY <1>9, <2>3, <3>1, <3>2, <3>3 DEF DeleteObject, Answered
    <2> QED
      BY <1>9, <2>2, <2>4 DEF DeleteObject, TypeOK, ApiTypeOK
  <1>10. CASE RemoveFinalizer
    <2>1. req \in Clusters /\ obj \in CustomResources /\ cr[req] # None
      BY <1>10, PassType DEF RemoveFinalizer, IsCurrent
    <2>2. [obj EXCEPT !.fin = obj.fin \ {Finalizer}] \in CustomResources
      BY <2>1 DEF CustomResources
    <2>3. rev' \in Nat /\ cr' \in [Clusters -> CustomResources \cup {None}]
      BY <1>10, <2>1, <2>2, UpdateType DEF RemoveFinalizer, TypeOK, ApiTypeOK
    <2>4. WorkerTypeOK' /\ queue' \subseteq Clusters /\ budget' \in [Disturbances -> Nat]
      BY <1>10, <2>1, LostAnswerType, FinishType DEF RemoveFinalizer, Answered, TypeOK, ApiTypeOK
    <2> QED
      BY <1>10, <2>3, <2>4 DEF RemoveFinalizer, TypeOK, ApiTypeOK
  <1> QED
    BY <1>1, <1>2, <1>3, <1>4, <1>5, <1>6, <1>7, <1>8, <1>9, <1>10 DEF Reconcile

LEMMA TypeInit == Init => TypeOK
  <1> SUFFICES ASSUME Init
               PROVE  TypeOK
    OBVIOUS
  <1>1. ApiTypeOK
    BY ApiAssumption DEF Init, ApiInit, ApiTypeOK
  <1>2. WorkerTypeOK
    <2>1. pc = "idle" /\ req = <<>> /\ obj = None /\ step = 0 /\ found \in BOOLEAN
      BY DEF Init
    <2> QED
      BY <2>1 DEF WorkerTypeOK, PcValues
  <1>3. crCache \in [Clusters -> CustomResources \cup {None}] /\ queue \subseteq Clusters
    BY DEF Init
  <1>4. seen \in [Keys -> BOOLEAN]
    <2>1. seen = [k \in Keys |-> FALSE]
      BY DEF Init
    <2> QED
      BY <2>1
  <1> QED
    BY <1>1, <1>2, <1>3, <1>4 DEF TypeOK

LEMMA TypeStep == TypeOK /\ [Next]_vars => TypeOK'
  <1> SUFFICES ASSUME TypeOK, [Next]_vars
               PROVE  TypeOK'
    OBVIOUS
  <1> USE DEF apiVars, workerVars, managerVars
  <1>1. CASE UserNext /\ UNCHANGED managerVars
    BY <1>1, UserType DEF TypeOK, WorkerTypeOK
  <1>2. ASSUME NEW n \in Clusters, DeliverCluster(n)
        PROVE  TypeOK'
    BY <1>2 DEF DeliverCluster, TypeOK, ApiTypeOK, WorkerTypeOK
  <1>3. ASSUME NEW n \in Clusters, Dequeue(n)
        PROVE  TypeOK'
    BY <1>3 DEF Dequeue, TypeOK, ApiTypeOK, WorkerTypeOK, PcValues
  <1>4. ASSUME NEW kind \in Kinds, DeliverObjects(kind)
        PROVE  TypeOK'
    BY <1>4 DEF DeliverObjects, TypeOK, ApiTypeOK, WorkerTypeOK
  <1>5. CASE Reconcile
    BY <1>5, WorkerType
  <1>6. CASE CallFails
    <2>1. req \in Clusters
      BY <1>6 DEF CallFails, TypeOK, WorkerTypeOK
    <2> QED
      BY <1>6, <2>1, LostAnswerType DEF CallFails, TypeOK, ApiTypeOK
  <1>7. CASE Restart
    <2>1. budget' \in [Disturbances -> Nat]
      BY <1>7, SpendType DEF Restart, TypeOK, ApiTypeOK, Disturbances
    <2> QED
      BY <1>7, <2>1 DEF Restart, TypeOK, ApiTypeOK, WorkerTypeOK, PcValues
  <1>8. CASE UNCHANGED vars
    BY <1>8 DEF vars, TypeOK, ApiTypeOK, WorkerTypeOK
  <1> QED
    BY <1>1, <1>2, <1>3, <1>4, <1>5, <1>6, <1>7, <1>8 DEF Next, ManagerNext, Running

\* Every variable keeps its type; between two passes the worker keeps nothing of
\* the pass before, and within a pass it has a copy of the object to work on.
THEOREM TypeCorrect == Spec => []TypeOK
  BY TypeInit, TypeStep, PTL DEF Spec
=============================================================================
